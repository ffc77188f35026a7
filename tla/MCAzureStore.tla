----------------------------- MODULE MCAzureStore -----------------------------
(* An instance of AzureStore: concurrent calls on one name of a key vault. *)
EXTENDS AzureStore
================================================================================

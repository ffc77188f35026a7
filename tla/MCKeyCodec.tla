------------------------------ MODULE MCKeyCodec ------------------------------
(* KeyCodec for TLC: one letter and its capital, two of the four code digits, and *)
(* every character with a part in the grammar.                                    *)
EXTENDS KeyCodec

OneLetter == [c \in {"a"} |-> "A"]
=============================================================================

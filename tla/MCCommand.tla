------------------------------ MODULE MCCommand ------------------------------
(* Command for TLC: a command of any kind beside a call of any kind, with the *)
(* secrets, users and policies of MCServer.                                   *)
EXTENDS Command, MCServer

flags(output, timed, transport) == [output |-> output, timed |-> timed, transport |-> transport]

FewOptions ==
    {flags("text", TRUE, "TLS"), flags("unknown", FALSE, "TLS"),
     flags("text", TRUE, "conflicting"), flags("json", TRUE, "mismatched")}

\* What other clients do meanwhile, and what no command would send.
Others ==
    {req("put", "ann", 1, "none"), req("put", "bob", 2, "none"), req("delete", "bob", 2, "none"),
     req("list", "bob", Root, "none"), req("list", "ann", <<"a">>, "pageToken"),
     req("get", "ann", Malformed, "none")}

MCInit == CommandInit /\ \A c \in Call \ {Mine} : call[c].request \in Others
MCSpec == MCInit /\ [][ServerStep \/ CommandStep]_allVars
=============================================================================

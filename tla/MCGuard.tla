------------------------------ MODULE MCGuard ------------------------------
(* Two runs of one user on one server.                                       *)
EXTENDS Guard

MCHome == [c \in Callers |-> CHOOSE s \in Servers : TRUE]
=============================================================================

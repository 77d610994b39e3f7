----------------------------- MODULE MCBackend -----------------------------
(* A shell and the application it starts.                                  *)
EXTENDS Backend

L(c, s) == [comp |-> c, sev |-> s]

\* The network fails and recovers.
MCNet == {L("net", 0), L("net", 100)}
=============================================================================

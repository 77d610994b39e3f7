------------------------------ MODULE MCClient ------------------------------
(* The node fails, its network recovers, and its network fails with a      *)
(* severity that "%d" prints as a negative number.                         *)
EXTENDS Client

M(c, s) == [comp |-> c, sev |-> s]

MCMessage == {M("", 1), M("net", 0), M("net", 3)}
=============================================================================

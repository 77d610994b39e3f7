----------------------------- MODULE MCLauncher -----------------------------
(* A shell and the application it starts, or becomes.                      *)
EXTENDS Launcher

L(c, s) == [comp |-> c, sev |-> s]

\* The network fails, with a severity "%d" prints as a negative number, and
\* something recovers that the back end does not know: it is taken for the
\* network after such a line, and for anything, power too, without one.
MCLines == {L("net", -1), L("other", 0)}
=============================================================================

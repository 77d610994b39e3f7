---------------------------- MODULE Reproduction ----------------------------
(***************************************************************************)
(* What recording and replaying promise together, without a file: the      *)
(* faults of each tic of the first run are given again in the same tic of  *)
(* the second, in the same order, and nothing after the last recorded tic. *)
(* When the recording is torn, by a crash, the second run gives the same   *)
(* up to some fault, that fault perhaps with another severity, and nothing *)
(* from there on.                                                          *)
(***************************************************************************)
EXTENDS Naturals, Sequences

CONSTANTS Batches, Severity

VARIABLES replaying, torn, rec, given

vars == <<replaying, torn, rec, given>>

Init == replaying = FALSE /\ torn = FALSE /\ rec = <<>> /\ given = <<>>

Record ==
    /\ ~replaying
    /\ \E b \in Batches : rec' = Append(rec, b)
    /\ UNCHANGED <<replaying, torn, given>>

EndOfRecording ==
    /\ ~replaying
    /\ replaying' = TRUE
    /\ torn' \in BOOLEAN
    /\ UNCHANGED <<rec, given>>

\* What the k-th replayed tic has to give.
Expected(k) == IF k <= Len(rec) THEN rec[k] ELSE <<>>

\* Nothing is missing yet.
Complete == \A k \in 1..Len(given) : given[k] = Expected(k)

Give ==
    /\ replaying
    /\ Complete
    /\ given' = Append(given, Expected(Len(given) + 1))
    /\ UNCHANGED <<replaying, torn, rec>>

\* The fault g as its cut line tells it: a failure is no recovery.
CutOf(g) == {[g EXCEPT !.severity = s] : s \in {t \in Severity : t = 0 <=> g.severity = 0}}

\* The end of what is left of a torn recording.
GiveLast ==
    /\ replaying /\ torn
    /\ Complete
    /\ LET b == Expected(Len(given) + 1) IN
          \E n \in 0..(Len(b) - 1) :
             \/ given' = Append(given, SubSeq(b, 1, n))
             \/ \E f \in CutOf(b[n + 1]) :
                   given' = Append(given, Append(SubSeq(b, 1, n), f))
    /\ UNCHANGED <<replaying, torn, rec>>

GiveNothing ==
    /\ replaying /\ ~Complete
    /\ given' = Append(given, <<>>)
    /\ UNCHANGED <<replaying, torn, rec>>

Next == Record \/ EndOfRecording \/ Give \/ GiveLast \/ GiveNothing

Spec == Init /\ [][Next]_vars
=============================================================================

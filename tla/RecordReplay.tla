---------------------------- MODULE RecordReplay ----------------------------
(***************************************************************************)
(* A recorded run followed by a run that replays its transcript.           *)
(***************************************************************************)
EXTENDS Transcribe, Replay

vars == <<disk, trVars, rpVars>>

Init == disk = <<>> /\ TrInit /\ RpInit

Record == TrNext /\ UNCHANGED rpVars

Replaying == trpc = "ended" /\ RpNext /\ UNCHANGED trVars

\* Both servers have stopped.
Stopped ==
    /\ \/ trpc = "failed"
       \/ rppc = "failed"
       \/ rppc = "tic" /\ Len(given) = MaxReplay
    /\ UNCHANGED vars

Next == Record \/ Replaying \/ Stopped

Spec == Init /\ [][Next]_vars

\* The plugins run to the end of what the server asks of them.
FairSpec == Spec /\ WF_vars(Replaying)

-----------------------------------------------------------------------------
(* Properties.                                                             *)

\* How many faults of the k-th recorded tic are in the lines that survived.
Survived(k) ==
    LET n == kept - start[k]
    IN  IF n <= 0 THEN 0 ELSE IF n >= Len(rec[k]) THEN Len(rec[k]) ELSE n

Expected(k) == IF k <= Len(rec) THEN SubSeq(rec[k], 1, Survived(k)) ELSE <<>>

\* The fault the cut line was about, with the severity that is left of it:
\* a failure is never read as a recovery.
IsCutOf(f, k) ==
    /\ Len(disk) = kept + 1
    /\ k <= Len(rec)
    /\ Survived(k) < Len(rec[k])
    /\ kept >= start[k]
    /\ LET g == rec[k][Survived(k) + 1] IN
          /\ f.node = g.node /\ f.component = g.component
          /\ f.severity = 0 <=> g.severity = 0

\* Every replayed tic gives the recorded faults whose lines survived, in
\* order, and at most one more, from the line the crash cut: never a fault
\* of another tic, never a fault with one missing before it (transcribe.c's
\* tic and get_fail against replay.c's tic and get_fail).
Faithful ==
    \A k \in 1..Len(given) :
        \/ given[k] = Expected(k)
        \/ /\ Len(given[k]) = Len(Expected(k)) + 1
           /\ SubSeq(given[k], 1, Len(Expected(k))) = Expected(k)
           /\ IsCutOf(given[k][Len(given[k])], k)

\* The header is all or nothing: the server that replays sees all the nodes
\* of the recorded run, in their order, or it does not start, and that only
\* when the recording did not start or lost a line (get_nodes of both plugins).
NodesReproduced ==
    /\ rppc = "failed" => kept < Len(file) \/ file = <<>>
    /\ rppc \notin {"get_nodes", "failed"} =>
          /\ Len(rpNodes) = Len(Nodes)
          /\ \A k \in 1..Len(Nodes) : rpNodes[k].name = Nodes[k].name

\* tic always returns, so that the server that replays gets to its last tic,
\* whatever number an incomplete tic line is taken for (tic of replay.c).
ReplayCompletes ==
    trpc = "ended" ~> (rppc = "failed" \/ Len(given) = MaxReplay)

\* What the file is for, without the file.
Abstract == INSTANCE Reproduction
    WITH Severity <- 0..(UMod - 1),
         replaying <- trpc = "ended",
         torn <- trpc = "ended" /\ kept < Len(file)

\* Recording and replaying implement Reproduction, with crashes as without.
Reproduces == Abstract!Spec
=============================================================================

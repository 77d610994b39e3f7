-------------------------- MODULE RandomRunProofs --------------------------
(***************************************************************************)
(* The bookkeeping of random.c against what the server tells others, for   *)
(* every set of nodes and every number of tics.                            *)
(***************************************************************************)
EXTENDS RandomRun, TLAPS

\* The faults at hand are failures of different nodes, and none is left when
\* no batch is being sent.
BatchInv ==
    /\ failed \in Seq(Fault) /\ i \in 0..Len(failed)
    /\ \A k \in 1..Len(failed) : failed[k].component = NULL /\ failed[k].severity = 100
    /\ \A j, k \in 1..Len(failed) : failed[j].node = failed[k].node => j = k
    /\ pc # "notify" => i = Len(failed)

\* Nobody has heard of a healthy node, or of one whose fault is still to be
\* sent.
NewsInv ==
    LET known == actorDown \cup externDown \cup dropped \cup fail_msg.failing
    IN  /\ healthy \cap (known \cup Pending) = {}
        /\ Pending \cap known = {}

\* The invariant of a server whose fault manager is random.
RInv == random /\ BatchInv /\ NewsInv /\ HealthKnown

LEMMA RInit == RandomInit => (random => RInv)
<1> SUFFICES ASSUME RandomInit, random PROVE RInv
  OBVIOUS
<1>1. failed = <<>> /\ i = 0 /\ Len(failed) = 0
  BY DEF RandomInit, Init
<1>2. Pending = {}
  BY <1>1 DEF Pending
<1>3. BatchInv
  BY <1>1 DEF BatchInv
<1> QED
  BY <1>2, <1>3 DEF RandomInit, Init, RInv, NewsInv, HealthKnown, EmptyMsg

\* When no batch is being sent no fault is left.
LEMMA NoPending == ASSUME BatchInv, pc # "notify" PROVE Pending = {}
  BY DEF BatchInv, Pending

\* tic and get_fail, whether there is memory or not.
LEMMA TicStep ==
    ASSUME RInv, RandomTic \/ RandomTicNoMemory
    PROVE  RInv'
<1>1. PICK b \in Batches : failed' = b /\ pc' = IF b = <<>> THEN "skip" ELSE "notify"
  BY DEF RandomTic, RandomTicNoMemory, ManagerTic
<1>2. /\ pc = "tic" /\ i' = 0 /\ fail_msg' = EmptyMsg
      /\ UNCHANGED <<actorDown, externDown, lost, random>>
  BY DEF RandomTic, RandomTicNoMemory, ManagerTic, viewVars
<1>3. failed' \in Seq(Fault) /\ Len(failed') \in Nat
  BY <1>1, BatchAssumption
<1>4. RandomBatch(failed')
  BY DEF RandomTic, RandomTicNoMemory, RandomBatch
<1>5. \A k \in 1..Len(failed') : failed'[k].component = NULL /\ failed'[k].severity = 100
  BY <1>4 DEF RandomBatch
<1>6. \A j, k \in 1..Len(failed') : failed'[j].node = failed'[k].node => j = k
  <2>1. SUFFICES ASSUME NEW j \in 1..Len(failed'), NEW k \in 1..Len(failed'),
                        failed'[j].node = failed'[k].node, j # k
                 PROVE  FALSE
    OBVIOUS
  <2>2. \A m, n \in 1..Len(failed') :
           m < n => Index[failed'[m].node] < Index[failed'[n].node]
    BY <1>4 DEF RandomBatch
  <2>3. failed'[j] \in Fault
    BY <1>3
  <2>4. Index[failed'[j].node] \in Nat
    BY <2>3, IndexAssumption DEF Fault
  <2>5. j < k \/ k < j
    BY <2>1, <1>3
  <2>6. Index[failed'[j].node] < Index[failed'[j].node]
    BY <2>1, <2>2, <2>5
  <2> QED BY <2>4, <2>6
<1>7. pc' # "notify" => i' = Len(failed')
  BY <1>1, <1>2
<1>8. BatchInv'
  BY <1>2, <1>3, <1>5, <1>6, <1>7 DEF BatchInv
<1>9. Pending' = NodesOf(failed')
  BY <1>2, <1>3 DEF Pending, NodesOf
<1>10. Pending = {}
  BY <1>2, NoPending DEF RInv
<1>11. fail_msg'.failing = {}
  BY <1>2 DEF EmptyMsg
<1>12. CASE RandomTic
  <2>1. Pending' \subseteq healthy /\ healthy' = healthy \ Pending' /\ dropped' = dropped
    BY <1>9, <1>12 DEF RandomTic
  <2>2. NewsInv'
    BY <1>2, <1>11, <2>1 DEF RInv, NewsInv
  <2>3. HealthKnown'
    BY <1>2, <1>10, <2>1 DEF RInv, HealthKnown
  <2> QED
    BY <1>2, <1>8, <2>2, <2>3 DEF RInv
<1>13. CASE RandomTicNoMemory
  <2>1. PICK D \in SUBSET healthy : healthy' = healthy \ D /\ dropped' = dropped \cup D
    BY <1>13 DEF RandomTicNoMemory
  <2>2. Pending' = {}
    BY <1>3, <1>9, <1>13 DEF RandomTicNoMemory, NodesOf
  <2>3. NewsInv'
    BY <1>2, <1>11, <2>1, <2>2 DEF RInv, NewsInv
  <2>4. HealthKnown'
    BY <1>2, <1>10, <2>1, <2>2 DEF RInv, HealthKnown
  <2> QED
    BY <1>2, <1>8, <2>3, <2>4 DEF RInv
<1> QED
  BY <1>12, <1>13

\* A round of the loop of manage_fails.
LEMMA NotifyStep ==
    ASSUME RInv, NotifyActor, UNCHANGED randVars
    PROVE  RInv'
<1> DEFINE f == failed[i + 1]
<1>1. /\ pc = "notify" /\ i < Len(failed) /\ i' = i + 1
      /\ UNCHANGED <<pc, failed, externDown, random, healthy, dropped>>
      /\ fail_msg' = AddToMsg(fail_msg, f)
      /\ \/ actorDown' = Told(actorDown, f) /\ lost' = lost
         \/ actorDown' = actorDown /\ lost' = lost \cup {f.node}
  BY DEF NotifyActor, randVars
<1>2. /\ Len(failed) \in Nat /\ i \in Nat /\ i + 1 \in 1..Len(failed)
      /\ f.component = NULL /\ f.severity = 100
  BY <1>1 DEF RInv, BatchInv
<1>3. Told(actorDown, f) = actorDown \cup {f.node}
  BY <1>2 DEF Told
<1>4. fail_msg' = [fail_msg EXCEPT !.failing = @ \cup {f.node}]
  BY <1>1, <1>2 DEF AddToMsg
<1>5. fail_msg'.failing \subseteq fail_msg.failing \cup {f.node}
  BY <1>4
<1>6. BatchInv'
  BY <1>1, <1>2 DEF RInv, BatchInv
<1>7. Pending = Pending' \cup {f.node}
  <2>1. (i + 1)..Len(failed) = {i + 1} \cup ((i' + 1)..Len(failed'))
    BY <1>1, <1>2
  <2> QED
    BY <1>1, <2>1 DEF Pending
<1>8. f.node \notin Pending'
  <2>1. \A k \in (i' + 1)..Len(failed') : failed'[k].node # f.node
    BY <1>1, <1>2 DEF RInv, BatchInv
  <2> QED
    BY <2>1 DEF Pending
<1>9. NewsInv'
  BY <1>1, <1>3, <1>5, <1>7, <1>8 DEF RInv, NewsInv
<1>10. HealthKnown'
  BY <1>1, <1>3, <1>7 DEF RInv, HealthKnown
<1> QED
  BY <1>1, <1>6, <1>9, <1>10 DEF RInv

\* The message for external programs.
LEMMA ExternStep ==
    ASSUME RInv, NotifyExtern, UNCHANGED randVars
    PROVE  RInv'
<1>1. /\ pc = "notify" /\ pc' = "skip" /\ i = Len(failed)
      /\ UNCHANGED <<failed, i, fail_msg, actorDown, random, healthy, dropped>>
      /\ externDown' \subseteq externDown \cup fail_msg.failing
      /\ lost \subseteq lost'
  BY DEF NotifyExtern, batchVars, randVars
<1>2. Pending' = Pending
  BY <1>1 DEF Pending
<1>3. BatchInv'
  BY <1>1 DEF RInv, BatchInv
<1>4. NewsInv' /\ HealthKnown'
  BY <1>1, <1>2 DEF RInv, NewsInv, HealthKnown
<1> QED
  BY <1>1, <1>3, <1>4 DEF RInv

\* Everything else leaves the faults and what others know alone.
LEMMA OtherStep ==
    ASSUME RInv, UNCHANGED <<failed, i, fail_msg, actorDown, externDown, lost, randVars>>,
           pc = "notify" => pc' = "notify"
    PROVE  RInv'
<1>1. Pending' = Pending
  BY DEF Pending
<1>2. BatchInv'
  BY DEF RInv, BatchInv
<1> QED
  BY <1>1, <1>2 DEF RInv, NewsInv, HealthKnown, randVars

LEMMA RStep == RInv /\ [RandomNext]_rvars => RInv'
<1> SUFFICES ASSUME RInv, [RandomNext]_rvars PROVE RInv'
  OBVIOUS
<1>1. CASE RandomTic \/ RandomTicNoMemory
  BY <1>1, TicStep
<1>2. CASE (random => pc # "tic") /\ Main /\ UNCHANGED randVars
  <2>1. CASE NotifyActor
    BY <1>2, <2>1, NotifyStep
  <2>2. CASE NotifyExtern
    BY <1>2, <2>2, ExternStep
  <2>3. CASE LoopEnter \/ LoopExit \/ SkipEnter \/ SkipOne \/ SkipDone \/ Wake \/ Cleanup
    <3>1. /\ UNCHANGED <<failed, i, fail_msg, actorDown, externDown, lost, randVars>>
          /\ pc # "notify"
      BY <1>2, <2>3 DEF LoopEnter, LoopExit, SkipEnter, SkipOne, SkipDone, Wake, Cleanup,
         batchVars, viewVars, randVars
    <3> QED
      BY <3>1, OtherStep
  <2>4. CASE ManagerTic
    BY <1>2, <2>4 DEF ManagerTic, RInv
  <2> QED
    BY <1>2, <2>1, <2>2, <2>3, <2>4 DEF Main
<1>3. CASE Surroundings \/ UNCHANGED rvars
  <2>1. /\ UNCHANGED <<failed, i, fail_msg, actorDown, externDown, lost, randVars>>
        /\ pc' = pc
    BY <1>3 DEF Surroundings, TermHandler, ClockTick, Terminated, rvars, vars, batchVars,
       viewVars, randVars
  <2> QED
    BY <2>1, OtherStep
<1> QED
  BY <1>1, <1>2, <1>3 DEF RandomNext, RandomMain

\* The configuration does not change.
LEMMA SameManager == [RandomNext]_rvars => random' = random
  BY DEF RandomNext, RandomMain, RandomTic, RandomTicNoMemory, Surroundings, rvars, randVars

LEMMA RandomInductive == RandomSpec => [](random => RInv)
<1>1. (random => RInv) /\ [RandomNext]_rvars => (random => RInv)'
  BY RStep, SameManager
<1> QED
  BY <1>1, RInit, PTL DEF RandomSpec

-----------------------------------------------------------------------------
\* With random as fault manager nothing is forgotten or made up between it and
\* the actors, except for want of memory and for notifications that fail.
THEOREM HealthCorrect == RandomSpec => []HealthKnown
<1>1. (random => RInv) => HealthKnown
  BY DEF RInv, HealthKnown
<1> QED
  BY <1>1, RandomInductive, PTL

\* No node fails twice (tic of random.c).
THEOREM FailsOnceCorrect == RandomSpec => []FailsOnce
<1>1. (random => RInv) => FailsOnce
  <2> SUFFICES ASSUME RInv, NEW k \in (i + 1)..Len(failed)
               PROVE  /\ failed[k].node \notin actorDown \cup externDown \cup dropped
                      /\ \A j \in (i + 1)..Len(failed) :
                            failed[j].node = failed[k].node => j = k
    BY DEF FailsOnce
  <2>1. failed[k].node \in Pending
    BY DEF Pending
  <2>2. failed[k].node \notin actorDown \cup externDown \cup dropped
    BY <2>1 DEF RInv, NewsInv
  <2>3. \A j \in (i + 1)..Len(failed) : j \in 1..Len(failed)
    BY DEF RInv, BatchInv
  <2> QED
    BY <2>2, <2>3 DEF RInv, BatchInv
<1> QED
  BY <1>1, RandomInductive, PTL
=============================================================================

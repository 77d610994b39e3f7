--------------------------- MODULE TicLoopProofs ---------------------------
(***************************************************************************)
(* The invariants of TicLoop, proved for every tic length, every limit of  *)
(* tics and every set of batches, also of such that name a node twice.     *)
(***************************************************************************)
EXTENDS TicLoop, TLAPS

InTic == {"tic", "notify", "skip"}
AtEnd == {"loop", "cleanup", "done"}

\* Where the loop is, as far as its counters tell.
CountInv ==
    /\ calls = 0 => pc \in AtEnd /\ tic = 0
    /\ pc \in AtEnd /\ calls > 0 => tic > 0
    /\ pc \in {"skipping", "sleep"} => tic > 0
    /\ MaxTics # 0 => calls <= MaxTics
    /\ MaxTics # 0 /\ pc \notin {"cleanup", "done"} => calls = tic_num
    /\ ~Timed => pc \notin {"skipping", "sleep"}
    /\ ~Timed => IF pc \in InTic THEN calls = tic + 1 ELSE calls = tic

\* The main thread is not early outside of sleep_until, and it never aims
\* further than one tic ahead.
EarlyInv ==
    /\ Timed /\ calls > 0 /\ pc \in InTic \cup AtEnd => now >= timestamp
    /\ pc \in {"skipping", "sleep"} => timestamp <= now + TicLength

TimeInv == TimeLine /\ LagBound /\ EarlyInv

\* While a batch is sent, the actors are ahead of the external programs by
\* the message built so far, where that says one thing only of a node.
AheadInv ==
    \A n \in Node \ lost :
        /\ n \in fail_msg.failing \ fail_msg.spare => n \in actorDown
        /\ n \in fail_msg.spare \ fail_msg.failing => n \notin actorDown
        /\ n \notin fail_msg.spare \cup fail_msg.failing \cup mixed
              => (n \in actorDown <=> n \in externDown)

ViewInv == (pc = "notify" => AheadInv) /\ ViewsAgree

IInv == TypeOK /\ CountInv /\ TimeInv /\ ViewInv

-----------------------------------------------------------------------------
\* What the unsigned counter of skipped tics computes below its limit.
LEMMA ModSmall ==
    ASSUME NEW m \in Nat \ {0}, NEW k \in Nat, k < m
    PROVE  k % m = k
  OBVIOUS

\* More tics are longer, for a tic of any length.
LEMMA MulMono ==
    ASSUME NEW a \in Nat, NEW b \in Nat, NEW d \in Nat, a <= b
    PROVE  a * d <= b * d
  OBVIOUS

\* One more tic is one tic length longer.
LEMMA MulSucc ==
    ASSUME NEW a \in Nat, NEW d \in Nat
    PROVE  a * d \in Nat /\ (a + 1) * d = a * d + d
  OBVIOUS

\* The counter of skipped tics stays below its limit when a tic is skipped.
LEMMA SkipNoWrap ==
    ASSUME TypeOK, LagBound, Timed, calls > 0, SkipOne
    PROVE  skip' = skip + 1 /\ skip + 1 < UIntMod
<1>1. /\ skip \in Nat /\ busy \in Nat /\ busy <= MaxBusy
      /\ now \in Nat /\ timestamp \in Nat /\ TicLength \in Nat
      /\ MaxBusy \in Nat /\ UIntMod \in Nat \ {0}
      /\ MaxBusy <= UIntMod * TicLength
  BY TimeAssumption DEF TypeOK, Timed
<1>2. now + (skip + 1) * TicLength <= timestamp + busy /\ timestamp < now
  BY DEF LagBound, SkipOne, Timed
<1>3. (skip + 1) * TicLength \in Nat /\ UIntMod * TicLength \in Nat
  BY <1>1
<1>4. (skip + 1) * TicLength < UIntMod * TicLength
  BY <1>1, <1>2, <1>3
<1>5. skip + 1 < UIntMod
  <2>1. SUFFICES ASSUME UIntMod <= skip + 1 PROVE FALSE
    BY <1>1
  <2>2. UIntMod * TicLength <= (skip + 1) * TicLength
    BY <2>1, <1>1, MulMono
  <2> QED BY <2>2, <1>3, <1>4
<1> QED BY <1>1, <1>5, ModSmall DEF SkipOne

-----------------------------------------------------------------------------
(* Type correctness.                                                       *)

\* What one fault does to the message and to the actors' view has the type
\* of both.
LEMMA FaultTypes ==
    ASSUME NEW f \in Fault, NEW down \in SUBSET Node,
           NEW m \in [spare : SUBSET Node, failing : SUBSET Node]
    PROVE  /\ AddToMsg(m, f) \in [spare : SUBSET Node, failing : SUBSET Node]
           /\ Told(down, f) \in SUBSET Node
  BY DEF Fault, AddToMsg, Told

\* The variables have their types in every reachable state.
THEOREM TypeCorrect == Spec => []TypeOK
<1>1. Init => TypeOK
  <2>1. EmptyMsg \in [spare : SUBSET Node, failing : SUBSET Node]
    BY DEF EmptyMsg
  <2>2. <<>> \in Seq(Fault) /\ 0 \in 0..Len(<<>>)
    OBVIOUS
  <2>3. 0 \in 0..(UIntMod - 1) /\ 0 \in 0..MaxBusy
    BY TimeAssumption
  <2>4. Init => /\ fail_msg \in [spare : SUBSET Node, failing : SUBSET Node]
                /\ failed \in Seq(Fault) /\ i \in 0..Len(failed)
    BY <2>1, <2>2 DEF Init
  <2>5. Init => termreq \in BOOLEAN
    BY DEF Init
  <2> QED BY <2>3, <2>4, <2>5 DEF Init, TypeOK
<1>2. TypeOK /\ [Next]_vars => TypeOK'
  <2> SUFFICES ASSUME TypeOK, [Next]_vars PROVE TypeOK'
    OBVIOUS
  <2>a. /\ TicLength \in Nat /\ MaxTics \in Nat /\ MaxBusy \in Nat
        /\ UIntMod \in Nat \ {0}
    BY TimeAssumption
  <2> USE DEF TypeOK, loopVars, timeVars, batchVars, viewVars, clockVars
  <2>1. CASE LoopEnter
    BY <2>1, <2>a DEF LoopEnter, LoopCond
  <2>2. CASE LoopExit
    BY <2>2, <2>a DEF LoopExit, LoopCond
  <2>3. CASE ManagerTic
    <3>1. failed' \in Seq(Fault) /\ i' \in 0..Len(failed')
      BY <2>3, BatchAssumption DEF ManagerTic
    <3>2. fail_msg' \in [spare : SUBSET Node, failing : SUBSET Node]
      BY <2>3 DEF ManagerTic, EmptyMsg
    <3> QED BY <2>3, <3>1, <3>2 DEF ManagerTic
  <2>4. CASE NotifyActor
    <3>0. failed[i + 1] \in Fault
      BY <2>4 DEF NotifyActor
    <3>1. failed[i + 1] \in Fault /\ failed[i + 1].node \in Node
      BY <3>0 DEF Fault
    <3>2. fail_msg' \in [spare : SUBSET Node, failing : SUBSET Node]
      BY <2>4, <3>1, FaultTypes DEF NotifyActor
    <3>3. actorDown' \subseteq Node /\ lost' \subseteq Node
      BY <2>4, <3>1, FaultTypes DEF NotifyActor
    <3>4. i' \in 0..Len(failed)
      BY <2>4 DEF NotifyActor
    <3> QED BY <2>4, <3>2, <3>3, <3>4 DEF NotifyActor
  <2>5. CASE NotifyExtern
    BY <2>5 DEF NotifyExtern
  <2>6. CASE SkipEnter
    BY <2>6, <2>a DEF SkipEnter
  <2>7. CASE SkipOne
    <3>1. skip' \in 0..(UIntMod - 1)
      BY <2>7, <2>a DEF SkipOne
    <3> QED BY <2>7, <2>a, <3>1 DEF SkipOne
  <2>8. CASE SkipDone
    BY <2>8, <2>a DEF SkipDone
  <2>9. CASE Wake
    BY <2>9, <2>a DEF Wake
  <2>10. CASE Cleanup
    BY <2>10 DEF Cleanup
  <2>11. CASE TermHandler
    BY <2>11 DEF TermHandler
  <2>12. CASE ClockTick
    BY <2>12, <2>a DEF ClockTick
  <2>13. CASE UNCHANGED vars
    BY <2>13 DEF vars
  <2> QED
    BY <2>1, <2>2, <2>3, <2>4, <2>5, <2>6, <2>7, <2>8, <2>9, <2>10, <2>11,
       <2>12, <2>13 DEF Next, Main, Terminated
<1> QED BY <1>1, <1>2, PTL DEF Spec

-----------------------------------------------------------------------------
(* The parts of the inductive invariant, one lemma for each.               *)

\* The counters of the loop agree with each other and with max_tics.
LEMMA CountStep ==
    ASSUME TypeOK, CountInv, [Next]_vars
    PROVE  CountInv'
<1>a. /\ tic \in Nat /\ tic_num \in Nat /\ calls \in Nat /\ skip \in Nat
      /\ MaxTics \in Nat /\ UIntMod \in Nat \ {0}
  BY TimeAssumption DEF TypeOK
<1> USE DEF CountInv, InTic, AtEnd, Timed
<1>1. CASE LoopEnter
  BY <1>1, <1>a DEF LoopEnter, LoopCond
<1>2. CASE LoopExit
  BY <1>2, <1>a DEF LoopExit, LoopCond, timeVars
<1>3. CASE ManagerTic
  BY <1>3 DEF ManagerTic, loopVars, timeVars
<1>4. CASE NotifyActor
  BY <1>4 DEF NotifyActor, loopVars, timeVars
<1>5. CASE NotifyExtern
  BY <1>5 DEF NotifyExtern, loopVars, timeVars
<1>6. CASE SkipEnter
  BY <1>6, <1>a DEF SkipEnter, loopVars
<1>7. CASE SkipOne
  BY <1>7, <1>a DEF SkipOne, loopVars
<1>8. CASE SkipDone
  BY <1>8 DEF SkipDone, loopVars, timeVars
<1>9. CASE Wake
  BY <1>9, <1>a DEF Wake, loopVars
<1>10. CASE Cleanup
  BY <1>10 DEF Cleanup, loopVars, timeVars
<1>11. CASE TermHandler
  BY <1>11 DEF TermHandler, timeVars
<1>12. CASE ClockTick
  BY <1>12 DEF ClockTick, loopVars, timeVars
<1>13. CASE UNCHANGED vars
  BY <1>13 DEF vars, loopVars, timeVars
<1> QED
  BY <1>1, <1>2, <1>3, <1>4, <1>5, <1>6, <1>7, <1>8, <1>9, <1>10, <1>11,
     <1>12, <1>13 DEF Next, Main, Terminated

\* Deadline, tic number and clock stay related.
LEMMA TimeStep ==
    ASSUME TypeOK, CountInv, TimeInv, [Next]_vars
    PROVE  TimeInv'
<1>a. /\ tic \in Nat /\ calls \in Nat /\ skip \in Nat /\ t0 \in Nat
      /\ timestamp \in Nat /\ now \in Nat /\ busy \in Nat /\ TicLength \in Nat
  BY TimeAssumption DEF TypeOK
<1> USE DEF TimeInv, TimeLine, LagBound, EarlyInv, InTic, AtEnd, Timed
<1>1. CASE LoopEnter
  BY <1>1, <1>a DEF LoopEnter, LoopCond, CountInv, clockVars
<1>2. CASE LoopExit
  BY <1>2, <1>a DEF LoopExit, LoopCond, timeVars, clockVars
<1>3. CASE ManagerTic
  BY <1>3 DEF ManagerTic, loopVars, timeVars, clockVars
<1>4. CASE NotifyActor
  BY <1>4 DEF NotifyActor, loopVars, timeVars, clockVars
<1>5. CASE NotifyExtern
  BY <1>5 DEF NotifyExtern, loopVars, timeVars, clockVars
<1>6. CASE SkipEnter
  <2>1. calls > 0
    BY <1>6, <1>a DEF SkipEnter, CountInv
  <2>2. CASE ~Timed
    BY <1>6, <2>2, <1>a DEF SkipEnter
  <2>3. CASE Timed
    <3>1. /\ timestamp = t0 + tic * TicLength
          /\ now <= timestamp + busy /\ now >= timestamp
      BY <1>6, <2>1, <2>3 DEF SkipEnter
    <3>2. timestamp' = timestamp + TicLength /\ tic' = tic + 1 /\ skip' = 0
      BY <1>6, <2>3 DEF SkipEnter
    <3>3. /\ tic * TicLength \in Nat
          /\ (tic + 1) * TicLength = tic * TicLength + TicLength
      BY <1>a, MulSucc
    <3>4. timestamp' = t0 + (tic' + skip') * TicLength
      BY <3>1, <3>2, <3>3, <1>a
    <3>5. now + (skip' + 1) * TicLength <= timestamp' + busy
      BY <3>1, <3>2, <1>a
    <3> QED BY <1>6, <2>3, <3>1, <3>2, <3>4, <3>5, <1>a DEF SkipEnter, clockVars
  <2> QED BY <2>2, <2>3
<1>7. CASE SkipOne
  <2>1. Timed /\ calls > 0
    BY <1>7, <1>a DEF SkipOne, CountInv
  <2>2. skip' = skip + 1 /\ timestamp' = timestamp + TicLength /\ tic' = tic
    BY <1>7, <2>1, SkipNoWrap DEF SkipOne
  <2>3. /\ (tic + skip) * TicLength \in Nat
        /\ (tic + skip + 1) * TicLength = (tic + skip) * TicLength + TicLength
        /\ (skip + 1) * TicLength \in Nat
        /\ (skip + 1 + 1) * TicLength = (skip + 1) * TicLength + TicLength
    BY <1>a, MulSucc
  <2>4. timestamp = t0 + (tic + skip) * TicLength
    BY <1>7, <2>1 DEF SkipOne
  <2>5. now + (skip + 1) * TicLength <= timestamp + busy
    BY <1>7, <2>1 DEF SkipOne
  <2>6. timestamp' = t0 + (tic' + skip') * TicLength
    <3>1. tic' + skip' = tic + skip + 1
      BY <2>2, <1>a
    <3> QED BY <3>1, <2>2, <2>3, <2>4, <1>a
  <2>7. now + (skip' + 1) * TicLength <= timestamp' + busy
    BY <2>2, <2>3, <2>5, <1>a
  <2>8. timestamp' <= now + TicLength
    BY <1>7, <2>2, <1>a DEF SkipOne
  <2> QED BY <1>7, <2>1, <2>6, <2>7, <2>8 DEF SkipOne, loopVars, clockVars
<1>8. CASE SkipDone
  BY <1>8, <1>a DEF SkipDone, loopVars, timeVars
<1>9. CASE Wake
  BY <1>9, <1>a DEF Wake, loopVars, clockVars
<1>10. CASE Cleanup
  BY <1>10 DEF Cleanup, loopVars, timeVars, clockVars
<1>11. CASE TermHandler
  BY <1>11 DEF TermHandler, timeVars, clockVars
<1>12. CASE ClockTick
  <2>1. (skip + 1) * TicLength \in Nat
    BY <1>a
  <2>2. /\ now' = now + 1
        /\ (pc = "sleep" /\ now < timestamp) \/ busy' = busy + 1
        /\ busy' \in Nat /\ busy' >= busy
    BY <1>12, <1>a DEF ClockTick
  <2>3. UNCHANGED <<pc, calls, tic, timestamp, skip, t0>>
    BY <1>12 DEF ClockTick, loopVars, timeVars
  <2>4. TimeLine' /\ EarlyInv'
    BY <2>2, <2>3, <1>a
  <2>5. LagBound'
    <3>1. CASE pc = "skipping"
      <4>1. SUFFICES ASSUME Timed, calls > 0
                     PROVE  now' + (skip + 1) * TicLength <= timestamp + busy'
        BY <3>1, <2>3
      <4>2. now + (skip + 1) * TicLength <= timestamp + busy
        BY <3>1, <4>1
      <4>3. busy' = busy + 1 /\ now' = now + 1
        BY <3>1, <2>2
      <4> QED BY <4>2, <4>3, <2>1, <1>a
    <3>2. CASE pc # "skipping"
      <4>1. SUFFICES ASSUME Timed, calls > 0
                     PROVE  now' <= timestamp + busy'
        BY <3>2, <2>3
      <4>2. now <= timestamp + busy
        BY <3>2, <4>1
      <4> HIDE DEF TimeInv, TimeLine, LagBound, EarlyInv
      <4>3. CASE pc = "sleep" /\ now < timestamp
        <5>1. now' = now + 1 /\ busy' = busy
          BY <1>12, <4>3 DEF ClockTick
        <5> QED BY <4>3, <5>1, <1>a
      <4>4. CASE busy' = busy + 1
        BY <4>2, <4>4, <2>2, <1>a
      <4> QED BY <4>3, <4>4, <2>2
    <3> QED BY <3>1, <3>2
  <2> QED BY <2>4, <2>5
<1>13. CASE UNCHANGED vars
  BY <1>13 DEF vars, loopVars, timeVars, clockVars
<1> QED
  BY <1>1, <1>2, <1>3, <1>4, <1>5, <1>6, <1>7, <1>8, <1>9, <1>10, <1>11,
     <1>12, <1>13 DEF Next, Main, Terminated

\* Actors and external programs stay related through the message.
LEMMA ViewStep ==
    ASSUME TypeOK, ViewInv, [Next]_vars
    PROVE  ViewInv'
<1> USE DEF ViewInv, ViewsAgree, AheadInv
<1>1. CASE ManagerTic
  BY <1>1 DEF ManagerTic, EmptyMsg, viewVars
<1>2. CASE NotifyActor
  <2> DEFINE f == failed[i + 1]
  <2>1. /\ pc = "notify" /\ pc' = "notify" /\ UNCHANGED <<externDown, mixed>>
        /\ fail_msg' = AddToMsg(fail_msg, f)
    BY <1>2 DEF NotifyActor
  <2>2. fail_msg \in [spare : SUBSET Node, failing : SUBSET Node]
    BY DEF TypeOK
  <2>3. \/ actorDown' = Told(actorDown, f) /\ lost' = lost
        \/ actorDown' = actorDown /\ lost' = lost \cup {f.node}
    BY <1>2 DEF NotifyActor
  <2>4. AheadInv
    BY <2>1
  <2>5. AheadInv'
    <3>1. SUFFICES ASSUME NEW n \in Node \ lost'
          PROVE  /\ n \in fail_msg'.failing \ fail_msg'.spare => n \in actorDown'
                 /\ n \in fail_msg'.spare \ fail_msg'.failing => n \notin actorDown'
                 /\ n \notin fail_msg'.spare \cup fail_msg'.failing \cup mixed'
                       => (n \in actorDown' <=> n \in externDown')
      OBVIOUS
    <3>2. n \in Node \ lost
      BY <2>3
    <3>3. CASE f.component # NULL \/ f.node # n
      BY <3>2, <3>3, <2>1, <2>2, <2>3, <2>4 DEF AddToMsg, Told
    <3>4. CASE f.component = NULL /\ f.node = n
      <4>1. actorDown' = Told(actorDown, f)
        BY <3>4, <2>3
      <4>2. CASE f.severity = 0
        BY <4>1, <4>2, <3>4, <2>1, <2>2 DEF AddToMsg, Told
      <4>3. CASE f.severity # 0
        BY <4>1, <4>3, <3>4, <2>1, <2>2 DEF AddToMsg, Told
      <4> QED BY <4>2, <4>3
    <3> QED BY <3>3, <3>4
  <2> QED BY <2>1, <2>5
<1>3. CASE NotifyExtern
  BY <1>3 DEF NotifyExtern, TypeOK
<1>4. CASE UNCHANGED viewVars /\ pc' # "notify" /\ pc # "notify"
  BY <1>4 DEF viewVars
<1>5. CASE UNCHANGED <<pc, viewVars, fail_msg>>
  BY <1>5 DEF viewVars
<1>6. \/ ManagerTic \/ NotifyActor \/ NotifyExtern
      \/ UNCHANGED viewVars /\ pc' # "notify" /\ pc # "notify"
      \/ UNCHANGED <<pc, viewVars, fail_msg>>
  BY DEF Next, Main, Terminated, vars, LoopEnter, LoopExit, batchVars,
         SkipEnter, SkipOne, SkipDone, Wake, Cleanup, TermHandler, ClockTick
<1> QED BY <1>1, <1>2, <1>3, <1>4, <1>5, <1>6

-----------------------------------------------------------------------------
\* The inductive invariant holds in every reachable state.
THEOREM Inductive == Spec => []IInv
<1>1. Init => CountInv /\ TimeInv /\ ViewInv
  BY TimeAssumption DEF Init, CountInv, TimeInv, TimeLine, LagBound, EarlyInv,
     ViewInv, ViewsAgree, InTic, AtEnd, Timed
<1>2. /\ TypeOK /\ CountInv /\ TimeInv /\ ViewInv
      /\ [Next]_vars
      => (CountInv /\ TimeInv /\ ViewInv)'
  BY CountStep, TimeStep, ViewStep
<1> QED BY <1>1, <1>2, TypeCorrect, PTL DEF Spec, IInv

\* Tic number, deadline and clock: the deadline of the main loop is the one
\* of its tic number, no tic starts early, the server never sleeps past the
\* tic it is in and the counter of skipped tics does not wrap.
THEOREM TimeCorrect == Spec => [](TimeLine /\ OnTime /\ SleepBound /\ LagBound)
<1>1. IInv => TimeLine /\ OnTime /\ SleepBound /\ LagBound
  <2> SUFFICES ASSUME IInv PROVE OnTime /\ SleepBound
    BY DEF IInv, TimeInv
  <2>1. tic \in Nat /\ calls \in Nat /\ (pc \in InTic => calls > 0)
    BY DEF IInv, TypeOK, CountInv, InTic, AtEnd
  <2> QED BY <2>1 DEF IInv, TimeInv, TimeLine, EarlyInv, OnTime, SleepBound,
             InTic, AtEnd
<1> QED BY <1>1, Inductive, PTL

\* External programs and actors agree on the nodes that are down, for every
\* node none of whose notifications failed and whose last message said one
\* thing only of it, when no batch is being sent.
THEOREM ViewsCorrect == Spec => []ViewsAgree
<1>1. IInv => ViewsAgree
  BY DEF IInv, ViewInv
<1> QED BY <1>1, Inductive, PTL

\* Without a tic length the limit of options.h holds: the tic number counts
\* the calls of do_tic, no tic is skipped (config.h: a tic length of 0 "also
\* suppresses skipping tics") and none is worked on after the one max_tics
\* names.  With a tic length it does not hold.
THEOREM LimitCorrect == Spec => [](~Timed => TicLimit /\ UntimedTics)
<1>1. IInv => (~Timed => TicLimit /\ UntimedTics)
  <2>1. SUFFICES ASSUME IInv, ~Timed PROVE TicLimit /\ UntimedTics
    OBVIOUS
  <2>2. tic \in Nat /\ calls \in Nat /\ MaxTics \in Nat
    BY <2>1, TimeAssumption DEF IInv, TypeOK
  <2>3. pc \in {"tic", "notify"} => calls = tic + 1
    BY <2>1 DEF IInv, CountInv, InTic
  <2>4. MaxTics # 0 => calls <= MaxTics
    BY <2>1 DEF IInv, CountInv
  <2>5. TicLimit
    BY <2>2, <2>3, <2>4 DEF TicLimit
  <2>6. UntimedTics
    BY <2>1 DEF IInv, CountInv, UntimedTics, InTic, AtEnd
  <2> QED BY <2>5, <2>6
<1> QED BY <1>1, Inductive, PTL
=============================================================================

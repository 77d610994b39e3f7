---------------------------- MODULE ClientProofs ----------------------------
(***************************************************************************)
(* The client passes on what it received, once and in order, and writes    *)
(* what module FifoLine allows, for every set and number of messages and   *)
(* every size of the array.                                                *)
(***************************************************************************)
EXTENDS Client, TLAPS

AllLines == AnyLine \cup {SyncLine, ExitLine}

TypeInv ==
    /\ pc \in {"off", "fopen", "setup", "loop", "round", "write", "done", "dead"}
    /\ arrived \in Seq(Message) /\ Len(arrived) <= MaxMsgs
    /\ rcvd \in Nat /\ rcvd <= Len(arrived)
    /\ faults \in Seq(Message) /\ flt \in Seq(Message)
    /\ i \in Nat /\ i <= Len(flt)
    /\ synced \in BOOLEAN
    /\ written \in Seq(AllLines)

\* Where main is goes with what it has done.
MainInv ==
    /\ pc = "done" => Len(written) > 0
    /\ synced <=> Passed > 0
    /\ pc \notin {"write", "dead"} => i = Len(flt)
    /\ pc = "off" => ~overrun

IInv == TypeInv /\ MainInv /\ InOrder /\ SaysTheSame

-----------------------------------------------------------------------------
(* Sequences and lines.                                                    *)

\* Two sequences end to end: type, length and entries.
LEMMA ConcatFacts ==
    ASSUME NEW S, NEW s \in Seq(S), NEW t \in Seq(S)
    PROVE  /\ s \o t \in Seq(S)
           /\ Len(s \o t) = Len(s) + Len(t)
           /\ \A k \in 1..Len(s) : (s \o t)[k] = s[k]
           /\ \A k \in (Len(s) + 1)..(Len(s) + Len(t)) : (s \o t)[k] = t[k - Len(s)]
  OBVIOUS

\* A sequence with one more entry: type, length and entries.
LEMMA AppendFacts ==
    ASSUME NEW S, NEW s \in Seq(S), NEW e \in S
    PROVE  /\ Append(s, e) \in Seq(S)
           /\ Len(Append(s, e)) = Len(s) + 1
           /\ \A k \in 1..Len(s) : Append(s, e)[k] = s[k]
           /\ Append(s, e)[Len(s) + 1] = e
  OBVIOUS

\* Every message makes a line.
LEMMA LineOfMessage ==
    ASSUME NEW m \in Message
    PROVE  LineOf(m) \in AnyLine
<1>1. m.comp \in Component \cup {""} /\ m.sev \in 0..(UMod - 1)
  BY ClientAssumption
<1>2. (IF m.comp = "" THEN "power" ELSE m.comp) \in Component
  BY <1>1 DEF Component
<1>3. SevText(m.sev) \in {SevText(s) : s \in 0..(UMod - 1)}
  BY <1>1
<1> QED BY <1>2, <1>3 DEF LineOf, AnyLine

-----------------------------------------------------------------------------
(* The steps.                                                              *)

\* A step of main that leaves arrays and lines alone.
LEMMA IdleStep ==
    ASSUME IInv, UNCHANGED <<arrived, rcvd, faults, flt, i, synced, written, spoiled>>,
           pc # "done", pc' # "done",
           pc' \in {"fopen", "setup", "loop", "round", "write", "dead"},
           pc' \notin {"write", "dead"} => i = Len(flt)
    PROVE  IInv'
<1>1. Passed' = Passed
  BY DEF Passed
<1>2. TypeInv'
  BY DEF IInv, TypeInv
<1>3. MainInv'
  BY <1>1 DEF IInv, MainInv
<1>4. InOrder' /\ SaysTheSame'
  BY <1>1 DEF IInv, InOrder, SaysTheSame
<1> QED BY <1>2, <1>3, <1>4 DEF IInv

\* A message that reaches the library waits behind the others.
LEMMA ArriveStep ==
    ASSUME IInv, Arrive
    PROVE  IInv'
<1>1. PICK m \in Message : arrived' = Append(arrived, m)
  BY DEF Arrive
<1>2. /\ arrived \in Seq(Message) /\ Len(arrived) \in Nat /\ rcvd \in Nat
      /\ rcvd <= Len(arrived) /\ Len(arrived) < MaxMsgs /\ MaxMsgs \in Nat
  <2>1. MaxMsgs \in Nat
    BY ClientAssumption
  <2> QED BY <2>1 DEF IInv, TypeInv, Arrive
<1>3. /\ arrived' \in Seq(Message) /\ Len(arrived') = Len(arrived) + 1
      /\ \A k \in 1..Len(arrived) : arrived'[k] = arrived[k]
  BY <1>1, <1>2, AppendFacts
<1>4. /\ UNCHANGED <<pc, connected, rcvd, faults, overrun>>
      /\ UNCHANGED <<flt, i, synced, written, spoiled>>
  BY DEF Arrive, mainVars
<1>5. Passed' = Passed
  BY <1>4 DEF Passed
<1>6. TypeInv' /\ MainInv'
  BY <1>2, <1>3, <1>4, <1>5 DEF IInv, TypeInv, MainInv
<1>7. /\ Passed \in Nat /\ Len(faults) \in Nat /\ Len(flt) \in Nat /\ i \in Nat
      /\ i <= Len(flt) /\ Passed + (Len(flt) - i) + Len(faults) = rcvd
  BY DEF IInv, TypeInv, MainInv, InOrder, Passed
<1>8. ASSUME NEW k \in 1..Len(faults)
      PROVE  faults[k] = arrived'[rcvd - Len(faults) + k]
  <2>1. rcvd - Len(faults) + k \in 1..Len(arrived)
    BY <1>2, <1>7
  <2>2. faults[k] = arrived[rcvd - Len(faults) + k]
    BY DEF IInv, InOrder
  <2> QED BY <1>3, <2>1, <2>2
<1>9. ASSUME NEW k \in (i + 1)..Len(flt)
      PROVE  flt[k] = arrived'[Passed + (k - i)]
  <2>1. Passed + (k - i) \in 1..Len(arrived)
    BY <1>2, <1>7
  <2>2. flt[k] = arrived[Passed + (k - i)]
    BY DEF IInv, InOrder
  <2> QED BY <1>3, <2>1, <2>2
<1>10. InOrder'
  BY <1>4, <1>5, <1>7, <1>8, <1>9 DEF InOrder
<1>11. ASSUME NEW k \in 1..Passed
       PROVE  arrived'[k] = arrived[k]
  <2>1. k \in 1..Len(arrived)
    BY <1>2, <1>7
  <2> QED BY <1>3, <2>1
<1>12. SaysTheSame'
  BY <1>4, <1>5, <1>11 DEF IInv, SaysTheSame
<1> QED BY <1>6, <1>10, <1>12 DEF IInv

\* on_message, for any number of messages: they join the end of the array.
LEMMA ReceiveStep ==
    ASSUME IInv, pc = "round", NEW n \in 0..(Len(arrived) - rcvd), OnMessages(n),
           UNCHANGED <<arrived, flt, i, synced, written, spoiled>>,
           pc' \in {"round", "loop"}
    PROVE  IInv'
<1>1. /\ arrived \in Seq(Message) /\ faults \in Seq(Message)
      /\ Len(arrived) \in Nat /\ Len(faults) \in Nat /\ Len(flt) \in Nat
      /\ rcvd \in Nat /\ rcvd <= Len(arrived)
      /\ i \in Nat /\ i = Len(flt) /\ Passed \in Nat
  BY DEF IInv, TypeInv, MainInv, Passed
<1>2. n \in Nat /\ rcvd + n <= Len(arrived)
  BY <1>1
<1>3. /\ faults' \in Seq(Message) /\ Len(faults') = Len(faults) + n
      /\ \A k \in 1..Len(faults) : faults'[k] = faults[k]
      /\ \A k \in (Len(faults) + 1)..(Len(faults) + n) :
            faults'[k] = arrived[rcvd + (k - Len(faults))]
  <2>1. faults' = faults \o SubSeq(arrived, rcvd + 1, rcvd + n)
    BY DEF OnMessages
  <2> DEFINE u == SubSeq(arrived, rcvd + 1, rcvd + n)
  <2>2. /\ u \in Seq(Message) /\ Len(u) = n
        /\ \A k \in 1..n : u[k] = arrived[rcvd + k]
    BY <1>1, <1>2
  <2>3. faults' = faults \o u
    BY <2>1
  <2> HIDE DEF u
  <2>4. /\ faults' \in Seq(Message) /\ Len(faults') = Len(faults) + n
        /\ \A k \in 1..Len(faults) : faults'[k] = faults[k]
        /\ \A k \in (Len(faults) + 1)..(Len(faults) + n) :
              faults'[k] = u[k - Len(faults)]
    <3>1. faults \in Seq(Message) /\ u \in Seq(Message)
      BY <1>1, <2>2
    <3>2. /\ faults \o u \in Seq(Message)
          /\ Len(faults \o u) = Len(faults) + Len(u)
          /\ \A k \in 1..Len(faults) : (faults \o u)[k] = faults[k]
          /\ \A k \in (Len(faults) + 1)..(Len(faults) + Len(u)) :
                (faults \o u)[k] = u[k - Len(faults)]
      BY <3>1, ConcatFacts, Zenon
    <3>3. Len(u) = n
      BY <2>2
    <3> QED BY <2>3, <3>2, <3>3, Zenon
  <2>5. ASSUME NEW k \in (Len(faults) + 1)..(Len(faults) + n)
        PROVE  faults'[k] = arrived[rcvd + (k - Len(faults))]
    <3>1. k - Len(faults) \in 1..n
      BY <1>1, <1>2
    <3> QED BY <2>2, <2>4, <3>1
  <2> QED BY <2>4, <2>5
<1>4. rcvd' = rcvd + n
  BY DEF OnMessages
<1>5. Passed' = Passed
  BY DEF Passed
<1>6. TypeInv'
  BY <1>1, <1>2, <1>3, <1>4 DEF IInv, TypeInv
<1>7. MainInv'
  BY <1>1, <1>5 DEF IInv, MainInv
<1>9. ASSUME NEW k \in 1..Len(faults')
      PROVE  faults'[k] = arrived[rcvd' - Len(faults') + k]
  <2>1. rcvd' - Len(faults') + k = rcvd - Len(faults) + k
    BY <1>1, <1>2, <1>3, <1>4
  <2>2. CASE k <= Len(faults)
    <3>1. k \in 1..Len(faults)
      BY <1>1, <1>3, <2>2
    <3> QED BY <1>3, <2>1, <3>1 DEF IInv, InOrder
  <2>3. CASE ~(k <= Len(faults))
    <3>1. k \in (Len(faults) + 1)..(Len(faults) + n)
      BY <1>1, <1>2, <1>3, <2>3
    <3>2. rcvd + (k - Len(faults)) = rcvd - Len(faults) + k
      BY <1>1, <3>1
    <3> QED BY <1>3, <2>1, <3>1, <3>2
  <2> QED BY <2>2, <2>3
<1>10. Passed + (Len(flt) - i) + Len(faults') = rcvd'
  <2>1. Passed + (Len(flt) - i) + Len(faults) = rcvd
    BY DEF IInv, InOrder
  <2>2. Len(faults') = Len(faults) + n
    BY <1>3
  <2>3. /\ Passed \in Nat /\ Len(flt) \in Nat /\ i \in Nat
        /\ Len(faults) \in Nat /\ n \in Nat
    BY <1>1, <1>2
  <2>4. Passed + (Len(flt) - i) + (Len(faults) + n) = (Passed + (Len(flt) - i) + Len(faults)) + n
    BY <2>3
  <2> QED BY <1>4, <2>1, <2>2, <2>4, Zenon
<1>11. InOrder'
  BY <1>5, <1>9, <1>10 DEF IInv, InOrder
<1>12. SaysTheSame'
  BY <1>5 DEF IInv, SaysTheSame
<1> QED BY <1>6, <1>7, <1>11, <1>12 DEF IInv

\* The two arrays are swapped.
LEMMA SwapStep ==
    ASSUME IInv, RoundQuiet
    PROVE  IInv'
<1>1. /\ Len(faults) \in Nat /\ Len(flt) \in Nat /\ rcvd \in Nat
      /\ i = Len(flt) /\ Passed \in Nat /\ faults \in Seq(Message)
      /\ Passed + (Len(flt) - i) + Len(faults) = rcvd
  BY DEF IInv, TypeInv, MainInv, InOrder, Passed, RoundQuiet
<1>2. /\ flt' = faults /\ i' = 0 /\ faults' = <<>> /\ pc' = "write" /\ pc = "round"
      /\ UNCHANGED <<arrived, rcvd, synced, written, spoiled>>
  BY DEF RoundQuiet
<1>3. Passed' = Passed
  BY <1>2 DEF Passed
<1>4. faults' \in Seq(Message) /\ Len(faults') = 0
  BY <1>2
<1>5. TypeInv'
  BY <1>1, <1>2, <1>4 DEF IInv, TypeInv
<1>6. MainInv'
  BY <1>2, <1>3 DEF IInv, TypeInv, MainInv
<1>7. Passed = rcvd - Len(faults)
  BY <1>1
<1>8. ASSUME NEW k \in 1..Len(faults)
      PROVE  faults[k] = arrived[Passed + (k - 0)]
  <2>1. Passed + (k - 0) = rcvd - Len(faults) + k
    BY <1>1, <1>7
  <2> QED BY <2>1 DEF IInv, InOrder
<1>9. Passed + (Len(faults) - 0) + 0 = rcvd
  BY <1>1
<1>10. InOrder'
  <2>1. Passed' + (Len(flt') - i') + Len(faults') = rcvd'
    BY <1>2, <1>3, <1>4, <1>9
  <2>2. ASSUME NEW k \in (i' + 1)..Len(flt')
        PROVE  flt'[k] = arrived'[Passed' + (k - i')]
    <3>1. k \in 1..Len(faults)
      BY <1>2
    <3> QED BY <1>2, <1>3, <1>8, <3>1
  <2>3. \A k \in 1..Len(faults') : faults'[k] = arrived'[rcvd' - Len(faults') + k]
    BY <1>4
  <2> QED BY <2>1, <2>2, <2>3 DEF InOrder
<1>11. SaysTheSame'
  BY <1>2, <1>3 DEF IInv, SaysTheSame
<1> QED BY <1>5, <1>6, <1>10, <1>11 DEF IInv

\* What main writes for the next entry.
LineFor(l) ==
    \/ ~synced /\ l = SyncLine
    \/ synced /\ i + 1 > Room /\ l \in AnyLine
    \/ synced /\ ~(i + 1 > Room) /\ l = LineOf(flt[i + 1])

\* The line of an entry: which message it is about, and what kind of line.
LEMMA WriteFacts ==
    ASSUME IInv, Write
    PROVE  /\ Passed = Len(written) /\ Passed \in Nat /\ Passed < rcvd
           /\ flt[i + 1] \in Message /\ flt[i + 1] = arrived[Passed + 1]
           /\ synced <=> Passed > 0
           /\ \E l \in AllLines : LineFor(l) /\ written' = Append(written, l)
<1>1. pc = "write" /\ i < Len(flt)
  BY DEF Write
<1>2. /\ Passed = Len(written) /\ Passed \in Nat /\ i \in Nat /\ Len(flt) \in Nat
      /\ Len(faults) \in Nat /\ rcvd \in Nat /\ flt \in Seq(Message)
      /\ Passed + (Len(flt) - i) + Len(faults) = rcvd
  BY <1>1 DEF IInv, TypeInv, Passed, InOrder
<1>3. Passed < rcvd
  BY <1>1, <1>2
<1>4. i + 1 \in (i + 1)..Len(flt) /\ i + 1 \in 1..Len(flt)
  BY <1>1, <1>2
<1>5. flt[i + 1] \in Message
  BY <1>2, <1>4
<1>6. flt[i + 1] = arrived[Passed + ((i + 1) - i)]
  BY <1>4 DEF IInv, InOrder
<1>7. (i + 1) - i = 1
  BY <1>2
<1>8. PICK l \in (IF ~synced THEN {SyncLine}
                  ELSE IF i + 1 > Room THEN AnyLine ELSE {LineOf(flt[i + 1])}) :
         written' = Append(written, l)
  BY DEF Write
<1>9. LineOf(flt[i + 1]) \in AnyLine
  BY <1>5, LineOfMessage
<1>10. LineFor(l) /\ l \in AllLines
  BY <1>8, <1>9 DEF LineFor, AllLines
<1>11. synced <=> Passed > 0
  BY DEF IInv, MainInv
<1> QED BY <1>2, <1>3, <1>5, <1>6, <1>7, <1>8, <1>10, <1>11

\* main writes the line of the next entry of its array.
LEMMA WriteStep ==
    ASSUME IInv, Write
    PROVE  IInv'
<1>1. PICK l \in AllLines : LineFor(l) /\ written' = Append(written, l)
  BY WriteFacts
<1>2. /\ pc = "write" /\ pc' = "write" /\ i < Len(flt) /\ i' = i + 1 /\ synced' = TRUE
      /\ UNCHANGED <<arrived, rcvd, faults, flt>>
      /\ spoiled' = IF i + 1 > Room THEN spoiled \cup {Len(written) + 1} ELSE spoiled
  BY DEF Write, netVars
<1>3. /\ Passed = Len(written) /\ Passed \in Nat /\ Passed < rcvd
      /\ flt[i + 1] = arrived[Passed + 1]
      /\ (synced <=> Passed > 0)
  BY WriteFacts
<1>4. written \in Seq(AllLines) /\ i \in Nat /\ Len(flt) \in Nat /\ Len(faults) \in Nat
  BY DEF IInv, TypeInv
<1>5. /\ written' \in Seq(AllLines) /\ Len(written') = Len(written) + 1
      /\ \A k \in 1..Len(written) : written'[k] = written[k]
      /\ written'[Len(written) + 1] = l
  BY <1>1, <1>4, AppendFacts
<1>6. Passed' = Passed + 1
  BY <1>2, <1>3, <1>5 DEF Passed
<1>7. TypeInv'
  BY <1>2, <1>4, <1>5 DEF IInv, TypeInv
<1>8. MainInv'
  BY <1>2, <1>3, <1>6 DEF IInv, MainInv
<1>9. InOrder'
  <2>1. Passed + (Len(flt) - i) + Len(faults) = rcvd
    BY DEF IInv, InOrder
  <2>2. Passed' + (Len(flt') - i') + Len(faults') = rcvd'
    BY <1>2, <1>3, <1>4, <1>6, <2>1
  <2>3. \A k \in 1..Len(faults') : faults'[k] = arrived'[rcvd' - Len(faults') + k]
    BY <1>2 DEF IInv, InOrder
  <2>4. ASSUME NEW k \in (i' + 1)..Len(flt')
        PROVE  flt'[k] = arrived'[Passed' + (k - i')]
    <3>0. i' = i + 1 /\ flt' = flt
      BY <1>2
    <3>1. k \in (i + 1)..Len(flt) /\ Passed' + (k - i') = Passed + (k - i)
      <4>1. k \in (i + 2)..Len(flt)
        BY <1>4, <3>0
      <4> QED BY <1>3, <1>4, <1>6, <3>0, <4>1
    <3>2. flt[k] = arrived[Passed + (k - i)]
      BY <3>1 DEF IInv, InOrder
    <3> QED BY <1>2, <3>1, <3>2
  <2> QED BY <2>2, <2>3, <2>4 DEF InOrder
<1>10. ASSUME NEW k \in 1..Passed'
       PROVE  \/ k = 1 /\ written'[k] = SyncLine
              \/ k > 1 /\ (written'[k] = LineOf(arrived'[k]) \/ k \in spoiled')
  <2>1. CASE k <= Passed
    <3>1. k \in 1..Passed /\ k \in 1..Len(written)
      BY <1>3, <1>6, <2>1
    <3>2. \/ k = 1 /\ written[k] = SyncLine
          \/ k > 1 /\ (written[k] = LineOf(arrived[k]) \/ k \in spoiled)
      BY <3>1 DEF IInv, SaysTheSame
    <3>3. written'[k] = written[k] /\ arrived' = arrived
      BY <1>2, <1>5, <3>1
    <3>4. k \in spoiled => k \in spoiled'
      BY <1>2
    <3> QED BY <3>2, <3>3, <3>4
  <2>2. CASE ~(k <= Passed)
    <3>1. k = Passed + 1 /\ k = Len(written) + 1 /\ written'[k] = l
      BY <1>3, <1>5, <1>6, <2>2
    <3>2. CASE ~synced /\ l = SyncLine
      <4>1. Passed = 0
        BY <1>3, <3>2
      <4> QED BY <3>1, <3>2, <4>1
    <3>3. CASE synced /\ i + 1 > Room
      BY <1>2, <1>3, <3>1, <3>3
    <3>4. CASE synced /\ l = LineOf(flt[i + 1])
      <4>1. k > 1
        BY <1>3, <3>1, <3>4
      <4>2. LineOf(flt[i + 1]) = LineOf(arrived'[k])
        BY <1>2, <1>3, <3>1
      <4> QED BY <3>1, <3>4, <4>1, <4>2
    <3> QED BY <1>1, <3>2, <3>3, <3>4 DEF LineFor
  <2> QED BY <2>1, <2>2
<1>11. SaysTheSame'
  BY <1>10 DEF SaysTheSame
<1> QED BY <1>7, <1>8, <1>9, <1>11 DEF IInv

\* main writes the line that ends the back end, after the last entry.
LEMMA ExitStep ==
    ASSUME IInv, Exit
    PROVE  IInv'
<1>1. /\ pc = "loop" /\ pc' = "done" /\ written' = Append(written, ExitLine)
      /\ UNCHANGED <<arrived, rcvd, faults, flt, i, synced, spoiled>>
  BY DEF Exit, netVars
<1>2. written \in Seq(AllLines) /\ ExitLine \in AllLines /\ Len(written) \in Nat
  BY DEF IInv, TypeInv, AllLines
<1>3. /\ written' \in Seq(AllLines) /\ Len(written') = Len(written) + 1
      /\ \A k \in 1..Len(written) : written'[k] = written[k]
  BY <1>1, <1>2, AppendFacts
<1>4. Passed' = Passed /\ Passed = Len(written)
  BY <1>1, <1>2, <1>3 DEF Passed
<1>5. TypeInv'
  BY <1>1, <1>3 DEF IInv, TypeInv
<1>6. MainInv'
  BY <1>1, <1>2, <1>3, <1>4 DEF IInv, MainInv
<1>7. InOrder'
  BY <1>1, <1>4 DEF IInv, InOrder
<1>8. SaysTheSame'
  BY <1>1, <1>3, <1>4 DEF IInv, SaysTheSame
<1> QED BY <1>5, <1>6, <1>7, <1>8 DEF IInv

\* Every step of main, of the broker and of the signals keeps the invariant.
LEMMA Inductive ==
    ASSUME IInv, [Next]_vars
    PROVE  IInv'
<1>1. CASE Start \/ Fopen \/ Setup \/ SetupFails
  <2>1. i = Len(flt)
    BY <1>1 DEF IInv, MainInv, Start, Fopen, Setup, SetupFails
  <2> QED BY <1>1, <2>1, IdleStep DEF Start, Fopen, Setup, SetupFails, netVars, mainVars
<1>2. CASE GetFaults
  <2>1. i = Len(flt)
    BY <1>2 DEF IInv, MainInv, GetFaults
  <2> QED BY <1>2, <2>1, IdleStep DEF GetFaults, mainVars
<1>3. CASE Round
  <2>1. PICK n \in 1..(Len(arrived) - rcvd) : OnMessages(n)
    BY <1>3 DEF Round
  <2>2. n \in 0..(Len(arrived) - rcvd)
    OBVIOUS
  <2> QED BY <1>3, <2>1, <2>2, ReceiveStep DEF Round, mainVars
<1>4. CASE RoundQuiet
  BY <1>4, SwapStep
<1>5. CASE RoundFails
  <2>1. PICK n \in 0..(IF connected THEN Len(arrived) - rcvd ELSE 0) : OnMessages(n)
    BY <1>5 DEF RoundFails
  <2>2. n \in 0..(Len(arrived) - rcvd)
    BY DEF IInv, TypeInv
  <2> QED BY <1>5, <2>1, <2>2, ReceiveStep DEF RoundFails, mainVars
<1>6. CASE Write
  BY <1>6, WriteStep
<1>7. CASE WriteDone
  BY <1>7, IdleStep DEF WriteDone, netVars, mainVars
<1>8. CASE Exit
  BY <1>8, ExitStep
<1>9. CASE Arrive
  BY <1>9, ArriveStep
<1>10. CASE Signal
  <2>1. pc' = "dead" \/ pc' = pc
    BY <1>10 DEF Signal
  <2>2. CASE pc' = "dead"
    BY <1>10, <2>2, IdleStep DEF Signal, netVars, mainVars
  <2>3. CASE pc' = pc
    <3>1. /\ UNCHANGED <<arrived, rcvd, faults, flt, i, synced, written, spoiled>>
          /\ UNCHANGED overrun
      BY <1>10 DEF Signal, netVars, mainVars
    <3>2. Passed' = Passed
      BY <2>3, <3>1 DEF Passed
    <3> QED BY <2>3, <3>1, <3>2 DEF IInv, TypeInv, MainInv, InOrder, SaysTheSame
  <2> QED BY <2>1, <2>2, <2>3
<1>11. CASE BrokenPipe \/ Crash
  BY <1>11, IdleStep DEF BrokenPipe, Crash, netVars, mainVars
<1>12. CASE UNCHANGED vars
  <2>1. UNCHANGED <<pc, arrived, rcvd, faults, flt, i, synced, written, spoiled,
                    overrun>>
    BY <1>12 DEF vars, netVars, mainVars
  <2>2. Passed' = Passed
    BY <2>1 DEF Passed
  <2> QED BY <2>1, <2>2 DEF IInv, TypeInv, MainInv, InOrder, SaysTheSame
<1> QED BY <1>1, <1>2, <1>3, <1>4, <1>5, <1>6, <1>7, <1>8, <1>9, <1>10, <1>11, <1>12
        DEF Next, Step

\* The invariant holds when the process starts.
LEMMA InitHolds == Init => IInv
<1> SUFFICES ASSUME Init PROVE IInv
  OBVIOUS
<1>1. /\ pc = "off" /\ arrived = <<>> /\ rcvd = 0 /\ faults = <<>> /\ flt = <<>>
      /\ i = 0 /\ synced = FALSE /\ written = <<>>
  BY DEF Init
<1>2. MaxMsgs \in Nat
  BY ClientAssumption
<1>3. Passed = 0
  BY <1>1 DEF Passed
<1>4. TypeInv
  <2>1. /\ arrived \in Seq(Message) /\ faults \in Seq(Message) /\ flt \in Seq(Message)
        /\ written \in Seq(AllLines) /\ Len(arrived) = 0 /\ Len(flt) = 0
    BY <1>1
  <2>2. synced \in BOOLEAN
    BY <1>1
  <2> QED BY <1>1, <1>2, <2>1, <2>2 DEF TypeInv
<1>5. MainInv
  <2>1. ~overrun /\ ~synced
    BY DEF Init
  <2> QED BY <1>1, <1>3, <2>1 DEF MainInv
<1>6. InOrder /\ SaysTheSame
  BY <1>1, <1>3 DEF InOrder, SaysTheSame
<1> QED BY <1>4, <1>5, <1>6 DEF IInv

\* The invariant holds in every state of every behaviour.
LEMMA Invariant == Spec => []IInv
<1>1. IInv /\ [Next]_vars => IInv'
  BY Inductive
<1> QED BY <1>1, InitHolds, PTL DEF Spec

-----------------------------------------------------------------------------
(* The theorems.                                                           *)

\* No message is lost, doubled, overtaken or, within the array, changed on its
\* way from the callback to the fifo (get_faults, main), for any messages,
\* grouping into rounds, failures and signals, and any size of the array.
THEOREM ConservedCorrect == Spec => []Conserved
<1>1. IInv => Conserved
  BY DEF IInv, Conserved
<1> QED BY <1>1, Invariant, PTL

\* The client, with its rounds, arrays, signals and crashes, implements the
\* abstract writer that the models of the back end and the launcher use.
THEOREM Refinement == Spec => WritesLines
<1>1. Init => Line!LineInit
  BY DEF Init, Line!LineInit
<1>2. IInv /\ [Next]_vars => [Line!LineNext]_(Line!lineVars)
  <2> SUFFICES ASSUME IInv, [Next]_vars PROVE [Line!LineNext]_(Line!lineVars)
    OBVIOUS
  <2> USE DEF Line!lineVars, Line!LineNext
  <2>1. CASE Start
    BY <2>1 DEF Start, mainVars, Line!Start
  <2>2. CASE Fopen
    BY <2>2 DEF Fopen, mainVars, Line!Opened
  <2>3. CASE Setup \/ GetFaults \/ WriteDone \/ Arrive \/ Round \/ RoundQuiet \/ RoundFails
    BY <2>3 DEF Setup, GetFaults, WriteDone, Arrive, Round, RoundQuiet, RoundFails,
       mainVars
  <2>4. CASE SetupFails \/ BrokenPipe
    BY <2>4 DEF SetupFails, BrokenPipe, mainVars, Line!Gone
  <2>5. CASE Write
    <3>1. PICK l \in AllLines : LineFor(l) /\ written' = Append(written, l)
      BY <2>5, WriteFacts
    <3>2. /\ Passed = Len(written) /\ Passed \in Nat /\ Passed < rcvd
          /\ (synced <=> Passed > 0) /\ flt[i + 1] \in Message
      BY <2>5, WriteFacts
    <3>3. pc = "write" /\ pc' = "write"
      BY <2>5 DEF Write
    <3>4. CASE ~synced
      <4>1. l = SyncLine /\ written = <<>>
        BY <3>1, <3>2, <3>4 DEF LineFor, IInv, TypeInv
      <4>2. written' = <<SyncLine>>
        BY <3>1, <4>1
      <4> QED BY <3>3, <4>1, <4>2 DEF Line!WriteSync, Line!SyncLine, SyncLine
    <3>5. CASE synced
      <4>1. l \in AnyLine
        BY <3>1, <3>2, <3>5, LineOfMessage DEF LineFor
      <4>2. Len(written) \in 1..MaxMsgs
        <5>1. MaxMsgs \in Nat
          BY ClientAssumption
        <5>2. rcvd <= MaxMsgs /\ rcvd \in Nat
          BY <5>1 DEF IInv, TypeInv
        <5> QED BY <3>2, <3>5, <5>1, <5>2
      <4> QED BY <3>1, <3>3, <4>1, <4>2 DEF Line!WriteFault
    <3>6. synced \in BOOLEAN
      BY DEF IInv, TypeInv
    <3> QED BY <3>4, <3>5, <3>6
  <2>6. CASE Exit
    BY <2>6 DEF Exit, Line!WriteExit, Line!ExitLine, ExitLine
  <2>7. CASE Signal
    BY <2>7 DEF Signal, mainVars, Line!Gone
  <2>8. CASE Crash
    <3>1. pc \in {"fopen", "setup", "loop", "round", "write"}
      BY <2>8 DEF Crash, IInv, TypeInv, MainInv
    <3> QED BY <2>8, <3>1 DEF Crash, mainVars, Line!Gone
  <2>9. CASE UNCHANGED vars
    BY <2>9 DEF vars, mainVars
  <2> QED BY <2>1, <2>2, <2>3, <2>4, <2>5, <2>6, <2>7, <2>8, <2>9 DEF Next, Step
<1> QED BY <1>1, <1>2, Invariant, PTL DEF Spec, WritesLines, Line!LineSpec
=============================================================================

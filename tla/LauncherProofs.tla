--------------------------- MODULE LauncherProofs ---------------------------
(***************************************************************************)
(* Proofs about a run on a node (modules Launcher and Backend), for any    *)
(* set of processes, any faults and any number of lines and signals: the   *)
(* processes share the lines of the fifo, each keeps its network as its    *)
(* lines say, the fifo is removed by whoever created it, and the launcher  *)
(* leaves no client behind that does not know, but for one case.           *)
(***************************************************************************)
EXTENDS Launcher, TLAPS

AllLines == Faults \cup {SyncLine, ExitLine}

Early == {"off", "forked", "fopen", "fgetc"}
PcState == Early \cup {"select", "getline", "ended", "gone", "failed"}

-----------------------------------------------------------------------------
(* The invariant.                                                          *)

Types ==
    /\ written \in Seq(AllLines)
    /\ file \in {"none", "conduit", "other", "ordinary"} /\ stale \in BOOLEAN
    /\ created \in [Proc -> BOOLEAN]
    /\ pipe \in Seq(Nat)
    /\ buf \in [Proc -> Seq(Nat)] /\ taken \in [Proc -> Seq(Nat)]
    /\ pc \in [Proc -> PcState]
    /\ cmd \in [Proc -> Subsys \cup {"uninitialised"}]
    /\ netState \in [Proc -> {0, 1}]

\* Where the launcher is goes with the client.
ToldInv ==
    /\ forked => client = "off"
    /\ lpc \in {"fork", "stat"} => client = "off" /\ ~forked
    /\ lpc \in {"waitpid", "rewait"} => client # "off" \/ forked
    /\ lpc \in {"rewait", "done"} =>
          (client = "off" /\ ~forked) \/ client = "closed" \/ told \/ swallowed

\* Until the client has the fifo open there is only the first process, which
\* waits for it; if the client does not find the file, this one has removed it.
OpenInv ==
    client \in {"off", "fopen"} =>
        /\ pc[First] \in {"off", "forked", "fopen", "gone", "failed"}
        /\ \A p \in Proc \ {First} : pc[p] = "off"
        /\ (client = "fopen" \/ forked) /\ file = "none" => pc[First] = "failed"

NoneFailed == \A p \in Proc : pc[p] # "failed"

\* A fifo that was not there before has an owner that has not come to its end,
\* and only the first process owns the fifo that the client has open.  One that
\* was there has none, until a process fails to open it.
OwnerInv ==
    /\ stale /\ NoneFailed =>
          /\ file = "conduit"
          /\ \A p \in Proc : pc[p] \in {"fopen", "fgetc", "select", "getline"} => ~created[p]
    /\ ~stale /\ file \in {"conduit", "other"} =>
          \E p \in Proc : created[p] /\ pc[p] \notin {"off", "forked", "ended", "failed"}
    /\ \A p \in Proc : p # First /\ created[p] /\ pc[p] = "fopen" => file # "conduit"
    /\ file = "ordinary" => pc[First] = "failed"

\* Only the first process waits for a byte, and it is alone until it has it; a
\* process has no lines before its loop, except for the one it waits for.
StartInv ==
    /\ \A p \in Proc : pc[p] = "fgetc" => p = First
    /\ pc[First] \in Early => \A p \in Proc \ {First} : pc[p] = "off"
    /\ \A p \in Proc : pc[p] \in Early =>
          taken[p] = <<>> /\ buf[p] = <<>> /\ cmd[p] = "uninitialised" /\ netState[p] = 0

\* The signal, or the end, is the first line that is written, and the first
\* one that a process takes.
LineInv ==
    /\ \A k \in 1..Len(written) : IF k = 1 THEN written[k] \in {SyncLine, ExitLine}
                                  ELSE written[k] \in Faults \cup {ExitLine}
    /\ \A p \in Proc : Alive(p) =>
          \A k \in 1..Len(taken[p]) : k > 1 => written[taken[p][k]] \in Faults

\* The variable cmd is what the last lines say, and so is the network.
NetInv ==
    \A p \in Proc : Alive(p) /\ ~Guessed(p) =>
        /\ cmd[p] = "uninitialised" <=> \A k \in DOMAIN taken[p] : TakenComp(p, k) \notin Subsys
        /\ cmd[p] = "net" <=> IsNet(p, Len(taken[p]))
        /\ netState[p] = 1 <=> SaysDown(p)

ReadInv == Types /\ OwnerInv /\ StartInv /\ SharedOnce /\ LineInv /\ NetInv

NodeInv == ReadInv /\ ToldInv /\ OpenInv

-----------------------------------------------------------------------------
(* Sequences of line numbers.                                              *)

\* Two sequences end to end: type, length and entries.
LEMMA ConcatFacts ==
    ASSUME NEW S, NEW s \in Seq(S), NEW t \in Seq(S)
    PROVE  /\ s \o t \in Seq(S)
           /\ Len(s \o t) = Len(s) + Len(t)
           /\ \A k \in 1..Len(s) : (s \o t)[k] = s[k]
           /\ \A k \in (Len(s) + 1)..(Len(s) + Len(t)) : (s \o t)[k] = t[k - Len(s)]
  OBVIOUS

\* Equal lengths and entries make equal sequences.
LEMMA SameSeq ==
    ASSUME NEW S, NEW s \in Seq(S), NEW t \in Seq(S), Len(s) = Len(t),
           \A k \in 1..Len(s) : s[k] = t[k]
    PROVE  s = t
<1>1. DOMAIN s = 1..Len(s) /\ DOMAIN t = 1..Len(s)
  OBVIOUS
<1>2. s = [k \in DOMAIN s |-> s[k]] /\ t = [k \in DOMAIN t |-> t[k]]
  OBVIOUS
<1> QED BY <1>1, <1>2

\* getline moves the head of what was read behind the lines taken so far.
LEMMA MoveHead ==
    ASSUME NEW s \in Seq(Nat), NEW t \in Seq(Nat), t # <<>>
    PROVE  /\ Append(s, Head(t)) \in Seq(Nat) /\ Tail(t) \in Seq(Nat)
           /\ Append(s, Head(t)) \o Tail(t) = s \o t
<1>1. /\ Head(t) \in Nat /\ Tail(t) \in Seq(Nat) /\ Len(t) \in Nat \ {0}
      /\ Len(Tail(t)) = Len(t) - 1 /\ Head(t) = t[1]
      /\ \A k \in 1..(Len(t) - 1) : Tail(t)[k] = t[k + 1]
  OBVIOUS
<1> DEFINE a == Append(s, Head(t))
<1>2. /\ a \in Seq(Nat) /\ Len(a) = Len(s) + 1 /\ a[Len(s) + 1] = t[1]
      /\ \A k \in 1..Len(s) : a[k] = s[k]
  BY <1>1
<1>3. /\ a \o Tail(t) \in Seq(Nat) /\ s \o t \in Seq(Nat)
      /\ Len(a \o Tail(t)) = Len(a) + Len(Tail(t)) /\ Len(s \o t) = Len(s) + Len(t)
      /\ Len(s) \in Nat
  BY <1>1, <1>2
<1> HIDE DEF a
<1>4. ASSUME NEW k \in 1..(Len(s) + Len(t))
      PROVE  (a \o Tail(t))[k] = (s \o t)[k]
  <2>1. CASE k <= Len(s)
    BY <1>1, <1>2, <2>1
  <2>2. CASE k = Len(s) + 1
    BY <1>1, <1>2, <2>2
  <2>3. CASE k > Len(s) + 1
    BY <1>1, <1>2, <2>3
  <2>4. k \in Nat /\ Len(s) \in Nat
    BY <1>1, <1>3
  <2>5. k <= Len(s) \/ k = Len(s) + 1 \/ k > Len(s) + 1
    BY <2>4
  <2> QED BY <2>1, <2>2, <2>3, <2>5
<1>5. a \o Tail(t) = s \o t
  <2>1. Len(a \o Tail(t)) = Len(s) + Len(t)
    BY <1>1, <1>2, <1>3
  <2> QED BY <1>3, <1>4, <2>1, SameSeq
<1> QED BY <1>1, <1>2, <1>5 DEF a

\* What is in two sequences end to end.
LEMMA ConcatElements ==
    ASSUME NEW s \in Seq(Nat), NEW t \in Seq(Nat)
    PROVE  Elements(s \o t) = Elements(s) \cup Elements(t)
<1>1. DOMAIN s = 1..Len(s) /\ DOMAIN t = 1..Len(t) /\ DOMAIN (s \o t) = 1..(Len(s) + Len(t))
  OBVIOUS
<1>2. ASSUME NEW x \in Elements(s \o t) PROVE x \in Elements(s) \cup Elements(t)
  <2>1. PICK k \in 1..(Len(s) + Len(t)) : x = (s \o t)[k]
    BY <1>1, <1>2 DEF Elements
  <2>2. CASE k <= Len(s)
    BY <2>1, <2>2, <1>1 DEF Elements
  <2>3. CASE k > Len(s)
    <3>1. k - Len(s) \in 1..Len(t) /\ x = t[k - Len(s)]
      BY <2>1, <2>3
    <3> QED BY <3>1, <1>1 DEF Elements
  <2> QED BY <2>2, <2>3
<1>3. ASSUME NEW x \in Elements(s) PROVE x \in Elements(s \o t)
  <2>1. PICK k \in 1..Len(s) : x = s[k]
    BY <1>1, <1>3 DEF Elements
  <2>2. k \in 1..(Len(s) + Len(t)) /\ x = (s \o t)[k]
    BY <2>1
  <2> QED BY <2>2, <1>1 DEF Elements
<1>4. ASSUME NEW x \in Elements(t) PROVE x \in Elements(s \o t)
  <2>1. PICK k \in 1..Len(t) : x = t[k]
    BY <1>1, <1>4 DEF Elements
  <2>2. Len(s) + k \in 1..(Len(s) + Len(t)) /\ x = (s \o t)[Len(s) + k]
    BY <2>1
  <2> QED BY <2>2, <1>1 DEF Elements
<1> QED BY <1>2, <1>3, <1>4

\* The parts of a rising sequence rise, and have nothing in common.
LEMMA RisingParts ==
    ASSUME NEW s \in Seq(Nat), NEW t \in Seq(Nat), Rising(s \o t)
    PROVE  Rising(s) /\ Rising(t) /\ Elements(s) \cap Elements(t) = {}
<1>1. DOMAIN s = 1..Len(s) /\ DOMAIN t = 1..Len(t) /\ DOMAIN (s \o t) = 1..(Len(s) + Len(t))
  OBVIOUS
<1>2. Rising(s)
  <2> SUFFICES ASSUME NEW i \in 1..Len(s), NEW j \in 1..Len(s), i < j PROVE s[i] < s[j]
    BY <1>1 DEF Rising
  <2>1. i \in DOMAIN (s \o t) /\ j \in DOMAIN (s \o t)
    BY <1>1
  <2>2. (s \o t)[i] < (s \o t)[j]
    BY <2>1 DEF Rising
  <2> QED BY <2>2
<1>3. Rising(t)
  <2> SUFFICES ASSUME NEW i \in 1..Len(t), NEW j \in 1..Len(t), i < j PROVE t[i] < t[j]
    BY <1>1 DEF Rising
  <2>1. /\ Len(s) + i \in DOMAIN (s \o t) /\ Len(s) + j \in DOMAIN (s \o t)
        /\ Len(s) + i < Len(s) + j
    BY <1>1
  <2>2. (s \o t)[Len(s) + i] < (s \o t)[Len(s) + j]
    BY <2>1 DEF Rising
  <2> QED BY <2>2
<1>4. ASSUME NEW i \in 1..Len(s), NEW j \in 1..Len(t) PROVE s[i] # t[j]
  <2>1. i \in DOMAIN (s \o t) /\ Len(s) + j \in DOMAIN (s \o t) /\ i < Len(s) + j
    BY <1>1
  <2>2. (s \o t)[i] < (s \o t)[Len(s) + j]
    BY <2>1 DEF Rising
  <2>3. s[i] < t[j] /\ s[i] \in Nat /\ t[j] \in Nat
    BY <2>2
  <2> QED BY <2>3
<1> QED BY <1>1, <1>2, <1>3, <1>4 DEF Elements

\* A number above all of a rising sequence can be added at its end.
LEMMA RisingAppend ==
    ASSUME NEW s \in Seq(Nat), NEW t \in Seq(Nat), NEW e \in Nat, Rising(s \o t),
           \A x \in Elements(s \o t) : x < e
    PROVE  Rising(s \o Append(t, e))
<1> DEFINE u == s \o Append(t, e)
           n == Len(s) + Len(t)
<1>1. /\ DOMAIN (s \o t) = 1..n /\ DOMAIN u = 1..(n + 1) /\ n \in Nat /\ u[n + 1] = e
      /\ \A k \in 1..n : u[k] = (s \o t)[k]
  OBVIOUS
<1> HIDE DEF u, n
<1>2. ASSUME NEW i \in 1..(n + 1), NEW j \in 1..(n + 1), i < j PROVE u[i] < u[j]
  <2>1. CASE j <= n
    <3>1. i \in 1..n /\ j \in 1..n
      BY <1>1, <1>2, <2>1
    <3> QED BY <1>1, <1>2, <3>1 DEF Rising
  <2>2. CASE j = n + 1
    <3>1. i \in 1..n
      BY <1>1, <1>2, <2>2
    <3>2. (s \o t)[i] \in Elements(s \o t)
      BY <1>1, <3>1 DEF Elements
    <3> QED BY <1>1, <2>2, <3>1, <3>2
  <2> QED BY <1>1, <2>1, <2>2
<1>3. Rising(u)
  BY <1>1, <1>2 DEF Rising
<1> QED BY <1>3 DEF u

-----------------------------------------------------------------------------
(* Every line is with exactly one process.                                 *)

\* What a process holds is typed, and was written.
LEMMA HoldsFacts ==
    ASSUME Types, SharedOnce, NEW p \in Proc
    PROVE  /\ taken[p] \in Seq(Nat) /\ buf[p] \in Seq(Nat) /\ Holds(p) \in Seq(Nat)
           /\ Rising(Holds(p)) /\ Elements(Holds(p)) \cap Elements(pipe) = {}
           /\ Elements(Holds(p)) = Elements(taken[p]) \cup Elements(buf[p])
           /\ Elements(Holds(p)) \subseteq 1..Len(written)
           /\ Elements(pipe) \subseteq 1..Len(written)
<1>1. /\ taken[p] \in Seq(Nat) /\ buf[p] \in Seq(Nat) /\ pipe \in Seq(Nat)
      /\ Holds(p) \in Seq(Nat)
  BY DEF Types, Holds
<1>2. Rising(Holds(p) \o pipe)
  BY DEF SharedOnce
<1>3. Rising(Holds(p)) /\ Elements(Holds(p)) \cap Elements(pipe) = {}
  BY <1>1, <1>2, RisingParts
<1>4. Elements(Holds(p)) = Elements(taken[p]) \cup Elements(buf[p])
  BY <1>1, ConcatElements DEF Holds
<1>5. 1..Len(written) = Elements(pipe) \cup UNION {Elements(Holds(q)) : q \in Proc}
  BY DEF SharedOnce
<1> QED BY <1>1, <1>3, <1>4, <1>5

\* getline or fgetc takes a line out of the buffer, which it has filled with
\* all that was in the pipe when it was empty.
LEMMA TakeShared ==
    ASSUME Types, SharedOnce, NEW p \in Proc, Take(p), UNCHANGED written
    PROVE  /\ pipe' \in Seq(Nat)
           /\ buf' \in [Proc -> Seq(Nat)] /\ taken' \in [Proc -> Seq(Nat)]
           /\ SharedOnce'
<1> DEFINE f == Filled(p)
<1>1. /\ buf \in [Proc -> Seq(Nat)] /\ taken \in [Proc -> Seq(Nat)] /\ pipe \in Seq(Nat)
      /\ f \in Seq(Nat) /\ f # <<>>
  BY DEF Types, Take, Filled
<1>2. /\ buf' = [buf EXCEPT ![p] = Tail(f)]
      /\ taken' = [taken EXCEPT ![p] = Append(taken[p], Head(f))]
      /\ pipe' = IF buf[p] # <<>> THEN pipe ELSE <<>>
  BY DEF Take
<1>3. f = IF buf[p] # <<>> THEN buf[p] ELSE pipe
  BY DEF Filled
<1> HIDE DEF f
<1>4. /\ Append(taken[p], Head(f)) \in Seq(Nat) /\ Tail(f) \in Seq(Nat)
      /\ Append(taken[p], Head(f)) \o Tail(f) = taken[p] \o f
  BY <1>1, MoveHead
<1>5. /\ pipe' \in Seq(Nat)
      /\ buf' \in [Proc -> Seq(Nat)] /\ taken' \in [Proc -> Seq(Nat)]
  BY <1>1, <1>2, <1>4
<1>6. Holds(p)' = taken[p] \o f
  BY <1>1, <1>2, <1>4 DEF Holds
<1>7. \A q \in Proc : q # p => Holds(q)' = Holds(q)
  BY <1>1, <1>2 DEF Holds
<1>8. SharedOnce'
  <2>1. CASE buf[p] # <<>>
    <3>1. pipe' = pipe /\ Holds(p)' = Holds(p)
      BY <1>2, <1>3, <1>6, <2>1 DEF Holds
    <3>2. \A q \in Proc : Holds(q)' = Holds(q)
      BY <1>7, <3>1
    <3>3. \A q \in Proc : Rising(Holds(q) \o pipe)'
      BY <3>1, <3>2 DEF SharedOnce, Rising
    <3>4. \A q, r \in Proc : q # r => Elements(Holds(q)') \cap Elements(Holds(r)') = {}
      BY <3>2 DEF SharedOnce
    <3>5. 1..Len(written') = Elements(pipe') \cup UNION {Elements(Holds(q)') : q \in Proc}
      BY <3>1, <3>2 DEF SharedOnce
    <3> QED BY <3>3, <3>4, <3>5 DEF SharedOnce, Elements
  <2>2. CASE buf[p] = <<>>
    <3>1. pipe' = <<>> /\ f = pipe
      BY <1>2, <1>3, <2>2
    <3>2. taken[p] \in Seq(Nat) /\ Holds(p) = taken[p]
      BY <1>1, <2>2 DEF Holds
    <3>3. Holds(p)' = Holds(p) \o pipe
      BY <1>6, <3>1, <3>2
    <3>4. \A q \in Proc : Holds(q)' \in Seq(Nat)
      BY <1>5 DEF Holds
    <3>5. ASSUME NEW q \in Proc PROVE Rising(Holds(q)' \o pipe')
      <4>1. Holds(q)' \o pipe' = Holds(q)'
        BY <3>1, <3>4
      <4>2. CASE q = p
        BY <3>3, <4>1, <4>2 DEF SharedOnce
      <4>3. CASE q # p
        BY <1>7, <4>1, <4>3, HoldsFacts
      <4> QED BY <4>2, <4>3
    <3>6. /\ Elements(Holds(p)') = Elements(Holds(p)) \cup Elements(pipe)
          /\ Elements(pipe') = {}
      <4>1. Holds(p) \in Seq(Nat)
        BY <3>2
      <4>2. DOMAIN pipe' = {}
        BY <3>1
      <4>3. Elements(pipe') = {}
        BY <4>2 DEF Elements
      <4> QED BY <1>1, <3>3, <4>1, <4>3, ConcatElements
    <3>7. ASSUME NEW q \in Proc, NEW r \in Proc, q # r
          PROVE  Elements(Holds(q)') \cap Elements(Holds(r)') = {}
      <4>1. /\ Elements(Holds(q)) \cap Elements(Holds(r)) = {}
            /\ Elements(Holds(q)) \cap Elements(pipe) = {}
            /\ Elements(Holds(r)) \cap Elements(pipe) = {}
        BY <3>7, HoldsFacts DEF SharedOnce
      <4>2. CASE q = p
        BY <1>7, <3>6, <3>7, <4>1, <4>2
      <4>3. CASE r = p
        BY <1>7, <3>6, <3>7, <4>1, <4>3
      <4>4. CASE q # p /\ r # p
        BY <1>7, <4>1, <4>4
      <4> QED BY <4>2, <4>3, <4>4
    <3>8. 1..Len(written') = Elements(pipe') \cup UNION {Elements(Holds(q)') : q \in Proc}
      <4>1. 1..Len(written) = Elements(pipe) \cup UNION {Elements(Holds(q)) : q \in Proc}
        BY DEF SharedOnce
      <4>2. ASSUME NEW x \in 1..Len(written)
            PROVE  \E q \in Proc : x \in Elements(Holds(q)')
        BY <1>7, <3>6, <4>1, <4>2
      <4>3. ASSUME NEW q \in Proc, NEW x \in Elements(Holds(q)')
            PROVE  x \in 1..Len(written)
        BY <1>7, <3>6, <4>1, <4>3
      <4> QED BY <3>6, <4>2, <4>3
    <3> QED BY <3>5, <3>7, <3>8 DEF SharedOnce, Elements, Rising
  <2> QED BY <2>1, <2>2
<1> QED BY <1>5, <1>8

\* The client's next line goes to the end of the pipe.
LEMMA WriteShared ==
    ASSUME Types, SharedOnce, NEW n, n = Len(written) + 1, Len(written') = n,
           pipe' = Append(pipe, n), UNCHANGED <<buf, taken>>
    PROVE  pipe' \in Seq(Nat) /\ SharedOnce'
<1>1. pipe \in Seq(Nat) /\ Len(written) \in Nat /\ n \in Nat /\ pipe' \in Seq(Nat)
  BY DEF Types
<1>2. \A q \in Proc : Holds(q)' = Holds(q) /\ Holds(q) \in Seq(Nat)
  BY HoldsFacts DEF Holds
<1>3. Elements(pipe') = Elements(pipe) \cup {n}
  <2>1. /\ DOMAIN pipe = 1..Len(pipe) /\ DOMAIN pipe' = 1..(Len(pipe) + 1)
        /\ Len(pipe) \in Nat /\ pipe'[Len(pipe) + 1] = n
        /\ \A k \in 1..Len(pipe) : pipe'[k] = pipe[k]
    BY <1>1
  <2>2. 1..(Len(pipe) + 1) = 1..Len(pipe) \cup {Len(pipe) + 1}
    BY <2>1
  <2> QED BY <2>1, <2>2 DEF Elements
<1>4. ASSUME NEW q \in Proc PROVE Rising(Holds(q)' \o pipe')
  <2>1. Rising(Holds(q) \o pipe) /\ Elements(Holds(q) \o pipe) = Elements(Holds(q)) \cup Elements(pipe)
    BY <1>1, <1>2, ConcatElements DEF SharedOnce
  <2>2. \A x \in Elements(Holds(q) \o pipe) : x < n
    BY <1>1, <2>1, HoldsFacts
  <2> QED BY <1>1, <1>2, <2>1, <2>2, RisingAppend
<1>5. 1..Len(written') = Elements(pipe') \cup UNION {Elements(Holds(q)') : q \in Proc}
  <2>1. 1..Len(written) = Elements(pipe) \cup UNION {Elements(Holds(q)) : q \in Proc}
    BY DEF SharedOnce
  <2>2. 1..n = 1..Len(written) \cup {n}
    BY <1>1
  <2> QED BY <1>2, <1>3, <2>1, <2>2
<1>6. \A q, r \in Proc : q # r => Elements(Holds(q)') \cap Elements(Holds(r)') = {}
  BY <1>2 DEF SharedOnce
<1> QED BY <1>1, <1>4, <1>5, <1>6 DEF SharedOnce, Elements, Rising

-----------------------------------------------------------------------------
(* The launcher and the client.                                            *)

\* What a signal for the client does to it.
LEMMA SignalFacts ==
    ASSUME SignalClient, client # "off" \/ forked
    PROVE  client' = "closed" \/ told' \/ swallowed'
  BY DEF SignalClient

\* Every step keeps client and launcher together.
LEMMA ToldStep ==
    ASSUME ToldInv, [LNext]_allVars
    PROVE  ToldInv'
<1> USE DEF ToldInv
<1>1. CASE LauncherStep
  BY <1>1 DEF LauncherStep, Refuse, ForkApp, ForkAppFails, ForkClient, WaitReturns,
              Launch, vars, lineVars, childVars
<1>7. CASE ChildStep
  BY <1>7 DEF ChildStep, Execv, ExecvFails, Start
<1>2. CASE Terminate \/ Interrupt
  <2>1. \/ lpc = "waitpid" /\ lpc' = "rewait"
        \/ lpc = "rewait" /\ lpc' = "done"
        \/ lpc \in {"fork", "stat"} /\ lpc' = lpc
        \/ lpc \notin {"fork", "stat", "waitpid", "rewait", "done"} /\ lpc' = lpc
    BY <1>2 DEF Terminate, Interrupt, Handler
  <2>2. /\ SignalClient \/ (lpc # "waitpid" /\ UNCHANGED <<client, told, swallowed>>)
        /\ UNCHANGED forked
    BY <1>2 DEF Terminate, Interrupt
  <2>3. /\ client = "off" => client' = "off"
        /\ client # "off" => client' # "off"
        /\ client = "closed" => client' = "closed"
        /\ told => told'
    BY <2>2 DEF SignalClient
  <2>5. swallowed => swallowed'
    <3>1. CASE SignalClient
      BY <3>1, Zenon DEF SignalClient
    <3> QED BY <2>2, <3>1
  <2>4. CASE lpc = "waitpid"
    BY <2>1, <2>2, <2>3, <2>4, SignalFacts
  <2> QED BY <2>1, <2>2, <2>3, <2>4, <2>5
<1>3. CASE ClientStep
  BY <1>3 DEF ClientStep, ClientCreates, Opened, Write, WriteSync, WriteFault, WriteExit,
              ClientGone, Gone, launchVars, childVars
<1>4. CASE KilledByOther
  BY <1>4 DEF KilledByOther, ClientGone, Gone, Killed, lineVars
<1>5. CASE \E p \in Proc : AppStep(p)
  <2>1. /\ UNCHANGED launchVars
        /\ Opened \/ UNCHANGED client
    BY <1>5 DEF AppStep, Thread, Fails, Mkfifo, MkfifoFails, Fopen, FopenFails, Fgetc,
         SelectLine, SelectClose, GetlineEOF, GetlineEmpty, GetlineExit, GetlineFault,
         Spawn, AppExit, lineVars
  <2> QED BY <2>1 DEF Opened, launchVars, childVars
<1>6. CASE UNCHANGED allVars
  BY <1>6 DEF allVars, vars, lineVars, launchVars, childVars
<1> QED BY <1>1, <1>2, <1>3, <1>4, <1>5, <1>6, <1>7 DEF LNext

\* Every step keeps the processes waiting for the client.
LEMMA OpenStep ==
    ASSUME ToldInv, OpenInv, pc \in [Proc -> PcState], [LNext]_allVars
    PROVE  OpenInv'
<1> USE DEF OpenInv
<1>1. CASE LauncherStep \/ Terminate \/ ClientStep \/ UNCHANGED allVars
  <2>1. CASE ForkApp
    <3>1. /\ pc[First] = "off" /\ pc' = [pc EXCEPT ![First] = "forked"]
          /\ UNCHANGED <<client, forked>> /\ client = "off" /\ ~forked
      BY <2>1 DEF ForkApp, Launch, Goto, ToldInv, lineVars, childVars
    <3> QED BY <3>1, ProcAssumption
  <2>2. CASE ForkClient
    BY <2>2 DEF ForkClient, vars, lineVars
  <2>3. CASE Refuse \/ ForkAppFails \/ WaitReturns \/ UNCHANGED allVars
    <3>1. UNCHANGED <<pc, file, client, forked>>
      BY <2>3 DEF Refuse, ForkAppFails, WaitReturns, allVars, vars, lineVars, launchVars, childVars
    <3> QED BY <3>1
  <2>4. CASE Terminate
    <3>1. UNCHANGED <<pc, file, forked>> /\ (client' = client \/ client' = "closed")
      BY <2>4 DEF Terminate, SignalClient
    <3> QED BY <3>1
  <2>5. CASE ClientStep
    <3>1. client' \in {"open", "closed"}
      BY <2>5 DEF ClientStep, ClientCreates, Opened, Write, WriteSync, WriteFault, WriteExit,
                  ClientGone, Gone
    <3> QED BY <3>1
  <2> QED BY <1>1, <2>1, <2>2, <2>3, <2>4, <2>5 DEF LauncherStep
<1>2. CASE ChildStep \/ Interrupt \/ KilledByOther
  <2>1. CASE Execv
    BY <2>1 DEF Execv, Start, ToldInv
  <2>2. CASE ExecvFails
    BY <2>2 DEF ExecvFails
  <2>3. CASE Interrupt \/ KilledByOther
    <3>1. /\ UNCHANGED file
          /\ (client' = client /\ UNCHANGED forked) \/ client' = "closed"
      BY <2>3 DEF Interrupt, SignalClient, KilledByOther, ClientGone, Gone, Killed, lineVars
    <3>2. \A p \in Proc : pc'[p] = pc[p] \/ (Alive(p) /\ pc'[p] = "gone")
      BY <2>3 DEF Interrupt, KillAll, KilledByOther, ClientGone, Killed, Goto
    <3>3. \A p \in Proc : pc[p] \in {"off", "failed"} => pc'[p] = pc[p]
      BY <3>2 DEF Alive
    <3> QED BY <3>1, <3>2, <3>3, ProcAssumption
  <2> QED BY <1>2, <2>1, <2>2, <2>3 DEF ChildStep
<1>3. ASSUME NEW p \in Proc, AppStep(p) PROVE OpenInv'
  <2> SUFFICES ASSUME client' \in {"off", "fopen"} PROVE OpenInv'
    OBVIOUS
  <2>1. UNCHANGED <<client, forked>> \/ Fopen(p)
    BY <1>3 DEF AppStep, Thread, Fails, Mkfifo, MkfifoFails, FopenFails, Fgetc,
         SelectLine, SelectClose, GetlineEOF, GetlineEmpty, GetlineExit, GetlineFault,
         Spawn, AppExit, lineVars, launchVars, childVars
  <2>2. UNCHANGED <<client, forked>> /\ ~Fopen(p)
    <3>1. ~Fopen(p)
      BY DEF Fopen, Opened, lineVars
    <3> QED BY <2>1, <3>1
  <2>3. \A q \in Proc : pc[q] \notin {"fgetc", "select", "getline"}
    BY <2>2
  <2>4. \/ Mkfifo(p) \/ MkfifoFails(p) \/ FopenFails(p)
    BY <1>3, <2>2, <2>3 DEF AppStep, Thread, Fails, Fgetc, SelectLine, SelectClose,
         GetlineEOF, GetlineEmpty, GetlineExit, GetlineFault, Spawn, AppExit, Running
  <2>5. /\ p = First /\ pc[p] \in {"forked", "fopen"}
        /\ \A q \in Proc : q # p => pc'[q] = pc[q]
        /\ \/ pc'[p] = "fopen" /\ (file' = file \/ file' # "none")
           \/ pc'[p] = "failed"
    BY <2>2, <2>4 DEF Mkfifo, MkfifoFails, FopenFails, Goto
  <2> QED BY <2>2, <2>5, ProcAssumption
<1> QED BY <1>1, <1>2, <1>3 DEF LNext

-----------------------------------------------------------------------------
(* What the lines of a process say.                                        *)

\* What a process took so far says the same as before, with the line it takes
\* now or without one, while the client may write another one.
LEMMA KeepsLines ==
    ASSUME NEW p \in Proc, taken[p] \in Seq(Nat), taken'[p] \in Seq(Nat),
           Len(taken[p]) <= Len(taken'[p]),
           \A k \in 1..Len(taken[p]) : taken'[p][k] = taken[p][k],
           \A k \in 1..Len(taken[p]) : written'[taken[p][k]] = written[taken[p][k]]
    PROVE  /\ \A k \in 1..Len(taken[p]) : TakenComp(p, k)' = TakenComp(p, k)
           /\ \A k \in 0..Len(taken[p]) : IsNet(p, k)' <=> IsNet(p, k)
           /\ Guessed(p) => Guessed(p)'
<1>1. /\ DOMAIN taken[p] = 1..Len(taken[p]) /\ DOMAIN taken'[p] = 1..Len(taken'[p])
      /\ Len(taken[p]) \in Nat /\ Len(taken'[p]) \in Nat
  OBVIOUS
<1>2. \A k \in 1..Len(taken[p]) : TakenComp(p, k)' = TakenComp(p, k)
  BY DEF TakenComp
<1>3. ASSUME NEW k \in 0..Len(taken[p]) PROVE IsNet(p, k)' <=> IsNet(p, k)
  <2>1. \A j \in 1..k : TakenComp(p, j)' = TakenComp(p, j)
    BY <1>1, <1>2
  <2>2. \A j \in 1..k : \A m \in (j + 1)..k : TakenComp(p, m)' = TakenComp(p, m)
    BY <1>1, <1>2
  <2> QED BY <2>1, <2>2 DEF IsNet
<1>4. ASSUME Guessed(p) PROVE Guessed(p)'
  <2>1. PICK k \in 1..Len(taken[p]) : /\ TakenComp(p, k) = "other"
                                      /\ \A j \in 1..k : TakenComp(p, j) \notin Subsys
    BY <1>1, <1>4 DEF Guessed
  <2>2. k \in DOMAIN taken'[p] /\ \A j \in 1..k : j \in 1..Len(taken[p])
    BY <1>1
  <2> QED BY <1>2, <2>1, <2>2 DEF Guessed
<1> QED BY <1>2, <1>3, <1>4

\* A process that takes no line is told nothing.
LEMMA SameLines ==
    ASSUME NEW p \in Proc, taken[p] \in Seq(Nat), taken'[p] = taken[p],
           \A k \in 1..Len(taken[p]) : written'[taken[p][k]] = written[taken[p][k]]
    PROVE  /\ \A k \in 1..Len(taken[p]) : TakenComp(p, k)' = TakenComp(p, k)
           /\ IsNet(p, Len(taken[p]))' <=> IsNet(p, Len(taken[p]))
           /\ Guessed(p)' <=> Guessed(p)
           /\ SaysDown(p)' <=> SaysDown(p)
<1>1. /\ DOMAIN taken[p] = 1..Len(taken[p]) /\ Len(taken[p]) \in Nat
      /\ 1..Len(taken[p]) \subseteq 0..Len(taken[p]) /\ Len(taken[p]) \in 0..Len(taken[p])
  OBVIOUS
<1>2. /\ \A k \in 1..Len(taken[p]) : TakenComp(p, k)' = TakenComp(p, k)
      /\ \A k \in 0..Len(taken[p]) : IsNet(p, k)' <=> IsNet(p, k)
  BY <1>1, KeepsLines
<1>3. \A k \in DOMAIN taken[p] : \A j \in 1..k : TakenComp(p, j)' = TakenComp(p, j)
  BY <1>1, <1>2
<1>4. Guessed(p)' <=> Guessed(p)
  BY <1>1, <1>2, <1>3 DEF Guessed
<1>5. SaysDown(p)' <=> SaysDown(p)
  BY <1>1, <1>2 DEF SaysDown
<1> QED BY <1>1, <1>2, <1>4, <1>5

\* The part of the invariant about one process, for a step that leaves its
\* lines and its network alone.
LEMMA SameNet ==
    ASSUME Types, NetInv, NEW p \in Proc, Alive(p), UNCHANGED <<taken[p], cmd[p], netState[p]>>,
           \A k \in 1..Len(taken[p]) : written'[taken[p][k]] = written[taken[p][k]]
    PROVE  ~Guessed(p)' =>
              /\ cmd'[p] = "uninitialised" <=> \A k \in DOMAIN taken'[p] : TakenComp(p, k)' \notin Subsys
              /\ cmd'[p] = "net" <=> IsNet(p, Len(taken[p]))'
              /\ netState'[p] = 1 <=> SaysDown(p)'
<1>1. taken[p] \in Seq(Nat) /\ DOMAIN taken[p] = 1..Len(taken[p])
  BY DEF Types
<1> QED BY <1>1, SameLines DEF NetInv

\* One more line: what the lines of a process say after it.
LEMMA NextLine ==
    ASSUME NEW p \in Proc, taken[p] \in Seq(Nat), NEW h \in Nat,
           taken'[p] = Append(taken[p], h), UNCHANGED written,
           NEW K, K = Len(taken[p]) + 1
    PROVE  /\ K \in Nat /\ DOMAIN taken'[p] = 1..K /\ TakenComp(p, K)' = written[h].comp
           /\ Len(taken'[p]) = K
           /\ \A k \in 1..(K - 1) : TakenComp(p, k)' = TakenComp(p, k)
           /\ Guessed(p) => Guessed(p)'
           /\ IsNet(p, K)' <=> \/ written[h].comp = "net"
                               \/ written[h].comp = "other" /\ IsNet(p, K - 1)
           /\ SaysDown(p)' <=> IF IsNet(p, K)' THEN written[h].sev # 0 ELSE SaysDown(p)
<1>1. /\ K \in Nat \ {0} /\ DOMAIN taken'[p] = 1..K /\ DOMAIN taken[p] = 1..(K - 1)
      /\ taken'[p] \in Seq(Nat) /\ Len(taken'[p]) = K /\ Len(taken[p]) = K - 1
      /\ taken'[p][K] = h /\ \A k \in 1..(K - 1) : taken'[p][k] = taken[p][k]
  OBVIOUS
<1>2. TakenComp(p, K)' = written[h].comp
  BY <1>1 DEF TakenComp
<1>3. /\ \A k \in 1..(K - 1) : TakenComp(p, k)' = TakenComp(p, k)
      /\ \A k \in 0..(K - 1) : IsNet(p, k)' <=> IsNet(p, k)
      /\ Guessed(p) => Guessed(p)'
  <2>1. Len(taken[p]) <= Len(taken'[p])
    BY <1>1
  <2>2. \A k \in 1..Len(taken[p]) : /\ taken'[p][k] = taken[p][k]
                                    /\ written'[taken[p][k]] = written[taken[p][k]]
    BY <1>1
  <2> QED BY <1>1, <2>1, <2>2, KeepsLines
<1>4. IsNet(p, K)' <=> \/ written[h].comp = "net"
                       \/ written[h].comp = "other" /\ IsNet(p, K - 1)
  <2>1. ASSUME IsNet(p, K)'
        PROVE  written[h].comp = "net" \/ (written[h].comp = "other" /\ IsNet(p, K - 1)')
    <3>1. PICK j \in 1..K : /\ TakenComp(p, j)' = "net"
                            /\ \A m \in (j + 1)..K : TakenComp(p, m)' = "other"
      BY <2>1 DEF IsNet
    <3>2. CASE j = K
      BY <1>2, <3>1, <3>2
    <3>3. CASE j # K
      <4>1. j \in 1..(K - 1) /\ K \in (j + 1)..K /\ \A m \in (j + 1)..(K - 1) : m \in (j + 1)..K
        BY <1>1, <3>3
      <4> QED BY <1>2, <3>1, <4>1 DEF IsNet
    <3> QED BY <3>2, <3>3
  <2>2. ASSUME written[h].comp = "net" PROVE IsNet(p, K)'
    <3>1. K \in 1..K /\ (K + 1)..K = {}
      BY <1>1
    <3> QED BY <1>2, <2>2, <3>1 DEF IsNet
  <2>3. ASSUME written[h].comp = "other", IsNet(p, K - 1)' PROVE IsNet(p, K)'
    <3>1. PICK j \in 1..(K - 1) : /\ TakenComp(p, j)' = "net"
                                  /\ \A m \in (j + 1)..(K - 1) : TakenComp(p, m)' = "other"
      BY <2>3 DEF IsNet
    <3>2. j \in 1..K /\ \A m \in (j + 1)..K : m = K \/ m \in (j + 1)..(K - 1)
      BY <1>1
    <3> QED BY <1>2, <2>3, <3>1, <3>2 DEF IsNet
  <2>4. IsNet(p, K - 1)' <=> IsNet(p, K - 1)
    BY <1>1, <1>3
  <2> QED BY <2>1, <2>2, <2>3, <2>4
<1>5. SaysDown(p)' <=> IF IsNet(p, K)' THEN written[h].sev # 0 ELSE SaysDown(p)
  <2> DEFINE N(k) == IsNet(p, k)'
             Down(k) == written[taken'[p][k]].sev # 0
  <2>1. SaysDown(p)' <=> \E k \in 1..K : N(k) /\ Down(k) /\ \A m \in 1..K : N(m) => m <= k
    BY <1>1 DEF SaysDown
  <2>2. SaysDown(p) <=> \E k \in 1..(K - 1) : /\ N(k) /\ Down(k)
                                              /\ \A m \in 1..(K - 1) : N(m) => m <= k
    <3>1. \A k \in 1..(K - 1) : /\ N(k) <=> IsNet(p, k)
                                /\ Down(k) <=> written[taken[p][k]].sev # 0
      BY <1>1, <1>3
    <3> HIDE DEF N, Down
    <3> QED BY <1>1, <3>1 DEF SaysDown
  <2>3. Down(K) <=> written[h].sev # 0
    BY <1>1
  <2>4. 1..K = 1..(K - 1) \cup {K} /\ \A k \in 1..(K - 1) : k < K
    BY <1>1
  <2> HIDE DEF N, Down
  <2>5. CASE N(K)
    <3>1. \A k \in 1..K : k \in Nat /\ (K <= k => k = K) /\ k <= K
      BY <1>1
    <3> QED BY <2>1, <2>3, <2>4, <2>5, <3>1 DEF N
  <2>6. CASE ~N(K)
    BY <2>1, <2>2, <2>4, <2>6 DEF N
  <2> QED BY <2>5, <2>6
<1> QED BY <1>1, <1>2, <1>3, <1>4, <1>5

\* The part of the invariant about a process that executes a fault: the
\* variable cmd, and with it the network, is what the lines say.
LEMMA FaultNet ==
    ASSUME Types, NetInv, NEW p \in Proc, Alive(p), NEW h \in Nat,
           taken'[p] = Append(taken[p], h), UNCHANGED written, written[h] \in Faults,
           NEW sys \in CmdAfter(p, written[h]),
           cmd'[p] = IF sys = "none" THEN cmd[p] ELSE sys,
           netState'[p] = IF sys = "net" THEN IF written[h].sev = 0 THEN 0 ELSE 1
                          ELSE netState[p],
           ~Guessed(p)'
    PROVE  /\ cmd'[p] = "uninitialised" <=> \A k \in DOMAIN taken'[p] : TakenComp(p, k)' \notin Subsys
           /\ cmd'[p] = "net" <=> IsNet(p, Len(taken[p]))'
           /\ netState'[p] = 1 <=> SaysDown(p)'
<1> DEFINE c == written[h].comp
<1>0. PICK K \in Nat : K = Len(taken[p]) + 1
  BY DEF Types
<1>1. taken[p] \in Seq(Nat) /\ Len(taken[p]) = K - 1 /\ DOMAIN taken[p] = 1..(K - 1)
  BY <1>0 DEF Types
<1>2. /\ K \in Nat /\ DOMAIN taken'[p] = 1..K /\ TakenComp(p, K)' = c /\ Len(taken'[p]) = K
      /\ \A k \in 1..(K - 1) : TakenComp(p, k)' = TakenComp(p, k)
      /\ Guessed(p) => Guessed(p)'
      /\ IsNet(p, K)' <=> c = "net" \/ (c = "other" /\ IsNet(p, K - 1))
      /\ SaysDown(p)' <=> IF IsNet(p, K)' THEN written[h].sev # 0 ELSE SaysDown(p)
  BY <1>0, <1>1, NextLine
<1> HIDE DEF c
<1>3. c \in Subsys \cup {"other"}
  BY LineAssumption DEF Subsys, c
<1>4. /\ cmd[p] = "uninitialised" <=> \A k \in 1..(K - 1) : TakenComp(p, k) \notin Subsys
      /\ cmd[p] = "net" <=> IsNet(p, K - 1)
      /\ netState[p] = 1 <=> SaysDown(p)
  BY <1>1, <1>2 DEF NetInv
<1>5. 1..K = 1..(K - 1) \cup {K}
  BY <1>1, <1>2
<1>6. CASE c \in Subsys
  <2>1. sys = c
    BY <1>6 DEF CmdAfter, c
  <2>2. cmd'[p] = c /\ c # "none" /\ c # "uninitialised" /\ c # "other"
    BY <1>6, <2>1 DEF Subsys
  <2>3. IsNet(p, K)' <=> c = "net"
    BY <1>2, <2>2
  <2> QED BY <1>2, <1>4, <1>5, <1>6, <2>1, <2>2, <2>3
<1>7. CASE c \notin Subsys
  <2>1. c = "other"
    BY <1>3, <1>7
  <2>2. cmd[p] # "uninitialised"
    <3> SUFFICES ASSUME cmd[p] = "uninitialised" PROVE FALSE
      OBVIOUS
    <3>1. \A k \in 1..K : TakenComp(p, k)' \notin Subsys
      BY <1>2, <1>4, <1>5, <1>7
    <3>2. K \in 1..K
      BY <1>5
    <3> QED BY <1>2, <2>1, <3>1, <3>2 DEF Guessed
  <2>3. sys = cmd[p] /\ cmd[p] # "none" /\ cmd'[p] = cmd[p]
    BY <1>7, <2>2 DEF CmdAfter, Types, Subsys, c
  <2>4. \E k \in 1..(K - 1) : TakenComp(p, k)' \in Subsys
    BY <1>2, <1>4, <2>2
  <2>5. IsNet(p, K)' <=> cmd[p] = "net"
    BY <1>2, <1>4, <2>1
  <2> QED BY <1>2, <1>4, <1>5, <2>2, <2>3, <2>4, <2>5
<1> QED BY <1>6, <1>7

\* The part of the invariant about a process whose first line is no fault.
LEMMA FirstNet ==
    ASSUME Types, NetInv, NEW p \in Proc, Alive(p), NEW h \in Nat,
           taken[p] = <<>>, taken'[p] = Append(taken[p], h), UNCHANGED written,
           written[h] \in {SyncLine, ExitLine}, UNCHANGED <<cmd[p], netState[p]>>
    PROVE  /\ cmd'[p] = "uninitialised" <=> \A k \in DOMAIN taken'[p] : TakenComp(p, k)' \notin Subsys
           /\ cmd'[p] = "net" <=> IsNet(p, Len(taken[p]))'
           /\ netState'[p] = 1 <=> SaysDown(p)'
<1>1. taken[p] \in Seq(Nat) /\ Len(taken[p]) = 0 /\ DOMAIN taken[p] = {}
  BY DEF Types
<1>2. written[h].comp \notin Subsys \cup {"other"}
  BY DEF SyncLine, ExitLine, Subsys
<1>3. ~Guessed(p) /\ ~SaysDown(p) /\ ~IsNet(p, 0)
  BY <1>1 DEF Guessed, SaysDown, IsNet
<1>4. /\ DOMAIN taken'[p] = 1..1 /\ TakenComp(p, 1)' = written[h].comp /\ Len(taken'[p]) = 1
      /\ IsNet(p, 1)' <=> \/ written[h].comp = "net"
                          \/ written[h].comp = "other" /\ IsNet(p, 0)
      /\ SaysDown(p)' <=> IF IsNet(p, 1)' THEN written[h].sev # 0 ELSE SaysDown(p)
  <2>1. PICK K : K = Len(taken[p]) + 1
    OBVIOUS
  <2>2. K = 1 /\ K - 1 = 0
    BY <1>1, <2>1
  <2>3. /\ DOMAIN taken'[p] = 1..K /\ TakenComp(p, K)' = written[h].comp /\ Len(taken'[p]) = K
        /\ IsNet(p, K)' <=> \/ written[h].comp = "net"
                            \/ written[h].comp = "other" /\ IsNet(p, K - 1)
        /\ SaysDown(p)' <=> IF IsNet(p, K)' THEN written[h].sev # 0 ELSE SaysDown(p)
    <3>1. taken[p] \in Seq(Nat) /\ taken'[p] = Append(taken[p], h) /\ UNCHANGED written
      BY <1>1
    <3> QED BY <2>1, <3>1, NextLine
  <2>4. DOMAIN taken'[p] = 1..1 /\ TakenComp(p, 1)' = written[h].comp /\ Len(taken'[p]) = 1
    BY <2>2, <2>3
  <2>5. IsNet(p, 1)' <=> \/ written[h].comp = "net"
                         \/ written[h].comp = "other" /\ IsNet(p, 0)
    BY <2>2, <2>3
  <2>6. SaysDown(p)' <=> IF IsNet(p, 1)' THEN written[h].sev # 0 ELSE SaysDown(p)
    BY <2>2, <2>3
  <2> QED BY <2>4, <2>5, <2>6
<1>5. ~IsNet(p, 1)' /\ ~SaysDown(p)'
  BY <1>2, <1>3, <1>4 DEF Subsys
<1>6. cmd[p] = "uninitialised" /\ netState[p] # 1
  BY <1>1, <1>3 DEF NetInv
<1>7. \A k \in 1..1 : k = 1
  OBVIOUS
<1> QED BY <1>2, <1>4, <1>5, <1>6, <1>7

-----------------------------------------------------------------------------
(* The steps.  First those that leave the lines alone.                     *)

lineUse == <<written, readVars, cmd, netState>>

\* A process that starts has no lines; the others have the ones they had.
LEMMA QuietLines ==
    ASSUME ReadInv, UNCHANGED <<written, readVars>>,
           \A p \in Proc : Alive(p)' => /\ Alive(p) \/ pc[p] = "off"
                                        /\ UNCHANGED <<cmd[p], netState[p]>>
    PROVE  SharedOnce' /\ LineInv' /\ NetInv'
<1> USE DEF ReadInv, readVars
<1>1. SharedOnce'
  <2>1. /\ \A q \in Proc : Holds(q)' = Holds(q)
        /\ UNCHANGED <<written, pipe>>
    BY DEF Holds
  <2>2. \A q \in Proc : Rising(Holds(q) \o pipe)'
    BY <2>1 DEF SharedOnce, Rising
  <2>3. \A q, r \in Proc : q # r => Elements(Holds(q)') \cap Elements(Holds(r)') = {}
    BY <2>1 DEF SharedOnce
  <2>4. 1..Len(written') = Elements(pipe') \cup UNION {Elements(Holds(q)') : q \in Proc}
    BY <2>1 DEF SharedOnce
  <2> QED BY <2>2, <2>3, <2>4 DEF SharedOnce, Elements
<1>2. \A p \in Proc : pc[p] = "off" =>
         taken[p] = <<>> /\ cmd[p] = "uninitialised" /\ netState[p] = 0
  BY DEF StartInv, Early
<1>3. LineInv'
  <2>1. \A p \in Proc : pc[p] = "off" => \A k \in 1..Len(taken[p]) : FALSE
    BY <1>2
  <2> QED BY <2>1 DEF LineInv
<1>4. NetInv'
  <2> SUFFICES ASSUME NEW p \in Proc, Alive(p)', ~Guessed(p)'
               PROVE  /\ cmd'[p] = "uninitialised"
                            <=> \A k \in DOMAIN taken'[p] : TakenComp(p, k)' \notin Subsys
                      /\ cmd'[p] = "net" <=> IsNet(p, Len(taken[p]))'
                      /\ netState'[p] = 1 <=> SaysDown(p)'
    BY DEF NetInv
  <2>1. CASE Alive(p)
    BY <2>1, SameNet
  <2>2. CASE pc[p] = "off"
    <3>1. DOMAIN taken'[p] = {} /\ Len(taken'[p]) = 0 /\ 1..0 = {}
      BY <1>2, <2>2
    <3> QED BY <1>2, <2>2, <3>1 DEF SaysDown, IsNet
  <2> QED BY <2>1, <2>2
<1> QED BY <1>1, <1>3, <1>4

\* Processes end where they are, or go round in their loop.
Moves ==
    /\ pc' \in [Proc -> PcState]
    /\ \A p \in Proc : \/ pc'[p] = pc[p]
                       \/ Alive(p) /\ pc'[p] = "gone"
                       \/ {pc[p], pc'[p]} \subseteq {"select", "getline"}

\* Most steps of launcher, client and processes are of this kind.
LEMMA MoveStep ==
    ASSUME ReadInv, UNCHANGED <<lineUse, file, stale, created>>, Moves
    PROVE  ReadInv'
<1> USE DEF ReadInv, lineUse, readVars
<1>1. Types'
  BY DEF Types, Moves
<1>2. OwnerInv'
  BY ProcAssumption DEF OwnerInv, NoneFailed, Moves, Alive
<1>3. \A p \in Proc : pc'[p] \in Early => pc'[p] = pc[p]
  BY DEF Moves, Early
<1>4. \A p \in Proc : pc[p] = "off" => pc'[p] = "off"
  BY DEF Moves, Alive
<1>5. StartInv'
  BY <1>3, <1>4, ProcAssumption DEF StartInv, Early
<1>6. \A p \in Proc : Alive(p)' => Alive(p)
  BY DEF Moves, Alive
<1>7. SharedOnce' /\ LineInv' /\ NetInv'
  BY <1>6, QuietLines DEF Moves
<1> QED BY <1>1, <1>2, <1>5, <1>7

\* A process starts: the first one, or one whose parent goes on or becomes it.
LEMMA ForkStep ==
    ASSUME ReadInv, Launch \/ \E p \in Proc : Spawn(p)
    PROVE  ReadInv'
<1> USE DEF ReadInv
<1>1. PICK p \in Proc :
         /\ pc[p] = "off" /\ pc'[p] = "forked"
         /\ pc' \in [Proc -> PcState]
         /\ \A q \in Proc : q # p => pc'[q] = pc[q] \/ (Alive(q) /\ pc'[q] = "gone")
         /\ p # First => pc[First] \notin Early
         /\ UNCHANGED <<lineUse, file, stale, created>>
  <2>1. CASE Launch
    BY <2>1, ProcAssumption DEF Launch, Goto, Types, PcState, Early, lineVars, readVars, appVars, lineUse
  <2>2. ASSUME NEW p \in Proc, Spawn(p)
        PROVE  /\ pc[p] = "off" /\ pc'[p] = "forked"
               /\ pc' \in [Proc -> PcState]
               /\ \A q \in Proc : q # p => pc'[q] = pc[q] \/ (Alive(q) /\ pc'[q] = "gone")
               /\ p # First => pc[First] \notin Early
               /\ UNCHANGED <<lineUse, file, stale, created>>
    <3>1. PICK q \in Proc : /\ pc[q] \in {"select", "getline"}
                            /\ \/ pc' = [pc EXCEPT ![p] = "forked"]
                               \/ pc' = [pc EXCEPT ![p] = "forked", ![q] = "gone"]
      BY <2>2 DEF Spawn, Running, Goto
    <3>2. pc[p] = "off" /\ UNCHANGED <<lineUse, file, stale, created>>
      BY <2>2 DEF Spawn, lineVars, readVars, appVars, lineUse
    <3>3. pc[First] \notin Early
      BY <3>1, ProcAssumption DEF StartInv, Early
    <3> QED BY <3>1, <3>2, <3>3 DEF Types, PcState, Early, Alive
  <2> QED BY <2>1, <2>2
<1> USE DEF lineUse, readVars
<1>2. Types'
  BY <1>1 DEF Types
<1>3. OwnerInv'
  BY <1>1, ProcAssumption DEF OwnerInv, NoneFailed, Alive
<1>4. StartInv'
  <2>1. \A q \in Proc : pc'[q] \in Early => pc[q] \in Early
    BY <1>1 DEF Early
  <2>2. \A q \in Proc : pc'[q] = "fgetc" => pc[q] = "fgetc"
    BY <1>1
  <2>3. \A q \in Proc : pc[q] = "off" /\ q # p => pc'[q] = "off"
    BY <1>1 DEF Alive
  <2> QED BY <1>1, <2>1, <2>2, <2>3, ProcAssumption DEF StartInv
<1>5. SharedOnce' /\ LineInv' /\ NetInv'
  <2>1. \A q \in Proc : Alive(q)' => Alive(q) \/ pc[q] = "off"
    BY <1>1 DEF Alive
  <2> QED BY <1>1, <2>1, QuietLines
<1> QED BY <1>2, <1>3, <1>4, <1>5

\* mkfifo finds the file or creates it.
LEMMA MkfifoStep ==
    ASSUME ReadInv, NEW p \in Proc, Mkfifo(p)
    PROVE  ReadInv'
<1> USE DEF ReadInv
<1>1. /\ pc[p] = "forked" /\ pc' = [pc EXCEPT ![p] = "fopen"]
      /\ created' = [created EXCEPT ![p] = (file = "none")]
      /\ file' = IF file # "none" THEN file ELSE IF p = First THEN "conduit" ELSE "other"
      /\ UNCHANGED <<stale, lineUse>>
  BY DEF Mkfifo, Goto, lineVars, readVars, appVars, lineUse
<1>2. /\ pc'[p] = "fopen" /\ created'[p] = (file = "none")
      /\ \A q \in Proc : q # p => pc'[q] = pc[q] /\ created'[q] = created[q]
  BY <1>1 DEF Types
<1> USE DEF lineUse, readVars
<1>3. Types'
  BY <1>1 DEF Types, PcState, Early
<1>4. OwnerInv'
  <2>0. NoneFailed' => NoneFailed
    BY <1>1, <1>2 DEF NoneFailed
  <2>1. stale' /\ NoneFailed' => file' = "conduit"
    BY <1>1, <2>0 DEF OwnerInv
  <2>2. stale' /\ NoneFailed' =>
          \A q \in Proc : pc'[q] \in {"fopen", "fgetc", "select", "getline"} => ~created'[q]
    BY <1>1, <1>2, <2>0 DEF OwnerInv
  <2>3. ~stale' /\ file' \in {"conduit", "other"} =>
          \E q \in Proc : created'[q] /\ pc'[q] \notin {"off", "forked", "ended", "failed"}
    BY <1>1, <1>2 DEF OwnerInv
  <2>5. file' = "ordinary" => pc'[First] = "failed"
    BY <1>1, <1>2, ProcAssumption DEF OwnerInv
  <2>4. ASSUME NEW q \in Proc, q # First, created'[q], pc'[q] = "fopen" PROVE file' # "conduit"
    <3>1. CASE q = p
      BY <1>1, <1>2, <2>4, <3>1
    <3>2. CASE q # p
      <4>1. pc[First] \notin Early
        BY <1>2, <2>4, <3>2, ProcAssumption DEF StartInv, Early
      <4>2. p # First
        BY <1>1, <4>1 DEF Early
      <4> QED BY <1>1, <1>2, <2>4, <3>2, <4>2 DEF OwnerInv
    <3> QED BY <3>1, <3>2
  <2> QED BY <2>1, <2>2, <2>3, <2>4, <2>5 DEF OwnerInv
<1>5. StartInv'
  BY <1>1, <1>2, ProcAssumption DEF StartInv, Early
<1>6. SharedOnce' /\ LineInv' /\ NetInv'
  <2>1. \A q \in Proc : Alive(q)' => Alive(q)
    BY <1>1, <1>2 DEF Alive
  <2> QED BY <1>1, <1>3, <2>1, QuietLines DEF Types
<1> QED BY <1>3, <1>4, <1>5, <1>6

\* mkfifo fails.
LEMMA MkfifoFailsStep ==
    ASSUME ReadInv, NEW p \in Proc, MkfifoFails(p)
    PROVE  ReadInv'
<1> USE DEF ReadInv
<1>1. /\ pc[p] = "forked" /\ pc' = [pc EXCEPT ![p] = "fopen"]
      /\ created' = [created EXCEPT ![p] = FALSE]
      /\ UNCHANGED <<file, stale, lineUse>>
  BY DEF MkfifoFails, Goto, lineVars, readVars, appVars, lineUse
<1>2. /\ pc'[p] = "fopen" /\ ~created'[p] /\ pc' \in [Proc -> PcState]
      /\ \A q \in Proc : q # p => pc'[q] = pc[q] /\ created'[q] = created[q]
  BY <1>1 DEF Types, PcState, Early
<1> USE DEF lineUse, readVars
<1>3. Types'
  BY <1>1, <1>2 DEF Types
<1>4. OwnerInv'
  BY <1>1, <1>2, ProcAssumption DEF OwnerInv, NoneFailed
<1>5. StartInv'
  BY <1>1, <1>2, ProcAssumption DEF StartInv, Early
<1>6. SharedOnce' /\ LineInv' /\ NetInv'
  <2>1. \A q \in Proc : Alive(q)' => Alive(q)
    BY <1>1, <1>2 DEF Alive
  <2> QED BY <1>1, <1>2, <2>1, QuietLines
<1> QED BY <1>3, <1>4, <1>5, <1>6

\* fopen fails and takes the name away, whoever created it.
LEMMA FopenFailsStep ==
    ASSUME ReadInv, NEW p \in Proc, FopenFails(p)
    PROVE  ReadInv'
<1> USE DEF ReadInv
<1>1. /\ pc[p] = "fopen" /\ pc' = [pc EXCEPT ![p] = "failed"] /\ file' = "none"
      /\ UNCHANGED <<stale, created, lineUse>>
  BY DEF FopenFails, Goto, lineVars, readVars, appVars, lineUse
<1>2. /\ pc'[p] = "failed" /\ pc' \in [Proc -> PcState]
      /\ \A q \in Proc : q # p => pc'[q] = pc[q]
  BY <1>1 DEF Types, PcState, Early
<1> USE DEF lineUse, readVars
<1>3. Types'
  BY <1>1, <1>2 DEF Types
<1>4. OwnerInv'
  BY <1>1, <1>2 DEF OwnerInv, NoneFailed
<1>5. StartInv'
  BY <1>1, <1>2, ProcAssumption DEF StartInv, Early
<1>6. SharedOnce' /\ LineInv' /\ NetInv'
  <2>1. \A q \in Proc : Alive(q)' => Alive(q)
    BY <1>1, <1>2 DEF Alive
  <2> QED BY <1>1, <1>2, <2>1, QuietLines
<1> QED BY <1>3, <1>4, <1>5, <1>6

\* The client creates an ordinary file, after the first process has failed.
LEMMA CreatesStep ==
    ASSUME ReadInv, OpenInv, ClientCreates
    PROVE  ReadInv'
<1> USE DEF ReadInv
<1>1. /\ pc[First] = "failed" /\ file' = "ordinary"
      /\ UNCHANGED <<stale, created, pc, lineUse>>
  BY DEF OpenInv, ClientCreates, Opened, readVars, appVars, lineUse
<1> USE DEF lineUse, readVars
<1>2. Types'
  BY <1>1 DEF Types
<1>3. OwnerInv'
  BY <1>1, ProcAssumption DEF OwnerInv, NoneFailed
<1>4. StartInv'
  BY <1>1 DEF StartInv
<1>5. SharedOnce' /\ LineInv' /\ NetInv'
  <2>1. \A q \in Proc : Alive(q)' => Alive(q)
    BY <1>1 DEF Alive
  <2> QED BY <1>1, <2>1, QuietLines
<1> QED BY <1>2, <1>3, <1>4, <1>5

\* fopen returns: only the first process has created this file.
LEMMA FopenStep ==
    ASSUME ReadInv, NEW p \in Proc, Fopen(p)
    PROVE  ReadInv'
<1> USE DEF ReadInv
<1>1. /\ pc[p] = "fopen" /\ pc' = [pc EXCEPT ![p] = IF created[p] THEN "fgetc" ELSE "select"]
      /\ file = "conduit"
      /\ UNCHANGED <<file, stale, created, lineUse>>
  BY DEF Fopen, Opened, Goto, lineVars, readVars, appVars, lineUse
<1>2. /\ pc'[p] = IF created[p] THEN "fgetc" ELSE "select"
      /\ \A q \in Proc : q # p => pc'[q] = pc[q]
      /\ pc' \in [Proc -> PcState]
  BY <1>1 DEF Types, PcState, Early
<1> USE DEF lineUse, readVars
<1>3. Types'
  BY <1>1, <1>2 DEF Types
<1>4. OwnerInv'
  BY <1>1, <1>2 DEF OwnerInv, NoneFailed
<1>5. pc'[p] = "fgetc" => p = First
  BY <1>1, <1>2 DEF OwnerInv
<1>6. StartInv'
  BY <1>1, <1>2, <1>5, ProcAssumption DEF StartInv, Early
<1>7. SharedOnce' /\ LineInv' /\ NetInv'
  <2>1. \A q \in Proc : Alive(q)' => Alive(q)
    BY <1>1, <1>2 DEF Alive
  <2> QED BY <1>1, <1>2, <2>1, QuietLines
<1> QED BY <1>3, <1>4, <1>6, <1>7

\* The thread leaves its loop because the destructor asks it to.
LEMMA CloseStep ==
    ASSUME ReadInv, NEW p \in Proc, SelectClose(p)
    PROVE  ReadInv'
<1> USE DEF ReadInv
<1>1. /\ pc[p] = "select" /\ pc' = [pc EXCEPT ![p] = "ended"]
      /\ netState' = [netState EXCEPT ![p] = 0]
      /\ file' = IF created[p] THEN "none" ELSE file
      /\ UNCHANGED <<stale, created, written, readVars, cmd>>
  BY DEF SelectClose, LeaveLoop, Unlink, Goto, lineVars
<1>2. /\ pc'[p] = "ended" /\ pc' \in [Proc -> PcState]
      /\ \A q \in Proc : q # p => pc'[q] = pc[q] /\ netState'[q] = netState[q]
  BY <1>1 DEF Types, PcState, Early
<1>3. Types'
  BY <1>1, <1>2 DEF Types, readVars
<1>4. OwnerInv'
  BY <1>1, <1>2, ProcAssumption DEF OwnerInv, NoneFailed
<1>5. StartInv'
  BY <1>1, <1>2, ProcAssumption DEF StartInv, Early, readVars
<1>6. SharedOnce' /\ LineInv' /\ NetInv'
  <2>1. \A q \in Proc : Alive(q)' => Alive(q) /\ UNCHANGED <<cmd[q], netState[q]>>
    BY <1>1, <1>2 DEF Alive
  <2> QED BY <1>1, <2>1, QuietLines
<1> QED BY <1>3, <1>4, <1>5, <1>6

-----------------------------------------------------------------------------
(* Then those that write a line and take one.                              *)

\* The client writes a line: nobody has it yet.
LEMMA WriteStep ==
    ASSUME ReadInv, Write
    PROVE  ReadInv'
<1> USE DEF ReadInv
<1>1. PICK l \in AllLines :
         /\ written' = Append(written, l)
         /\ IF written = <<>> THEN l \in {SyncLine, ExitLine} ELSE l \in Faults \cup {ExitLine}
  <2>1. CASE WriteSync
    BY <2>1 DEF WriteSync, AllLines, SyncLine
  <2>2. CASE WriteFault
    BY <2>2 DEF WriteFault, AllLines
  <2>3. CASE WriteExit
    BY <2>3 DEF WriteExit, AllLines
  <2> QED BY <2>1, <2>2, <2>3 DEF Write
<1>2. /\ pipe' = Append(pipe, Len(written'))
      /\ UNCHANGED <<file, stale, created, buf, taken, cmd, netState, pc>>
  BY DEF Write, appVars
<1>3. /\ written \in Seq(AllLines) /\ Len(written) \in Nat
      /\ written' \in Seq(AllLines) /\ Len(written') = Len(written) + 1
      /\ written'[Len(written) + 1] = l
      /\ \A k \in 1..Len(written) : written'[k] = written[k]
  BY <1>1 DEF Types
<1>4. pipe' \in Seq(Nat) /\ SharedOnce'
  <2>1. PICK n : n = Len(written) + 1
    OBVIOUS
  <2> QED BY <1>2, <1>3, <2>1, WriteShared
<1>5. Types'
  BY <1>2, <1>3, <1>4 DEF Types
<1>6. OwnerInv' /\ StartInv'
  BY <1>2 DEF OwnerInv, NoneFailed, StartInv
<1>7. \A p \in Proc : \A k \in 1..Len(taken[p]) : written'[taken[p][k]] = written[taken[p][k]]
  <2>1. ASSUME NEW p \in Proc, NEW k \in 1..Len(taken[p]) PROVE taken[p][k] \in 1..Len(written)
    <3>1. taken[p][k] \in Elements(taken[p])
      BY DEF Elements, Types
    <3> QED BY <3>1, HoldsFacts
  <2> QED BY <1>3, <2>1
<1>8. LineInv'
  <2>1. ASSUME NEW k \in 1..Len(written')
        PROVE  IF k = 1 THEN written'[k] \in {SyncLine, ExitLine}
               ELSE written'[k] \in Faults \cup {ExitLine}
    <3>1. CASE k \in 1..Len(written)
      BY <1>3, <3>1 DEF LineInv
    <3>2. CASE k = Len(written) + 1
      <4>1. written = <<>> <=> k = 1
        BY <1>3, <3>2
      <4> QED BY <1>1, <1>3, <3>2, <4>1
    <3> QED BY <1>3, <3>1, <3>2
  <2> QED BY <1>2, <1>7, <2>1 DEF LineInv, Alive
<1>9. NetInv'
  <2> SUFFICES ASSUME NEW p \in Proc, Alive(p)', ~Guessed(p)'
               PROVE  /\ cmd'[p] = "uninitialised"
                            <=> \A k \in DOMAIN taken'[p] : TakenComp(p, k)' \notin Subsys
                      /\ cmd'[p] = "net" <=> IsNet(p, Len(taken[p]))'
                      /\ netState'[p] = 1 <=> SaysDown(p)'
    BY DEF NetInv
  <2>1. Alive(p)
    BY <1>2 DEF Alive
  <2> QED BY <1>2, <1>7, <2>1, SameNet
<1> QED BY <1>4, <1>5, <1>6, <1>8, <1>9

\* The line p takes now, what it takes it from, and where it goes.
LEMMA TakenLine ==
    ASSUME ReadInv, NEW p \in Proc, Take(p), UNCHANGED written
    PROVE  \E h \in 1..Len(written) :
              /\ h = Head(Filled(p))
              /\ taken'[p] = Append(taken[p], h)
              /\ \A q \in Proc : q # p => taken'[q] = taken[q] /\ buf'[q] = buf[q]
              /\ h = 1 => taken[p] = <<>>
<1> USE DEF ReadInv
<1>1. /\ buf \in [Proc -> Seq(Nat)] /\ taken \in [Proc -> Seq(Nat)] /\ pipe \in Seq(Nat)
      /\ Filled(p) \in Seq(Nat) /\ Filled(p) # <<>>
  BY DEF Types, Take, Filled
<1>2. PICK h \in Nat : h = Head(Filled(p)) /\ h \in Elements(Filled(p))
  <2>1. 1 \in DOMAIN Filled(p) /\ Head(Filled(p)) = Filled(p)[1] /\ Filled(p)[1] \in Nat
    BY <1>1
  <2>2. Head(Filled(p)) \in Elements(Filled(p))
    BY <2>1 DEF Elements
  <2> QED BY <2>1, <2>2
<1>3. h \in 1..Len(written)
  BY <1>2, HoldsFacts DEF Filled
<1>4. /\ taken'[p] = Append(taken[p], h)
      /\ \A q \in Proc : q # p => taken'[q] = taken[q] /\ buf'[q] = buf[q]
  BY <1>1, <1>2 DEF Take
<1>5. ASSUME h = 1 PROVE taken[p] = <<>>
  <2>1. SharedOnce' /\ taken'[p] \in Seq(Nat) /\ buf'[p] \in Seq(Nat) /\ pipe' \in Seq(Nat)
    BY TakeShared
  <2>2. Rising(Holds(p)' \o pipe') /\ Holds(p)' = taken'[p] \o buf'[p]
    BY <2>1 DEF SharedOnce, Holds, Rising
  <2>3. Rising(taken'[p])
    <3>1. Holds(p)' \in Seq(Nat)
      BY <2>1, <2>2
    <3>2. Rising(Holds(p)')
      BY <2>1, <2>2, <3>1, RisingParts
    <3> QED BY <2>1, <2>2, <3>2, RisingParts
  <2> SUFFICES ASSUME taken[p] # <<>> PROVE FALSE
    OBVIOUS
  <2>4. /\ Len(taken[p]) \in Nat \ {0} /\ taken[p][1] \in Nat
        /\ DOMAIN taken'[p] = 1..(Len(taken[p]) + 1)
        /\ taken'[p][1] = taken[p][1] /\ taken'[p][Len(taken[p]) + 1] = h
    BY <1>1, <1>4
  <2>5. taken[p][1] < 1
    BY <1>5, <2>3, <2>4 DEF Rising
  <2>6. taken[p][1] \in Elements(taken[p])
    BY <1>1, <2>4 DEF Elements
  <2>7. taken[p][1] \in 1..Len(written)
    BY <2>6, HoldsFacts
  <2> QED BY <2>5, <2>7
<1> QED BY <1>2, <1>3, <1>4, <1>5

\* p takes a line and goes on in its loop or comes to its end.  If it goes on,
\* the line is a fault that it executes, or its first one and no fault.
LEMMA TakeStep ==
    ASSUME ReadInv, NEW p \in Proc, Take(p), UNCHANGED <<written, stale, created>>,
           pc[p] \in {"fgetc", "getline"}, NEW x \in {"select", "ended"},
           pc' = [pc EXCEPT ![p] = x],
           file' = IF x = "ended" /\ created[p] THEN "none" ELSE file,
           cmd' \in [Proc -> Subsys \cup {"uninitialised"}],
           netState' \in [Proc -> {0, 1}],
           \A q \in Proc : q # p => UNCHANGED <<cmd[q], netState[q]>>,
           x = "select" =>
              \/ /\ Line(p) \in {SyncLine, ExitLine} /\ taken[p] = <<>>
                 /\ UNCHANGED <<cmd[p], netState[p]>>
              \/ /\ Line(p) \in Faults
                 /\ \E sys \in CmdAfter(p, Line(p)) :
                       /\ cmd'[p] = IF sys = "none" THEN cmd[p] ELSE sys
                       /\ netState'[p] = IF sys = "net" THEN IF Line(p).sev = 0 THEN 0 ELSE 1
                                         ELSE netState[p]
    PROVE  ReadInv'
<1> USE DEF ReadInv
<1>1. PICK h \in 1..Len(written) :
              /\ h = Head(Filled(p))
              /\ taken'[p] = Append(taken[p], h)
              /\ \A q \in Proc : q # p => taken'[q] = taken[q] /\ buf'[q] = buf[q]
  BY TakenLine
<1>2. /\ pipe' \in Seq(Nat)
      /\ buf' \in [Proc -> Seq(Nat)] /\ taken' \in [Proc -> Seq(Nat)]
      /\ SharedOnce'
  BY TakeShared
<1>3. /\ pc'[p] = x /\ pc' \in [Proc -> PcState]
      /\ \A q \in Proc : q # p => pc'[q] = pc[q]
  BY DEF Types, PcState, Early
<1>4. Types'
  BY <1>2, <1>3 DEF Types
<1>5. OwnerInv'
  BY <1>3, ProcAssumption DEF OwnerInv, NoneFailed
<1>6. StartInv'
  BY <1>1, <1>3, ProcAssumption DEF StartInv, Early
<1>7. /\ Line(p) = written[h] /\ h \in Nat /\ Alive(p)
      /\ taken[p] \in Seq(Nat) /\ Len(taken[p]) \in Nat
      /\ Len(taken'[p]) = Len(taken[p]) + 1
      /\ taken'[p][Len(taken[p]) + 1] = h
      /\ \A k \in 1..Len(taken[p]) : taken'[p][k] = taken[p][k]
  BY <1>1 DEF Line, Alive, Types
<1>8. \A q \in Proc : Alive(q)' => Alive(q) /\ (q = p => x = "select")
  BY <1>3, <1>7 DEF Alive
<1>9. LineInv'
  <2>1. ASSUME x = "select", NEW k \in 1..Len(taken'[p]), k > 1
        PROVE  written[taken'[p][k]] \in Faults
    <3>1. CASE k \in 1..Len(taken[p])
      BY <1>7, <2>1, <3>1 DEF LineInv
    <3>2. CASE k = Len(taken[p]) + 1
      <4>1. taken[p] # <<>>
        BY <1>7, <2>1, <3>2
      <4> QED BY <1>7, <2>1, <3>2, <4>1
    <3> QED BY <1>7, <3>1, <3>2
  <2>2. ASSUME NEW q \in Proc, Alive(q)', NEW k \in 1..Len(taken'[q]), k > 1
        PROVE  written[taken'[q][k]] \in Faults
    <3>1. CASE q = p
      BY <1>8, <2>1, <2>2, <3>1
    <3>2. CASE q # p
      BY <1>1, <1>8, <2>2, <3>2 DEF LineInv
    <3> QED BY <3>1, <3>2
  <2> QED BY <2>2 DEF LineInv
<1>10. NetInv'
  <2> SUFFICES ASSUME NEW q \in Proc, Alive(q)', ~Guessed(q)'
               PROVE  /\ cmd'[q] = "uninitialised"
                            <=> \A k \in DOMAIN taken'[q] : TakenComp(q, k)' \notin Subsys
                      /\ cmd'[q] = "net" <=> IsNet(q, Len(taken[q]))'
                      /\ netState'[q] = 1 <=> SaysDown(q)'
    BY DEF NetInv
  <2>1. CASE q # p
    BY <1>1, <1>8, <2>1, SameNet
  <2>2. CASE q = p /\ written[h] \in {SyncLine, ExitLine} /\ taken[p] = <<>>
               /\ UNCHANGED <<cmd[p], netState[p]>>
    BY <1>1, <1>7, <2>2, FirstNet
  <2>3. CASE q = p /\ written[h] \in Faults
               /\ \E sys \in CmdAfter(p, written[h]) :
                       /\ cmd'[p] = IF sys = "none" THEN cmd[p] ELSE sys
                       /\ netState'[p] = IF sys = "net" THEN IF written[h].sev = 0 THEN 0 ELSE 1
                                         ELSE netState[p]
    BY <1>1, <1>7, <2>3, FaultNet
  <2> QED BY <1>7, <1>8, <2>1, <2>2, <2>3
<1> QED BY <1>2, <1>4, <1>5, <1>6, <1>9, <1>10

\* The byte the first process waits for is of the first line, because nobody
\* else has read yet; or there is none.
LEMMA FgetcStep ==
    ASSUME ReadInv, NEW p \in Proc, Fgetc(p)
    PROVE  ReadInv'
<1> USE DEF ReadInv
<1>1. /\ pc[p] = "fgetc" /\ pc' = [pc EXCEPT ![p] = "select"]
      /\ UNCHANGED <<written, file, stale, created, cmd, netState>>
  BY DEF Fgetc, Goto, lineVars, appVars
<1>2. /\ p = First /\ taken[p] = <<>> /\ buf[p] = <<>> /\ cmd[p] = "uninitialised"
      /\ netState[p] = 0
      /\ \A q \in Proc : taken[q] = <<>> /\ buf[q] = <<>>
  BY <1>1 DEF StartInv, Early
<1>3. CASE Take(p)
  <2>1. PICK h \in 1..Len(written) : h = Head(Filled(p))
    BY <1>1, <1>3, TakenLine
  <2>2. Filled(p) = pipe /\ pipe \in Seq(Nat) /\ pipe # <<>>
    BY <1>2, <1>3 DEF Filled, Take, Types
  <2>3. \A q \in Proc : Elements(Holds(q)) = {}
    <3>1. \A q \in Proc : Elements(Holds(q)) = Elements(taken[q]) \cup Elements(buf[q])
      BY HoldsFacts
    <3>2. Elements(<<>>) = {}
      BY DEF Elements
    <3> QED BY <1>2, <3>1, <3>2
  <2>4. 1 \in Elements(pipe)
    <3>1. 1 \in 1..Len(written)
      BY <2>1 DEF Types
    <3> QED BY <2>3, <3>1 DEF SharedOnce
  <2>5. Rising(pipe)
    BY <2>2, RisingParts, HoldsFacts DEF SharedOnce
  <2>6. h = 1
    <3>1. DOMAIN pipe = 1..Len(pipe) /\ Len(pipe) \in Nat \ {0} /\ Head(pipe) = pipe[1]
      BY <2>2
    <3>2. PICK k \in 1..Len(pipe) : pipe[k] = 1
      BY <2>4, <3>1 DEF Elements
    <3>3. k = 1 \/ pipe[1] < pipe[k]
      BY <2>5, <3>1 DEF Rising
    <3> QED BY <2>1, <2>2, <3>1, <3>2, <3>3
  <2>7. Line(p) \in {SyncLine, ExitLine}
    BY <2>1, <2>6 DEF Line, LineInv
  <2>8. cmd' \in [Proc -> Subsys \cup {"uninitialised"}] /\ netState' \in [Proc -> {0, 1}]
    BY <1>1 DEF Types
  <2> QED BY <1>1, <1>2, <1>3, <2>7, <2>8, TakeStep
<1>4. CASE UNCHANGED readVars
  <2>1. /\ pc' \in [Proc -> PcState] /\ pc'[p] = "select"
        /\ \A q \in Proc : q # p => pc'[q] = pc[q]
    BY <1>1 DEF Types, PcState, Early
  <2>2. Types'
    BY <1>1, <1>4, <2>1 DEF Types, readVars
  <2>3. OwnerInv'
    BY <1>1, <2>1, ProcAssumption DEF OwnerInv, NoneFailed
  <2>4. StartInv'
    BY <1>1, <1>2, <1>4, <2>1 DEF StartInv, Early, readVars
  <2>5. \A q \in Proc : Alive(q)' => Alive(q) /\ UNCHANGED <<cmd[q], netState[q]>>
    BY <1>1, <2>1 DEF Alive
  <2> QED BY <1>1, <1>4, <2>2, <2>3, <2>4, <2>5, QuietLines
<1> QED BY <1>3, <1>4 DEF Fgetc

\* The loop executes a line.
LEMMA GetlineStep ==
    ASSUME ReadInv, NEW p \in Proc, GetlineEmpty(p) \/ GetlineExit(p) \/ GetlineFault(p)
    PROVE  ReadInv'
<1> USE DEF ReadInv
<1>1. /\ cmd \in [Proc -> Subsys \cup {"uninitialised"}]
      /\ netState \in [Proc -> {0, 1}]
  BY DEF Types
<1>2. CASE GetlineEmpty(p)
  <2>1. /\ Take(p) /\ pc[p] = "getline" /\ pc' = [pc EXCEPT ![p] = "select"]
        /\ UNCHANGED <<written, file, stale, created, cmd, netState>> /\ Line(p) = SyncLine
    BY <1>2 DEF GetlineEmpty, Goto, lineVars, appVars
  <2>2. PICK h \in 1..Len(written) : h = Head(Filled(p)) /\ (h = 1 => taken[p] = <<>>)
    BY <2>1, TakenLine
  <2>3. SyncLine \notin Faults \cup {ExitLine}
    <3>1. SyncLine.comp = "sync" /\ ExitLine.comp = "exit"
      BY DEF SyncLine, ExitLine
    <3> QED BY <3>1, LineAssumption
  <2>4. h = 1
    BY <2>1, <2>2, <2>3 DEF LineInv, Line
  <2> QED BY <1>1, <2>1, <2>2, <2>4, TakeStep
<1>3. CASE GetlineExit(p)
  <2>1. /\ Take(p) /\ pc[p] = "getline" /\ pc' = [pc EXCEPT ![p] = "ended"]
        /\ netState' = [netState EXCEPT ![p] = 0]
        /\ file' = IF created[p] THEN "none" ELSE file
        /\ UNCHANGED <<written, stale, created, cmd>>
    BY <1>3 DEF GetlineExit, LeaveLoop, Unlink, Goto, lineVars
  <2> QED BY <1>1, <2>1, TakeStep
<1>4. CASE GetlineFault(p)
  <2>1. /\ Take(p) /\ pc[p] = "getline" /\ UNCHANGED <<written, stale, created>>
        /\ Line(p) \in Faults
    BY <1>4 DEF GetlineFault, lineVars
  <2>2. PICK sys \in CmdAfter(p, Line(p)) :
           /\ cmd' = [cmd EXCEPT ![p] = IF sys = "none" THEN cmd[p] ELSE sys]
           /\ SetState(p, sys, Line(p).sev)
    BY <1>4 DEF GetlineFault
  <2>3. sys \in Subsys \cup {"none"}
    BY <1>1 DEF CmdAfter
  <2>4. PICK x \in {"select", "ended"} :
           /\ x = (IF sys = "power" THEN "ended" ELSE "select")
           /\ pc' = [pc EXCEPT ![p] = x]
           /\ file' = IF x = "ended" /\ created[p] THEN "none" ELSE file
    BY <2>2 DEF SetState, Goto, Unlink
  <2>5. netState' = IF sys = "net" THEN [netState EXCEPT ![p] = IF Line(p).sev = 0 THEN 0 ELSE 1]
                    ELSE netState
    BY <2>2 DEF SetState
  <2>6. /\ cmd' \in [Proc -> Subsys \cup {"uninitialised"}]
        /\ netState' \in [Proc -> {0, 1}]
        /\ \A q \in Proc : q # p => UNCHANGED <<cmd[q], netState[q]>>
        /\ cmd'[p] = IF sys = "none" THEN cmd[p] ELSE sys
        /\ netState'[p] = IF sys = "net" THEN IF Line(p).sev = 0 THEN 0 ELSE 1
                          ELSE netState[p]
    BY <1>1, <2>2, <2>3, <2>5
  <2> QED BY <2>1, <2>2, <2>4, <2>6, TakeStep
<1> QED BY <1>2, <1>3, <1>4

-----------------------------------------------------------------------------
(* The theorems.                                                           *)

\* The invariant holds when the launcher starts, with and without a file.
LEMMA NodeInit == LInit => NodeInv
<1> SUFFICES ASSUME LInit PROVE NodeInv
  OBVIOUS
<1> USE DEF LInit, Init, LineInit
<1>1. Types
  BY DEF Types, PcState, Early, AllLines
<1>2. OwnerInv /\ StartInv /\ ToldInv /\ OpenInv
  BY ProcAssumption DEF OwnerInv, NoneFailed, StartInv, Early, ToldInv, OpenInv
<1>3. \A p \in Proc : taken[p] = <<>> /\ buf[p] = <<>> /\ ~Alive(p)
  BY DEF Alive
<1>4. LineInv /\ NetInv
  BY <1>3 DEF LineInv, NetInv
<1>5. SharedOnce
  <2>1. \A p \in Proc : Holds(p) = <<>>
    BY <1>3 DEF Holds
  <2>2. Elements(<<>>) = {} /\ Rising(<<>> \o <<>>)
    BY DEF Elements, Rising
  <2>3. \A p \in Proc : Elements(Holds(p)) = {} /\ Rising(Holds(p) \o pipe)
    BY <2>1, <2>2
  <2>4. 1..Len(written) = {} /\ Elements(pipe) = {}
    BY <2>2
  <2> QED BY <2>3, <2>4 DEF SharedOnce
<1> QED BY <1>1, <1>2, <1>4, <1>5 DEF NodeInv, ReadInv

\* Every step of launcher, client and processes keeps the invariant.
LEMMA NodeNext ==
    ASSUME NodeInv, [LNext]_allVars
    PROVE  NodeInv'
<1> USE DEF NodeInv
<1>1. pc \in [Proc -> PcState]
  BY DEF ReadInv, Types
<1> SUFFICES ReadInv'
  BY <1>1, ToldStep, OpenStep
<1>2. CASE LauncherStep \/ ChildStep \/ Terminate \/ Interrupt \/ UNCHANGED allVars
  <2>1. CASE ForkApp
    BY <2>1, ForkStep DEF ForkApp
  <2>2. CASE Refuse \/ ForkAppFails \/ ForkClient \/ WaitReturns \/ Execv \/ Terminate
               \/ UNCHANGED allVars
    <3>1. UNCHANGED <<lineUse, file, stale, created, pc>>
      BY <2>2 DEF Refuse, ForkAppFails, ForkClient, WaitReturns, Terminate, Execv,
                  Start, allVars, vars, lineVars, readVars, appVars, lineUse
    <3> QED BY <1>1, <3>1, MoveStep DEF Moves
  <2>3. CASE ExecvFails \/ Interrupt
    <3>1. UNCHANGED <<lineUse, file, stale, created>> /\ KillAll
      BY <2>3 DEF ExecvFails, Interrupt, readVars, appVars, lineUse
    <3>2. Moves
      BY <1>1, <3>1 DEF KillAll, Moves, PcState
    <3> QED BY <3>1, <3>2, MoveStep
  <2> QED BY <1>2, <2>1, <2>2, <2>3 DEF LauncherStep, ChildStep
<1>3. CASE ClientStep \/ KilledByOther
  <2>1. CASE Write
    BY <2>1, WriteStep
  <2>2. CASE ClientGone \/ UNCHANGED <<written, file, stale, created, readVars, appVars, pc>>
    <3>1. UNCHANGED <<lineUse, file, stale, created, pc>>
      BY <2>2 DEF ClientGone, Gone, readVars, appVars, lineUse
    <3> QED BY <1>1, <3>1, MoveStep DEF Moves
  <2>3. ASSUME NEW p \in Proc, Killed(p) PROVE ReadInv'
    <3>1. UNCHANGED <<lineUse, file, stale, created>> /\ Moves
      BY <1>1, <2>3 DEF Killed, Goto, Moves, PcState, lineVars, readVars, appVars, lineUse
    <3> QED BY <3>1, MoveStep
  <2>4. CASE ClientCreates
    BY <2>4, CreatesStep
  <2> QED BY <1>3, <2>1, <2>2, <2>3, <2>4 DEF ClientStep, KilledByOther
<1>4. ASSUME NEW p \in Proc, AppStep(p) PROVE ReadInv'
  <2>1. CASE Spawn(p)
    BY <2>1, ForkStep
  <2>2. CASE SelectLine(p) \/ GetlineEOF(p) \/ AppExit(p)
    <3>1. UNCHANGED <<lineUse, file, stale, created>>
      BY <2>2 DEF SelectLine, GetlineEOF, AppExit, lineVars, readVars, appVars, lineUse
    <3>2. Moves
      BY <1>1, <2>2 DEF SelectLine, GetlineEOF, AppExit, Goto, Moves, PcState, Alive
    <3> QED BY <3>1, <3>2, MoveStep
  <2>3. CASE Mkfifo(p)
    BY <2>3, MkfifoStep
  <2>4. CASE Fopen(p)
    BY <2>4, FopenStep
  <2>5. CASE Fgetc(p)
    BY <2>5, FgetcStep
  <2>6. CASE SelectClose(p)
    BY <2>6, CloseStep
  <2>7. CASE GetlineEmpty(p) \/ GetlineExit(p) \/ GetlineFault(p)
    BY <2>7, GetlineStep
  <2>8. CASE MkfifoFails(p) \/ FopenFails(p)
    BY <2>8, MkfifoFailsStep, FopenFailsStep
  <2> QED BY <1>4, <2>1, <2>2, <2>3, <2>4, <2>5, <2>6, <2>7, <2>8 DEF AppStep, Thread, Fails
<1> QED BY <1>2, <1>3, <1>4 DEF LNext

\* The invariant holds in every state of every run on a node.
LEMMA NodeInvariant == LSpec => []NodeInv
  BY NodeInit, NodeNext, PTL DEF LSpec

\* However many processes open the fifo, are killed, call exec or end, no line
\* of the client is lost, doubled or overtaken on its way to them: each is in
\* the pipe or with exactly one process (select, getline and its buffer).
THEOREM SharedCorrect == LSpec => []SharedOnce
<1>1. NodeInv => SharedOnce
  BY DEF NodeInv, ReadInv
<1> QED BY <1>1, NodeInvariant, PTL

\* The network of an application is as the last line about the network says
\* that its own back end took (lauSim_main and its variable cmd, lauSim_set_state).
THEOREM NetCorrect == LSpec => []NetFollows
<1>1. NodeInv => NetFollows
  BY DEF NodeInv, ReadInv, NetInv, NetFollows
<1> QED BY <1>1, NodeInvariant, PTL

\* A fifo that was there before is removed only by a process that fails to open
\* it, and one created in the run is gone once all have come to their end
\* (lauSim_get_fifo, lauSim_fifo_cleanup).
THEOREM FifoCorrect == LSpec => []FifoLife
<1>1. NodeInv => FifoLife
  BY DEF NodeInv, ReadInv, Types, OwnerInv, NoneFailed, FifoLife
<1> QED BY <1>1, NodeInvariant, PTL

\* The launcher leaves no client behind that was not told to stop, whenever
\* signals come, unless one came between the fork and the execv of its child
\* (launcher.c's main, its two waits).
THEOREM ToldCorrect == LSpec => []ClientTold
<1>1. NodeInv => ClientTold
  BY DEF NodeInv, ToldInv, ClientTold
<1> QED BY <1>1, NodeInvariant, PTL
=============================================================================

------------------------- MODULE SyncStartProofs -------------------------
(***************************************************************************)
(* Proofs about module SyncStart for any set of nodes.                     *)
(*                                                                         *)
(* As long as nothing disturbs a run with the option sync (Clean), the     *)
(* start is a barrier and no signal is lost: both rest on how far the news *)
(* that a node is ready, and then the signal, can have spread (StartInv).  *)
(* Such a run also starts every back end with the signal and takes no      *)
(* fault for it: the signal is the first thing on every node's way         *)
(* (CleanInv).                                                             *)
(*                                                                         *)
(* In any run the faults keep their order on the way to the application    *)
(* and none arrives twice (FlowInv).                                       *)
(***************************************************************************)
EXTENDS SyncStart, TLAPS

Started == \A m \in Node : client[m] = "loop"

\* The parts of the type invariant the argument needs.
Types ==
    /\ client \in [Node -> {"off", "open", "init", "report", "loop", "stopped"}]
    /\ backend \in [Node -> {"off", "open", "wait", "running", "exited"}]
    /\ srvInbox \in [Node -> Nat]
    /\ inbox \in [Node -> Seq(Nat)] /\ fifo \in [Node -> Seq(Int)]
    /\ synced \in [Node -> BOOLEAN] /\ created \in [Node -> BOOLEAN]
    /\ retained \subseteq Node /\ ready \subseteq Node /\ subs \subseteq Node
    /\ nFaults \in Nat

\* Whoever is ready, or about to be known as ready, is in its loop, and
\* whoever reports has subscribed.
ReadyInv ==
    /\ \A n \in Node : n \in ready \/ srvInbox[n] > 0 \/ n \in retained
                            => client[n] = "loop"
    /\ \A n \in Node : client[n] \in {"report", "loop"} => n \in subs
    /\ \A n \in Node : client[n] # "stopped"

\* The signal, and everything it causes, exists only once all have started.
SignalInv ==
    /\ srvPc \in {"signal", "tics"} => Started
    /\ \A n \in Node :
          inbox[n] # <<>> \/ synced[n] \/ fifo[n] # <<>> \/ backend[n] = "running"
              => Started

\* A back end that starts has created its fifo.
FifoInv ==
    /\ \A n \in Node : n \in fifoFile => backend[n] # "off"
    /\ \A n \in Node : created[n]
    /\ ~termreq

StartInv == Types /\ ReadyInv /\ SignalInv /\ FifoInv /\ lostSync = {}

-----------------------------------------------------------------------------
\* The invariant holds at a clean start, ...
LEMMA StartInit ==
    ASSUME Clean
    PROVE  Init => StartInv
  <1> SUFFICES ASSUME Init PROVE StartInv OBVIOUS
  <1> USE DEF Clean, Init
  <1>1. Types BY StartAssumption DEF Types
  <1>2. ReadyInv BY DEF ReadyInv
  <1>3. SignalInv BY DEF SignalInv
  <1>4. FifoInv BY DEF FifoInv
  <1> QED BY <1>1, <1>2, <1>3, <1>4 DEF StartInv

\* ... and every step that leaves the run clean keeps it.
LEMMA StartNext ==
    ASSUME Clean', StartInv, [Next]_vars
    PROVE  StartInv'
  <1> USE DEF StartInv
  <1>1. ASSUME SrvLoad PROVE StartInv'
    <2> USE <1>1 DEF SrvLoad, srvVars, brokerVars, nodeVars, histVars
    <2>1. Types' BY DEF Types
    <2>2. ReadyInv' BY DEF Types, ReadyInv
    <2>3. SignalInv' BY DEF Types, ReadyInv, SignalInv, FifoInv, Started
    <2>4. FifoInv' BY DEF Types, FifoInv
    <2>5. lostSync' = {} BY DEF Types, ReadyInv, SignalInv, Started
    <2> QED BY <2>1, <2>2, <2>3, <2>4, <2>5
  <1>2. ASSUME SrvPostInit PROVE StartInv'
    BY <1>2 DEF SrvPostInit, Types, ReadyInv, SignalInv, FifoInv, Started, brokerVars,
             nodeVars, histVars
  <1>3. ASSUME SrvSetCallback PROVE StartInv'
    BY <1>3 DEF SrvSetCallback, Types, ReadyInv, SignalInv, FifoInv, Started, brokerVars,
             nodeVars, histVars
  <1>4. ASSUME SrvNumNodes PROVE StartInv'
    BY <1>4 DEF SrvNumNodes, Types, ReadyInv, SignalInv, FifoInv, Started, brokerVars,
             nodeVars, histVars
  <1>5. ASSUME SrvNodes PROVE StartInv'
    <2> USE <1>5 DEF SrvNodes, srvVars, brokerVars, nodeVars, histVars
    <2>1. Types' BY DEF Types
    <2>2. ReadyInv' BY DEF Types, ReadyInv
    <2>3. SignalInv' BY DEF Clean, Types, ReadyInv, SignalInv, FifoInv, Started
    <2>4. FifoInv' BY DEF Types, FifoInv
    <2>5. lostSync' = {} BY DEF Types, ReadyInv, SignalInv, Started
    <2> QED BY <2>1, <2>2, <2>3, <2>4, <2>5
  <1>6. ASSUME SrvAllReady PROVE StartInv'
    <2> USE <1>6 DEF SrvAllReady, srvVars, brokerVars, nodeVars, histVars
    <2>1. Types' BY DEF Types
    <2>2. ReadyInv' BY DEF Types, ReadyInv
    <2>3. SignalInv' BY DEF Types, ReadyInv, SignalInv, FifoInv, Started
    <2>4. FifoInv' BY DEF Types, FifoInv
    <2>5. lostSync' = {} BY DEF Types, ReadyInv, SignalInv, Started
    <2> QED BY <2>1, <2>2, <2>3, <2>4, <2>5
  <1>7. ASSUME SrvWaitInterrupted PROVE StartInv'
    BY <1>7 DEF SrvWaitInterrupted, FifoInv
  <1>8. ASSUME SrvSignalled PROVE StartInv'
    BY <1>8 DEF SrvSignalled, Types, ReadyInv, SignalInv, FifoInv, Started, brokerVars,
             nodeVars, histVars
  <1>9. ASSUME TermHandler PROVE StartInv'
    BY <1>9 DEF Clean, TermHandler
  <1>10. ASSUME NEW n \in Node, SrvSignal(n) PROVE StartInv'
    <2> USE <1>10 DEF SrvSignal, Publish, srvVars, brokerVars, nodeVars, histVars
    <2>1. Types' BY DEF Types, SYNC
    <2>2. ReadyInv' BY DEF Types, ReadyInv
    <2>3. SignalInv' BY DEF Types, ReadyInv, SignalInv, FifoInv, Started
    <2>4. FifoInv' BY DEF Types, FifoInv
    <2>5. lostSync' = {} BY DEF Types, ReadyInv, SignalInv, Started
    <2> QED BY <2>1, <2>2, <2>3, <2>4, <2>5
  <1>11. ASSUME NEW n \in Node, SrvFault(n) PROVE StartInv'
    <2> USE <1>11 DEF SrvFault, Publish, srvVars, brokerVars, nodeVars, histVars
    <2>1. Types' BY DEF Types
    <2>2. ReadyInv' BY DEF Types, ReadyInv
    <2>3. SignalInv' BY DEF Types, ReadyInv, SignalInv, FifoInv, Started
    <2>4. FifoInv' BY DEF Types, FifoInv
    <2>5. lostSync' = {} BY DEF Types, ReadyInv, SignalInv, Started
    <2> QED BY <2>1, <2>2, <2>3, <2>4, <2>5
  <1>12. ASSUME NEW n \in Node, NetDropped(n) PROVE StartInv'
    <2> USE <1>12 DEF NetDropped, Arrives, srvVars, brokerVars, nodeVars, histVars
    <2>1. Types' BY DEF Types
    <2>2. ReadyInv' BY DEF Types, ReadyInv
    <2>3. SignalInv' BY DEF Types, ReadyInv, SignalInv, FifoInv, Started
    <2>4. FifoInv' BY DEF Types, FifoInv
    <2>5. lostSync' = {} BY DEF Types, ReadyInv, SignalInv, Started
    <2> QED BY <2>1, <2>2, <2>3, <2>4, <2>5
  <1>13. ASSUME NEW n \in Node, NetNoArray(n) PROVE StartInv'
    <2> USE <1>13 DEF NetNoArray, Arrives, srvVars, brokerVars, nodeVars, histVars
    <2>1. Types' BY DEF Types
    <2>2. ReadyInv' BY DEF Types, ReadyInv
    <2>3. SignalInv' BY DEF Types, ReadyInv, SignalInv, FifoInv, Started
    <2>4. FifoInv' BY DEF Types, FifoInv
    <2>5. lostSync' = {} BY DEF Types, ReadyInv, SignalInv, Started
    <2> QED BY <2>1, <2>2, <2>3, <2>4, <2>5
  <1>14. ASSUME NEW n \in Node, NetReady(n) PROVE StartInv'
    <2> USE <1>14 DEF NetReady, Arrives, srvVars, brokerVars, nodeVars, histVars
    <2>1. Types' BY DEF Types
    <2>2. ReadyInv' BY DEF Types, ReadyInv
    <2>3. SignalInv' BY DEF Types, ReadyInv, SignalInv, FifoInv, Started
    <2>4. FifoInv' BY DEF Types, FifoInv
    <2>5. lostSync' = {} BY DEF Types, ReadyInv, SignalInv, Started
    <2> QED BY <2>1, <2>2, <2>3, <2>4, <2>5
  <1>15. ASSUME NEW n \in Node, BackendMkfifo(n) PROVE StartInv'
    <2> USE <1>15 DEF BackendMkfifo, srvVars, brokerVars, nodeVars, histVars
    <2>1. Types' BY DEF Types
    <2>2. ReadyInv' BY DEF Types, ReadyInv
    <2>3. SignalInv' BY DEF Types, ReadyInv, SignalInv, FifoInv, Started
    <2>4. FifoInv' BY DEF Types, FifoInv
    <2>5. lostSync' = {} BY DEF Types, ReadyInv, SignalInv, Started
    <2> QED BY <2>1, <2>2, <2>3, <2>4, <2>5
  <1>16. ASSUME NEW n \in Node, ClientStart(n) PROVE StartInv'
    <2> USE <1>16 DEF ClientStart, srvVars, brokerVars, nodeVars, histVars
    <2>1. Types' BY DEF Types
    <2>2. ReadyInv' BY DEF Types, ReadyInv
    <2>3. SignalInv' BY DEF Types, ReadyInv, SignalInv, FifoInv, Started
    <2>4. FifoInv' BY DEF Types, FifoInv
    <2>5. lostSync' = {} BY DEF Types, ReadyInv, SignalInv, Started
    <2> QED BY <2>1, <2>2, <2>3, <2>4, <2>5
  <1>17. ASSUME NEW n \in Node, FifoOpen(n) PROVE StartInv'
    <2> USE <1>17 DEF FifoOpen, srvVars, brokerVars, nodeVars, histVars
    <2>1. Types' BY DEF Types
    <2>2. ReadyInv' BY DEF Types, ReadyInv
    <2>3. SignalInv' BY DEF Types, ReadyInv, SignalInv, FifoInv, Started
    <2>4. FifoInv' BY DEF Types, FifoInv
    <2>5. lostSync' = {} BY DEF Types, ReadyInv, SignalInv, Started
    <2> QED BY <2>1, <2>2, <2>3, <2>4, <2>5
  <1>18. ASSUME NEW n \in Node, ClientInit(n) PROVE StartInv'
    <2> USE <1>18 DEF ClientInit, srvVars, brokerVars, nodeVars, histVars
    <2>1. Types' BY DEF Types
    <2>2. ReadyInv' BY DEF Types, ReadyInv
    <2>3. SignalInv' BY DEF Types, ReadyInv, SignalInv, FifoInv, Started
    <2>4. FifoInv' BY DEF Types, FifoInv
    <2>5. lostSync' = {} BY DEF Types, ReadyInv, SignalInv, Started
    <2> QED BY <2>1, <2>2, <2>3, <2>4, <2>5
  <1>19. ASSUME NEW n \in Node, ClientInitFails(n) PROVE StartInv'
    BY <1>19 DEF Clean, Types, ClientInitFails
  <1>20. ASSUME NEW n \in Node, ClientReady(n) PROVE StartInv'
    <2> USE <1>20 DEF ClientReady, srvVars, brokerVars, nodeVars, histVars
    <2>1. Types' BY DEF Types
    <2>2. ReadyInv' BY DEF Types, ReadyInv
    <2>3. SignalInv' BY DEF Types, ReadyInv, SignalInv, FifoInv, Started
    <2>4. FifoInv' BY DEF Types, FifoInv
    <2>5. lostSync' = {} BY DEF Types, ReadyInv, SignalInv, Started
    <2> QED BY <2>1, <2>2, <2>3, <2>4, <2>5
  <1>21. ASSUME NEW n \in Node, ClientStop(n) PROVE StartInv'
    BY <1>21 DEF Clean, Types, ClientStop
  <1>22. ASSUME NEW n \in Node, ClientRecv(n) PROVE StartInv'
    <2> USE <1>22 DEF ClientRecv, srvVars, brokerVars, nodeVars, histVars
    <2>1. Types'
      <3>1. Head(inbox[n]) \in Nat /\ Tail(inbox[n]) \in Seq(Nat) BY DEF Types
      <3>2. (IF synced[n] THEN Head(inbox[n]) ELSE SYNC) \in Int BY <3>1 DEF SYNC
      <3> QED BY <3>1, <3>2 DEF Types
    <2>2. ReadyInv' BY DEF Types, ReadyInv
    <2>3. SignalInv' BY DEF Types, ReadyInv, SignalInv, FifoInv, Started
    <2>4. FifoInv' BY DEF Types, FifoInv
    <2>5. lostSync' = {} BY DEF Types, ReadyInv, SignalInv, Started
    <2> QED BY <2>1, <2>2, <2>3, <2>4, <2>5
  <1>23. ASSUME NEW n \in Node, BackendStart(n) PROVE StartInv'
    <2> USE <1>23 DEF BackendStart, srvVars, brokerVars, nodeVars, histVars
    <2>1. Types' BY DEF Types
    <2>2. ReadyInv' BY DEF Types, ReadyInv
    <2>3. SignalInv' BY DEF Types, ReadyInv, SignalInv, FifoInv, Started
    <2>4. FifoInv' BY DEF Types, FifoInv
    <2>5. lostSync' = {} BY DEF Types, ReadyInv, SignalInv, Started
    <2> QED BY <2>1, <2>2, <2>3, <2>4, <2>5
  <1>24. ASSUME NEW n \in Node, BackendStartEOF(n) PROVE StartInv'
    <2> USE <1>24 DEF BackendStartEOF, srvVars, brokerVars, nodeVars, histVars
    <2>1. Types' BY DEF Types
    <2>2. ReadyInv' BY DEF Types, ReadyInv
    <2>3. SignalInv' BY DEF Types, ReadyInv, SignalInv, FifoInv, Started
    <2>4. FifoInv' BY DEF Types, FifoInv
    <2>5. lostSync' = {} BY DEF Types, ReadyInv, SignalInv, Started
    <2> QED BY <2>1, <2>2, <2>3, <2>4, <2>5
  <1>25. ASSUME NEW n \in Node, BackendCommand(n) PROVE StartInv'
    <2> USE <1>25 DEF BackendCommand, srvVars, brokerVars, nodeVars, histVars
    <2>1. Types' BY DEF Types
    <2>2. ReadyInv' BY DEF Types, ReadyInv
    <2>3. SignalInv' BY DEF Types, ReadyInv, SignalInv, FifoInv, Started
    <2>4. FifoInv' BY DEF Types, FifoInv
    <2>5. lostSync' = {} BY DEF Types, ReadyInv, SignalInv, Started
    <2> QED BY <2>1, <2>2, <2>3, <2>4, <2>5
  <1>26. ASSUME NEW n \in Node, BackendExit(n) PROVE StartInv'
    <2> USE <1>26 DEF BackendExit, srvVars, brokerVars, nodeVars, histVars
    <2>1. Types' BY DEF Types
    <2>2. ReadyInv' BY DEF Types, ReadyInv
    <2>3. SignalInv' BY DEF Types, ReadyInv, SignalInv, FifoInv, Started
    <2>4. FifoInv' BY DEF Types, FifoInv
    <2>5. lostSync' = {} BY DEF Types, ReadyInv, SignalInv, Started
    <2> QED BY <2>1, <2>2, <2>3, <2>4, <2>5
  <1>27. CASE UNCHANGED vars
    BY <1>27 DEF vars, srvVars, brokerVars, nodeVars, histVars, Types, ReadyInv,
                SignalInv, FifoInv, Started
  <1> QED
    BY <1>1, <1>2, <1>3, <1>4, <1>5, <1>6, <1>7, <1>8, <1>9, <1>10, <1>11, <1>12, <1>13, <1>14, <1>15, <1>16, <1>17, <1>18, <1>19, <1>20, <1>21, <1>22, <1>23, <1>24, <1>25, <1>26, <1>27
       DEF Next, Server, Net, Client, Backend

-----------------------------------------------------------------------------
(* Faults on their way, in any run.                                        *)

\* All faults of s come before all of t.
Before(s, t) == \A x \in FaultsIn(s), y \in FaultsIn(t) : x < y

FlowTypes ==
    /\ cmds \in [Node -> Seq(Int)] /\ fifo \in [Node -> Seq(Int)]
    /\ inbox \in [Node -> Seq(Int)] /\ sent \in [Node -> Seq(Int)]
    /\ nFaults \in Nat
    /\ client \in [Node -> {"off", "open", "init", "report", "loop", "stopped"}]
    /\ backend \in [Node -> {"off", "open", "wait", "running", "exited"}]
    /\ synced \in [Node -> BOOLEAN] /\ created \in [Node -> BOOLEAN]

\* The parts of the way of node n are in sequence, and so are they one to the
\* other; what is on the way was sent, and the next fault has a higher number.
OrderInv(n) ==
    /\ InSequence(cmds[n]) /\ InSequence(fifo[n]) /\ InSequence(inbox[n])
    /\ Before(cmds[n], fifo[n]) /\ Before(cmds[n], inbox[n]) /\ Before(fifo[n], inbox[n])
    /\ FaultsIn(cmds[n]) \cup FaultsIn(fifo[n]) \cup FaultsIn(inbox[n]) \subseteq FaultsIn(sent[n])
    /\ \A x \in FaultsIn(sent[n]) : x <= nFaults

FlowInv == FlowTypes /\ \A n \in Node : OrderInv(n)

-----------------------------------------------------------------------------
(* Faults on their way, in a clean run.                                    *)

\* The signal for node n has not been sent.
Unsent(n) == srvPc \notin {"signal", "tics"} \/ (srvPc = "signal" /\ n \in toSignal)

\* The first message for a node is the signal, the first line for its back end
\* is the one the client makes of it, and no fault is missing.
FirstInv(n) ==
    /\ Unsent(n) => inbox[n] = <<>> /\ ~synced[n]
    /\ ~Unsent(n) /\ ~synced[n] => inbox[n] # <<>> /\ Head(inbox[n]) = SYNC
    /\ ~synced[n] => fifo[n] = <<>> /\ backend[n] # "running"
    /\ synced[n] /\ backend[n] = "wait" => fifo[n] # <<>> /\ Head(fifo[n]) = SYNC
    /\ synced[n] => n \in signalled
    /\ client[n] \in {"init", "report", "loop"} => backend[n] \notin {"off", "open"}
    /\ FaultsIn(sent[n]) \subseteq FaultsIn(cmds[n]) \cup FaultsIn(fifo[n]) \cup FaultsIn(inbox[n])

CleanInv ==
    /\ StartInv /\ FlowInv
    /\ srvPc \in {"sync", "signal", "tics"} => nodesSet
    /\ \A n \in Node : FirstInv(n)

-----------------------------------------------------------------------------
(* Faults in sequences.                                                    *)

\* An empty sequence has no faults.
LEMMA EmptyFaults == FaultsIn(<<>>) = {} /\ InSequence(<<>>)
  BY DEF FaultsIn, InSequence

\* One more message, line or command at the end.
LEMMA AppendFaults ==
    ASSUME NEW s \in Seq(Int), NEW e \in Int
    PROVE  /\ Append(s, e) \in Seq(Int)
           /\ FaultsIn(Append(s, e)) = FaultsIn(s) \cup (IF e > SYNC THEN {e} ELSE {})
           /\ InSequence(s) /\ (e > SYNC => \A x \in FaultsIn(s) : x < e)
                 => InSequence(Append(s, e))
<1> DEFINE t == Append(s, e)
           n == Len(s)
<1>1. /\ t \in Seq(Int) /\ n \in Nat /\ DOMAIN s = 1..n /\ DOMAIN t = 1..(n + 1) /\ t[n + 1] = e
      /\ \A k \in 1..n : t[k] = s[k] /\ k \in 1..(n + 1)
      /\ \A k \in 1..(n + 1) : k \in 1..n \/ k = n + 1
  OBVIOUS
<1> HIDE DEF t, n
<1>2. FaultsIn(t) = FaultsIn(s) \cup (IF e > SYNC THEN {e} ELSE {})
  <2>1. ASSUME NEW x \in FaultsIn(t) PROVE x \in FaultsIn(s) \cup (IF e > SYNC THEN {e} ELSE {})
    BY <1>1, <2>1 DEF FaultsIn
  <2>2. ASSUME NEW x \in FaultsIn(s) PROVE x \in FaultsIn(t)
    BY <1>1, <2>2 DEF FaultsIn
  <2>3. ASSUME e > SYNC PROVE e \in FaultsIn(t)
    <3>1. n + 1 \in DOMAIN t /\ t[n + 1] > SYNC
      BY <1>1, <2>3
    <3> QED BY <1>1, <3>1 DEF FaultsIn
  <2> QED BY <2>1, <2>2, <2>3
<1>3. ASSUME InSequence(s), e > SYNC => \A x \in FaultsIn(s) : x < e PROVE InSequence(t)
  <2> SUFFICES ASSUME NEW i \in 1..(n + 1), NEW j \in 1..(n + 1), i < j, t[i] > SYNC, t[j] > SYNC
               PROVE  t[i] < t[j]
    BY <1>1 DEF InSequence
  <2>1. i \in 1..n
    BY <1>1
  <2>2. CASE j \in 1..n
    BY <1>1, <1>3, <2>1, <2>2 DEF InSequence
  <2>3. CASE j = n + 1
    <3>1. t[i] \in FaultsIn(s)
      BY <1>1, <2>1 DEF FaultsIn
    <3> QED BY <1>1, <1>3, <2>3, <3>1
  <2> QED BY <1>1, <2>2, <2>3
<1> QED BY <1>1, <1>2, <1>3 DEF t

\* One less at the front.
LEMMA TailFaults ==
    ASSUME NEW s \in Seq(Int), s # <<>>
    PROVE  /\ Tail(s) \in Seq(Int) /\ Head(s) \in Int
           /\ FaultsIn(s) = FaultsIn(Tail(s)) \cup (IF Head(s) > SYNC THEN {Head(s)} ELSE {})
           /\ InSequence(s) => /\ InSequence(Tail(s))
                               /\ Head(s) > SYNC => \A x \in FaultsIn(Tail(s)) : Head(s) < x
<1> DEFINE t == Tail(s)
           n == Len(s)
<1>1. /\ t \in Seq(Int) /\ n \in Nat \ {0} /\ DOMAIN s = 1..n /\ DOMAIN t = 1..(n - 1)
      /\ Head(s) = s[1] /\ s[1] \in Int
      /\ \A k \in 1..(n - 1) : t[k] = s[k + 1] /\ k + 1 \in 1..n
      /\ \A k \in 1..n : k = 1 \/ (k - 1 \in 1..(n - 1) /\ s[k] = t[k - 1])
  OBVIOUS
<1> HIDE DEF t, n
<1>2. FaultsIn(s) = FaultsIn(t) \cup (IF s[1] > SYNC THEN {s[1]} ELSE {})
  <2>1. ASSUME NEW x \in FaultsIn(s) PROVE x \in FaultsIn(t) \cup (IF s[1] > SYNC THEN {s[1]} ELSE {})
    <3>1. PICK k \in 1..n : x = s[k] /\ s[k] > SYNC
      BY <1>1, <2>1 DEF FaultsIn
    <3>2. CASE k = 1
      BY <3>1, <3>2
    <3>3. CASE k # 1
      <4>1. k - 1 \in DOMAIN t /\ x = t[k - 1] /\ t[k - 1] > SYNC
        BY <1>1, <3>1, <3>3
      <4> QED BY <4>1 DEF FaultsIn
    <3> QED BY <3>2, <3>3
  <2>2. ASSUME NEW x \in FaultsIn(t) PROVE x \in FaultsIn(s)
    <3>1. PICK k \in 1..(n - 1) : x = t[k] /\ t[k] > SYNC
      BY <1>1, <2>2 DEF FaultsIn
    <3>2. k + 1 \in DOMAIN s /\ x = s[k + 1] /\ s[k + 1] > SYNC
      BY <1>1, <3>1
    <3> QED BY <3>2 DEF FaultsIn
  <2>3. ASSUME s[1] > SYNC PROVE s[1] \in FaultsIn(s)
    <3>1. 1 \in DOMAIN s
      BY <1>1
    <3> QED BY <2>3, <3>1 DEF FaultsIn
  <2> QED BY <2>1, <2>2, <2>3
<1>3. ASSUME InSequence(s)
      PROVE  InSequence(t) /\ (s[1] > SYNC => \A x \in FaultsIn(t) : s[1] < x)
  <2>1. ASSUME NEW i \in 1..(n - 1), NEW j \in 1..(n - 1), i < j, t[i] > SYNC, t[j] > SYNC
        PROVE  t[i] < t[j]
    <3>1. /\ i + 1 \in DOMAIN s /\ j + 1 \in DOMAIN s /\ i + 1 < j + 1
          /\ s[i + 1] = t[i] /\ s[j + 1] = t[j]
      BY <1>1, <2>1
    <3>2. s[i + 1] < s[j + 1]
      BY <1>3, <2>1, <3>1 DEF InSequence
    <3> QED BY <3>1, <3>2
  <2>2. ASSUME s[1] > SYNC, NEW x \in FaultsIn(t) PROVE s[1] < x
    <3>1. PICK k \in 1..(n - 1) : x = t[k] /\ t[k] > SYNC
      BY <1>1, <2>2 DEF FaultsIn
    <3>2. 1 \in DOMAIN s /\ k + 1 \in DOMAIN s /\ 1 < k + 1 /\ s[k + 1] = t[k]
      BY <1>1
    <3>3. s[1] < s[k + 1]
      BY <1>3, <2>2, <3>1, <3>2 DEF InSequence
    <3> QED BY <3>1, <3>2, <3>3
  <2> QED BY <1>1, <2>1, <2>2 DEF InSequence
<1> QED BY <1>1, <1>2, <1>3 DEF t

\* Two sequences end to end.
LEMMA ConcatFaults ==
    ASSUME NEW s \in Seq(Int), NEW t \in Seq(Int)
    PROVE  /\ s \o t \in Seq(Int)
           /\ FaultsIn(s \o t) = FaultsIn(s) \cup FaultsIn(t)
           /\ InSequence(s) /\ InSequence(t) /\ Before(s, t) => InSequence(s \o t)
<1> DEFINE u == s \o t
           n == Len(s)
           m == Len(t)
<1>1. /\ u \in Seq(Int) /\ n \in Nat /\ m \in Nat
      /\ DOMAIN s = 1..n /\ DOMAIN t = 1..m /\ DOMAIN u = 1..(n + m)
      /\ \A k \in 1..n : u[k] = s[k] /\ k \in 1..(n + m)
      /\ \A k \in 1..m : u[n + k] = t[k] /\ n + k \in 1..(n + m)
      /\ \A k \in 1..(n + m) : k \in 1..n \/ (k - n \in 1..m /\ u[k] = t[k - n])
  OBVIOUS
<1> HIDE DEF u, n, m
<1>2. FaultsIn(u) = FaultsIn(s) \cup FaultsIn(t)
  <2>1. ASSUME NEW x \in FaultsIn(u) PROVE x \in FaultsIn(s) \cup FaultsIn(t)
    BY <1>1, <2>1 DEF FaultsIn
  <2>2. ASSUME NEW x \in FaultsIn(s) PROVE x \in FaultsIn(u)
    <3>1. PICK k \in 1..n : x = s[k] /\ s[k] > SYNC
      BY <1>1, <2>2 DEF FaultsIn
    <3>2. k \in DOMAIN u /\ x = u[k] /\ u[k] > SYNC
      BY <1>1, <3>1
    <3> QED BY <3>2 DEF FaultsIn
  <2>3. ASSUME NEW x \in FaultsIn(t) PROVE x \in FaultsIn(u)
    <3>1. PICK k \in 1..m : x = t[k] /\ t[k] > SYNC
      BY <1>1, <2>3 DEF FaultsIn
    <3>2. n + k \in DOMAIN u /\ x = u[n + k] /\ u[n + k] > SYNC
      BY <1>1, <3>1
    <3> QED BY <3>2 DEF FaultsIn
  <2> QED BY <2>1, <2>2, <2>3
<1>3. ASSUME InSequence(s), InSequence(t), Before(s, t) PROVE InSequence(u)
  <2> SUFFICES ASSUME NEW i \in 1..(n + m), NEW j \in 1..(n + m), i < j, u[i] > SYNC, u[j] > SYNC
               PROVE  u[i] < u[j]
    BY <1>1 DEF InSequence
  <2>1. CASE i \in 1..n /\ j \in 1..n
    BY <1>1, <1>3, <2>1 DEF InSequence
  <2>2. CASE i \in 1..n /\ j \notin 1..n
    <3>1. u[i] \in FaultsIn(s)
      BY <1>1, <2>2 DEF FaultsIn
    <3>2. u[j] \in FaultsIn(t)
      BY <1>1, <2>2 DEF FaultsIn
    <3> QED BY <1>3, <3>1, <3>2 DEF Before
  <2>3. CASE i \notin 1..n
    <3>1. /\ i - n \in 1..m /\ j - n \in 1..m /\ i - n < j - n
          /\ u[i] = t[i - n] /\ u[j] = t[j - n]
      BY <1>1, <2>3
    <3>2. t[i - n] > SYNC /\ t[j - n] > SYNC
      BY <3>1
    <3> QED BY <1>1, <1>3, <3>1, <3>2 DEF InSequence
  <2> QED BY <2>1, <2>2, <2>3
<1> QED BY <1>1, <1>2, <1>3 DEF u

-----------------------------------------------------------------------------
(* In any run faults stay in order.                                        *)

\* A step on the way of one node leaves the others alone.
LEMMA FlowFrame ==
    ASSUME FlowInv, FlowTypes', NEW n \in Node, nFaults <= nFaults',
           \A q \in Node : q # n =>
              UNCHANGED <<cmds[q], fifo[q], inbox[q], sent[q]>>,
           OrderInv(n)'
    PROVE  FlowInv'
<1>1. ASSUME NEW q \in Node, q # n PROVE OrderInv(q)'
  <2>1. OrderInv(q)
    BY DEF FlowInv
  <2>2. /\ cmds'[q] = cmds[q] /\ fifo'[q] = fifo[q] /\ inbox'[q] = inbox[q]
        /\ sent'[q] = sent[q]
    BY <1>1
  <2>3. \A x \in FaultsIn(sent[q]) : x \in Int
    <3>1. sent[q] \in Seq(Int)
      BY DEF FlowInv, FlowTypes
    <3>2. \A k \in DOMAIN sent[q] : sent[q][k] \in Int
      BY <3>1
    <3> QED BY <3>2 DEF FaultsIn
  <2>4. \A x \in FaultsIn(sent[q]) : x <= nFaults'
    <3>1. nFaults \in Nat /\ nFaults' \in Nat
      BY DEF FlowInv, FlowTypes
    <3>2. \A x \in FaultsIn(sent[q]) : x <= nFaults
      BY <2>1 DEF OrderInv
    <3> QED BY <2>3, <3>1, <3>2
  <2> QED BY <2>1, <2>2, <2>4 DEF OrderInv, Before
<1> QED BY <1>1 DEF FlowInv

\* A step that touches no message and no line.
LEMMA FlowIdle ==
    ASSUME FlowInv, FlowTypes', UNCHANGED <<cmds, fifo, inbox, sent, nFaults>>
    PROVE  FlowInv'
<1>1. ASSUME NEW n \in Node PROVE OrderInv(n)'
  <2>1. OrderInv(n)
    BY DEF FlowInv
  <2> QED BY <2>1 DEF OrderInv, Before
<1> QED BY <1>1 DEF FlowInv

\* The server publishes the signal or a fault: the last message, if anybody
\* is subscribed.
LEMMA FlowPublish ==
    ASSUME FlowInv, NEW n \in Node, SrvSignal(n) \/ SrvFault(n)
    PROVE  FlowInv'
<1>1. PICK m \in Nat :
         /\ inbox' = IF n \in subs THEN [inbox EXCEPT ![n] = Append(inbox[n], m)] ELSE inbox
         /\ \/ m = SYNC /\ UNCHANGED <<sent, nFaults>>
            \/ /\ m = nFaults + 1 /\ nFaults' = nFaults + 1
               /\ sent' = [sent EXCEPT ![n] = Append(sent[n], m)]
         /\ UNCHANGED <<cmds, fifo, synced, client, backend, created>>
  <2>1. CASE SrvSignal(n)
    <3>1. SYNC \in Nat
      BY DEF SYNC
    <3> QED BY <2>1, <3>1 DEF SrvSignal, Publish, nodeVars
  <2>2. CASE SrvFault(n)
    <3>1. nFaults + 1 \in Nat
      BY DEF FlowInv, FlowTypes
    <3> QED BY <2>2, <3>1 DEF SrvFault, Publish, nodeVars
  <2> QED BY <2>1, <2>2
<1>2. /\ FlowTypes /\ OrderInv(n) /\ nFaults \in Nat
      /\ cmds[n] \in Seq(Int) /\ fifo[n] \in Seq(Int) /\ inbox[n] \in Seq(Int)
      /\ sent[n] \in Seq(Int)
  BY DEF FlowInv, FlowTypes
<1>3. /\ Append(inbox[n], m) \in Seq(Int) /\ Append(sent[n], m) \in Seq(Int)
      /\ FaultsIn(Append(inbox[n], m)) = FaultsIn(inbox[n]) \cup (IF m > SYNC THEN {m} ELSE {})
      /\ FaultsIn(Append(sent[n], m)) = FaultsIn(sent[n]) \cup (IF m > SYNC THEN {m} ELSE {})
  BY <1>2, AppendFaults
<1>4. FlowTypes' /\ nFaults <= nFaults'
  <2>1. inbox' \in [Node -> Seq(Int)] /\ sent' \in [Node -> Seq(Int)]
    BY <1>1, <1>2, <1>3 DEF FlowTypes
  <2>2. nFaults' \in Nat /\ nFaults <= nFaults'
    BY <1>1, <1>2
  <2> QED BY <1>1, <1>2, <2>1, <2>2 DEF FlowTypes
<1>5. /\ inbox'[n] = IF n \in subs THEN Append(inbox[n], m) ELSE inbox[n]
      /\ sent'[n] = IF m = SYNC THEN sent[n] ELSE Append(sent[n], m)
      /\ m # SYNC => m = nFaults + 1 /\ nFaults' = nFaults + 1
      /\ m = SYNC => nFaults' = nFaults
      /\ \A q \in Node : q # n => UNCHANGED <<inbox[q], sent[q]>>
  <2>1. CASE m = SYNC /\ UNCHANGED <<sent, nFaults>>
    BY <1>1, <1>2, <2>1 DEF FlowTypes, SYNC
  <2>2. CASE m = nFaults + 1 /\ nFaults' = nFaults + 1 /\ sent' = [sent EXCEPT ![n] = Append(sent[n], m)]
    <3>1. m # SYNC
      BY <1>2, <2>2 DEF SYNC
    <3> QED BY <1>1, <1>2, <2>2, <3>1 DEF FlowTypes
  <2> QED BY <1>1, <2>1, <2>2
<1>6. m > SYNC => \A x \in FaultsIn(sent[n]) : x < m
  <2>1. \A x \in FaultsIn(sent[n]) : x \in Int /\ x <= nFaults
    BY <1>2 DEF OrderInv, FaultsIn
  <2> QED BY <1>2, <1>5, <2>1 DEF SYNC
<1>7. /\ InSequence(inbox'[n])
      /\ FaultsIn(inbox'[n]) \subseteq FaultsIn(inbox[n]) \cup (IF m > SYNC THEN {m} ELSE {})
  <2>1. m > SYNC => \A x \in FaultsIn(inbox[n]) : x < m
    BY <1>2, <1>6 DEF OrderInv
  <2> QED BY <1>2, <1>3, <1>5, <2>1, AppendFaults DEF OrderInv
<1>8. FaultsIn(sent'[n]) = FaultsIn(sent[n]) \cup (IF m > SYNC THEN {m} ELSE {})
  BY <1>3, <1>5 DEF SYNC
<1>9. \A x \in FaultsIn(sent'[n]) : x <= nFaults'
  <2>1. \A x \in FaultsIn(sent[n]) : x \in Int /\ x <= nFaults
    BY <1>2 DEF OrderInv, FaultsIn
  <2> QED BY <1>2, <1>5, <1>8, <2>1 DEF SYNC
<1>10. /\ FaultsIn(cmds[n]) \cup FaultsIn(fifo[n]) \cup FaultsIn(inbox'[n]) \subseteq FaultsIn(sent'[n])
       /\ \A x \in FaultsIn(cmds[n]) \cup FaultsIn(fifo[n]), y \in FaultsIn(inbox'[n]) : x < y
  BY <1>2, <1>6, <1>7, <1>8 DEF OrderInv, Before
<1>11. OrderInv(n)'
  BY <1>1, <1>2, <1>7, <1>9, <1>10 DEF OrderInv, Before
<1> QED BY <1>1, <1>4, <1>5, <1>11, FlowFrame

\* The client makes a line of the next message, and it is the last line.
LEMMA FlowRecv ==
    ASSUME FlowInv, NEW n \in Node, ClientRecv(n)
    PROVE  FlowInv'
<1>1. /\ FlowTypes /\ OrderInv(n)
      /\ fifo[n] \in Seq(Int) /\ inbox[n] \in Seq(Int) /\ inbox[n] # <<>>
  BY DEF FlowInv, FlowTypes, ClientRecv
<1>2. PICK l : l = IF synced[n] THEN Head(inbox[n]) ELSE SYNC
  OBVIOUS
<1>3. /\ inbox' = [inbox EXCEPT ![n] = Tail(inbox[n])]
      /\ fifo' = [fifo EXCEPT ![n] = Append(fifo[n], l)]
      /\ synced' = [synced EXCEPT ![n] = TRUE]
      /\ UNCHANGED <<cmds, sent, nFaults, client, backend, created>>
  BY <1>2 DEF ClientRecv, srvVars
<1>4. /\ Tail(inbox[n]) \in Seq(Int) /\ Head(inbox[n]) \in Int
      /\ FaultsIn(inbox[n]) = FaultsIn(Tail(inbox[n]))
                                \cup (IF Head(inbox[n]) > SYNC THEN {Head(inbox[n])} ELSE {})
      /\ InSequence(Tail(inbox[n]))
      /\ Head(inbox[n]) > SYNC => \A x \in FaultsIn(Tail(inbox[n])) : Head(inbox[n]) < x
  BY <1>1, TailFaults DEF OrderInv
<1>5. l \in Int /\ (l > SYNC => l = Head(inbox[n]))
  BY <1>2, <1>4 DEF SYNC
<1>6. l > SYNC => \A x \in FaultsIn(fifo[n]) : x < l
  BY <1>1, <1>4, <1>5 DEF OrderInv, Before
<1>7. /\ Append(fifo[n], l) \in Seq(Int) /\ InSequence(Append(fifo[n], l))
      /\ FaultsIn(Append(fifo[n], l)) = FaultsIn(fifo[n]) \cup (IF l > SYNC THEN {l} ELSE {})
  BY <1>1, <1>5, <1>6, AppendFaults DEF OrderInv
<1>8. /\ inbox'[n] = Tail(inbox[n]) /\ fifo'[n] = Append(fifo[n], l) /\ synced'[n]
      /\ \A q \in Node : q # n => UNCHANGED <<inbox[q], fifo[q], synced[q]>>
  BY <1>1, <1>3 DEF FlowTypes
<1>9. FlowTypes'
  BY <1>1, <1>3, <1>4, <1>7 DEF FlowTypes
<1>10. OrderInv(n)'
  <2>1. /\ FaultsIn(inbox'[n]) \subseteq FaultsIn(inbox[n])
        /\ FaultsIn(fifo'[n]) \subseteq FaultsIn(fifo[n]) \cup FaultsIn(inbox[n])
        /\ \A x \in FaultsIn(fifo'[n]), y \in FaultsIn(inbox'[n]) : x < y
    BY <1>1, <1>4, <1>5, <1>7, <1>8 DEF OrderInv, Before
  <2> QED BY <1>1, <1>3, <1>4, <1>7, <1>8, <2>1 DEF OrderInv, Before
<1>11. nFaults <= nFaults'
  BY <1>1, <1>3 DEF FlowTypes
<1> QED BY <1>3, <1>8, <1>9, <1>10, <1>11, FlowFrame

\* The client stops: what waits at the broker is gone.
LEMMA FlowStop ==
    ASSUME FlowInv, NEW n \in Node, ClientStop(n)
    PROVE  FlowInv'
<1>1. /\ FlowTypes /\ OrderInv(n) /\ fifo[n] \in Seq(Int)
  BY DEF FlowInv, FlowTypes
<1>2. /\ client' = [client EXCEPT ![n] = "stopped"]
      /\ inbox' = [inbox EXCEPT ![n] = <<>>]
      /\ fifo' = [fifo EXCEPT ![n] = Append(fifo[n], EXIT)]
      /\ UNCHANGED <<cmds, sent, nFaults, synced, backend, created>>
  BY DEF ClientStop, srvVars, histVars
<1>3. /\ Append(fifo[n], EXIT) \in Seq(Int) /\ InSequence(Append(fifo[n], EXIT))
      /\ FaultsIn(Append(fifo[n], EXIT)) = FaultsIn(fifo[n])
  <2>1. EXIT \in Int /\ ~(EXIT > SYNC)
    BY DEF EXIT, SYNC
  <2> QED BY <1>1, <2>1, AppendFaults DEF OrderInv
<1>4. /\ inbox'[n] = <<>> /\ fifo'[n] = Append(fifo[n], EXIT) /\ client'[n] = "stopped"
      /\ \A q \in Node : q # n => UNCHANGED <<inbox[q], fifo[q], client[q]>>
  BY <1>1, <1>2 DEF FlowTypes
<1>5. FlowTypes'
  BY <1>1, <1>2, <1>3 DEF FlowTypes
<1>6. OrderInv(n)'
  BY <1>1, <1>2, <1>3, <1>4, EmptyFaults DEF OrderInv, Before
<1>7. nFaults <= nFaults'
  BY <1>1, <1>2 DEF FlowTypes
<1> QED BY <1>2, <1>4, <1>5, <1>6, <1>7, FlowFrame

\* The back end takes the first line, as a command or not.
LEMMA FlowTake ==
    ASSUME FlowInv, NEW n \in Node, BackendStart(n) \/ BackendCommand(n) \/ BackendExit(n)
    PROVE  FlowInv'
<1>1. /\ FlowTypes /\ OrderInv(n)
      /\ fifo[n] \in Seq(Int) /\ cmds[n] \in Seq(Int) /\ fifo[n] # <<>>
  BY DEF FlowInv, FlowTypes, BackendStart, BackendCommand, BackendExit
<1>2. /\ fifo' = [fifo EXCEPT ![n] = Tail(fifo[n])]
      /\ \/ UNCHANGED cmds
         \/ cmds' = [cmds EXCEPT ![n] = Append(cmds[n], Head(fifo[n]))]
      /\ UNCHANGED <<inbox, sent, nFaults, synced, client, created>>
      /\ UNCHANGED backend \/ \E s \in {"running", "exited"} : backend' = [backend EXCEPT ![n] = s]
  BY DEF BackendStart, BackendCommand, BackendExit, srvVars, brokerVars, histVars
<1>3. /\ Tail(fifo[n]) \in Seq(Int) /\ Head(fifo[n]) \in Int
      /\ FaultsIn(fifo[n]) = FaultsIn(Tail(fifo[n]))
                                \cup (IF Head(fifo[n]) > SYNC THEN {Head(fifo[n])} ELSE {})
      /\ InSequence(Tail(fifo[n]))
      /\ Head(fifo[n]) > SYNC => \A x \in FaultsIn(Tail(fifo[n])) : Head(fifo[n]) < x
  BY <1>1, TailFaults DEF OrderInv
<1>4. Head(fifo[n]) > SYNC => \A x \in FaultsIn(cmds[n]) : x < Head(fifo[n])
  BY <1>1, <1>3 DEF OrderInv, Before
<1>5. /\ Append(cmds[n], Head(fifo[n])) \in Seq(Int) /\ InSequence(Append(cmds[n], Head(fifo[n])))
      /\ FaultsIn(Append(cmds[n], Head(fifo[n])))
            = FaultsIn(cmds[n]) \cup (IF Head(fifo[n]) > SYNC THEN {Head(fifo[n])} ELSE {})
  BY <1>1, <1>3, <1>4, AppendFaults DEF OrderInv
<1>6. /\ fifo'[n] = Tail(fifo[n])
      /\ cmds'[n] = cmds[n] \/ cmds'[n] = Append(cmds[n], Head(fifo[n]))
      /\ \A q \in Node : q # n => UNCHANGED <<fifo[q], cmds[q], backend[q]>>
  BY <1>1, <1>2 DEF FlowTypes
<1>7. FlowTypes'
  <2>1. fifo' \in [Node -> Seq(Int)] /\ cmds' \in [Node -> Seq(Int)]
    <3>1. fifo \in [Node -> Seq(Int)] /\ cmds \in [Node -> Seq(Int)]
      BY <1>1 DEF FlowTypes
    <3>2. Tail(fifo[n]) \in Seq(Int) /\ Append(cmds[n], Head(fifo[n])) \in Seq(Int)
      BY <1>3, <1>5
    <3> QED BY <1>2, <3>1, <3>2
  <2>2. backend' \in [Node -> {"off", "open", "wait", "running", "exited"}]
    BY <1>1, <1>2 DEF FlowTypes
  <2> QED BY <1>1, <1>2, <2>1, <2>2 DEF FlowTypes
<1>8. OrderInv(n)'
  <2>1. /\ FaultsIn(fifo'[n]) \subseteq FaultsIn(fifo[n])
        /\ FaultsIn(cmds'[n]) \subseteq FaultsIn(cmds[n]) \cup FaultsIn(fifo[n])
        /\ InSequence(cmds'[n]) /\ InSequence(fifo'[n])
    BY <1>1, <1>3, <1>5, <1>6 DEF OrderInv
  <2>2. \A x \in FaultsIn(cmds'[n]), y \in FaultsIn(fifo'[n]) : x < y
    BY <1>1, <1>3, <1>5, <1>6 DEF OrderInv, Before
  <2> QED BY <1>1, <1>2, <2>1, <2>2 DEF OrderInv, Before
<1>9. nFaults <= nFaults'
  BY <1>1, <1>2 DEF FlowTypes
<1> QED BY <1>2, <1>6, <1>7, <1>8, <1>9, FlowFrame

\* The invariant holds at the start of any run, ...
LEMMA FlowInit == Init => FlowInv
<1> SUFFICES ASSUME Init PROVE FlowInv
  OBVIOUS
<1>1. FlowTypes
  BY DEF Init, FlowTypes
<1>2. ASSUME NEW n \in Node PROVE OrderInv(n)
  BY EmptyFaults DEF Init, OrderInv, Before
<1> QED BY <1>1, <1>2 DEF FlowInv

\* ... and every step keeps it, those of signals, failures and leftovers too.
LEMMA FlowNext ==
    ASSUME FlowInv, [Next]_vars
    PROVE  FlowInv'
<1>1. FlowTypes
  BY DEF FlowInv
<1>2. ASSUME UNCHANGED <<cmds, fifo, inbox, sent, nFaults, synced, client, backend, created>>
      PROVE  FlowInv'
  BY <1>1, <1>2, FlowIdle DEF FlowTypes
<1>3. CASE Server \/ TermHandler \/ UNCHANGED vars
  <2>1. ASSUME NEW n \in Node, SrvSignal(n) PROVE FlowInv'
    BY <2>1, FlowPublish
  <2>2. CASE SrvLoad
    BY <1>2, <2>2 DEF SrvLoad, nodeVars, histVars
  <2>3. CASE SrvPostInit \/ SrvSetCallback \/ SrvNumNodes \/ SrvNodes
    BY <1>2, <2>3 DEF SrvPostInit, SrvSetCallback, SrvNumNodes, SrvNodes, brokerVars, nodeVars, histVars
  <2>4. CASE SrvAllReady \/ SrvWaitInterrupted \/ SrvSignalled \/ TermHandler
    BY <1>2, <2>4 DEF SrvAllReady, SrvWaitInterrupted, SrvSignalled, TermHandler, brokerVars, nodeVars, histVars
  <2>5. CASE UNCHANGED vars
    BY <1>2, <2>5 DEF vars, srvVars, brokerVars, nodeVars, histVars
  <2> QED BY <1>3, <2>1, <2>2, <2>3, <2>4, <2>5 DEF Server
<1>4. ASSUME NEW n \in Node, SrvFault(n) \/ Net(n) PROVE FlowInv'
  <2>1. CASE SrvFault(n)
    BY <2>1, FlowPublish
  <2>2. CASE Net(n)
    BY <1>2, <2>2 DEF Net, NetDropped, NetNoArray, NetReady, srvVars, nodeVars, histVars
  <2> QED BY <1>4, <2>1, <2>2
<1>5. ASSUME NEW n \in Node, Client(n) \/ ClientInitFails(n) \/ ClientStop(n) PROVE FlowInv'
  <2>1. CASE ClientRecv(n)
    BY <2>1, FlowRecv
  <2>2. CASE ClientStop(n)
    BY <2>2, FlowStop
  <2>3. CASE ClientStart(n) \/ ClientInit(n) \/ ClientReady(n) \/ ClientInitFails(n)
    <3>1. PICK s \in {"open", "report", "loop", "stopped"} :
             /\ client' = [client EXCEPT ![n] = s] /\ client[n] # "stopped"
             /\ UNCHANGED <<cmds, fifo, inbox, sent, nFaults, synced, backend, created>>
      BY <2>3 DEF ClientStart, ClientInit, ClientReady, ClientInitFails, srvVars, brokerVars, histVars
    <3>2. /\ FlowTypes'
          /\ \A q \in Node : client[q] = "stopped" => client'[q] = "stopped"
      BY <1>1, <3>1 DEF FlowTypes
    <3> QED BY <3>1, <3>2, FlowIdle
  <2> QED BY <1>5, <2>1, <2>2, <2>3 DEF Client
<1>6. ASSUME NEW n \in Node, Backend(n) PROVE FlowInv'
  <2>1. CASE BackendStart(n) \/ BackendCommand(n) \/ BackendExit(n)
    BY <2>1, FlowTake
  <2>2. CASE BackendMkfifo(n)
    <3>1. /\ backend' = [backend EXCEPT ![n] = "open"]
          /\ created' = [created EXCEPT ![n] = n \notin fifoFile]
          /\ UNCHANGED <<cmds, fifo, inbox, sent, nFaults, synced, client>>
      BY <2>2 DEF BackendMkfifo, srvVars, brokerVars, histVars
    <3>2. /\ FlowTypes'
          /\ \A q \in Node : backend'[q] = "running" => backend[q] = "running" /\ created'[q] = created[q]
      BY <1>1, <3>1 DEF FlowTypes
    <3> QED BY <3>1, <3>2, FlowIdle
  <2>3. CASE FifoOpen(n)
    <3>1. /\ client[n] = "open" /\ client' = [client EXCEPT ![n] = "init"]
          /\ backend' = [backend EXCEPT ![n] = IF created[n] THEN "wait" ELSE "running"]
          /\ UNCHANGED <<cmds, fifo, inbox, sent, nFaults, synced, created>>
      BY <2>3 DEF FifoOpen, srvVars, brokerVars, histVars
    <3>2. /\ FlowTypes'
          /\ \A q \in Node : backend'[q] = "running" => backend[q] = "running" \/ ~created'[q]
          /\ \A q \in Node : client[q] = "stopped" => client'[q] = "stopped"
      BY <1>1, <3>1 DEF FlowTypes
    <3> QED BY <3>1, <3>2, FlowIdle
  <2>4. CASE BackendStartEOF(n)
    <3>1. /\ client[n] = "stopped" /\ backend' = [backend EXCEPT ![n] = "running"]
          /\ UNCHANGED <<cmds, fifo, inbox, sent, nFaults, synced, client, created>>
      BY <2>4 DEF BackendStartEOF, srvVars, brokerVars, histVars
    <3>2. /\ FlowTypes'
          /\ \A q \in Node : backend'[q] = "running" => backend[q] = "running" \/ client'[q] = "stopped"
      BY <1>1, <3>1 DEF FlowTypes
    <3> QED BY <3>1, <3>2, FlowIdle
  <2> QED BY <1>6, <2>1, <2>2, <2>3, <2>4 DEF Backend
<1> QED BY <1>3, <1>4, <1>5, <1>6 DEF Next

\* In every run, whatever goes wrong.
LEMMA FlowInvariant == Spec => []FlowInv
  BY FlowInit, FlowNext, PTL DEF Spec

\* What is on the way of a node, in one piece.
LEMMA WayFaults ==
    ASSUME FlowInv, NEW n \in Node
    PROVE  /\ InSequence(Way(n))
           /\ FaultsIn(Way(n)) = FaultsIn(cmds[n]) \cup FaultsIn(fifo[n]) \cup FaultsIn(inbox[n])
<1>1. /\ OrderInv(n) /\ cmds[n] \in Seq(Int) /\ fifo[n] \in Seq(Int) /\ inbox[n] \in Seq(Int)
  BY DEF FlowInv, FlowTypes
<1>2. /\ cmds[n] \o fifo[n] \in Seq(Int) /\ InSequence(cmds[n] \o fifo[n])
      /\ FaultsIn(cmds[n] \o fifo[n]) = FaultsIn(cmds[n]) \cup FaultsIn(fifo[n])
  BY <1>1, ConcatFaults DEF OrderInv
<1>3. Before(cmds[n] \o fifo[n], inbox[n])
  BY <1>1, <1>2 DEF OrderInv, Before
<1> QED BY <1>1, <1>2, <1>3, ConcatFaults DEF OrderInv, Way

\* Faults are delivered at most once and in order, in any run: with statuses
\* and files of an earlier run, signals, and clients that fail or stop
\* (notify_fail, get_faults, client.c's loop, lauSim_main).
THEOREM OrderCorrect == Spec => []AtMostOnceInOrder
<1>1. FlowInv => AtMostOnceInOrder
  BY WayFaults DEF FlowInv, OrderInv, AtMostOnceInOrder
<1> QED BY <1>1, FlowInvariant, PTL

-----------------------------------------------------------------------------
(* In a clean run none is missing, and the signal comes first.             *)

\* A command that is written behind others leaves the first one in its place.
LEMMA HeadAppend ==
    ASSUME NEW s \in Seq(Int), NEW e \in Int
    PROVE  /\ Append(s, e) # <<>>
           /\ s = <<>> => Head(Append(s, e)) = e
           /\ s # <<>> => Head(Append(s, e)) = Head(s)
<1>1. /\ Append(s, e) \in Seq(Int) /\ Len(s) \in Nat
      /\ Len(Append(s, e)) = Len(s) + 1
      /\ Append(s, e)[Len(s) + 1] = e
      /\ \A i \in 1..Len(s) : Append(s, e)[i] = s[i]
  OBVIOUS
<1>2. Append(s, e) # <<>> /\ Head(Append(s, e)) = Append(s, e)[1]
  BY <1>1
<1>3. CASE s = <<>>
  BY <1>1, <1>2, <1>3
<1>4. CASE s # <<>>
  <2>1. Len(s) >= 1 /\ Head(s) = s[1]
    BY <1>1, <1>4
  <2> QED BY <1>1, <1>2, <1>4, <2>1
<1> QED BY <1>3, <1>4

\* A step on the way of one node leaves what is first on the others alone.
LEMMA FirstFrame ==
    ASSUME \A q \in Node : FirstInv(q), NEW n \in Node, FirstInv(n)',
           \A q \in Node : q # n =>
              /\ UNCHANGED <<cmds[q], fifo[q], inbox[q], sent[q], synced[q], client[q], backend[q]>>
              /\ q \in signalled => q \in signalled'
              /\ Unsent(q)' <=> Unsent(q)
    PROVE  \A q \in Node : FirstInv(q)'
<1>1. ASSUME NEW q \in Node, q # n PROVE FirstInv(q)'
  BY <1>1 DEF FirstInv
<1> QED BY <1>1

\* A step that touches no message and no line, and starts no back end.
LEMMA FirstIdle ==
    ASSUME \A q \in Node : FirstInv(q),
           UNCHANGED <<cmds, fifo, inbox, sent, synced, signalled, backend>>,
           \A q \in Node :
              /\ client'[q] \in {"init", "report", "loop"}
                    => client[q] \in {"init", "report", "loop"}
              /\ Unsent(q)' <=> Unsent(q)
    PROVE  \A q \in Node : FirstInv(q)'
  BY DEF FirstInv

\* The signal is the first message for a node, ...
LEMMA FirstSignal ==
    ASSUME CleanInv, NEW n \in Node, SrvSignal(n)
    PROVE  \A q \in Node : FirstInv(q)'
<1>1. /\ \A q \in Node : FirstInv(q)
      /\ n \in subs /\ Unsent(n) /\ inbox[n] = <<>> /\ inbox \in [Node -> Seq(Int)]
  BY DEF CleanInv, StartInv, SignalInv, ReadyInv, Started, SrvSignal, Unsent, FirstInv,
         FlowInv, FlowTypes
<1>2. /\ inbox' = [inbox EXCEPT ![n] = Append(<<>>, SYNC)]
      /\ UNCHANGED <<srvPc, cmds, fifo, sent, synced, signalled, client, backend>>
      /\ srvPc = "signal" /\ toSignal' = toSignal \ {n}
  BY <1>1 DEF SrvSignal, Publish, nodeVars
<1>3. inbox'[n] = <<SYNC>> /\ \A q \in Node : q # n => inbox'[q] = inbox[q]
  BY <1>1, <1>2
<1>4. FaultsIn(inbox[n]) = {}
  BY <1>1, EmptyFaults
<1>5. ~Unsent(n)' /\ \A q \in Node : q # n => (Unsent(q)' <=> Unsent(q))
  BY <1>2 DEF Unsent
<1>6. inbox'[n] # <<>> /\ Head(inbox'[n]) = SYNC
  BY <1>3
<1>7. FirstInv(n)'
  BY <1>1, <1>2, <1>4, <1>5, <1>6 DEF FirstInv
<1> QED BY <1>1, <1>2, <1>3, <1>5, <1>7, FirstFrame

\* ... a fault comes after it, ...
LEMMA FirstFault ==
    ASSUME CleanInv, NEW n \in Node, SrvFault(n)
    PROVE  \A q \in Node : FirstInv(q)'
<1>1. /\ \A q \in Node : FirstInv(q)
      /\ n \in subs /\ ~Unsent(n) /\ inbox \in [Node -> Seq(Int)] /\ sent \in [Node -> Seq(Int)]
      /\ inbox[n] \in Seq(Int) /\ sent[n] \in Seq(Int) /\ nFaults + 1 \in Int
  BY DEF CleanInv, StartInv, SignalInv, ReadyInv, Started, SrvFault, Unsent, FlowInv, FlowTypes
<1>2. /\ inbox' = [inbox EXCEPT ![n] = Append(inbox[n], nFaults + 1)]
      /\ sent' = [sent EXCEPT ![n] = Append(sent[n], nFaults + 1)]
      /\ UNCHANGED <<srvPc, toSignal, cmds, fifo, synced, signalled, client, backend>>
  BY <1>1 DEF SrvFault, Publish, nodeVars
<1>3. /\ inbox'[n] = Append(inbox[n], nFaults + 1) /\ sent'[n] = Append(sent[n], nFaults + 1)
      /\ \A q \in Node : q # n => inbox'[q] = inbox[q] /\ sent'[q] = sent[q]
  BY <1>1, <1>2
<1>4. FaultsIn(sent'[n]) \subseteq FaultsIn(sent[n]) \cup FaultsIn(inbox'[n])
      /\ FaultsIn(inbox[n]) \subseteq FaultsIn(inbox'[n])
  BY <1>1, <1>3, AppendFaults
<1>5. inbox[n] # <<>> => inbox'[n] # <<>> /\ Head(inbox'[n]) = Head(inbox[n])
  BY <1>1, <1>3, HeadAppend
<1>6. \A q \in Node : Unsent(q)' <=> Unsent(q)
  BY <1>2 DEF Unsent
<1>7. FirstInv(n)'
  BY <1>1, <1>2, <1>4, <1>5, <1>6 DEF FirstInv
<1> QED BY <1>1, <1>2, <1>3, <1>6, <1>7, FirstFrame

\* ... the client makes the first line of the signal and the others of faults, ...
LEMMA FirstRecv ==
    ASSUME CleanInv, NEW n \in Node, ClientRecv(n)
    PROVE  \A q \in Node : FirstInv(q)'
<1>1. /\ \A q \in Node : FirstInv(q)
      /\ inbox \in [Node -> Seq(Int)] /\ fifo \in [Node -> Seq(Int)] /\ synced \in [Node -> BOOLEAN]
      /\ inbox[n] \in Seq(Int) /\ fifo[n] \in Seq(Int) /\ inbox[n] # <<>>
      /\ ~Unsent(n)
  BY DEF CleanInv, FlowInv, FlowTypes, FirstInv, ClientRecv
<1>2. PICK l : l = IF synced[n] THEN Head(inbox[n]) ELSE SYNC
  OBVIOUS
<1>3. /\ inbox' = [inbox EXCEPT ![n] = Tail(inbox[n])]
      /\ fifo' = [fifo EXCEPT ![n] = Append(fifo[n], l)]
      /\ synced' = [synced EXCEPT ![n] = TRUE]
      /\ signalled' = IF Head(inbox[n]) = SYNC THEN signalled \cup {n} ELSE signalled
      /\ UNCHANGED <<srvPc, toSignal, cmds, sent, client, backend>>
  BY <1>2 DEF ClientRecv, srvVars
<1>4. l = Head(inbox[n]) /\ (~synced[n] => l = SYNC /\ fifo[n] = <<>>)
  BY <1>1, <1>2 DEF FirstInv
<1>5. l \in Int /\ FaultsIn(inbox[n]) = FaultsIn(Tail(inbox[n])) \cup (IF l > SYNC THEN {l} ELSE {})
  BY <1>1, <1>4, TailFaults
<1>6. /\ inbox'[n] = Tail(inbox[n]) /\ fifo'[n] = Append(fifo[n], l) /\ synced'[n]
      /\ \A q \in Node : q # n => UNCHANGED <<inbox[q], fifo[q], synced[q]>>
  BY <1>1, <1>3
<1>7. FaultsIn(fifo[n]) \cup FaultsIn(inbox[n]) = FaultsIn(fifo'[n]) \cup FaultsIn(inbox'[n])
  <2>1. FaultsIn(fifo'[n]) = FaultsIn(fifo[n]) \cup (IF l > SYNC THEN {l} ELSE {})
    BY <1>1, <1>5, <1>6, AppendFaults
  <2> QED BY <1>5, <1>6, <2>1
<1>8. /\ fifo'[n] # <<>>
      /\ fifo[n] = <<>> => Head(fifo'[n]) = l
      /\ fifo[n] # <<>> => Head(fifo'[n]) = Head(fifo[n])
  BY <1>1, <1>5, <1>6, HeadAppend
<1>9. \A q \in Node : Unsent(q)' <=> Unsent(q)
  BY <1>3 DEF Unsent
<1>10. n \in signalled'
  BY <1>1, <1>3, <1>4 DEF FirstInv
<1>11. synced[n] /\ backend[n] = "wait" => fifo[n] # <<>> /\ Head(fifo[n]) = SYNC
  BY <1>1 DEF FirstInv
<1>12. FirstInv(n)'
  BY <1>1, <1>3, <1>4, <1>6, <1>7, <1>8, <1>9, <1>10, <1>11 DEF FirstInv
<1> QED BY <1>1, <1>3, <1>6, <1>9, <1>12, FirstFrame

\* ... and the back end starts with that line and takes the others.
LEMMA FirstTake ==
    ASSUME CleanInv, NEW n \in Node, BackendStart(n) \/ BackendCommand(n) \/ BackendExit(n)
    PROVE  \A q \in Node : FirstInv(q)'
<1>1. /\ \A q \in Node : FirstInv(q)
      /\ cmds \in [Node -> Seq(Int)] /\ fifo \in [Node -> Seq(Int)]
      /\ backend \in [Node -> {"off", "open", "wait", "running", "exited"}]
      /\ cmds[n] \in Seq(Int) /\ fifo[n] \in Seq(Int) /\ fifo[n] # <<>> /\ synced[n]
  BY DEF CleanInv, FlowInv, FlowTypes, FirstInv, BackendStart, BackendCommand, BackendExit
<1>2. /\ fifo' = [fifo EXCEPT ![n] = Tail(fifo[n])]
      /\ UNCHANGED <<srvPc, toSignal, inbox, sent, synced, client, signalled>>
  BY DEF BackendStart, BackendCommand, BackendExit, srvVars, brokerVars, histVars
<1>3. /\ Head(fifo[n]) \in Int
      /\ FaultsIn(fifo[n]) = FaultsIn(Tail(fifo[n]))
                                \cup (IF Head(fifo[n]) > SYNC THEN {Head(fifo[n])} ELSE {})
  BY <1>1, TailFaults
<1>4. /\ fifo'[n] = Tail(fifo[n])
      /\ \A q \in Node : q # n => fifo'[q] = fifo[q]
  BY <1>1, <1>2
<1>5. \A q \in Node : Unsent(q)' <=> Unsent(q)
  BY <1>2 DEF Unsent
<1>6. /\ FaultsIn(cmds[n]) \cup FaultsIn(fifo[n]) = FaultsIn(cmds'[n]) \cup FaultsIn(fifo'[n])
      /\ \A q \in Node : q # n => UNCHANGED <<cmds[q], backend[q]>>
      /\ backend'[n] \in {"running", "exited"}
  <2>1. CASE BackendStart(n)
    <3>1. backend[n] = "wait" /\ UNCHANGED cmds /\ backend' = [backend EXCEPT ![n] = "running"]
      BY <2>1 DEF BackendStart, histVars
    <3>2. ~(Head(fifo[n]) > SYNC)
      BY <1>1, <3>1 DEF FirstInv, SYNC
    <3> QED BY <1>1, <1>3, <1>4, <3>1, <3>2
  <2>2. CASE BackendCommand(n)
    <3>1. /\ UNCHANGED backend /\ backend[n] = "running"
          /\ cmds' = [cmds EXCEPT ![n] = Append(cmds[n], Head(fifo[n]))]
      BY <2>2 DEF BackendCommand
    <3>2. FaultsIn(cmds'[n]) = FaultsIn(cmds[n])
                                \cup (IF Head(fifo[n]) > SYNC THEN {Head(fifo[n])} ELSE {})
      BY <1>1, <1>3, <3>1, AppendFaults
    <3> QED BY <1>1, <1>3, <1>4, <3>1, <3>2
  <2>3. CASE BackendExit(n)
    <3>1. UNCHANGED cmds /\ backend' = [backend EXCEPT ![n] = "exited"] /\ Head(fifo[n]) = EXIT
      BY <2>3 DEF BackendExit, histVars
    <3>2. ~(Head(fifo[n]) > SYNC)
      BY <3>1 DEF EXIT, SYNC
    <3> QED BY <1>1, <1>3, <1>4, <3>1, <3>2
  <2> QED BY <2>1, <2>2, <2>3
<1>7. FirstInv(n)'
  BY <1>1, <1>2, <1>5, <1>6 DEF FirstInv
<1> QED BY <1>1, <1>2, <1>4, <1>5, <1>6, <1>7, FirstFrame

\* Every step of a clean run keeps what is first.
LEMMA FirstNext ==
    ASSUME Clean', CleanInv, [Next]_vars
    PROVE  \A q \in Node : FirstInv(q)'
<1>1. \A q \in Node : FirstInv(q)
  BY DEF CleanInv
<1>2. ASSUME UNCHANGED <<cmds, fifo, inbox, sent, synced, signalled, backend, client>>,
             \A q \in Node : Unsent(q)' <=> Unsent(q)
      PROVE  \A q \in Node : FirstInv(q)'
  BY <1>1, <1>2, FirstIdle
<1>3. CASE Server \/ TermHandler \/ UNCHANGED vars
  <2>1. ASSUME NEW n \in Node, SrvSignal(n) PROVE \A q \in Node : FirstInv(q)'
    BY <2>1, FirstSignal
  <2>2. CASE SrvLoad \/ SrvPostInit \/ SrvSetCallback \/ SrvNumNodes \/ SrvNodes
    <3>1. srvPc \notin {"signal", "tics"} /\ srvPc' \notin {"signal", "tics"}
      BY <2>2 DEF Clean, SrvLoad, SrvPostInit, SrvSetCallback, SrvNumNodes, SrvNodes
    <3>2. UNCHANGED <<cmds, fifo, inbox, sent, synced, signalled, backend, client>>
      BY <2>2 DEF SrvLoad, SrvPostInit, SrvSetCallback, SrvNumNodes, SrvNodes, brokerVars,
                  nodeVars, histVars
    <3> QED BY <1>2, <3>1, <3>2 DEF Unsent
  <2>3. CASE SrvAllReady
    BY <1>2, <2>3 DEF SrvAllReady, Unsent, brokerVars, nodeVars, histVars
  <2>4. CASE SrvWaitInterrupted \/ TermHandler
    BY <2>4 DEF SrvWaitInterrupted, TermHandler, Clean, CleanInv, StartInv, FifoInv
  <2>5. CASE SrvSignalled
    BY <1>2, <2>5 DEF SrvSignalled, Unsent, brokerVars, nodeVars, histVars
  <2>6. CASE UNCHANGED vars
    BY <1>2, <2>6 DEF vars, srvVars, brokerVars, nodeVars, histVars, Unsent
  <2> QED BY <1>3, <2>1, <2>2, <2>3, <2>4, <2>5, <2>6 DEF Server
<1>4. ASSUME NEW n \in Node, SrvFault(n) \/ Net(n) PROVE \A q \in Node : FirstInv(q)'
  <2>1. CASE SrvFault(n)
    BY <2>1, FirstFault
  <2>2. CASE NetDropped(n) \/ NetReady(n)
    <3>1. UNCHANGED <<cmds, fifo, inbox, sent, synced, signalled, backend, client, srvPc, toSignal>>
      BY <2>2 DEF NetDropped, NetReady, srvVars, nodeVars, histVars
    <3> QED BY <1>2, <3>1 DEF Unsent
  <2>3. CASE NetNoArray(n)
    <3>1. UNCHANGED <<cmds, fifo, inbox, sent, synced, signalled, backend, client>>
      BY <2>3 DEF NetNoArray, nodeVars, histVars
    <3>2. srvPc \notin {"signal", "tics"} /\ srvPc' \notin {"signal", "tics"}
      BY <2>3 DEF NetNoArray, CleanInv
    <3> QED BY <1>2, <3>1, <3>2 DEF Unsent
  <2> QED BY <1>4, <2>1, <2>2, <2>3 DEF Net
<1>5. ASSUME NEW n \in Node, Client(n) \/ ClientInitFails(n) \/ ClientStop(n)
      PROVE  \A q \in Node : FirstInv(q)'
  <2>1. CASE ClientRecv(n)
    BY <2>1, FirstRecv
  <2>2. CASE ClientInitFails(n) \/ ClientStop(n)
    BY <2>2 DEF Clean, ClientInitFails, ClientStop, CleanInv, FlowInv, FlowTypes
  <2>3. CASE ClientStart(n) \/ ClientInit(n) \/ ClientReady(n)
    <3>1. /\ UNCHANGED <<cmds, fifo, inbox, sent, synced, signalled, backend, srvPc, toSignal>>
          /\ \/ client' = [client EXCEPT ![n] = "open"]
             \/ client[n] = "init" /\ client' = [client EXCEPT ![n] = "report"]
             \/ client[n] = "report" /\ client' = [client EXCEPT ![n] = "loop"]
      BY <2>3 DEF ClientStart, ClientInit, ClientReady, srvVars, brokerVars, histVars
    <3>2. \A q \in Node : client'[q] \in {"init", "report", "loop"}
                              => client[q] \in {"init", "report", "loop"}
      BY <3>1 DEF CleanInv, FlowInv, FlowTypes
    <3> QED BY <1>1, <3>1, <3>2, FirstIdle DEF Unsent
  <2> QED BY <1>5, <2>1, <2>2, <2>3 DEF Client
<1>6. ASSUME NEW n \in Node, Backend(n) PROVE \A q \in Node : FirstInv(q)'
  <2>1. CASE BackendStart(n) \/ BackendCommand(n) \/ BackendExit(n)
    BY <2>1, FirstTake
  <2>2. CASE BackendMkfifo(n)
    <3>1. /\ backend[n] = "off" /\ backend' = [backend EXCEPT ![n] = "open"]
          /\ UNCHANGED <<cmds, fifo, inbox, sent, synced, signalled, client, srvPc, toSignal>>
      BY <2>2 DEF BackendMkfifo, srvVars, brokerVars, histVars
    <3>2. backend'[n] = "open" /\ \A q \in Node : q # n => backend'[q] = backend[q]
      BY <3>1 DEF CleanInv, FlowInv, FlowTypes
    <3>3. \A q \in Node : Unsent(q)' <=> Unsent(q)
      BY <3>1 DEF Unsent
    <3>4. FirstInv(n)'
      BY <1>1, <3>1, <3>2, <3>3 DEF FirstInv
    <3> QED BY <1>1, <3>1, <3>2, <3>3, <3>4, FirstFrame
  <2>3. CASE FifoOpen(n)
    <3>1. /\ client[n] = "open" /\ client' = [client EXCEPT ![n] = "init"]
          /\ backend' = [backend EXCEPT ![n] = "wait"]
          /\ UNCHANGED <<cmds, fifo, inbox, sent, synced, signalled, srvPc, toSignal>>
      BY <2>3 DEF FifoOpen, srvVars, brokerVars, histVars, CleanInv, StartInv, FifoInv
    <3>2. /\ backend'[n] = "wait" /\ client'[n] = "init"
          /\ \A q \in Node : q # n => backend'[q] = backend[q] /\ client'[q] = client[q]
      BY <3>1 DEF CleanInv, FlowInv, FlowTypes
    <3>3. \A q \in Node : Unsent(q)' <=> Unsent(q)
      BY <3>1 DEF Unsent
    <3>4. ~synced[n]
      BY <3>1 DEF CleanInv, StartInv, SignalInv, Started
    <3>5. FirstInv(n)'
      BY <1>1, <3>1, <3>2, <3>3, <3>4 DEF FirstInv
    <3> QED BY <1>1, <3>1, <3>2, <3>3, <3>5, FirstFrame
  <2>4. CASE BackendStartEOF(n)
    BY <2>4 DEF BackendStartEOF, CleanInv, StartInv, ReadyInv
  <2> QED BY <1>6, <2>1, <2>2, <2>3, <2>4 DEF Backend
<1> QED BY <1>3, <1>4, <1>5, <1>6 DEF Next

\* A server past its initialisation has its array of nodes.
LEMMA NodesNext ==
    ASSUME srvPc \in {"sync", "signal", "tics"} => nodesSet, [Next]_vars
    PROVE  srvPc' \in {"sync", "signal", "tics"} => nodesSet'
<1>1. CASE Server \/ TermHandler \/ UNCHANGED vars
  BY <1>1 DEF Server, TermHandler, vars, srvVars, SrvLoad, SrvPostInit, SrvSetCallback,
              SrvNumNodes, SrvNodes, SrvAllReady, SrvWaitInterrupted, SrvSignal, SrvSignalled
<1>2. ASSUME NEW n \in Node, SrvFault(n) \/ Net(n)
      PROVE  srvPc' \in {"sync", "signal", "tics"} => nodesSet'
  BY <1>2 DEF SrvFault, Net, NetDropped, NetNoArray, NetReady, srvVars
<1>3. ASSUME NEW n \in Node, Client(n) \/ ClientInitFails(n) \/ ClientStop(n) \/ Backend(n)
      PROVE  srvPc' \in {"sync", "signal", "tics"} => nodesSet'
  BY <1>3 DEF Client, ClientInitFails, ClientStop, Backend, ClientStart, ClientInit,
       ClientReady, ClientRecv, BackendMkfifo, FifoOpen, BackendStart, BackendStartEOF,
       BackendCommand, BackendExit, srvVars
<1> QED BY <1>1, <1>2, <1>3 DEF Next

\* A disturbance is never undone.
LEMMA CleanBefore ==
    ASSUME FlowTypes, [Next]_vars, Clean'
    PROVE  Clean
<1>1. CASE Server \/ TermHandler \/ UNCHANGED vars
  <2>1. client' = client /\ (termreq => termreq')
    BY <1>1 DEF Server, TermHandler, vars, srvVars, nodeVars, SrvLoad, SrvPostInit,
                SrvSetCallback, SrvNumNodes, SrvNodes, SrvAllReady, SrvWaitInterrupted,
                SrvSignal, SrvSignalled
  <2> QED BY <2>1 DEF Clean
<1>2. ASSUME NEW n \in Node, SrvFault(n) \/ Net(n) PROVE Clean
  <2>1. client' = client /\ termreq' = termreq
    BY <1>2 DEF SrvFault, Net, NetDropped, NetNoArray, NetReady, srvVars, nodeVars
  <2> QED BY <2>1 DEF Clean
<1>3. ASSUME NEW n \in Node, Client(n) \/ ClientInitFails(n) \/ ClientStop(n) \/ Backend(n)
      PROVE  Clean
  <2>1. /\ termreq' = termreq
        /\ \/ client' = client
           \/ client[n] # "stopped" /\ \E x : client' = [client EXCEPT ![n] = x]
    BY <1>3 DEF Client, ClientInitFails, ClientStop, Backend, ClientStart, ClientInit,
         ClientReady, ClientRecv, BackendMkfifo, FifoOpen, BackendStart, BackendStartEOF,
         BackendCommand, BackendExit, srvVars
  <2>2. \A m \in Node : client[m] = "stopped" => client'[m] = "stopped"
    BY <2>1 DEF FlowTypes
  <2> QED BY <2>1, <2>2 DEF Clean
<1> QED BY <1>1, <1>2, <1>3 DEF Next

\* What holds as long as the run is clean.
LEMMA CleanInvariant == Spec => [](Clean => CleanInv)
<1>1. Init => (Clean => CleanInv)
  <2> SUFFICES ASSUME Init, Clean PROVE CleanInv
    OBVIOUS
  <2>1. StartInv /\ FlowInv
    BY StartInit, FlowInit
  <2>2. ASSUME NEW n \in Node PROVE FirstInv(n)
    BY EmptyFaults DEF Init, FirstInv, Unsent
  <2> QED BY <2>1, <2>2 DEF Init, CleanInv
<1>2. FlowInv /\ (Clean => CleanInv) /\ [Next]_vars => (Clean => CleanInv)'
  <2> SUFFICES ASSUME FlowInv, Clean => CleanInv, [Next]_vars, Clean' PROVE CleanInv'
    OBVIOUS
  <2>1. CleanInv
    BY CleanBefore DEF FlowInv
  <2>2. StartInv' /\ FlowInv'
    BY <2>1, StartNext, FlowNext DEF CleanInv
  <2>3. \A n \in Node : FirstInv(n)'
    BY <2>1, FirstNext
  <2>4. srvPc' \in {"sync", "signal", "tics"} => nodesSet'
    BY <2>1, NodesNext DEF CleanInv
  <2> QED BY <2>2, <2>3, <2>4 DEF CleanInv
<1> QED BY <1>1, <1>2, FlowInvariant, PTL DEF Spec

\* The start is a barrier, for any number of nodes: unless something disturbs
\* the run, no application gets past its start before every client is
\* subscribed and has reported (all_nodes_ready, send_synced_signal, client.c,
\* lauSim_init); ...
THEOREM BarrierCorrect == Spec => []Barrier
<1>1. (Clean => CleanInv) => Barrier
  BY DEF CleanInv, StartInv, Barrier, ReadyInv, SignalInv, Started
<1> QED BY <1>1, CleanInvariant, PTL

\* ... and no signal of send_synced_signal is without a receiver.
THEOREM SignalCorrect == Spec => []NoSignalLost
<1>1. (Clean => CleanInv) => NoSignalLost
  BY DEF CleanInv, StartInv, NoSignalLost
<1> QED BY <1>1, CleanInvariant, PTL

\* As long as the run is clean nothing but the signal starts an application:
\* the first message the client takes for the signal is the signal
\* (srv/README.md; send_synced_signal, client.c's variable synced,
\* lauSim_init).
THEOREM StartedCorrect == Spec => []CleanStart
<1>1. (Clean => CleanInv) => CleanStart
  BY DEF CleanInv, FirstInv, CleanStart, StartedBySignal
<1> QED BY <1>1, CleanInvariant, PTL

\* As long as the run is clean no fault is lost, doubled, overtaken or taken
\* for the signal between server and application, for any number of nodes and
\* faults.
THEOREM FaultsCorrect == Spec => []FaultsInOrder
<1>1. (Clean => CleanInv) => FaultsInOrder
  <2> SUFFICES ASSUME CleanInv, NEW n \in Node
               PROVE  InSequence(Way(n)) /\ FaultsIn(Way(n)) = FaultsIn(sent[n])
    BY DEF FaultsInOrder
  <2>1. FlowInv /\ OrderInv(n) /\ FirstInv(n)
    BY DEF CleanInv, FlowInv
  <2> QED BY <2>1, WayFaults DEF OrderInv, FirstInv
<1> QED BY <1>1, CleanInvariant, PTL
=============================================================================

-------------------------- MODULE SockListProofs --------------------------
(***************************************************************************)
(* Proofs about module SockList for any number of threads, descriptors and *)
(* outages: the list of the preload library holds live sockets only, and   *)
(* an outage misses none that socket has returned.  The argument is about  *)
(* who owns a descriptor that is not free: the application has it, a call  *)
(* is about to return it, or a close is about to give it back, and never   *)
(* two of these.                                                           *)
(***************************************************************************)
EXTENDS SockList, TLAPS

Types ==
    /\ fds \in Seq(Fd)
    /\ mutex \in {NoThread, "backend"}
    /\ net \in {"idle", "shut", "state"}
    /\ shutting \in Nat
    /\ call \in [Thread -> {"none", "add", "search", "compare", "remove", "close"}]
    /\ arg \in [Thread -> 0..MaxFd] /\ ret \in [Thread -> 0..MaxFd]
    /\ fdState \in [Fd -> {"free", "open", "shut"}]
    /\ known \subseteq Fd

\* The thread t is about to return ret[t], or to close arg[t].
Coming(t) == call[t] \in {"add", "search", "compare"}
Going(t) == call[t] \in {"remove", "close"}

OwnerInv ==
    /\ \A f \in known : fdState[f] # "free"
    /\ \A t \in Thread : Coming(t) =>
          ret[t] \in Fd /\ fdState[ret[t]] # "free" /\ ret[t] \notin known
    /\ \A t \in Thread : Going(t) =>
          arg[t] \in Fd /\ fdState[arg[t]] # "free" /\ arg[t] \notin known
    /\ \A t, u \in Thread : t # u /\ Coming(t) /\ Coming(u) => ret[t] # ret[u]
    /\ \A t, u \in Thread : t # u /\ Going(t) /\ Going(u) => arg[t] # arg[u]
    /\ \A t, u \in Thread : Coming(t) /\ Going(u) => ret[t] # arg[u]

\* The list has descriptors of the application, or of a close that has yet to
\* remove it, each once.
ListInv ==
    /\ \A k \in DOMAIN fds :
          fds[k] \in known \/ \E t \in Thread : call[t] = "remove" /\ fds[k] = arg[t]
    /\ \A i, j \in DOMAIN fds : i # j => fds[i] # fds[j]

\* During an outage the list is locked, and shut up to shutting.
ShutInv ==
    /\ net = "shut" => mutex = "backend" /\ shutting > 0
    /\ net = "shut" => \A k \in DOMAIN fds : k < shutting => fdState[fds[k]] = "shut"

\* What socket made is on its way to the list, or there, or shut.
MadeInv ==
    /\ \A f \in made : f \in known \/ \E t \in Thread : call[t] = "add" /\ ret[t] = f
    /\ NoneMissed

SockInv == Types /\ OwnerInv /\ ListInv /\ ShutInv /\ MadeInv

-----------------------------------------------------------------------------
\* What memmove leaves of a list from which it takes position i.
LEMMA WithoutFacts ==
    ASSUME NEW S, NEW s \in Seq(S), NEW i \in 1..Len(s)
    PROVE  /\ Without(s, i) \in Seq(S)
           /\ Len(Without(s, i)) = Len(s) - 1
           /\ DOMAIN Without(s, i) = 1..(Len(s) - 1)
           /\ \A k \in 1..(Len(s) - 1) :
                 Without(s, i)[k] = IF k < i THEN s[k] ELSE s[k + 1]
  BY DEF Without

\* If its entries are distinct, the one at i is gone and the others are there.
LEMMA WithoutOne ==
    ASSUME NEW S, NEW s \in Seq(S), NEW i \in 1..Len(s),
           \A j, k \in DOMAIN s : j # k => s[j] # s[k]
    PROVE  /\ \A k \in DOMAIN Without(s, i) :
                 Without(s, i)[k] # s[i] /\ \E j \in DOMAIN s : Without(s,
                 i)[k] = s[j]
           /\ \A j, k \in DOMAIN Without(s, i) :
                 j # k => Without(s, i)[j] # Without(s, i)[k]
           /\ \A j \in DOMAIN s :
                 s[j] # s[i] => \E k \in DOMAIN Without(s, i) : Without(s,
                 i)[k] = s[j]
  <1> DEFINE w == Without(s, i)
  <1>1. /\ DOMAIN w = 1..(Len(s) - 1) /\ DOMAIN s = 1..Len(s)
        /\ Len(s) \in Nat
        /\ \A k \in 1..(Len(s) - 1) : w[k] = IF k < i THEN s[k] ELSE s[k + 1]
    BY WithoutFacts
  <1> HIDE DEF w
  <1>2. ASSUME NEW k \in DOMAIN w
        PROVE  w[k] # s[i] /\ \E j \in DOMAIN s : w[k] = s[j]
    <2>1. CASE k < i BY <1>1, <2>1
    <2>2. CASE ~(k < i)
      <3>1. k + 1 \in DOMAIN s /\ k + 1 # i /\ w[k] = s[k + 1] BY <1>1, <2>2
      <3> QED BY <3>1, <1>1
    <2> QED BY <2>1, <2>2
  <1>3. ASSUME NEW j \in DOMAIN w, NEW k \in DOMAIN w, j # k
        PROVE  w[j] # w[k]
    <2> DEFINE up(m) == IF m < i THEN m ELSE m + 1
    <2>1. w[j] = s[up(j)] /\ w[k] = s[up(k)] BY <1>1
    <2>2. up(j) \in DOMAIN s /\ up(k) \in DOMAIN s /\ up(j) # up(k) BY <1>1, <1>3
    <2> QED BY <2>1, <2>2
  <1>4. ASSUME NEW j \in DOMAIN s, s[j] # s[i]
        PROVE  \E k \in DOMAIN w : w[k] = s[j]
    <2>1. j # i BY <1>4
    <2>2. CASE j < i
      <3>1. j \in DOMAIN w /\ w[j] = s[j] BY <1>1, <2>2
      <3> QED BY <3>1
    <2>3. CASE ~(j < i)
      <3>1. j - 1 \in DOMAIN w /\ ~(j - 1 < i) /\ (j - 1) + 1 = j BY <1>1, <2>1,
              <2>3
      <3>2. w[j - 1] = s[j] BY <1>1, <3>1
      <3> QED BY <3>1, <3>2
    <2> QED BY <2>2, <2>3
  <1> QED BY <1>2, <1>3, <1>4 DEF w

\* The invariant holds at the start, ...
LEMMA SockInit == Init => SockInv
  BY BoundAssumption DEF Init, SockInv, Types, OwnerInv, ListInv, ShutInv, MadeInv,
     NoneMissed, Members, Coming, Going, Fd

\* ... and every step of a thread or of the outage keeps it.
LEMMA SockNext ==
    ASSUME SockInv, [Next]_vars
    PROVE  SockInv'
  <1>0. 0 \in 0..MaxFd /\ Fd \subseteq 0..MaxFd BY BoundAssumption DEF Fd
  <1> USE ThreadAssumption, <1>0 DEF SockInv
  <1>1. ASSUME NEW t \in Thread, SocketInet(t) PROVE SockInv'
    <2> USE <1>1 DEF SocketInet, NewFd, Lowest, Free, listVars, netVars,
            callVars, kernelVars, appVars
    <2>1. Types' BY DEF Types, OwnerInv, Coming, Going
    <2>2. OwnerInv' BY DEF Types, OwnerInv, Coming, Going
    <2>3. ListInv' BY DEF Types, OwnerInv, ListInv, Coming, Going, Members
    <2>4. ShutInv' BY DEF Types, OwnerInv, ListInv, ShutInv, Coming, Going
    <2>5. MadeInv' BY DEF Types, OwnerInv, ListInv, ShutInv, MadeInv, NoneMissed,
            Members, Coming, Going
    <2> QED BY <2>1, <2>2, <2>3, <2>4, <2>5
  <1>2. ASSUME NEW t \in Thread, SocketOther(t) PROVE SockInv'
    <2> USE <1>2 DEF SocketOther, NewFd, Lowest, Free, Return, EndCall, listVars,
            netVars, callVars, kernelVars, appVars
    <2>1. Types' BY DEF Types, OwnerInv, Coming, Going
    <2>2. OwnerInv' BY DEF Types, OwnerInv, Coming, Going
    <2>3. ListInv' BY DEF Types, OwnerInv, ListInv, Coming, Going, Members
    <2>4. ShutInv' BY DEF Types, OwnerInv, ListInv, ShutInv, Coming, Going
    <2>5. MadeInv' BY DEF Types, OwnerInv, ListInv, ShutInv, MadeInv, NoneMissed,
            Members, Coming, Going
    <2> QED BY <2>1, <2>2, <2>3, <2>4, <2>5
  <1>3. ASSUME NEW t \in Thread, AddSock(t) PROVE SockInv'
    <2> USE <1>3 DEF AddSock, Return, EndCall, listVars, netVars, callVars,
            kernelVars, appVars
    <2>0. /\ ret[t] \in Fd /\ fds \in Seq(Fd)
          /\ fds' = Append(fds, ret[t])
      BY DEF Types, OwnerInv, Coming
    <2>a. /\ fds' \in Seq(Fd) /\ DOMAIN fds' = 1..(Len(fds) + 1) /\ DOMAIN fds = 1..Len(fds)
          /\ Len(fds) \in Nat
          /\ \A k \in 1..Len(fds) : fds'[k] = fds[k]
          /\ fds'[Len(fds) + 1] = ret[t]
      BY <2>0
    <2>1. Types' BY <2>0, <2>a DEF Types
    <2>2. OwnerInv' BY DEF Types, OwnerInv, Coming, Going
    <2>3. ListInv'
      <3>1. known' = known \cup {ret[t]} OBVIOUS
      <3>2. \A k \in DOMAIN fds : fds[k] # ret[t]
        BY DEF Types, OwnerInv, ListInv, Coming, Going
      <3>3. \A u \in Thread : call[u] = "remove" => call'[u] = "remove" /\ arg'[u] = arg[u]
        BY DEF Types
      <3>4. ASSUME NEW k \in DOMAIN fds'
            PROVE  (fds[k] \in known \/ \E u \in Thread : call[u] = "remove" /\ fds[k] = arg[u])'
        <4>1. CASE k = Len(fds) + 1 BY <2>a, <3>1, <4>1
        <4>2. CASE k # Len(fds) + 1
          <5>1. k \in DOMAIN fds /\ fds'[k] = fds[k] BY <2>a, <4>2
          <5> QED BY <5>1, <3>1, <3>3 DEF ListInv
        <4> QED BY <4>1, <4>2
      <3>5. \A i, j \in DOMAIN fds' : i # j => fds'[i] # fds'[j]
        BY <2>a, <3>2 DEF ListInv
      <3> QED BY <3>4, <3>5 DEF ListInv
    <2>4. ShutInv' BY DEF Types, OwnerInv, ListInv, ShutInv, Coming, Going
    <2>5. MadeInv'
      <3>1. \A f \in made' : f \in known' \/ \E u \in Thread : call'[u] = "add" /\ ret'[u] = f
        BY DEF Types, MadeInv
      <3>2. \A f \in Members : f \in Members' BY <2>a DEF Members
      <3>3. ret[t] \in Members' BY <2>a DEF Members
      <3> QED BY <3>1, <3>2, <3>3 DEF MadeInv, NoneMissed
    <2> QED BY <2>1, <2>2, <2>3, <2>4, <2>5
  <1>4. ASSUME NEW t \in Thread, AddSockCrash(t) PROVE SockInv'
    BY <1>4 DEF AddSockCrash, listVars, netVars, callVars, kernelVars, appVars,
            Types, OwnerInv, ListInv, ShutInv, MadeInv, NoneMissed, Members,
            Coming, Going
  <1>5. ASSUME NEW t \in Thread, IsInList(t) PROVE SockInv'
    BY <1>5 DEF IsInList, listVars, netVars, callVars, kernelVars, appVars,
            Types, OwnerInv, ListInv, ShutInv, MadeInv, NoneMissed, Members,
            Coming, Going
  <1>6. ASSUME NEW t \in Thread, Compare(t) PROVE SockInv'
    <2>1. CASE idx[t] <= Len(fds)
      <3> USE DEF listVars, netVars, kernelVars
      <3>1. /\ call' = [call EXCEPT ![t] = "add"]
            /\ UNCHANGED <<arg, ret, known, made, listVars, netVars, kernelVars>>
            /\ call[t] = "compare"
        BY <1>6, <2>1 DEF Compare
      <3>2. Types' BY <3>1 DEF Types
      <3>3. OwnerInv' BY <3>1 DEF Types, OwnerInv, Coming, Going
      <3>4. ListInv' /\ ShutInv' BY <3>1 DEF Types, ListInv, ShutInv
      <3>5. MadeInv' BY <3>1 DEF Types, MadeInv, NoneMissed, Members
      <3> QED BY <3>2, <3>3, <3>4, <3>5
    <2>2. CASE ~(idx[t] <= Len(fds))
      <3> USE DEF listVars, netVars, kernelVars
      <3>1. /\ call' = [call EXCEPT ![t] = "none"]
            /\ arg' = [arg EXCEPT ![t] = 0] /\ ret' = [ret EXCEPT ![t] = 0]
            /\ known' = known \cup {ret[t]}
            /\ UNCHANGED <<made, listVars, netVars, kernelVars>>
            /\ call[t] = "compare"
        BY <1>6, <2>2 DEF Compare, Return, EndCall
      <3>2. Types' BY <3>1 DEF Types, OwnerInv, Coming
      <3>3. OwnerInv' BY <3>1 DEF Types, OwnerInv, Coming, Going
      <3>4. ListInv' /\ ShutInv' BY <3>1 DEF Types, ListInv, ShutInv
      <3>5. ret[t] \notin made BY <3>1 DEF Types, OwnerInv, MadeInv, Coming
      <3>6. MadeInv' BY <3>1, <3>5 DEF Types, MadeInv, NoneMissed, Members
      <3> QED BY <3>2, <3>3, <3>4, <3>6
    <2> QED BY <2>1, <2>2
  <1>7. ASSUME NEW t \in Thread, RemoveSock(t) PROVE SockInv'
    <2> USE <1>7 DEF RemoveSock, netVars, kernelVars, appVars
    <2>1. /\ fds' \in Seq(Fd)
          /\ \A j \in DOMAIN fds' : fds'[j] # arg[t] /\ \E i \in DOMAIN fds : fds'[j] = fds[i]
          /\ \A i, j \in DOMAIN fds' : i # j => fds'[i] # fds'[j]
          /\ \A i \in DOMAIN fds : fds[i] # arg[t] => \E j \in DOMAIN fds' : fds'[j] = fds[i]
      <3>1. CASE arg[t] \notin Members /\ UNCHANGED fds
        BY <3>1 DEF Types, ListInv, Members
      <3>2. ASSUME NEW i \in DOMAIN fds, fds[i] = arg[t], fds' = Without(fds, i)
            PROVE  /\ fds' \in Seq(Fd)
                   /\ \A j \in DOMAIN fds' : fds'[j] # arg[t] /\ \E m \in DOMAIN fds : fds'[j] = fds[m]
                   /\ \A m, j \in DOMAIN fds' : m # j => fds'[m] # fds'[j]
                   /\ \A m \in DOMAIN fds : fds[m] # arg[t] => \E j \in DOMAIN fds' : fds'[j] = fds[m]
        <4>1. fds \in Seq(Fd) /\ i \in 1..Len(fds) BY DEF Types
        <4>2. fds' \in Seq(Fd) BY <3>2, <4>1, WithoutFacts
        <4>3. \A x, y \in DOMAIN fds : x # y => fds[x] # fds[y] BY DEF ListInv
        <4> HIDE DEF RemoveSock, SockInv
        <4> QED BY ONLY <3>2, <4>1, <4>2, <4>3, WithoutOne
      <3> QED BY <3>1, <3>2
    <2>2. Types' BY <2>1 DEF Types
    <2>3. OwnerInv' BY DEF Types, OwnerInv, Coming, Going
    <2>4. ListInv' BY <2>1 DEF Types, ListInv
    <2>5. ShutInv' BY DEF Types, ShutInv
    <2>6. MadeInv'
      <3>1. arg[t] \notin known BY DEF OwnerInv, Going
      <3>2. \A f \in Members : f # arg[t] => f \in Members' BY <2>1 DEF Members
      <3> QED BY <3>1, <3>2 DEF Types, MadeInv, NoneMissed
    <2> QED BY <2>2, <2>3, <2>4, <2>5, <2>6
  <1>8. ASSUME NEW t \in Thread, KernelClose(t) PROVE SockInv'
    <2> USE <1>8 DEF KernelClose, EndCall, listVars, netVars, callVars,
            kernelVars, appVars
    <2>1. Types' BY DEF Types, OwnerInv, Coming, Going
    <2>2. OwnerInv' BY DEF Types, OwnerInv, Coming, Going
    <2>3. ListInv' BY DEF Types, OwnerInv, ListInv, Coming, Going, Members
    <2>4. ShutInv' BY DEF Types, OwnerInv, ListInv, ShutInv, Coming, Going
    <2>5. MadeInv' BY DEF Types, OwnerInv, ListInv, ShutInv, MadeInv, NoneMissed,
            Members, Coming, Going
    <2> QED BY <2>1, <2>2, <2>3, <2>4, <2>5
  <1>9. ASSUME NEW t \in Thread, NEW f \in Fd, Accept(t, f) PROVE SockInv'
    <2> USE <1>9 DEF Accept, NewFd, Lowest, Free, listVars, netVars, callVars,
            kernelVars, appVars
    <2>1. Types' BY DEF Types, OwnerInv, Coming, Going
    <2>2. OwnerInv' BY DEF Types, OwnerInv, Coming, Going
    <2>3. ListInv' BY DEF Types, OwnerInv, ListInv, Coming, Going, Members
    <2>4. ShutInv' BY DEF Types, OwnerInv, ListInv, ShutInv, Coming, Going
    <2>5. MadeInv' BY DEF Types, OwnerInv, ListInv, ShutInv, MadeInv, NoneMissed,
            Members, Coming, Going
    <2> QED BY <2>1, <2>2, <2>3, <2>4, <2>5
  <1>10. ASSUME NEW t \in Thread, NEW f \in Fd, Close(t, f) PROVE SockInv'
    <2> USE <1>10 DEF Close, listVars, netVars, callVars, kernelVars, appVars
    <2>1. Types' BY DEF Types, OwnerInv, Coming, Going
    <2>2. OwnerInv' BY DEF Types, OwnerInv, Coming, Going
    <2>3. ListInv' BY DEF Types, OwnerInv, ListInv, Coming, Going, Members
    <2>4. ShutInv' BY DEF Types, OwnerInv, ListInv, ShutInv, Coming, Going
    <2>5. MadeInv' BY DEF Types, OwnerInv, ListInv, ShutInv, MadeInv, NoneMissed,
            Members, Coming, Going
    <2> QED BY <2>1, <2>2, <2>3, <2>4, <2>5
  <1>11. ASSUME NetFails PROVE SockInv'
    BY <1>11 DEF NetFails, listVars, netVars, callVars, kernelVars, appVars,
            Types, OwnerInv, ListInv, ShutInv, MadeInv, NoneMissed, Members,
            Coming, Going
  <1>12. ASSUME ShutOne PROVE SockInv'
    <2> USE <1>12 DEF ShutOne, listVars, netVars, callVars, kernelVars, appVars
    <2>0. shutting \in DOMAIN fds /\ fds[shutting] \in Fd BY DEF Types, ShutInv
    <2>1. Types' BY <2>0 DEF Types
    <2>2. OwnerInv' BY DEF Types, OwnerInv, Coming, Going
    <2>3. ListInv' BY DEF Types, OwnerInv, ListInv, Coming, Going, Members
    <2>4. ShutInv' BY DEF Types, OwnerInv, ListInv, ShutInv, Coming, Going
    <2>5. MadeInv' BY DEF Types, OwnerInv, ListInv, ShutInv, MadeInv, NoneMissed,
            Members, Coming, Going
    <2> QED BY <2>1, <2>2, <2>3, <2>4, <2>5
  <1>13. ASSUME ShutDone PROVE SockInv'
    <2> USE <1>13 DEF ShutDone, listVars, netVars, callVars, kernelVars, appVars
    <2>0. fds' \in Seq(Fd) /\ DOMAIN fds' = {} /\ shutting' \in Nat OBVIOUS
    <2>1. Types' BY <2>0 DEF Types
    <2>2. OwnerInv' BY DEF Types, OwnerInv, Coming, Going
    <2>3. ListInv' BY DEF Types, OwnerInv, ListInv, Coming, Going, Members
    <2>4. ShutInv' BY DEF Types, OwnerInv, ListInv, ShutInv, Coming, Going
    <2>5. MadeInv' BY DEF Types, OwnerInv, ListInv, ShutInv, MadeInv, NoneMissed,
            Members, Coming, Going
    <2> QED BY <2>1, <2>2, <2>3, <2>4, <2>5
  <1>14. ASSUME NetFailed PROVE SockInv'
    BY <1>14 DEF NetFailed, listVars, netVars, callVars, kernelVars, appVars,
            Types, OwnerInv, ListInv, ShutInv, MadeInv, NoneMissed, Members,
            Coming, Going
  <1>15. ASSUME NetRecovers PROVE SockInv'
    BY <1>15 DEF NetRecovers, listVars, netVars, callVars, kernelVars, appVars,
            Types, OwnerInv, ListInv, ShutInv, MadeInv, NoneMissed, Members,
            Coming, Going
  <1>16. CASE UNCHANGED vars
    BY <1>16 DEF vars, listVars, netVars, callVars, kernelVars, appVars, Types,
            OwnerInv, ListInv, ShutInv, MadeInv, NoneMissed, Members, Coming, Going
  <1> QED
    BY <1>1, <1>2, <1>3, <1>4, <1>5, <1>6, <1>7, <1>8, <1>9, <1>10, <1>11, <1>12,
            <1>13, <1>14, <1>15, <1>16
       DEF Next, NewCall, Step, SwitchNet

\* All behaviours keep the invariant, ...
THEOREM SockInvariant == Spec => []SockInv
  BY SockInit, SockNext, PTL DEF Spec

\* ... so that the list of the preload library never holds a descriptor twice
\* or one that was closed (socket, accept, close, lauSim_switch_net), ...
THEOREM ListCorrect == Spec => []NoStaleFd
  <1>1. SockInv => NoStaleFd
    BY DEF SockInv, Types, OwnerInv, ListInv, NoStaleFd, Members, Going
  <1> QED BY <1>1, SockInvariant, PTL

\* ... and an outage shuts every socket that socket has returned before it.
THEOREM OutageCorrect == Spec => []NoneMissed
  <1>1. SockInv => NoneMissed BY DEF SockInv, MadeInv
  <1> QED BY <1>1, SockInvariant, PTL
=============================================================================

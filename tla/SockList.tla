------------------------------ MODULE SockList ------------------------------
(***************************************************************************)
(* The sockets of an application under the preload library                 *)
(* (client/src/preload.c): the shadowed calls socket, accept and close,    *)
(* made by any of its threads, keep a list of the sockets of the internet  *)
(* families; the thread of the back end shuts down all of the list when    *)
(* the network fails.  The kernel is external: descriptors, the smallest   *)
(* free one first, each free, open or shut.                                *)
(***************************************************************************)
EXTENDS Integers, Sequences, FiniteSets

CONSTANTS
    Thread,     \* the threads of the application
    MaxFd,      \* bound: descriptors are 1..MaxFd
    MaxOutages, \* bound: how often the network fails
    NoThread    \* nobody holds the mutex

ASSUME ThreadAssumption == NoThread \notin Thread /\ "backend" \notin Thread /\ NoThread # "backend"
ASSUME BoundAssumption == MaxFd \in Nat /\ MaxOutages \in Nat

Fd == 1..MaxFd

VARIABLES
    \* lauSim_state
    fds,        \* the list, num_fds long
    freed,      \* the array behind the list was freed
    net_state,
    mutex,      \* fds_mutex: who holds it
    \* the thread of the back end
    net,        \* where it is in lauSim_switch_net
    shutting,   \* its variable i
    \* the application
    call,       \* the call a thread is in
    arg,        \* its descriptor
    ret,        \* the descriptor the kernel returned
    idx,        \* the variable i of is_in_list
    crashed,    \* the allocator stopped the process
    \* the kernel
    fdState, family,
    \* history
    known,      \* the descriptors the application has
    made,       \* those of them it has from socket
    wasIn,      \* whether is_in_list found its argument
    outages

listVars   == <<fds, freed, mutex>>
netVars    == <<net_state, net, shutting, outages>>
callVars   == <<call, arg, ret, idx, wasIn>>
kernelVars == <<fdState, family>>
appVars    == <<known, made>>
vars       == <<listVars, netVars, callVars, kernelVars, appVars, crashed>>

Init ==
    /\ fds = <<>> /\ freed = FALSE /\ mutex = NoThread
    /\ net_state = 0 /\ net = "idle" /\ shutting = 1 /\ outages = 0
    /\ call = [t \in Thread |-> "none"]
    /\ arg = [t \in Thread |-> 0] /\ ret = [t \in Thread |-> 0]
    /\ idx = [t \in Thread |-> 0] /\ wasIn = [t \in Thread |-> FALSE]
    /\ fdState = [f \in Fd |-> "free"] /\ family = [f \in Fd |-> "other"]
    /\ known = {} /\ made = {} /\ crashed = FALSE

-----------------------------------------------------------------------------
(* The kernel gives out the smallest free descriptor.                      *)

Free == {f \in Fd : fdState[f] = "free"}
Lowest(f) == f \in Free /\ \A g \in Free : f <= g

NewFd(f, fam) ==
    /\ Lowest(f)
    /\ fdState' = [fdState EXCEPT ![f] = "open"]
    /\ family' = [family EXCEPT ![f] = fam]

\* A call of the thread t ends, and with it its local variables.
EndCall(t) ==
    /\ call' = [call EXCEPT ![t] = "none"]
    /\ arg' = [arg EXCEPT ![t] = 0] /\ ret' = [ret EXCEPT ![t] = 0]
    /\ idx' = [idx EXCEPT ![t] = 0] /\ wasIn' = [wasIn EXCEPT ![t] = FALSE]

\* It returns the descriptor f to the application.
Return(t, f) == EndCall(t) /\ known' = known \cup {f}

-----------------------------------------------------------------------------
(* The calls of the application.                                           *)

\* socket: the kernel's, then add_sock_to_list for the internet families.
SocketInet(t) ==
    /\ call[t] = "none"
    /\ \E f \in Fd :
          /\ NewFd(f, "inet")
          /\ ret' = [ret EXCEPT ![t] = f]
          /\ made' = made \cup {f}
    /\ call' = [call EXCEPT ![t] = "add"]
    /\ UNCHANGED <<listVars, netVars, arg, idx, wasIn, known, crashed>>

SocketOther(t) ==
    /\ call[t] = "none"
    /\ \E f \in Fd : NewFd(f, "other") /\ Return(t, f)
    /\ UNCHANGED <<listVars, netVars, made, crashed>>

\* add_sock_to_list.  realloc of an array that was freed may stop the process.
AddSock(t) ==
    /\ call[t] = "add"
    /\ mutex = NoThread
    /\ fds' = Append(fds, ret[t])
    /\ freed' = FALSE
    /\ Return(t, ret[t])
    /\ UNCHANGED <<mutex, netVars, kernelVars, made, crashed>>

AddSockCrash(t) ==
    /\ call[t] = "add"
    /\ mutex = NoThread
    /\ freed
    /\ crashed' = TRUE
    /\ UNCHANGED <<listVars, netVars, callVars, kernelVars, appVars>>

\* accept on the socket s: the kernel's, ...
Accept(t, s) ==
    /\ call[t] = "none"
    /\ s \in known /\ fdState[s] = "open"
    /\ arg' = [arg EXCEPT ![t] = s]
    /\ \E f \in Fd :
          /\ NewFd(f, family[s])
          /\ ret' = [ret EXCEPT ![t] = f]
    /\ call' = [call EXCEPT ![t] = "search"]
    /\ UNCHANGED <<listVars, netVars, idx, wasIn, appVars, crashed>>

\* ... is_in_list with its search under the mutex, ...
Members == {fds[k] : k \in DOMAIN fds}

IsInList(t) ==
    /\ call[t] = "search"
    /\ mutex = NoThread
    /\ \E i \in 1..(Len(fds) + 1) :
          /\ i <= Len(fds) => fds[i] = arg[t]
          /\ \A j \in 1..(i - 1) : fds[j] # arg[t]
          /\ idx' = [idx EXCEPT ![t] = i]
    /\ wasIn' = [wasIn EXCEPT ![t] = arg[t] \in Members]
    /\ call' = [call EXCEPT ![t] = "compare"]
    /\ UNCHANGED <<listVars, netVars, arg, ret, kernelVars, appVars, crashed>>

\* ... and its comparison of i and num_fds after it.
Compare(t) ==
    /\ call[t] = "compare"
    /\ IF idx[t] <= Len(fds)
         THEN call' = [call EXCEPT ![t] = "add"]
              /\ UNCHANGED <<arg, ret, idx, wasIn, known>>
         ELSE Return(t, ret[t])
    /\ UNCHANGED <<listVars, netVars, kernelVars, made, crashed>>

\* Mutant: the descriptor stays in the list.
CloseKeepsEntry(t, f) ==
    /\ call[t] = "none"
    /\ f \in known
    /\ known' = known \ {f} /\ made' = made \ {f}
    /\ arg' = [arg EXCEPT ![t] = f]
    /\ call' = [call EXCEPT ![t] = "close"]
    /\ UNCHANGED <<listVars, netVars, ret, idx, wasIn, kernelVars, crashed>>

\* close of a descriptor: remove_sock_from_list first, then the kernel's.
Close(t, f) ==
    /\ call[t] = "none"
    /\ f \in known
    /\ known' = known \ {f} /\ made' = made \ {f}
    /\ arg' = [arg EXCEPT ![t] = f]
    /\ call' = [call EXCEPT ![t] = "remove"]
    /\ UNCHANGED <<listVars, netVars, ret, idx, wasIn, kernelVars, crashed>>

\* Mutant: the last entry is taken from the list.
WithoutLast(s, i) == SubSeq(s, 1, Len(s) - 1)

\* memmove closes the gap at position i.
Without(s, i) == [k \in 1..(Len(s) - 1) |-> IF k < i THEN s[k] ELSE s[k + 1]]

RemoveSock(t) ==
    /\ call[t] = "remove"
    /\ mutex = NoThread
    /\ \/ /\ arg[t] \notin Members
          /\ UNCHANGED fds
       \/ \E i \in DOMAIN fds :
             /\ fds[i] = arg[t]
             /\ \A j \in 1..(i - 1) : fds[j] # arg[t]
             /\ fds' = Without(fds, i)
    /\ call' = [call EXCEPT ![t] = "close"]
    /\ UNCHANGED <<freed, mutex, netVars, arg, ret, idx, wasIn, kernelVars, appVars,
                   crashed>>

KernelClose(t) ==
    /\ call[t] = "close"
    /\ fdState' = [fdState EXCEPT ![arg[t]] = "free"]
    /\ family' = [family EXCEPT ![arg[t]] = "other"]
    /\ EndCall(t)
    /\ UNCHANGED <<listVars, netVars, appVars, crashed>>

-----------------------------------------------------------------------------
(* lauSim_switch_net, called by the thread of the back end.                *)

NetFails ==
    /\ net = "idle" /\ net_state = 0 /\ outages < MaxOutages
    /\ mutex = NoThread
    /\ mutex' = "backend"
    /\ net' = "shut" /\ shutting' = 1
    /\ outages' = outages + 1
    /\ UNCHANGED <<fds, freed, net_state, callVars, kernelVars, appVars, crashed>>

ShutOne ==
    /\ net = "shut" /\ shutting <= Len(fds)
    /\ fdState' = [fdState EXCEPT ![fds[shutting]] = "shut"]
    /\ shutting' = shutting + 1
    /\ UNCHANGED <<listVars, net_state, net, outages, callVars, family,
                   appVars, crashed>>

\* Mutant: the mutex is not given back.
ShutDoneLocked ==
    /\ net = "shut" /\ shutting > Len(fds)
    /\ fds' = <<>> /\ freed' = TRUE /\ mutex' = mutex
    /\ net' = "state" /\ shutting' = 1
    /\ UNCHANGED <<net_state, outages, callVars, kernelVars,
                   appVars, crashed>>

ShutDone ==
    /\ net = "shut" /\ shutting > Len(fds)
    /\ fds' = <<>> /\ freed' = TRUE /\ mutex' = NoThread
    /\ net' = "state" /\ shutting' = 1
    /\ UNCHANGED <<net_state, outages, callVars, kernelVars,
                   appVars, crashed>>

NetFailed ==
    /\ net = "state"
    /\ net_state' = 1 /\ net' = "idle"
    /\ UNCHANGED <<listVars, shutting, outages, callVars, kernelVars,
                   appVars, crashed>>

NetRecovers ==
    /\ net = "idle" /\ net_state = 1
    /\ net_state' = 0
    /\ UNCHANGED <<listVars, net, shutting, outages, callVars, kernelVars, appVars,
                   crashed>>

-----------------------------------------------------------------------------
\* A call in progress.
Step(t) ==
    \/ AddSock(t) \/ AddSockCrash(t) \/ IsInList(t) \/ Compare(t)
    \/ RemoveSock(t) \/ KernelClose(t)

NewCall(t) ==
    \/ SocketInet(t) \/ SocketOther(t)
    \/ \E f \in Fd : Accept(t, f) \/ Close(t, f)

SwitchNet == ShutOne \/ ShutDone \/ NetFailed

Next ==
    /\ ~crashed
    /\ \/ \E t \in Thread : NewCall(t) \/ Step(t)
       \/ NetFails \/ SwitchNet \/ NetRecovers

Spec == Init /\ [][Next]_vars

\* The threads run.  Outages are bounded, so that weak fairness is enough for
\* the mutex.
FairSpec ==
    /\ Spec
    /\ WF_vars(~crashed /\ SwitchNet)
    /\ \A t \in Thread : WF_vars(~crashed /\ Step(t))

-----------------------------------------------------------------------------
(* Properties.                                                             *)

\* An outage hits live sockets only: whatever the threads do, each descriptor
\* is in the list once at most, and none is there that was closed, so that
\* its number may be somebody else's by now (close: first the list, then the
\* kernel; socket, accept: first the kernel, then the list).
NoStaleFd ==
    /\ \A f \in Members : fdState[f] # "free"
    /\ \A i, j \in DOMAIN fds : i # j => fds[i] # fds[j]

\* An outage misses no socket: each one that socket has returned is in the
\* list or has been shut down (add_sock_to_list, lauSim_switch_net).
NoneMissed ==
    \A f \in known \cap made : f \in Members \/ fdState[f] = "shut"

\* No call hangs: the mutex is given back on all paths.
CallsReturn ==
    \A t \in Thread : call[t] # "none" ~> (call[t] = "none" \/ crashed)

\* preload.h, of is_in_list: "1 if it is in the list, 0 else", for the list as
\* it was during the search.
IsInListRight ==
    [][\A t \in Thread : Compare(t) => (call'[t] = "add" <=> wasIn[t])]_vars
=============================================================================

----------------------------- MODULE SyncStart -----------------------------
(***************************************************************************)
(* The synchronised start of a run: the server (srv/main.cpp up to its tic *)
(* loop, Server::init, on_message, set_node_state, all_nodes_ready and     *)
(* send_synced_signal), its network thread (the mosquitto plugin), and on  *)
(* every node the client (client/src/client.c, mqtt.c) and the back end    *)
(* inside the application (backend.c), joined by a fifo.  The MQTT broker  *)
(* between server and clients is external: it keeps the last status of     *)
(* each node (it is published with the retain flag), hands it to the       *)
(* server when it subscribes, and drops what is sent to a node nobody is   *)
(* subscribed for (quality of service 0).                                  *)
(***************************************************************************)
EXTENDS Integers, Sequences

CONSTANTS
    Node,        \* the nodes of the fault manager
    Sync,        \* Options::sync
    StaleReady,  \* nodes whose status an earlier run left at the broker
    StaleFifo,   \* nodes on which an earlier run left its fifo
    MayTerm,     \* whether the server may get SIGTERM
    MayStop,     \* the nodes whose client may stop
    MaxFaults    \* bound: the number of faults the server sends

ASSUME StartAssumption ==
    /\ StaleReady \subseteq Node /\ StaleFifo \subseteq Node
    /\ {Sync, MayTerm} \subseteq BOOLEAN /\ MayStop \subseteq Node
    /\ MaxFaults \in Nat

\* Messages for a node: the synchronisation signal (the node, severity 0),
\* and the faults, numbered in the order in which they are sent (faults of the
\* node itself, which end the application, are left to module Backend).  The
\* client passes a fault on as a line, the signal as an empty one, and has a
\* line of its own for its end.
SYNC == 0
EXIT == -1

VARIABLES
    srvPc,     \* the main thread of the server
    looping,   \* the network thread runs (loop_start)
    callback,  \* lausim_callback is set
    numNodes,  \* Server::num_nodes is set
    nodesSet,  \* Server::nodes is set
    ready,     \* the nodes in state NODE_STATE_READY
    termreq,   \* set by the signal handler
    toSignal,  \* the nodes send_synced_signal has yet to reach
    nFaults,   \* the number of faults sent
    \* the broker
    retained,  \* nodes whose READY is kept
    srvSub,    \* the server is subscribed
    srvInbox,  \* how many READY messages of a node wait for the server
    subs,      \* the nodes whose client is subscribed
    inbox,     \* the messages that wait for the client of a node
    \* the nodes
    client,    \* the client process
    synced,    \* its variable synced
    fifoFile,  \* nodes on which the fifo exists
    created,   \* fifo_created of the back end
    fifo,      \* the lines in the fifo
    backend,   \* the application's start
    \* history
    sent,      \* the faults sent to a node
    lostSync,  \* the nodes whose signal had no receiver
    signalled, \* the nodes whose client received the signal
    cmds       \* what the application's back end took from the fifo

srvVars    == <<srvPc, looping, callback, numNodes, nodesSet, ready, termreq,
                toSignal, nFaults>>
brokerVars == <<retained, srvSub, srvInbox, subs, inbox>>
nodeVars   == <<client, synced, fifoFile, created, fifo, backend>>
histVars   == <<sent, lostSync, signalled, cmds>>
vars       == <<srvVars, brokerVars, nodeVars, histVars>>

Init ==
    /\ srvPc = "load"
    /\ looping = FALSE /\ callback = FALSE /\ numNodes = FALSE /\ nodesSet = FALSE
    /\ ready = {} /\ termreq = FALSE /\ toSignal = {} /\ nFaults = 0
    /\ retained = StaleReady /\ srvSub = FALSE /\ srvInbox = [n \in Node |-> 0]
    /\ subs = {} /\ inbox = [n \in Node |-> <<>>]
    /\ client = [n \in Node |-> "off"]
    /\ synced = [n \in Node |-> FALSE]
    /\ fifoFile = StaleFifo
    /\ created = [n \in Node |-> TRUE]
    /\ fifo = [n \in Node |-> <<>>]
    /\ backend = [n \in Node |-> "off"]
    /\ sent = [n \in Node |-> <<>>] /\ lostSync = {} /\ signalled = {}
    /\ cmds = [n \in Node |-> <<>>]

-----------------------------------------------------------------------------
(* The server's main thread.                                               *)

\* The plugin's init: connect and subscribe; the broker sends what it keeps.
SrvLoad ==
    /\ srvPc = "load"
    /\ srvSub' = TRUE
    /\ srvInbox' = [n \in Node |-> IF n \in retained THEN 1 ELSE 0]
    /\ srvPc' = "post_init"
    /\ UNCHANGED <<looping, callback, numNodes, nodesSet, ready, termreq,
                   toSignal, nFaults, retained, subs, inbox, nodeVars, histVars>>

\* Server::init runs the post init hooks: the network thread starts.
SrvPostInit ==
    /\ srvPc = "post_init"
    /\ looping' = TRUE
    /\ srvPc' = "callback"
    /\ UNCHANGED <<callback, numNodes, nodesSet, ready, termreq, toSignal,
                   nFaults, brokerVars, nodeVars, histVars>>

SrvSetCallback ==
    /\ srvPc = "callback"
    /\ callback' = TRUE
    /\ srvPc' = "num_nodes"
    /\ UNCHANGED <<looping, numNodes, nodesSet, ready, termreq, toSignal,
                   nFaults, brokerVars, nodeVars, histVars>>

\* get_nodes of the fault manager fills in the server's two members, one
\* after the other.
SrvNumNodes ==
    /\ srvPc = "num_nodes"
    /\ numNodes' = TRUE
    /\ srvPc' = "nodes"
    /\ UNCHANGED <<looping, callback, nodesSet, ready, termreq, toSignal,
                   nFaults, brokerVars, nodeVars, histVars>>

\* Mutant: the option sync is not looked at.
SrvNodesNoSync ==
    /\ srvPc = "nodes"
    /\ nodesSet' = TRUE
    /\ srvPc' = "tics"
    /\ UNCHANGED <<looping, callback, numNodes, ready, termreq, toSignal,
                   nFaults, brokerVars, nodeVars, histVars>>

SrvNodes ==
    /\ srvPc = "nodes"
    /\ nodesSet' = TRUE
    /\ srvPc' = IF Sync THEN "sync" ELSE "tics"
    /\ UNCHANGED <<looping, callback, numNodes, ready, termreq, toSignal,
                   nFaults, brokerVars, nodeVars, histVars>>

\* Mutant: one node that is ready is enough.
SrvSomeReady ==
    /\ srvPc = "sync"
    /\ ~termreq
    /\ ready # {}
    /\ srvPc' = "signal"
    /\ toSignal' = Node
    /\ UNCHANGED <<looping, callback, numNodes, nodesSet, ready, termreq,
                   nFaults, brokerVars, nodeVars, histVars>>

\* The waiting loop of main ends when all nodes are ready or on a signal; in
\* both cases main goes on with send_synced_signal.
SrvAllReady ==
    /\ srvPc = "sync"
    /\ ~termreq
    /\ ready = Node
    /\ srvPc' = "signal"
    /\ toSignal' = Node
    /\ UNCHANGED <<looping, callback, numNodes, nodesSet, ready, termreq,
                   nFaults, brokerVars, nodeVars, histVars>>

SrvWaitInterrupted ==
    /\ srvPc = "sync"
    /\ termreq
    /\ srvPc' = "signal"
    /\ toSignal' = Node
    /\ UNCHANGED <<looping, callback, numNodes, nodesSet, ready, termreq,
                   nFaults, brokerVars, nodeVars, histVars>>

\* notify_fail: published with quality of service 0.
Publish(n, m) ==
    inbox' = IF n \in subs THEN [inbox EXCEPT ![n] = Append(@, m)] ELSE inbox

\* One round of the loop of send_synced_signal.
SrvSignal(n) ==
    /\ srvPc = "signal"
    /\ n \in toSignal
    /\ toSignal' = toSignal \ {n}
    /\ Publish(n, SYNC)
    /\ lostSync' = IF n \in subs THEN lostSync ELSE lostSync \cup {n}
    /\ UNCHANGED <<srvPc, looping, callback, numNodes, nodesSet, ready, termreq,
                   nFaults, retained, srvSub, srvInbox, subs, nodeVars, sent,
                   signalled, cmds>>

SrvSignalled ==
    /\ srvPc = "signal"
    /\ toSignal = {}
    /\ srvPc' = "tics"
    /\ UNCHANGED <<looping, callback, numNodes, nodesSet, ready, termreq,
                   toSignal, nFaults, brokerVars, nodeVars, histVars>>

\* A tic sends a fault (the loop of tics is in module TicLoop).
SrvFault(n) ==
    /\ srvPc = "tics"
    /\ nFaults < MaxFaults
    /\ nFaults' = nFaults + 1
    /\ Publish(n, nFaults + 1)
    /\ sent' = [sent EXCEPT ![n] = Append(@, nFaults + 1)]
    /\ UNCHANGED <<srvPc, looping, callback, numNodes, nodesSet, ready, termreq,
                   toSignal, retained, srvSub, srvInbox, subs, nodeVars,
                   lostSync, signalled, cmds>>

\* term_handler, which is installed once Server::init has returned.
TermHandler ==
    /\ MayTerm
    /\ srvPc \in {"sync", "signal", "tics"}
    /\ termreq' = TRUE
    /\ UNCHANGED <<srvPc, looping, callback, numNodes, nodesSet, ready, toSignal,
                   nFaults, brokerVars, nodeVars, histVars>>

-----------------------------------------------------------------------------
(* The server's network thread: a READY message of node n arrives.         *)

Arrives(n) ==
    /\ looping
    /\ srvPc # "crashed"
    /\ srvInbox[n] > 0
    /\ srvInbox' = [srvInbox EXCEPT ![n] = @ - 1]

\* on_message of the plugin drops it while there is no callback, and
\* set_node_state finds no node while there are none.
NetDropped(n) ==
    /\ Arrives(n)
    /\ ~callback \/ ~numNodes
    /\ UNCHANGED <<srvVars, retained, srvSub, subs, inbox, nodeVars, histVars>>

\* set_node_state goes through num_nodes nodes of an array that is not there.
NetNoArray(n) ==
    /\ Arrives(n)
    /\ callback /\ numNodes /\ ~nodesSet
    /\ srvPc' = "crashed"
    /\ UNCHANGED <<looping, callback, numNodes, nodesSet, ready, termreq,
                   toSignal, nFaults, retained, srvSub, subs, inbox, nodeVars,
                   histVars>>

\* Mutant: the state of the other nodes is overwritten.
NetReadyForgets(n) ==
    /\ Arrives(n)
    /\ callback /\ nodesSet
    /\ ready' = {n}
    /\ UNCHANGED <<srvPc, looping, callback, numNodes, nodesSet, termreq,
                   toSignal, nFaults, retained, srvSub, subs, inbox, nodeVars,
                   histVars>>

NetReady(n) ==
    /\ Arrives(n)
    /\ callback /\ nodesSet
    /\ ready' = ready \cup {n}
    /\ UNCHANGED <<srvPc, looping, callback, numNodes, nodesSet, termreq,
                   toSignal, nFaults, retained, srvSub, subs, inbox, nodeVars,
                   histVars>>

-----------------------------------------------------------------------------
(* A node: the back end in the application, the launcher and the client.   *)

\* lauSim_get_fifo up to its fopen.
BackendMkfifo(n) ==
    /\ backend[n] = "off"
    /\ backend' = [backend EXCEPT ![n] = "open"]
    /\ created' = [created EXCEPT ![n] = n \notin fifoFile]
    /\ fifoFile' = fifoFile \cup {n}
    /\ UNCHANGED <<srvVars, brokerVars, client, synced, fifo, histVars>>

\* The launcher starts the client when the file is there.
ClientStart(n) ==
    /\ client[n] = "off"
    /\ n \in fifoFile
    /\ client' = [client EXCEPT ![n] = "open"]
    /\ UNCHANGED <<srvVars, brokerVars, synced, fifoFile, created, fifo, backend,
                   histVars>>

\* Both open the fifo, each waiting for the other; only the back end that
\* created it waits for a byte.
FifoOpen(n) ==
    /\ client[n] = "open" /\ backend[n] = "open"
    /\ client' = [client EXCEPT ![n] = "init"]
    /\ backend' = [backend EXCEPT ![n] = IF created[n] THEN "wait" ELSE "running"]
    /\ UNCHANGED <<srvVars, brokerVars, synced, fifoFile, created, fifo, histVars>>

\* Mutant: the client does not subscribe before it reports.
ClientInitUnsubscribed(n) ==
    /\ client[n] = "init"
    /\ client' = [client EXCEPT ![n] = "report"]
    /\ subs' = subs
    /\ UNCHANGED <<srvVars, retained, srvSub, srvInbox, inbox, synced, fifoFile,
                   created, fifo, backend, histVars>>

\* init of mqtt.c: connect and subscribe ...
ClientInit(n) ==
    /\ client[n] = "init"
    /\ client' = [client EXCEPT ![n] = "report"]
    /\ subs' = subs \cup {n}
    /\ UNCHANGED <<srvVars, retained, srvSub, srvInbox, inbox, synced, fifoFile,
                   created, fifo, backend, histVars>>

\* ... or fail: the client exits, which closes the fifo.
ClientInitFails(n) ==
    /\ n \in MayStop
    /\ client[n] = "init"
    /\ client' = [client EXCEPT ![n] = "stopped"]
    /\ UNCHANGED <<srvVars, brokerVars, synced, fifoFile, created, fifo, backend,
                   histVars>>

\* send_back of the READY message; the broker keeps it.
ClientReady(n) ==
    /\ client[n] = "report"
    /\ client' = [client EXCEPT ![n] = "loop"]
    /\ retained' = retained \cup {n}
    /\ srvInbox' = IF srvSub THEN [srvInbox EXCEPT ![n] = @ + 1] ELSE srvInbox
    /\ UNCHANGED <<srvVars, srvSub, subs, inbox, synced, fifoFile, created, fifo,
                   backend, histVars>>

\* The client gets SIGTERM: it leaves its loop, tells the back end and
\* disconnects.
ClientStop(n) ==
    /\ n \in MayStop
    /\ client[n] = "loop"
    /\ client' = [client EXCEPT ![n] = "stopped"]
    /\ fifo' = [fifo EXCEPT ![n] = Append(@, EXIT)]
    /\ subs' = subs \ {n}
    /\ inbox' = [inbox EXCEPT ![n] = <<>>]
    /\ UNCHANGED <<srvVars, retained, srvSub, srvInbox, synced, fifoFile, created,
                   backend, histVars>>

\* Mutant: synced is not set.
ClientRecvNeverSynced(n) ==
    /\ client[n] = "loop"
    /\ inbox[n] # <<>>
    /\ inbox' = [inbox EXCEPT ![n] = Tail(@)]
    /\ synced' = synced
    /\ fifo' = [fifo EXCEPT ![n] = Append(@, IF synced[n] THEN Head(inbox[n]) ELSE SYNC)]
    /\ signalled' = IF Head(inbox[n]) = SYNC THEN signalled \cup {n} ELSE signalled
    /\ UNCHANGED <<srvVars, retained, srvSub, srvInbox, subs, client, fifoFile,
                   created, backend, sent, lostSync, cmds>>

\* Mutant: the faults received stay in the array.
ClientRecvKeeps(n) ==
    /\ client[n] = "loop"
    /\ inbox[n] # <<>> /\ Len(fifo[n]) < MaxFaults + 1
    /\ inbox' = inbox
    /\ synced' = [synced EXCEPT ![n] = TRUE]
    /\ fifo' = [fifo EXCEPT ![n] = Append(@, IF synced[n] THEN Head(inbox[n]) ELSE SYNC)]
    /\ signalled' = IF Head(inbox[n]) = SYNC THEN signalled \cup {n} ELSE signalled
    /\ UNCHANGED <<srvVars, retained, srvSub, srvInbox, subs, client, fifoFile,
                   created, backend, sent, lostSync, cmds>>

\* One message in the client's loop: the first one, whatever it is, becomes
\* the newline the back end waits for, every other one a command.
ClientRecv(n) ==
    /\ client[n] = "loop"
    /\ inbox[n] # <<>>
    /\ inbox' = [inbox EXCEPT ![n] = Tail(@)]
    /\ synced' = [synced EXCEPT ![n] = TRUE]
    /\ fifo' = [fifo EXCEPT ![n] = Append(@, IF synced[n] THEN Head(inbox[n]) ELSE SYNC)]
    /\ signalled' = IF Head(inbox[n]) = SYNC THEN signalled \cup {n} ELSE signalled
    /\ UNCHANGED <<srvVars, retained, srvSub, srvInbox, subs, client, fifoFile,
                   created, backend, sent, lostSync, cmds>>

\* fgetc returns with the newline (or the first letter of the line "exit",
\* whose rest then is no command), ...
BackendStart(n) ==
    /\ backend[n] = "wait"
    /\ fifo[n] # <<>>
    /\ fifo' = [fifo EXCEPT ![n] = Tail(@)]
    /\ backend' = [backend EXCEPT ![n] = "running"]
    /\ UNCHANGED <<srvVars, brokerVars, client, synced, fifoFile, created, histVars>>

\* ... or because the client is gone.
BackendStartEOF(n) ==
    /\ backend[n] = "wait"
    /\ fifo[n] = <<>> /\ client[n] = "stopped"
    /\ backend' = [backend EXCEPT ![n] = "running"]
    /\ UNCHANGED <<srvVars, brokerVars, client, synced, fifoFile, created, fifo,
                   histVars>>

\* lauSim_main takes a line; an empty line is no command.
BackendCommand(n) ==
    /\ backend[n] = "running"
    /\ fifo[n] # <<>>
    /\ Head(fifo[n]) # EXIT
    /\ fifo' = [fifo EXCEPT ![n] = Tail(@)]
    /\ cmds' = [cmds EXCEPT ![n] = Append(@, Head(fifo[n]))]
    /\ UNCHANGED <<srvVars, brokerVars, client, synced, fifoFile, created, backend,
                   sent, lostSync, signalled>>

\* The line "exit" ends lauSim_main and with it the application.
BackendExit(n) ==
    /\ backend[n] = "running"
    /\ fifo[n] # <<>>
    /\ Head(fifo[n]) = EXIT
    /\ fifo' = [fifo EXCEPT ![n] = Tail(@)]
    /\ backend' = [backend EXCEPT ![n] = "exited"]
    /\ fifoFile' = IF created[n] THEN fifoFile \ {n} ELSE fifoFile
    /\ UNCHANGED <<srvVars, brokerVars, client, synced, created, histVars>>

-----------------------------------------------------------------------------
Server == \/ SrvLoad \/ SrvPostInit \/ SrvSetCallback \/ SrvNumNodes \/ SrvNodes
          \/ SrvAllReady \/ SrvWaitInterrupted
          \/ \E n \in Node : SrvSignal(n)
          \/ SrvSignalled

Net(n) == NetDropped(n) \/ NetNoArray(n) \/ NetReady(n)

Client(n) == ClientStart(n) \/ ClientInit(n) \/ ClientReady(n) \/ ClientRecv(n)

Backend(n) == \/ BackendMkfifo(n) \/ FifoOpen(n) \/ BackendStart(n)
              \/ BackendStartEOF(n) \/ BackendCommand(n) \/ BackendExit(n)

Next ==
    \/ Server
    \/ TermHandler
    \/ \E n \in Node : \/ SrvFault(n) \/ Net(n) \/ Client(n) \/ Backend(n)
                       \/ ClientInitFails(n) \/ ClientStop(n)

Spec == Init /\ [][Next]_vars

\* Every process and the network go on; faults, signals and failures of
\* clients need not happen.
Fairness ==
    /\ WF_vars(Server)
    /\ \A n \in Node : WF_vars(Net(n)) /\ WF_vars(Client(n)) /\ WF_vars(Backend(n))

FairSpec == Spec /\ Fairness

-----------------------------------------------------------------------------
(* Properties.                                                             *)

\* A run with sync that nothing has disturbed so far: nothing is left of an
\* earlier run, the server got no signal and no client failed or stopped.
Clean ==
    /\ Sync /\ StaleReady = {} /\ StaleFifo = {}
    /\ ~termreq
    /\ \A n \in Node : client[n] # "stopped"

\* The start is a barrier: as long as nothing disturbs it, no application gets
\* past its start before the client of every node is subscribed and has
\* reported (all_nodes_ready, send_synced_signal, client.c's loop,
\* lauSim_init).
Barrier ==
    Clean /\ (\E n \in Node : backend[n] = "running") =>
        \A m \in Node : client[m] = "loop" /\ m \in subs

\* No signal is sent into the void: the order subscribe, report in the
\* client makes the quality of service 0 of the signal harmless.
NoSignalLost == Clean => lostSync = {}

\* srv/README.md: "execution is paused by the back end until a fault of the
\* node with severity 0 is received": nothing but the signal, no fault and no
\* end of a file, starts an application (lauSim_init, client.c's loop).  A
\* fifo of an earlier run, a client that ends and a fault that comes first
\* start it too.
StartedBySignal == \A n \in Node : backend[n] = "running" => n \in signalled

\* Without disturbances the claim is true: the first message, which the client
\* takes for the signal whatever it is, is the signal.
CleanStart == Clean => StartedBySignal

\* The faults among messages or lines, and that none comes after a later one.
FaultsIn(s) == {s[i] : i \in {j \in DOMAIN s : s[j] > SYNC}}
InSequence(s) ==
    \A i, j \in DOMAIN s : i < j /\ s[i] > SYNC /\ s[j] > SYNC => s[i] < s[j]

\* From the application of a node back to the broker.
Way(n) == cmds[n] \o fifo[n] \o inbox[n]

\* Undisturbed, nothing is lost, doubled or overtaken on its way: the
\* faults sent to a node, which are numbered in the order of sending, are those
\* its application took, followed by those in the fifo and those at the
\* broker.  In particular none of them is taken for the signal (notify_fail,
\* get_faults, client.c's loop, lauSim_main).
FaultsInOrder ==
    Clean => \A n \in Node :
        InSequence(Way(n)) /\ FaultsIn(Way(n)) = FaultsIn(sent[n])

\* Whatever goes wrong - messages, statuses and files of an earlier run,
\* signals, clients that fail or stop - a fault may miss its application, but
\* none is delivered twice, to another node or after a later one.
AtMostOnceInOrder ==
    \A n \in Node : InSequence(Way(n)) /\ FaultsIn(Way(n)) \subseteq FaultsIn(sent[n])

\* No READY reaches the server while it initialises.
NoneEarly == srvPc \in {"sync", "signal", "tics"} \/ \A n \in Node : srvInbox[n] = 0

\* Unless a READY comes before the server is initialised, and unless something
\* disturbs the run, every application starts: nobody waits for a message that was dropped (main's waiting loop,
\* send_synced_signal, client.c's loop, lauSim_init).
AllStart == [](NoneEarly /\ Clean) => <>(\A n \in Node : backend[n] = "running")

\* com.h: "asynchdonous backchannel, messages will be passed to the
\* registered callback as they are received"; options.h: "wait until all
\* nodes have reported that they are ready": once all have, it goes on.
ReportedStart ==
    (\A n \in Node : client[n] = "loop")
        ~> (srvPc = "crashed" \/ \A n \in Node : backend[n] = "running")
=============================================================================

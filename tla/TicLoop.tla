------------------------------ MODULE TicLoop ------------------------------
(***************************************************************************)
(* The server's main loop: main() of srv/main.cpp from the start of its    *)
(* tic loop to the end of the program, and Server::do_tic, manage_fails    *)
(* and skip_to_end_of_tic of srv/server.cpp, which it calls.               *)
(*                                                                         *)
(* One tic asks the fault manager for its faults, passes each of them to   *)
(* the actors (the nodes) one by one, tells external programs about all    *)
(* of them in one message and then waits for the end of the tic, skipping  *)
(* the tics it is too late for.  The wall clock and the handler of SIGTERM *)
(* run next to it.                                                         *)
(***************************************************************************)
EXTENDS Integers, Sequences

CONSTANTS
    Node,       \* the names of the nodes of the fault manager
    Comp,       \* the names of the components a fault may name
    NULL,       \* no component: the fault is about the node as a whole
    Batches,    \* what get_fail of the fault manager may return
    TicLength,  \* Config::tic_length
    MaxTics,    \* Options::max_tics, 0 for no limit
    UIntMod,    \* 2^32: the counter of skipped tics is an unsigned
    MaxBusy,    \* bound: how far the clock runs between two sleeps
    TicBound    \* bound: the last tic entered when MaxTics is 0

Fault == [node : Node, component : Comp \cup {NULL}, severity : Nat]

\* A batch is any list of faults, also one that names a node several times:
\* replay.c passes on what its file says.  An overrun is shorter than 2^32
\* tics.
ASSUME NullAssumption == NULL \notin Comp
ASSUME BatchAssumption == Batches \subseteq Seq(Fault)
ASSUME TimeAssumption ==
    /\ TicLength \in Nat /\ MaxTics \in Nat
    /\ MaxBusy \in Nat /\ TicBound \in Nat /\ UIntMod \in Nat \ {0}
    /\ TicLength # 0 => MaxBusy <= UIntMod * TicLength

VARIABLES
    pc,         \* where the main thread is
    tic,        \* Server::tic
    tic_num,    \* the counter of main.cpp that max_tics is compared with
    timestamp,  \* the end of the current tic
    skip,       \* the local of skip_to_end_of_tic
    termreq,    \* set by the signal handler
    failed,     \* the faults of this tic
    i,          \* how many of them the actors have been told
    fail_msg,   \* the message being built for external programs
    now,        \* the wall clock
    busy,       \* the time that passed outside of sleep_until (for MaxBusy)
    t0,         \* history: when the first tic started
    calls,      \* history: the number of calls of do_tic
    actorDown,  \* history: the nodes told last that they are down
    externDown, \* history: the nodes external programs believe down
    lost,       \* history: the nodes a notification of which failed
    mixed       \* history: the nodes the last message about which said both

loopVars   == <<tic_num, calls, termreq>>
timeVars   == <<tic, timestamp, skip, t0>>
batchVars  == <<failed, i, fail_msg>>
viewVars   == <<actorDown, externDown, lost, mixed>>
clockVars  == <<now, busy>>
vars == <<pc, loopVars, timeVars, batchVars, viewVars, clockVars>>

EmptyMsg == [spare |-> {}, failing |-> {}]

Init ==
    /\ pc = "loop"
    /\ tic = 0 /\ tic_num = 0 /\ timestamp = 0 /\ skip = 0
    /\ termreq = FALSE
    /\ failed = <<>> /\ i = 0 /\ fail_msg = EmptyMsg
    /\ now = 0 /\ busy = 0
    /\ t0 = 0 /\ calls = 0
    /\ actorDown = {} /\ externDown = {} /\ lost = {} /\ mixed = {}

-----------------------------------------------------------------------------
(* The main thread.                                                        *)

\* Mutant: the loop condition does not look at termreq.
LoopCondNoTerm == MaxTics = 0 \/ MaxTics > tic_num

\* The condition of main's loop.
LoopCond == ~termreq /\ (MaxTics = 0 \/ MaxTics > tic_num)

\* main's loop condition holds: do_tic starts, and the first one starts time.
LoopEnter ==
    /\ pc = "loop"
    /\ LoopCond
    /\ MaxTics # 0 \/ tic < TicBound
    /\ tic_num' = IF MaxTics = 0 THEN tic_num ELSE tic_num + 1
    /\ calls' = calls + 1
    /\ timestamp' = IF tic = 0 THEN now ELSE timestamp
    /\ t0' = IF tic = 0 THEN now ELSE t0
    /\ pc' = "tic"
    /\ UNCHANGED <<termreq, tic, skip, batchVars, viewVars, clockVars>>

\* main's loop condition fails; the post-increment still happens unless the
\* condition stopped before it.
LoopExit ==
    /\ pc = "loop"
    /\ ~LoopCond
    /\ tic_num' = IF termreq \/ MaxTics = 0 THEN tic_num ELSE tic_num + 1
    /\ pc' = "cleanup"
    /\ UNCHANGED <<calls, termreq, timeVars, batchVars, viewVars, clockVars>>

\* manager->tic() and get_fail: any batch the fault manager can produce.
ManagerTic ==
    /\ pc = "tic"
    /\ \E b \in Batches :
          /\ failed' = b
          /\ pc' = IF b = <<>> THEN "skip" ELSE "notify"
    /\ i' = 0
    /\ fail_msg' = EmptyMsg
    /\ UNCHANGED <<loopVars, timeVars, viewVars, clockVars>>

\* Mutant: the component of a fault is not looked at.
AddToMsgAny(m, f) ==
    IF f.severity = 0 THEN [m EXCEPT !.spare = @ \cup {f.node}]
    ELSE [m EXCEPT !.failing = @ \cup {f.node}]

\* A fault of a whole node is a recovery (severity 0) or a failure.
AddToMsg(m, f) ==
    IF f.component # NULL THEN m
    ELSE IF f.severity = 0 THEN [m EXCEPT !.spare = @ \cup {f.node}]
    ELSE [m EXCEPT !.failing = @ \cup {f.node}]

Told(down, f) ==
    IF f.component # NULL THEN down
    ELSE IF f.severity = 0 THEN down \ {f.node} ELSE down \cup {f.node}

\* One round of the loop of manage_fails.  notify_fail may fail; its result
\* is not looked at.
NotifyActor ==
    /\ pc = "notify"
    /\ i < Len(failed)
    /\ LET f == failed[i + 1] IN
          /\ fail_msg' = AddToMsg(fail_msg, f)
          /\ \/ actorDown' = Told(actorDown, f) /\ lost' = lost
             \/ actorDown' = actorDown /\ lost' = lost \cup {f.node}
    /\ i' = i + 1
    /\ UNCHANGED <<pc, loopVars, timeVars, failed, externDown, mixed, clockVars>>

\* The message for external programs, whose result is not looked at either.
\* It has two lists of nodes and no order between them.
NotifyExtern ==
    /\ pc = "notify"
    /\ i = Len(failed)
    /\ \/ /\ externDown' = (externDown \ fail_msg.spare) \cup fail_msg.failing
          /\ mixed' = (mixed \ (fail_msg.spare \cup fail_msg.failing))
                       \cup (fail_msg.spare \cap fail_msg.failing)
          /\ lost' = lost
       \/ /\ UNCHANGED <<externDown, mixed>>
          /\ lost' = lost \cup fail_msg.spare \cup fail_msg.failing
    /\ pc' = "skip"
    /\ UNCHANGED <<loopVars, timeVars, batchVars, actorDown, clockVars>>

\* skip_to_end_of_tic up to the first test of its loop.
SkipEnter ==
    /\ pc = "skip"
    /\ tic' = tic + 1
    /\ skip' = 0
    /\ IF TicLength = 0
       THEN pc' = "loop" /\ timestamp' = timestamp
       ELSE pc' = "skipping" /\ timestamp' = timestamp + TicLength
    /\ UNCHANGED <<loopVars, t0, batchVars, viewVars, clockVars>>

\* Mutant: tics that are still to come are skipped.
SkipOneAhead ==
    /\ pc = "skipping"
    /\ timestamp < now + TicLength
    /\ skip' = (skip + 1) % UIntMod
    /\ timestamp' = timestamp + TicLength
    /\ UNCHANGED <<pc, loopVars, tic, t0, batchVars, viewVars, clockVars>>

\* The deadline of a tic has passed: the tic is skipped.
SkipOne ==
    /\ pc = "skipping"
    /\ timestamp < now
    /\ skip' = (skip + 1) % UIntMod
    /\ timestamp' = timestamp + TicLength
    /\ UNCHANGED <<pc, loopVars, tic, t0, batchVars, viewVars, clockVars>>

\* Mutant: an if in place of the while.
SkipDoneAtOnce ==
    /\ pc = "skipping"
    /\ pc' = "sleep"
    /\ busy' = 0
    /\ UNCHANGED <<loopVars, timeVars, batchVars, viewVars, now>>

SkipDone ==
    /\ pc = "skipping"
    /\ ~(timestamp < now)
    /\ pc' = "sleep"
    /\ busy' = 0
    /\ UNCHANGED <<loopVars, timeVars, batchVars, viewVars, now>>

\* Mutant: the skipped tics are not counted.
WakeForgetsSkipped ==
    /\ pc = "sleep"
    /\ now >= timestamp
    /\ tic' = tic
    /\ pc' = "loop"
    /\ UNCHANGED <<loopVars, timestamp, skip, t0, batchVars, viewVars,
                   clockVars>>

\* Mutant: the sleep is interrupted.
WakeEarly ==
    /\ pc = "sleep"
    /\ tic' = tic + skip
    /\ pc' = "loop"
    /\ UNCHANGED <<loopVars, timestamp, skip, t0, batchVars, viewVars,
                   clockVars>>

\* sleep_until returns at its time or later.
Wake ==
    /\ pc = "sleep"
    /\ now >= timestamp
    /\ tic' = tic + skip
    /\ pc' = "loop"
    /\ UNCHANGED <<loopVars, timestamp, skip, t0, batchVars, viewVars,
                   clockVars>>

\* Plugins, configuration and server are cleaned up.
Cleanup ==
    /\ pc = "cleanup"
    /\ pc' = "done"
    /\ UNCHANGED <<loopVars, timeVars, batchVars, viewVars, clockVars>>

Main == \/ LoopEnter \/ LoopExit \/ ManagerTic \/ NotifyActor \/ NotifyExtern
        \/ SkipEnter \/ SkipOne \/ SkipDone \/ Wake \/ Cleanup

-----------------------------------------------------------------------------
(* The environment.                                                        *)

\* term_handler, for SIGTERM, SIGABRT and SIGINT.
TermHandler ==
    /\ pc # "done"
    /\ termreq' = TRUE
    /\ UNCHANGED <<pc, tic_num, calls, timeVars, batchVars, viewVars, clockVars>>

\* Time passes while the main thread sleeps, and for at most MaxBusy units
\* from one sleep to the next.
ClockTick ==
    /\ pc # "done"
    /\ \/ pc = "sleep" /\ now < timestamp /\ busy' = busy
       \/ ~(pc = "sleep" /\ now < timestamp) /\ busy < MaxBusy /\ busy' = busy + 1
    /\ now' = now + 1
    /\ UNCHANGED <<pc, loopVars, timeVars, batchVars, viewVars>>

Terminated == pc = "done" /\ UNCHANGED vars

Next == Main \/ TermHandler \/ ClockTick \/ Terminated

\* The main thread is scheduled and time goes on while it sleeps.
Fairness == WF_vars(Main) /\ WF_vars(ClockTick)

Spec == Init /\ [][Next]_vars

FairSpec == Spec /\ Fairness

-----------------------------------------------------------------------------
(* Properties.                                                             *)

TypeOK ==
    /\ pc \in {"loop", "tic", "notify", "skip", "skipping", "sleep",
               "cleanup", "done"}
    /\ tic \in Nat /\ tic_num \in Nat /\ calls \in Nat
    /\ timestamp \in Nat /\ t0 \in Nat /\ now \in Nat
    /\ skip \in 0..(UIntMod - 1)
    /\ busy \in 0..MaxBusy
    /\ termreq \in BOOLEAN
    /\ failed \in Seq(Fault)
    /\ i \in 0..Len(failed)
    /\ fail_msg \in [spare : SUBSET Node, failing : SUBSET Node]
    /\ actorDown \subseteq Node /\ externDown \subseteq Node
    /\ lost \subseteq Node /\ mixed \subseteq Node

Timed == TicLength # 0

\* The tic number and the clock never drift apart, whatever was skipped:
\* the deadline the server works with is the one of its tic number, counted
\* from the start of the first tic (do_tic, skip_to_end_of_tic).
TimeLine ==
    Timed /\ calls > 0 =>
        IF pc \in {"skipping", "sleep"}
        THEN timestamp = t0 + (tic + skip) * TicLength
        ELSE timestamp = t0 + tic * TicLength

\* No tic starts before its time: while the faults of a tic are fetched and
\* sent, at least tic * tic_length has passed since the first tic started
\* (sleep_until and the number of skipped tics together).
OnTime ==
    Timed /\ pc \in {"tic", "notify", "skip"} => now >= t0 + tic * TicLength

\* Catching up never overshoots: the server sleeps for at most one tic, so a
\* late server goes on in the tic the clock is in (skip_to_end_of_tic).
SleepBound ==
    pc = "sleep" => timestamp <= now + TicLength

\* Skipping is exact: a server that was late by less than MaxBusy when it
\* looked at the clock is never behind by more than that, and the counter of
\* skipped tics does not wrap (the unsigned skip of skip_to_end_of_tic).
LagBound ==
    Timed /\ calls > 0 =>
        IF pc = "skipping" THEN now + (skip + 1) * TicLength <= timestamp + busy
                           ELSE now <= timestamp + busy

\* Actors and external programs agree on which nodes are down whenever no
\* batch is being sent, for every node none of whose notifications failed
\* and whose last message did not call it failing and spare at once: a failed
\* notification, and a batch that says both of a node, are confined to their
\* own node, the latter up to the next message about it (manage_fails).
ViewsAgree ==
    pc # "notify" =>
        \A n \in Node \ (lost \cup mixed) : n \in actorDown <=> n \in externDown

\* max_tics limits the tics of the server (options.h: "once the tic counter
\* exceeds max_tics the server will shutdown"): no tic is worked on after the
\* one of that number.  main.cpp compares its own count of calls instead.
TicLimit == MaxTics # 0 /\ pc \in {"tic", "notify"} => tic <= MaxTics

\* With a tic length of 0 no tic is skipped: between two calls the server's
\* tic number is the number of calls made (config.h: "also suppresses
\* skipping tics").
UntimedTics == ~Timed /\ pc \in {"loop", "cleanup", "done"} => tic = calls

\* After a signal the server finishes its tic and ends (term_handler).
TermEnds == termreq ~> (pc = "done")
=============================================================================

------------------------------ MODULE Launcher ------------------------------
(***************************************************************************)
(* One run on a node: client/launcher/launcher.c, which starts the         *)
(* application and then the client, waits and kills, around the processes  *)
(* of module Backend and the client that module FifoLine stands for.       *)
(*                                                                         *)
(* The launcher's own child only waits in system() for the shell, so that  *)
(* the kill at the end reaches that child, not the shell or what it        *)
(* started; nothing else depends on it and it is left out.  So is its      *)
(* req_stop: it is read only after the first waitpid has been interrupted, *)
(* when it is set, or has returned, when a kill finds nobody.              *)
(***************************************************************************)
EXTENDS Backend

CONSTANT
    MaxSignals  \* bound: the number of signals and crashes from outside

ASSUME SignalAssumption == MaxSignals \in Nat

VARIABLES
    lpc,        \* main: "fork" (and before), "stat", "waitpid", "rewait" (the second one), "done"
    forked,     \* the second child has not come to its execv
    swallowed,  \* history: a signal reached it there
    told,       \* req_stop of the client
    signals     \* the number of signals so far

childVars  == <<forked, swallowed>>
launchVars == <<lpc, childVars, told, signals>>
allVars    == <<vars, launchVars>>

LInit ==
    /\ Init
    /\ lpc = "fork" /\ forked = FALSE /\ swallowed = FALSE
    /\ told = FALSE /\ signals = 0

-----------------------------------------------------------------------------
(* The launcher.                                                           *)

\* Help, an unknown or the privileged method, no command, no library: main
\* returns at once.
Refuse ==
    /\ lpc = "fork"
    /\ lpc' = "done"
    /\ UNCHANGED <<vars, childVars, told, signals>>

\* The child starts the shell, ...
ForkApp ==
    /\ lpc = "fork"
    /\ Launch
    /\ lpc' = "stat"
    /\ UNCHANGED <<childVars, told, signals>>

\* ... or dies before: with LD_PRELOAD set it prints into a string constant.
ForkAppFails ==
    /\ lpc = "fork"
    /\ lpc' = "stat"
    /\ UNCHANGED <<vars, childVars, told, signals>>

\* The loop around stat looks for the file only; then the second child is
\* forked and waited for.
ForkClient ==
    /\ lpc = "stat" /\ file # "none"
    /\ lpc' = "waitpid"
    /\ forked' = TRUE
    /\ UNCHANGED <<vars, swallowed, told, signals>>

\* It becomes the client, whatever has happened to file and launcher.
Execv ==
    /\ forked /\ forked' = FALSE
    /\ Start
    /\ UNCHANGED <<file, stale, created, readVars, appVars, pc>>
    /\ UNCHANGED <<lpc, swallowed, told, signals>>

\* A signal for the process group: its processes end where they are.
KillAll == pc' = [p \in Proc |-> IF Alive(p) THEN "gone" ELSE pc[p]]

\* execv fails: the child signals its process group, itself, the launcher and
\* the processes of the application included, and ends.  The launcher's waits
\* are over with it in any case.
ExecvFails ==
    /\ forked /\ forked' = FALSE
    /\ client' = "closed"
    /\ KillAll
    /\ UNCHANGED <<written, file, stale, created, readVars, appVars>>
    /\ UNCHANGED <<lpc, swallowed, told, signals>>

\* Mutant: the end of the client is not noticed.
WaitReturnsNot ==
    /\ lpc = "waitpid" /\ client = "closed" /\ signals > 0
    /\ lpc' = "done"
    /\ UNCHANGED <<vars, childVars, told, signals>>

\* waitpid returns.  Whatever the status, the client is gone: a kill and a
\* second waitpid have no effect.
WaitReturns ==
    /\ lpc \in {"waitpid", "rewait"} /\ client = "closed"
    /\ lpc' = "done"
    /\ UNCHANGED <<vars, childVars, told, signals>>

\* What a signal does to the client: its handler is not there before its fopen
\* has returned and it has set it.  Before execv the child has the launcher's
\* handler, and sets a req_stop that execv forgets.
SignalClient ==
    \/ client = "open" /\ told' = TRUE /\ UNCHANGED <<client, swallowed>>
    \/ /\ client = "fopen" \/ (client = "open" /\ written = <<>>)
       /\ client' = "closed" /\ UNCHANGED <<told, swallowed>>
    \/ /\ client \in {"off", "closed"}
       /\ swallowed' = (swallowed \/ forked)
       /\ UNCHANGED <<client, told>>

\* The launcher's handler.  It has an effect only when the signal
\* interrupts waitpid: the first time the client is killed and waited for,
\* the second time the launcher just goes on.
Handler ==
    /\ signals < MaxSignals /\ lpc # "done"
    /\ signals' = signals + 1
    /\ lpc' = CASE lpc = "waitpid" -> "rewait" [] lpc = "rewait" -> "done"
                [] OTHER -> lpc

\* Mutant: the client is not killed.
TerminateNoKill ==
    /\ Handler
    /\ UNCHANGED <<vars, childVars, told>>

\* SIGTERM for the launcher.
Terminate ==
    /\ Handler
    /\ IF lpc = "waitpid" THEN SignalClient ELSE UNCHANGED <<client, told, swallowed>>
    /\ UNCHANGED <<written, file, stale, created, readVars, appVars, pc, forked>>

\* SIGINT from the terminal, for all processes.
Interrupt ==
    /\ Handler
    /\ SignalClient
    /\ KillAll
    /\ UNCHANGED <<written, file, stale, created, readVars, appVars, forked>>

-----------------------------------------------------------------------------
(* The client and the processes of the application.                        *)

NobodyReads == file # "ordinary" /\ \A p \in Proc : ~Alive(p)

\* The client leaves its loop, and says so, only when it was told to.  It ends
\* by itself when its init fails, and when it writes to a fifo nobody reads.
ClientStep ==
    /\ \/ ClientCreates
       \/ Write /\ (client' = "closed" => told)
       \/ ClientGone /\ client = "open" /\ (written = <<>> \/ NobodyReads)
    /\ UNCHANGED launchVars

\* What it does once it was told: the last line, or SIGPIPE.
ClientStops ==
    /\ told
    /\ \/ Write /\ client' = "closed"
       \/ ClientGone /\ NobodyReads
    /\ UNCHANGED launchVars

AppStep(p) ==
    /\ Thread(p) \/ Fails(p) \/ Spawn(p) \/ AppExit(p)
    /\ UNCHANGED launchVars

\* A signal, or a crash, for one of them.
KilledByOther ==
    /\ signals < MaxSignals
    /\ signals' = signals + 1
    /\ \/ (ClientGone \/ \E p \in Proc : Killed(p)) /\ UNCHANGED forked
       \/ /\ forked /\ forked' = FALSE
          /\ client' = "closed"
          /\ UNCHANGED <<written, file, stale, created, readVars, appVars, pc>>
    /\ UNCHANGED <<lpc, swallowed, told>>

LauncherStep == Refuse \/ ForkApp \/ ForkAppFails \/ ForkClient \/ WaitReturns

ChildStep == Execv \/ ExecvFails

LNext ==
    \/ LauncherStep \/ ChildStep \/ Terminate \/ Interrupt \/ ClientStep \/ KilledByOther
    \/ \E p \in Proc : AppStep(p)

LSpec == LInit /\ [][LNext]_allVars

\* The operating system runs every process; a client that was told to stop
\* does so (module Client), unless a signal from outside ends it first.
LFairSpec ==
    /\ LSpec
    /\ WF_allVars(LauncherStep) /\ WF_allVars(ChildStep) /\ WF_allVars(ClientStops)
    /\ \A p \in Proc : WF_allVars(Thread(p) /\ UNCHANGED launchVars)

-----------------------------------------------------------------------------
(* Properties.                                                             *)

\* The launcher leaves a client behind that does not know it has to stop only
\* if a signal came between the fork and the execv of its child; a second
\* signal that ends its wait is no other case (main, its two calls of waitpid
\* with a status that may not be set).
ClientTold ==
    lpc = "done" =>
        (client = "off" /\ ~forked) \/ client = "closed" \/ told \/ swallowed

\* Once the client has ended, for whatever reason, or a signal has interrupted
\* the wait for it, both come to their end, unless the signal came between fork
\* and execv (main).
LauncherEnds ==
    (client = "closed" \/ (lpc = "rewait" /\ ~swallowed))
        ~> (lpc = "done" /\ client = "closed")
=============================================================================

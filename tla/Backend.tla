------------------------------ MODULE Backend ------------------------------
(***************************************************************************)
(* The way of a command into the application: the fifo, the stdio buffer   *)
(* of every reader, the constructor of the preloaded library (preload.c,   *)
(* backend.c) and the loop of lauSim_main with lauSim_set_state, which     *)
(* runs in a thread of the application.  The launcher has the command run  *)
(* by a shell, and the library is preloaded into the shell and into what   *)
(* the shell starts or turns into: several processes open the one fifo, by *)
(* its name, and the one that created it removes the name again.           *)
(*                                                                         *)
(* Lines are known by their number, the position in which the client wrote *)
(* them.  Sockets are the subject of module SockList.                      *)
(***************************************************************************)
EXTENDS FifoLine, FiniteSets

CONSTANTS
    Proc,      \* the processes the library is preloaded into
    First,     \* the one the launcher started
    AppExits   \* whether applications may end by themselves or be killed

ASSUME ProcAssumption == First \in Proc /\ AppExits \in BOOLEAN

Subsys == {"net", "memory", "power"}

VARIABLES
    file,      \* what FIFO_FILE names: "none", the "conduit" the client has
               \* open or opens, an "other" fifo, created later, or an
               \* "ordinary" file
    stale,     \* the file was there before the run
    created,   \* fifo_created of a process
    pipe,      \* the numbers of the lines in the pipe, or in the ordinary file
    buf,       \* those in the stdio buffer of a process
    pc,        \* the constructor, then the thread of lauSim_main
    cmd,       \* its variable cmd
    netState,  \* lauSim_state.net_state
    reqClose,  \* the destructor asked the thread to end
    taken      \* history: the lines getline returned

readVars == <<pipe, buf, taken>>
appVars  == <<cmd, netState, reqClose>>
vars     == <<lineVars, file, stale, created, readVars, appVars, pc>>

Init ==
    /\ LineInit
    /\ stale \in BOOLEAN /\ file = IF stale THEN "conduit" ELSE "none"
    /\ created = [p \in Proc |-> TRUE]
    /\ pipe = <<>>
    /\ buf = [p \in Proc |-> <<>>]
    /\ pc = [p \in Proc |-> "off"]
    /\ cmd = [p \in Proc |-> "uninitialised"]
    /\ netState = [p \in Proc |-> 0]
    /\ reqClose = [p \in Proc |-> FALSE]
    /\ taken = [p \in Proc |-> <<>>]

Goto(p, s) == pc' = [pc EXCEPT ![p] = s]

\* The application itself runs: its constructor has returned.
Running(p) == pc[p] \in {"select", "getline"} /\ ~reqClose[p]
Alive(p) == pc[p] \notin {"off", "ended", "gone", "failed"}

-----------------------------------------------------------------------------
(* The client, and the launcher that starts it when it sees the file.      *)

ClientStart ==
    /\ file # "none"
    /\ Start
    /\ UNCHANGED <<file, stale, created, readVars, appVars, pc>>

\* The fifo is gone again when the client comes to its fopen for writing: it
\* creates an ordinary file, which nobody reads.
ClientCreates ==
    /\ file = "none"
    /\ Opened
    /\ file' = "ordinary"
    /\ UNCHANGED <<stale, created, readVars, appVars, pc>>

\* Line buffered: every line is one write.  Into a fifo it needs a reader: any
\* process that is alive has opened or inherited it.
Write ==
    /\ WriteSync \/ WriteFault \/ WriteExit
    /\ file = "ordinary" \/ \E p \in Proc : Alive(p)
    /\ pipe' = Append(pipe, Len(written'))
    /\ UNCHANGED <<file, stale, created, buf, taken, appVars, pc>>

\* Without one it is the end of the client, which may also come by itself.
ClientGone ==
    /\ Gone
    /\ UNCHANGED <<file, stale, created, readVars, appVars, pc>>

-----------------------------------------------------------------------------
(* Processes, and the constructor.                                         *)

Launch ==
    /\ pc[First] = "off"
    /\ Goto(First, "forked")
    /\ UNCHANGED <<lineVars, file, stale, created, readVars, appVars>>

\* A running process starts another one, or calls exec and becomes it: then
\* its thread is gone, with no destructor run.
Spawn(p) ==
    /\ pc[p] = "off" /\ p # First
    /\ \E q \in Proc :
          /\ Running(q)
          /\ \/ Goto(p, "forked")
             \/ pc' = [pc EXCEPT ![p] = "forked", ![q] = "gone"]
    /\ UNCHANGED <<lineVars, file, stale, created, readVars, appVars>>

\* lauSim_get_fifo up to its fopen.
Mkfifo(p) ==
    /\ pc[p] = "forked"
    /\ created' = [created EXCEPT ![p] = file = "none"]
    /\ file' = IF file # "none" THEN file
               ELSE IF p = First THEN "conduit" ELSE "other"
    /\ Goto(p, "fopen")
    /\ UNCHANGED <<lineVars, stale, readVars, appVars>>

\* mkfifo fails for another reason than a file that is there.
MkfifoFails(p) ==
    /\ pc[p] = "forked"
    /\ created' = [created EXCEPT ![p] = FALSE]
    /\ Goto(p, "fopen")
    /\ UNCHANGED <<lineVars, file, stale, readVars, appVars>>

\* fopen waits for a writer, as the client's does for a reader: nobody ever
\* writes to another fifo, or when the client is gone.  Only the process that
\* created the fifo waits for a byte.
Fopen(p) ==
    /\ pc[p] = "fopen"
    /\ file = "conduit"
    /\ Opened \/ (client = "open" /\ UNCHANGED lineVars)
    /\ Goto(p, IF created[p] THEN "fgetc" ELSE "select")
    /\ UNCHANGED <<file, stale, created, readVars, appVars>>

\* fopen fails, because the file was removed since mkfifo or for any other
\* reason.  The name is unlinked, whoever created it, and lauSim_init or
\* lauSim_main uses the null stream, which is the end of the process.
FopenFails(p) ==
    /\ pc[p] = "fopen"
    /\ file' = "none"
    /\ Goto(p, "failed")
    /\ UNCHANGED <<lineVars, stale, created, readVars, appVars>>

-----------------------------------------------------------------------------
(* The back end of a process.                                              *)

\* stdio reads all there is in the pipe when its buffer is empty.
Filled(p) == IF buf[p] # <<>> THEN buf[p] ELSE pipe

\* Mutant: one line is kept of what was read.
TakeDropsRest(p) ==
    /\ Filled(p) # <<>>
    /\ buf' = [buf EXCEPT ![p] = <<>>]
    /\ pipe' = IF buf[p] # <<>> THEN pipe ELSE <<>>
    /\ taken' = [taken EXCEPT ![p] = Append(@, Head(Filled(p)))]

Take(p) ==
    /\ Filled(p) # <<>>
    /\ buf' = [buf EXCEPT ![p] = Tail(Filled(p))]
    /\ pipe' = IF buf[p] # <<>> THEN pipe ELSE <<>>
    /\ taken' = [taken EXCEPT ![p] = Append(@, Head(Filled(p)))]

\* lauSim_init of the process that created the fifo waits for a byte, then
\* starts the thread.  The byte is the newline; or the first of the line
\* "exit", the rest of which is no command; or the client is gone.
Fgetc(p) ==
    /\ pc[p] = "fgetc"
    /\ \/ Take(p)
       \/ Filled(p) = <<>> /\ client = "closed" /\ UNCHANGED readVars
    /\ Goto(p, "select")
    /\ UNCHANGED <<lineVars, file, stale, created, appVars>>

\* lauSim_fifo_cleanup
Unlink(p) == file' = IF created[p] THEN "none" ELSE file

\* After the loop: lauSim_fifo_cleanup, lauSim_cleanup, exit.
LeaveLoop(p) ==
    /\ Goto(p, "ended")
    /\ netState' = [netState EXCEPT ![p] = 0]
    /\ Unlink(p)

\* Mutant: the end of the file does not wake the loop.
SelectLineNoEOF(p) ==
    /\ pc[p] = "select"
    /\ ~reqClose[p]
    /\ pipe # <<>>
    /\ Goto(p, "getline")
    /\ UNCHANGED <<lineVars, file, stale, created, readVars, appVars>>

\* select waits for the pipe, not for what is in the buffer; a request to
\* close comes first.
SelectLine(p) ==
    /\ pc[p] = "select"
    /\ ~reqClose[p]
    /\ pipe # <<>> \/ client = "closed"
    /\ Goto(p, "getline")
    /\ UNCHANGED <<lineVars, file, stale, created, readVars, appVars>>

SelectClose(p) ==
    /\ pc[p] = "select"
    /\ reqClose[p]
    /\ LeaveLoop(p)
    /\ UNCHANGED <<lineVars, stale, created, readVars, cmd, reqClose>>

\* At the end of the file getline fails, and the loop goes on.
GetlineEOF(p) ==
    /\ pc[p] = "getline"
    /\ Filled(p) = <<>> /\ client = "closed"
    /\ Goto(p, "select")
    /\ UNCHANGED <<lineVars, file, stale, created, readVars, appVars>>

\* What the variable cmd is when the line l is executed: a component the code
\* does not know leaves it as it was, and it is not initialised.
CmdAfter(p, l) ==
    IF l.comp \in Subsys THEN {l.comp}
    ELSE IF cmd[p] = "uninitialised" THEN Subsys \cup {"none"}
    ELSE {cmd[p]}

\* Mutant: severity 0 is taken for a fault.
SetStateNeverRecovers(p, sys, sev) ==
    /\ netState' = IF sys = "net" THEN [netState EXCEPT ![p] = 1]
                  ELSE netState
    /\ Goto(p, IF sys = "power" THEN "ended" ELSE "select")
    /\ IF sys = "power" THEN Unlink(p) ELSE file' = file

\* Mutant: power ends the process without its cleanup.
SetStateNoCleanup(p, sys, sev) ==
    /\ netState' = IF sys = "net" THEN [netState EXCEPT ![p] = IF sev = 0 THEN 0 ELSE 1]
                  ELSE netState
    /\ Goto(p, IF sys = "power" THEN "ended" ELSE "select")
    /\ file' = file

\* lauSim_set_state: the network has two states, power is the end of the
\* process, memory does nothing yet.
SetState(p, sys, sev) ==
    /\ netState' = IF sys = "net" THEN [netState EXCEPT ![p] = IF sev = 0 THEN 0 ELSE 1]
                  ELSE netState
    /\ Goto(p, IF sys = "power" THEN "ended" ELSE "select")
    /\ IF sys = "power" THEN Unlink(p) ELSE file' = file

\* One line in the body of the loop.
Line(p) == written[Head(Filled(p))]

GetlineEmpty(p) ==
    /\ pc[p] = "getline"
    /\ Take(p)
    /\ Line(p) = SyncLine
    /\ Goto(p, "select")
    /\ UNCHANGED <<lineVars, file, stale, created, appVars>>

GetlineExit(p) ==
    /\ pc[p] = "getline"
    /\ Take(p)
    /\ Line(p) = ExitLine
    /\ LeaveLoop(p)
    /\ UNCHANGED <<lineVars, stale, created, cmd, reqClose>>

GetlineFault(p) ==
    /\ pc[p] = "getline"
    /\ Take(p)
    /\ Line(p) \in Faults
    /\ \E sys \in CmdAfter(p, Line(p)) :
          /\ cmd' = [cmd EXCEPT ![p] = IF sys = "none" THEN @ ELSE sys]
          /\ SetState(p, sys, Line(p).sev)
    /\ UNCHANGED <<lineVars, stale, created, reqClose>>

\* The application ends: lauSim_hook_cleanup asks the thread to end and waits.
AppExit(p) ==
    /\ AppExits
    /\ Running(p)
    /\ reqClose' = [reqClose EXCEPT ![p] = TRUE]
    /\ UNCHANGED <<lineVars, file, stale, created, readVars, cmd, netState, pc>>

\* A signal or a crash ends a process where it is, without its destructor.
Killed(p) ==
    /\ AppExits
    /\ Alive(p)
    /\ Goto(p, "gone")
    /\ UNCHANGED <<lineVars, file, stale, created, readVars, appVars>>

-----------------------------------------------------------------------------
Thread(p) ==
    \/ Mkfifo(p) \/ Fopen(p) \/ Fgetc(p)
    \/ SelectLine(p) \/ SelectClose(p) \/ GetlineEOF(p)
    \/ GetlineEmpty(p) \/ GetlineExit(p) \/ GetlineFault(p)

Fails(p) == MkfifoFails(p) \/ FopenFails(p)

Next ==
    \/ Launch \/ ClientStart \/ ClientCreates \/ Write \/ ClientGone
    \/ \E p \in Proc : \/ Thread(p) \/ Fails(p) \/ Spawn(p)
                       \/ AppExit(p) \/ Killed(p)

Spec == Init /\ [][Next]_vars

\* The operating system runs every process and the launcher; client and
\* applications are free to do nothing, and no call has to fail.
FairSpec ==
    /\ Spec
    /\ WF_vars(Launch) /\ WF_vars(ClientStart)
    /\ \A p \in Proc : WF_vars(Thread(p))

-----------------------------------------------------------------------------
(* Properties.                                                             *)

LineNo == 1..(MaxLines + 2)

Elements(s) == {s[k] : k \in DOMAIN s}
Rising(s) == \A i, j \in DOMAIN s : i < j => s[i] < s[j]
Holds(p) == taken[p] \o buf[p]

\* However many processes share the fifo, every line is in the pipe or with
\* exactly one of them, and each gets its share in the order of writing
\* (client.c's fprintf, select, getline).
SharedOnce ==
    /\ \A p \in Proc : Rising(Holds(p) \o pipe)
    /\ \A p, q \in Proc : p # q => Elements(Holds(p)) \cap Elements(Holds(q)) = {}
    /\ 1..Len(written) = Elements(pipe) \cup UNION {Elements(Holds(p)) : p \in Proc}

\* The k-th line p has taken is about the network: it says so, or it names a
\* component the code does not know and the last one it does know is this one.
TakenComp(p, k) == written[taken[p][k]].comp
IsNet(p, k) ==
    \E j \in 1..k : /\ TakenComp(p, j) = "net"
                   /\ \A m \in (j + 1)..k : TakenComp(p, m) = "other"

\* It took a line with an unknown component before any other fault.
Guessed(p) ==
    \E k \in DOMAIN taken[p] : /\ TakenComp(p, k) = "other"
                               /\ \A j \in 1..k : TakenComp(p, j) \notin Subsys

\* The last line about the network that p has taken is a failure.
SaysDown(p) ==
    \E k \in DOMAIN taken[p] : /\ IsNet(p, k) /\ written[taken[p][k]].sev # 0
                               /\ \A m \in DOMAIN taken[p] : IsNet(p, m) => m <= k

\* While its back end runs, the network of an application is as the last line
\* about the network says that its back end has taken, unless it took one with
\* an unknown component before any other (lauSim_main, lauSim_switch_net).
NetFollows ==
    \A p \in Proc : Alive(p) /\ ~Guessed(p) => (netState[p] = 1 <=> SaysDown(p))

\* Whatever the order in which processes come and go, a file found at the start
\* of the run is removed or replaced only after a process failed to open it,
\* which unlinks a file of anybody, and one created in the run is gone when the
\* first process has come to its end and no other is left or was killed
\* (lauSim_get_fifo; lauSim_fifo_cleanup on each way out).
FifoLife ==
    /\ stale /\ file # "conduit" => \E p \in Proc : pc[p] = "failed"
    /\ ~stale /\ pc[First] = "ended"
             /\ (\A p \in Proc : pc[p] \in {"off", "ended", "failed"})
           => file = "none"

\* No other process reads the fifo.
Alone(p) == \A q \in Proc \ {p} : ~Alive(q)

\* The line "exit" is before p, which is in its loop, or waits for the signal
\* and gets it from another line than that one.
ExitAhead(p) ==
    /\ client = "closed" /\ pc[p] \in {"fgetc", "select", "getline"}
    /\ \E i \in Elements(buf[p] \o pipe) : i > 1 /\ written[i] = ExitLine

\* The destructor of p waits for the thread.  The exception is a thread that
\* waits in getline for a line another process took after select had seen it.
CloseAhead(p) == reqClose[p] /\ (pc[p] = "select" \/ Filled(p) # <<>>)

\* A back end that is the only one ends when the client says so, through all
\* lines before it and those select leaves in the buffer too (client.c: "tell
\* the backend to exit"), and when the destructor says so (preload.h, of
\* req_close_fds: "the fds used to signal to interrupt the thread listening on
\* the fifo").
BackendEnds ==
    \A p \in Proc : Alone(p) /\ (ExitAhead(p) \/ CloseAhead(p)) ~> ~Alive(p)

\* backend_if.h, of the fifo: "used to convey commands from the client [...] to
\* the backend interacting with the application": a line reaches the only
\* back end, as long as it runs.
Conveyed ==
    \A i \in LineNo :
        i <= Len(written)
            ~> \E p \in Proc : i \in Elements(taken[p]) \/ ~Alive(p)
=============================================================================

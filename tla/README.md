# lauSim in TLA+

lauSim simulates faults in a distributed application. A server advances in
*tics*; in every tic a *fault manager* (a plugin) says which nodes or components
fail or recover, and the server passes this on to a *client* on each node, which
tells a *back end* inside the application, a preloaded library that breaks the
application's network or ends it.

This directory holds TLA+ models of the parts of lauSim that keep state and
interact, TLC runs on small instances, and proofs checked by TLAPS. Line numbers
are in `PROJECT.json` (`map`), which ties each definition to its source.

## 1. The system

| Part | State | Operations | Interacts with |
|---|---|---|---|
| server, `srv/main.cpp`, `srv/server.cpp` | tic number, deadline, number and array of nodes, state of each node, `termreq` | `init`, the wait for the nodes, `send_synced_signal`, `do_tic`, `manage_fails`, `skip_to_end_of_tic`, `on_message` / `set_node_state` on the network thread | fault manager (calls), communication plugin (calls and a callback from another thread), the clock, signals |
| fault managers, `plugins/random`, `plugins/replay`, `plugins/transcribe` | nodes with their failure state; position in a transcript and two counters; a stream and a counter | `get_nodes`, `tic`, `get_fail` | called by the server; transcribe calls a nested manager; transcribe and replay share a file, across two runs |
| communication, `plugins/mosquitto` | connection, callback, network thread | `notify_fail`, `notify_extern`, `on_message` | MQTT broker (external); the server's callback |
| client, `client/src/client.c`, `mqtt.c` | `synced`, `req_stop`, connection, the array of received faults and the one being worked on, the fifo | connect, subscribe, report READY, `on_message`, `get_faults`, turn messages into lines, say `exit` | broker, fifo, launcher (signals) |
| back end, `client/src/backend.c` | the fifo with its stdio buffer, `fifo_created` | wait for a byte, read and execute lines, end | fifo, preload library |
| preload library, `client/src/preload.c` | list of sockets, mutex, `net_state`, a pair of descriptors to stop the thread | `socket`, `accept`, `close` in any thread; `lauSim_switch_net` in the thread of the back end; the destructor | kernel, application |
| launcher, `client/launcher/launcher.c` | two child processes, `req_stop` | start application and client, wait, kill | both, the file of the fifo, the terminal |
| configuration, plugin manager, options, loggers, `srv/config.cpp`, `srv/plugin_internal.cpp`, `plugins/filelogger` | the plugins by address, their roles, the loaded libraries, the plugin of each task, the logger in use and its file | `load_config`, `set_config`, `load_library`, `register_plugin`, `add_role`, `set_role`, the hooks of the plugins, `cleanup` | all plugins, main, the network thread (which logs) |

What is hard here: a network thread that runs while the server still initialises;
messages without acknowledgement and statuses that outlive a run; a fifo that
several processes read through stdio buffers, create by name and remove by name;
signals that reach some of the processes and find some of them without a handler;
rounds of receiving that fail half way; a stream that a crash cuts
anywhere; tics that overrun; hooks that run in the order of addresses, while a
thread goes on; application threads, a thread of the library and
reused descriptor numbers around one list. `PROJECT.json` lists the hazards line
by line, with the properties that watch them.

What makes the parts correct:

* main loop: tic number and clock stay together whatever is skipped, the limit of
  tics holds, the two kinds of listeners agree, the program ends;
* fault manager random: who it marks as failed is reported, once;
* start and end of the process: whatever the configuration file says, a server that
  serves has all it needs, its list of roles is true, and everything is closed before
  it is unloaded;
* synchronised start: a barrier over all nodes, released only by the signal, that loses
  nothing sent afterwards and is always passed;
* recording and replay: the second run is given what the first was given;
* client: what was received is passed on, once and in order, and a signal ends it;
* launcher: it ends, and leaves no client behind that does not know it has to stop;
* back end: each command is executed once, in order, and sets the network; the fifo
  belongs to the process that created it;
* sockets: the list holds live sockets only, an outage misses none of them.

## 2. The modules

    TicLoop                         TicLoopProofs
    TicLoop <- RandomRun            RandomRunProofs      MCRandomRun
    PluginManager <- Lifecycle      LifecycleProofs      MCLifecycle
    Transcript <- Transcribe \
               <- Replay      > RecordReplay   RecordReplayProofs   MCRecordReplay
    Reproduction (abstract)  /
    SyncStart                       SyncStartProofs
    FifoLine (abstract) <- Backend                       MCBackend
                           Backend <- Launcher           MCLauncher, LauncherProofs
    FifoLine (abstract) <~ Client                        MCClient, ClientProofs
    SockList                        SockListProofs

`A <- B`: B extends A. `A <~ B`: B implements A.

An operator whose comment starts with "Mutant:" is a plausible bug, a variation of
the definition that follows it. No specification uses it; it shows that a property
notices the bug when it takes the place of that definition (`mutants` in
`PROJECT.json`).

**TicLoop.** The main thread from the loop of `main` on: one action per step between
which the clock or a signal can intervene. `tic`, `timestamp`, `skip`, `failed`,
`fail_msg` are the variables of the code; `tic_num` is the counter `max_tics` is
compared with. The fault manager is an input (`Batches`, any lists of faults: replay
passes on whatever its file says); the results of both
notifications are ignored, as in the code, so each of them may fail. `skip` is
unsigned, hence modulo `UIntMod`. `actorDown`, `externDown`, `lost` and `mixed` are
history: what listeners believe, about which nodes a message was lost, and of which
nodes the last message to the external programs said both, failing and spare. A
message has two lists and no order, so that after such a batch the external programs
may believe another thing than the actors.

**RandomRun** is TicLoop with a configuration that names `random.c` as fault manager
(`random`) or one that returns any batch. With random, `tic` breaks any of the
healthy nodes and reports them in the order of its array, or gives all faults of the
tic up when `realloc` fails, with the nodes staying marked. `healthy` is the code's;
`dropped` is history. The other steps are those of TicLoop, so that what TicLoop
promises is checked with both managers.

**PluginManager, Lifecycle.** The process around the tic loop. `plugins` is the
`std::map` keyed by addresses: a sequence, into which a registration inserts at any
place. A configuration file is any finite sequence of `Lines`, read one per step; the
spelling of keys, paths and numbers is abstracted to what the code tells apart. Then
main gives out the roles, the hooks run one by one, `Server::init` checks and asks the
chain of fault managers for nodes, and after serving the hooks of cleanup run one by
one, next to the network thread that mosquitto's hook started. `held` is who of the
registered plugins has a file open or a thread running. A library that is loaded again
gets a namespace of its own, in which its `init` runs as before: `copies` are the
libraries loaded although their plugin was refused for its name, `orphans` those of
them that have opened a file, which nobody closes. What the code leaves undefined ends the process
(`abort`): a null pointer (mosquitto without an argument, a nested plugin that is no
manager), a recursion without end (transcribe nested in itself), an exception nobody
catches (a tic length that is no number), a base class destroyed twice, a write to a
closed file.

**Transcript, Transcribe, Replay, RecordReplay.** Transcript is the file: a sequence
of lines, each a record of what its text says, with the conversions both plugins
make: an unsigned severity is printed with `%d` and read with `strtoull`; no
component is an empty field; a tic line without a number is read as an
uninitialised variable (`Garbage`). `Cut(l)` is what is left of a line whose end
is missing. Transcribe writes through a buffer: only its end, or a crash, decides
what is on disk. Replay reads one line per step. RecordReplay puts a replaying run
after a recorded one. **Reproduction** is what the two promise, without a file: the
same faults in the same tics, or, when the recording is torn, the same up to some
fault and nothing from there on.

**SyncStart.** The start of a run. The server's main thread goes through connecting,
starting the network thread, setting the callback, the two assignments of
`get_nodes`, the wait, the signal and then sends faults; its network thread handles
READY messages at any time; on every node a back end creates the fifo, a client
opens it, subscribes, reports and turns messages into lines. The broker is
external: it keeps the last status of each node (retain flag) and drops what is
sent to a node without subscriber (quality of service 0). Constants say what an
earlier run left behind, whether signals come and whose client may stop. `Clean` says
that nothing has disturbed the run so far, and most properties are about runs up to
their first disturbance.

**FifoLine** is the client as a back end sees it: off, waiting in `fopen`, open, gone; an
empty line first, then faults, then `exit`, or an end without a word.

**Client** is the client in detail: `fopen`, the handlers with `init` and the report, and
then the loop. A call of `get_faults` is a sequence of rounds of `mosquitto_loop`; a round
takes any number of the messages that have arrived, is followed by another one if it
took any (`rcv`), and may fail, before or after messages, whereupon the connection is
gone for good and what was received stays in the array. The array grows with
`realloc(faults, ++fault_num)`, bytes for entries: an entry past `Room` (one entry, with
an allocator that gives at least 24 bytes) reads as any line, and from then on the
process may crash. Signals end the process before its handlers are set and set `req_stop`
afterwards; a write without a reader ends it too. libmosquitto and the broker are
external. It implements FifoLine (`WritesLines`).

**Backend.** FifoLine, and from its lines to `lauSim_set_state`: the constructor with
`mkfifo`, `fopen` and `fgetc`, pipe, stdio buffer of each reader, the loop of `select` and
`getline`, the uninitialised `cmd`, the request to close, `lauSim_fifo_cleanup`. `Proc` are
the processes the library is preloaded into: the shell of `system()` and what it starts
or, by exec, becomes. `file` is what the name of the fifo refers to: nothing, the fifo
of this run, one created when that was removed, which no client opens, or the ordinary
file a client creates whose `fopen` for writing comes after the removal. `mkfifo` and
`fopen` may fail for any reason; a failed `fopen` unlinks the name, whoever created it,
and ends the process, which uses a null stream (`"failed"`). Lines are known by their
number.

**Launcher.** Backend with the launcher: it starts the application, spins until the file
exists, forks a child for the client, waits for it, interrupted or not, and ends. Until
its `execv` the child has the launcher's handler (`forked`): a signal for it sets a
variable that `execv` forgets (`swallowed`), and the client that it becomes was never
told. SIGTERM goes to
the launcher alone, SIGINT to all processes, and any process may be killed or crash;
`signals` counts them. What a signal does to the client depends on how far it is
(`SignalClient`), as in Client.

**SockList.** `socket`, `accept`, `close` in steps between which other threads run,
against `lauSim_switch_net`. Sections under the mutex are one action, except the
loop over the sockets, which runs next to calls that do not need the mutex. The
kernel is external and gives out the smallest free descriptor, so numbers are used
again at once.

## 3. The runs

`tlc -config X.cfg M` with the names of `PROJECT.json`. Passing runs:

| Run | Instance | Shows |
|---|---|---|
| `tics_run` | tics of 2 units, 3 tics, overruns up to 3 tics, 2 nodes; random, or a manager with 7 batches, one of which names a node twice | `TimeLine`, `OnTime`, `SleepBound`, `LagBound`: no drift, no tic early, no overshoot, no lag beyond the overrun. `ViewsAgree`: a lost notification, and a message that says both of a node, are confined to their node. `FailsOnce`, `HealthKnown`: random fails no node twice, and agrees with the actors on who has failed. `TermEnds`: a signal ends a server without a limit, also one that finds it sleeping |
| `plugins_life` | 5 libraries, 24 kinds of lines, files of any length that load at most one library again, 2 log levels, every order of addresses | `ServeReady`, `RolesWithinCaps`, `RolesFaithful`: what a server that serves has and lists. `LostOnlyAfterClose`: when a log message is lost. `Released`: no registered plugin is unloaded that is still in use |
| `replay_crash` | 2 nodes, up to 4 recorded and 5 replayed tics, 8 bit severities, a crash anywhere or none | `Faithful`: each tic gives what survived of it and at most the fault of the cut line, a failure never read as a recovery. `NodesReproduced`: all nodes or no start. `ReplayCompletes`. `Reproduces`: the refinement of Reproduction |
| `start_run` | 3 nodes, 2 faults, clients at any time, one of which may fail or stop, and a signal for the server | As long as nothing disturbs the run: `Barrier`, `NoSignalLost`, `FaultsInOrder`, `CleanStart` (only the signal starts an application), and `AllStart`: unless a READY comes too early all start. `AtMostOnceInOrder`: what remains after a disturbance |
| `client_loop` | 3 messages of 3 kinds, in any grouping into rounds; signals, a lost connection, no reader, an array with room for 1 | `Conserved`: between callback and fifo nothing is lost, doubled, overtaken or, within the array, changed. `PassedOn`, `StopEnds`, and `WritesLines`: the refinement of FifoLine |
| `node_run` | launcher, client, 2 processes, 2 faults of 2 kinds, 2 signals or crashes, with and without an old fifo | `SharedOnce`: every line is with exactly one process. `NetFollows`: which line the network follows, unknown components included. `FifoLife`: who removes the file. `BackendEnds` for a back end that is alone. `ClientTold`, `LauncherEnds`: how the launcher leaves, with the exception of a signal between fork and `execv` |
| `sockets_calls` | 2 threads, 3 descriptors, 1 outage | `NoStaleFd`, `NoneMissed`, `CallsReturn` |

Runs that find a disagreement between the code and what the repository says of it
(quoted in `findings`):

| Run | Shows |
|---|---|
| `start_lost_ready` | the network thread runs before callback and nodes are set: a READY is dropped and the server waits forever |
| `backend_conveyed` | `select` does not see a line that is already in the stdio buffer: the command waits until the client writes again |
| `sockets_search` | `is_in_list` compares with `num_fds` after it has given the mutex back: its answer can be wrong in both directions |
| `tics_limit` | `TicLimit`, what `options.h` says of `max_tics`: after an overrun the server works on tics past the limit, because main counts calls of `do_tic` |
| `start_paused` | `StartedBySignal`, which holds in clean runs only: with a fifo of an earlier run, when a client ends, or with a fault for the first message, an application starts without the signal that `srv/README.md` says it waits for (TLC shows the first) |

*Bounds.* `MaxBusy` of three tic lengths lets a tic overrun so far that two tics are
skipped, and `UIntMod` 3 is the smallest counter that holds them. Four recorded
tics with batches of 0, 1 and 2 faults make all patterns of empty tics around full
ones, and replay goes one tic beyond the recording. In plugins_life the state does not depend on the
number of lines read, so the length of files is not bounded; `MaxCopies` bounds the libraries
that are loaded more than once, which do not touch each other. Two nodes are enough for one to
be ready and the other not; three are used where it is cheap. Three messages
make a first one, which is the signal, and two that share a call or do not. Two lines
after the first are enough for one to be in the buffer and one in the pipe, for a
failure and a recovery, and for two processes to take one each. Two signals: one
interrupts the launcher's wait, the second the wait after it.
Three descriptors and two threads make every position of a list and a reuse of a
number while an earlier call with it is in progress.

*Deadlock* is checked for RandomRun (with TicLoop), Lifecycle and RecordReplay, which have an explicit last
state. The other models may stop: when the server waits for nodes that do not come,
or when nobody calls.

*Fairness* is weak, and only on what the operating system or the network runs: the
main thread and the clock (TicLoop, RandomRun); the replaying server; the server, the delivery
of messages, client and back end of each node (SyncStart); the client between its
calls (Client); launcher, its child, the thread of each back end, and a client that was told to stop
(Launcher; no call has to fail, and that it stops is `StopEnds` of Client); threads inside a call and the thread of an outage (SockList). Faults, signals,
failures, new calls, commands and the end of applications need not happen. A thread that
waits for the mutex of SockList is never passed over for ever, because only an
outage keeps the mutex over several steps and outages are bounded.

## 4. What is proved

For all values of the constants, from the named assumptions in the modules:

* **TicLoopProofs**: `TypeCorrect`, `TimeCorrect`, `ViewsCorrect`, `LimitCorrect`. The
  inductive invariant `IInv` adds to the type invariant: what is left to be counted
  (`CountInv`); the deadline as a function of tic and skipped tics, and that the
  lag is paid for by `busy` (`TimeInv`), which with the assumption
  that overruns are shorter than 2^32 tics keeps the counter from wrapping; and that the
  actors are ahead of the external programs by the message built so far, where it says
  one thing only of a node (`AheadInv`). Nothing is assumed of the batches.
  `LimitCorrect` is the claim that `tics_limit` refutes, for runs without a tic length:
  there the tic number is the number of calls, and `max_tics` is what `options.h` says.
  A tic length of 0, and with it the exact limit, is covered by the proofs only.
* **RandomRunProofs**, for a server with random: `HealthCorrect`, `FailsOnceCorrect`. `RInv`: the faults at hand are
  failures of different nodes, and nobody has heard of a healthy node or of one whose
  fault is still to be sent.
* **LifecycleProofs**: `RolesCorrect`, `RoleListCorrect`, `ReadyCorrect`, `LogCorrect`,
  `ReleaseCorrect`, for
  every set of lines. `LInv` says what the configuration points to (`ConfInv`), what the
  hooks called so far have done (`PostInv`) and released (`HeldInv`), and that the file
  of the logger is open until its hook has run (`FileInv`), from which the lost messages
  follow: who logs after that comes later in the order of addresses. `RoleInv` is about
  the roles: none before `main` gives them out, then those of the configuration, except
  for the manager's, which transcribe's hook passes on to the manager behind it.
* **RecordReplayProofs**: `ReplayCorrect`, `NodesCorrect` and `Refinement`, with crashes
  and without. The recording keeps a map from tics to line numbers (`start`) under which
  each line of the file is known; a crash leaves the first `kept` lines and perhaps a part
  of the next (`DiskInv`). The replay keeps its position in the file, its two counters and
  the faults collected so far in step with that map (`ReplayInv`), until it is past
  everything that survived (`Over`). What is left is the line that was cut: a part of
  a fault is no fault, or one of the same node and component whose severity is 0 only if
  the written one was (a prefix of digits is never 0, `PrefixFacts`); a part of a tic is
  never read as a fault, and whatever number is read there, nothing follows it; a part of a
  node's line has its name or is refused; a part of the number of nodes is that
  number or not 0 (`CutOfFault`, `CutOfTic`, `CutOfNode`, `CutOfCount`). For the refinement,
  at most one tic is torn and nothing is given after it (`TornTic`, `AfterTornTic`). `SevRoundTrip` is the lemma about `%d` and
  `strtoull`. `GivesAllowed` is the step of the refinement in which a tic is given
  its faults; all other steps stutter or are those of the recording.
* **SyncStartProofs**. For every run: `OrderCorrect`. `FlowInv` puts what
  was executed, the fifo and the client's inbox end to end: along this way the faults
  rise, whatever was left by an earlier run and whoever stops. For every run up to its first
  disturbance (`Clean`: the option
  `sync`, nothing left by an earlier run, no signal and no client that stopped so far): `BarrierCorrect`,
  `SignalCorrect`, `StartedCorrect`, `FaultsCorrect`. A disturbance is never undone (`CleanBefore`),
  so that a clean state has a clean past. `StartInv` follows the news: whoever
  is known as ready, at the server, on the way or at the broker, is in its loop and
  subscribed; signal, `synced`, a line in the fifo or a running application exist only when
  all are. `CleanInv` adds that the signal is the first thing on every node's way and
  that every fault sent to the node is behind it. Each part of `Clean` excludes a
  start without the signal (run `start_paused`) or a signal without a node (section 5).
* **SockListProofs**: `ListCorrect`, `OutageCorrect`. `SockInv` is an ownership argument:
  each descriptor that is not free belongs to the application or to exactly one call
  in progress, and the list holds only descriptors of the application or of calls
  that have not yet removed them. `WithoutOne` is about `memmove`.
* **ClientProofs**: `ConservedCorrect`, `Refinement`. `IInv` says where main
  is by what it has done (`MainInv`: outside of its loop over the array every entry
  is written, and `synced` is the first line), how many messages are written, in main's
  array, in the callback's array and in the library, in this order and with nothing
  between them (`InOrder`), and that each line written is the line of its message
  (`SaysTheSame`). A step shifts the borders between these parts and leaves the messages
  where they are. `Refinement` is of FifoLine, which Backend and Launcher extend, so that
  what they show holds for the client in detail.

* **LauncherProofs**, about a node as a whole (`LSpec`: launcher, client, shell and
  application): `SharedCorrect`, `NetCorrect`, `FifoCorrect`, `ToldCorrect`. `ReadInv` says
  which process owns the fifo (`OwnerInv`: one that was not there before has a creator
  that has not come to its end, one that was there has none until a process fails to open
  it, and an ordinary file is there only after the first process failed); that the first process is alone until it has its byte,
  so that no one has a line before its loop (`StartInv`); that `synced`, or `exit`, is the
  first line and a process that is alive took faults only after it (`LineInv`); and what
  `cmd` holds, which the number of the next line is applied to (`NetInv`). `ToldInv`
  relates the place of the launcher to its child and the client, and `OpenInv` says that
  until the client has opened the fifo the first process is alone and, when the file is
  gone, has failed.

Every invariant and every refinement of the passing runs is thus stated by a theorem. Only
model-checked: liveness (`TermEnds`, `ReplayCompletes`, `AllStart`, `PassedOn`,
`StopEnds`, `BackendEnds`, `LauncherEnds`, `CallsReturn`), which is out of the prover's
reach, and the violations. Type correctness is part of each inductive invariant.

## 5. Left out

* The memory layout of the list of sockets: `realloc` in `preload.c` is given a number of
  entries instead of bytes, which is too little from the seventh socket on (SockList has 3).
* `exit` called by the thread of the back end while the application exits: Backend ends
  with `lauSim_main`. In a C library whose `exit` lets one thread in only, the thread would
  wait for the application, which waits for the thread.
* Failures of `fork` and of `pthread_create`. When the second `fork` of the launcher fails,
  `waitpid(-1)` waits for the application instead, and a signal then makes `kill(-1)` signal
  every process the user may signal: the processes outside are not part of the model. A line cut in two by a signal while the pipe
  is full; the launcher's first child, which only waits in `system()`: the final `kill`
  reaches it and not the application.
* Statuses other than READY: no client of the repository sends one.
* The text of options other than the log level.
* A stream of messages without end: `MaxMsgs` bounds it, and with it the calls of
  `get_faults` that never return.
* Probabilities of `random.c`, contents of log messages, the size of the stdio buffer.
* The privileged back end (the launcher does not start it; its `main` calls `lauSim_main`
  without opening the fifo), `com/laik` and `src/` (not built), the echo plugin (no state),
  generated code.

Three more disagreements with what the repository says have no run of their own:

* `client/include/interface.h:57` says of `get_faults` "returns a list of faults, waiting for
  at most timeout ms". `mqtt.c:127` repeats `mosquitto_loop` with the whole timeout as long as
  a round has received something: n rounds with messages make a call wait for up to n + 1
  timeouts. Client has the rounds and no clock.
* `include/lausim/plugin.h:83` says "cleanup function called before unloading the plugin",
  `srv/plugin_internal.h:112` "calling the cleanup function of all plugins and unloading all
  libraries". A library that is named twice is loaded twice, in a new namespace
  (`srv/library.cpp:31`); its `init` opens its file again and ignores that the registration is
  refused, and the second file is never closed (`orphans` in Lifecycle; `Released` is about
  the registered plugins).
* `client/src/preload.h:43` says of `req_close_fds` "the fds used to signal to interrupt the
  thread listening on the fifo". They are looked at in `select` only: of two processes that
  `select` has shown a line, one takes it, and the other waits in `getline`
  (`backend.c:106`), where its destructor does not reach it (`BackendEnds` is about a process
  that is alone).

Seen while modelling: debug messages of mosquitto are written to the file of the logger after it
was closed when the logger has the lower address (`LostOnlyAfterClose` says exactly
when); a key that is not known is accepted if its value names a plugin (`SetConfig`); a
READY between the two
assignments of `get_nodes` makes `set_node_state` read an array that is not there
(`NetNoArray`); SIGTERM during the wait makes the server send the signal to nodes
that are not ready (`SrvWaitInterrupted`); a status the broker kept makes the signal
precede the client; with a shell and an
application the line `exit` ends one of the two; as the first line of all it ends none;
an application that another process's `exit` or end leaves without the file never starts
its thread (`FopenFails`, or `Fopen` of an `other` file); a process that a signal ends, or
that calls exec, leaves its fifo behind; a process that cannot open the fifo removes that
of another one; a signal for the launcher outside of its waits is lost, and one between
fork and `execv` of its child leaves both running; a client that lost its connection goes on in a loop without waiting and keeps the
faults it had; with `LD_PRELOAD` set the launcher's child writes to a string constant, and
the launcher waits for a fifo nobody creates (`ForkAppFails`); power with severity 0 ends the
application; the array of sockets is used after it was freed (`AddSockCrash`);
sockets opened during an outage work.

## 6. Plan

1. Done: TicLoop with the fault manager random, the life of the process and its plugins,
   recording and replay with its abstract specification, SyncStart, Client, Backend,
   Launcher and SockList, with the proofs above.
2. Done: all invariants and both refinements proved (section 4).
3. Done: what the repository says of the code and the code does not do, as runs of their own
   (section 3).
4. Left: the hazards without a property in `PROJECT.json`, which need a model of C memory or
   of the C library's `exit`, and liveness, which stays with TLC.

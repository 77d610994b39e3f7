------------------------------ MODULE Lifecycle ------------------------------
(***************************************************************************)
(* The life of the server process around its tic loop: main of             *)
(* srv/main.cpp reads the configuration (srv/config.cpp), gives the        *)
(* plugins their roles, initialises the server (Server::init), serves and  *)
(* cleans up.  The plugins take part with their init, post_init and        *)
(* cleanup hooks.  The network thread of mosquitto runs next to it.        *)
(***************************************************************************)
EXTENDS PluginManager

CONSTANTS
    Lines,      \* the lines a configuration file may have
    LevelArgs   \* what the option -l may be given

Id == {"com", "actor", "notify", "logger", "manager", "tic", "unknown"}

\* A line is empty or a comment, the name of a section, a library with the
\* first of its arguments, or an assignment; "none" is an argument or a
\* value that is missing, "bad" one that names nothing.
Value == Plugin \cup {"none", "bad", "number"}
Line ==
    [kind : {"skip", "libs", "config"}]
        \cup [kind : {"lib"}, lib : Plugin, arg : Value]
        \cup [kind : {"set"}, id : Id, value : Value]

ASSUME LinesAssumption == Lines \subseteq Line
ASSUME LevelAssumption == LevelArgs \subseteq Nat

VARIABLES
    pc,          \* where main is
    section,     \* the state of load_config
    conf,        \* the plugins Config points to
    next,        \* the loops over all plugins: the next one to call
    fault_name,  \* transcribe: the name of the nested manager
    nested,      \* transcribe: the nested manager
    logger_used, \* plugin_manager::logger_used
    lvl,         \* the minimal level of what is logged
    held,        \* the plugins that hold a file or run a thread
    orphans,     \* the plugins a copy of which, not registered, holds a file
    callback,    \* mosquitto: the server's callback is set
    lost         \* history: who logged to the file after it was closed

confVars == <<section, conf, fault_name>>
logVars  == <<logger_used, lvl, lost>>
heldVars == <<held, orphans>>
vars == <<pmVars, pc, confVars, next, nested, logVars, heldVars, callback>>

Debug == 1
Info == 2
Warning == 3
Error == 4

\* log_level_from_int: 0 to 5 are the levels None to Fatal.
log_level_from_int(n) == IF n \in 0..5 THEN n ELSE Warning

Init ==
    /\ PmInit
    /\ pc = "open" /\ section = "none" /\ next = 1
    /\ conf = [com_actor |-> NULL, com_notify |-> NULL, logger |-> NULL,
               fault_manager |-> NULL]
    /\ fault_name = NULL /\ nested = NULL
    /\ logger_used = "stdout"
    /\ lvl \in {log_level_from_int(n) : n \in LevelArgs}
    /\ held = {} /\ orphans = {} /\ callback = FALSE /\ lost = {}

\* Whoever logs writes to the file unless the level is too low.
Log(who, levels) ==
    lost' = IF /\ logger_used = "filelogger"
               /\ \E l \in levels : l >= lvl
               /\ "filelogger" \notin held
            THEN lost \cup {who} ELSE lost

-----------------------------------------------------------------------------
(* load_config: a line per step.                                           *)

OpenFile ==
    /\ pc = "open"
    /\ pc' \in {"read", "failed"}
    /\ UNCHANGED <<pmVars, confVars, next, nested, logVars, heldVars, callback>>

\* A section line, an empty line or a comment.
ReadOther(line) ==
    /\ line.kind \in {"skip", "libs", "config"}
    /\ section' = IF line.kind = "skip" THEN section ELSE line.kind
    /\ UNCHANGED <<pmVars, pc, conf, fault_name, heldVars>>

\* The plugins whose init opens a file.
OpensFile(p) == p \in {"filelogger", "replay", "transcribe"}

\* The plugins whose init asks for an argument (filelogger's only means to),
\* and those that do not survive that there is none: mosquitto's logs through
\* a null pointer, filelogger's takes what is there for the name of a file.
NeedsArg(p) == p \notin {"echo", "filelogger"}
UsesMissingArg(p) == p \in {"mosquitto", "filelogger"}

\* A line of the section of libraries.
ReadLib(line) ==
    /\ line.kind = "lib"
    /\ section = "libs"
    /\ LET p == line.lib IN
       \/ LoadFails(p) /\ pc' = "failed" /\ UNCHANGED <<heldVars, fault_name>>
       \/ /\ line.arg = "none" /\ UsesMissingArg(p)
          /\ LoadFails(p) /\ pc' = "abort" /\ UNCHANGED <<heldVars, fault_name>>
       \/ /\ line.arg # "none" \/ ~NeedsArg(p)
          /\ LoadNew(p)
          /\ held' = IF OpensFile(p) THEN held \cup {p} ELSE held
          /\ fault_name' = IF p = "transcribe" THEN line.arg ELSE fault_name
          /\ UNCHANGED <<pc, orphans>>
       \/ /\ line.arg # "none" \/ ~NeedsArg(p)
          /\ LoadAgain(p)
          /\ orphans' = IF OpensFile(p) THEN orphans \cup {p} ELSE orphans
          /\ UNCHANGED <<pc, held, fault_name>>
    /\ UNCHANGED <<section, conf>>

\* A line in a section it does not belong to: an assignment is no library,
\* and a library has no '=' behind its name.
ReadMisplaced(line) ==
    /\ \/ line.kind = "lib" /\ section # "libs"
       \/ line.kind = "set" /\ section = "libs"
    /\ pc' = "failed"
    /\ UNCHANGED <<pmVars, confVars, heldVars>>

\* The types an assignment asks of the plugin and the members it sets.
Wanted(id) ==
    CASE id = "com"     -> {"actor", "extern"}
      [] id = "actor"   -> {"actor"}
      [] id = "notify"  -> {"extern"}
      [] id = "logger"  -> {"logger"}
      [] id = "manager" -> {"manager"}
      [] id = "unknown" -> {}

Member(r) ==
    CASE r = "actor"   -> "com_actor"
      [] r = "extern"  -> "com_notify"
      [] r = "logger"  -> "logger"
      [] r = "manager" -> "fault_manager"

\* set_config for a plugin; a key that is not known is accepted if its value
\* is a plugin.  The types of all plugins that have one of the two types of
\* "com" have both.
SetConfig(line) ==
    /\ line.kind = "set"
    /\ section # "libs"
    /\ line.id # "tic"
    /\ IF line.value \notin Registered \/ ~(Wanted(line.id) \subseteq Caps(line.value))
       THEN pc' = "failed" /\ conf' = conf
       ELSE /\ pc' = pc
            /\ conf' = [m \in DOMAIN conf |->
                          IF \E r \in Wanted(line.id) : Member(r) = m
                          THEN line.value ELSE conf[m]]
    /\ UNCHANGED <<pmVars, section, fault_name, heldVars>>

\* set_config for the tic length: stoul throws if it is no number.
SetTic(line) ==
    /\ line.kind = "set"
    /\ section # "libs"
    /\ line.id = "tic"
    /\ pc' = CASE line.value = "number" -> pc
               [] line.value = "none"   -> "failed"
               [] OTHER                 -> "abort"
    /\ UNCHANGED <<pmVars, confVars, heldVars>>

ReadLine ==
    /\ pc = "read"
    /\ \E line \in Lines :
          \/ ReadOther(line) \/ ReadLib(line) \/ ReadMisplaced(line)
          \/ SetConfig(line) \/ SetTic(line)
    /\ UNCHANGED <<next, nested, logVars, callback>>

\* The file ends; main switches to the configured logger and adds the roles.
EndOfFile ==
    /\ pc = "read"
    /\ logger_used' = IF conf.logger # NULL THEN "filelogger" ELSE "stdout"
    /\ roles' = AddRole(AddRole(AddRole(AddRole(roles,
                    conf.com_actor, "actor"), conf.com_notify, "extern"),
                    conf.logger, "logger"), conf.fault_manager, "manager")
    /\ pc' = "post"
    /\ UNCHANGED <<plugins, libraries, copies, confVars, next, nested, lvl, lost,
                   heldVars, callback>>

-----------------------------------------------------------------------------
(* Server::init.                                                           *)

\* transcribe's hook: a nested plugin that is no fault manager has no
\* function that returns one.
PostTranscribe ==
    IF fault_name \notin Registered
    THEN pc' = "failed" /\ UNCHANGED <<roles, nested>>
    ELSE /\ roles' = SetRole(AddRole(roles, fault_name, "manager"),
                             "transcribe", "other")
         /\ nested' = fault_name
         /\ pc' = IF "manager" \in Caps(fault_name) THEN pc ELSE "abort"

\* mosquitto's post_init starts the network thread, its cleanup stops it and
\* then logs.
RunsThread(p) == p = "mosquitto"

\* The hook of the next plugin.
PostInit ==
    /\ pc = "post"
    /\ next <= Len(plugins)
    /\ LET p == plugins[next] IN
          /\ IF p = "transcribe" THEN PostTranscribe
             ELSE UNCHANGED <<pc, roles, nested>>
          /\ held' = IF RunsThread(p) THEN held \cup {p} ELSE held
    /\ next' = next + 1
    /\ UNCHANGED <<plugins, libraries, copies, confVars, logVars, orphans, callback>>

\* Mutant: com_notify is not required.
RequiredNoNotify ==
    conf.com_actor # NULL /\ conf.fault_manager # NULL

\* The test for an incomplete configuration.
Required ==
    conf.com_actor # NULL /\ conf.com_notify # NULL /\ conf.fault_manager # NULL

\* The rest of Server::init up to get_nodes.
CheckRequired ==
    /\ pc = "post"
    /\ next = Len(plugins) + 1
    /\ pc' = IF Required THEN "nodes" ELSE "failed"
    /\ callback' = (Required /\ conf.com_actor = "mosquitto")
    /\ UNCHANGED <<pmVars, confVars, next, nested, logVars, heldVars>>

\* The plugin that answers when the server asks m.
Decider(m) == IF m = "transcribe" THEN nested ELSE m

\* get_nodes: a transcribe nested in itself calls itself without end; the
\* managers may fail.
GetNodes ==
    /\ pc = "nodes"
    /\ IF Decider(conf.fault_manager) = "transcribe" THEN pc' = "abort"
       ELSE pc' \in {"serve", "failed"}
    /\ UNCHANGED <<pmVars, confVars, next, nested, logVars, heldVars, callback>>

-----------------------------------------------------------------------------
(* The end of main.                                                        *)

\* The tic loop is left and "cleaning up" logged.
EndServe ==
    /\ pc = "serve"
    /\ pc' = "cleanup"
    /\ next' = 1
    /\ Log("main", {Info})
    /\ UNCHANGED <<pmVars, confVars, nested, logger_used, lvl, heldVars, callback>>

\* The hook of the next plugin closes its file or stops its thread.  The
\* destructor of mosquitto's class destroys its base class, which is then
\* destroyed once more: the process may end there.
CleanupPlugin ==
    /\ pc = "cleanup"
    /\ next <= Len(plugins)
    /\ next' = next + 1
    /\ LET p == plugins[next] IN
          /\ held' = IF HasCleanup(p) THEN held \ {p} ELSE held
          /\ IF RunsThread(p) THEN Log(p, {Debug}) ELSE lost' = lost
          /\ pc' \in IF RunsThread(p) THEN {pc, "abort"} ELSE {pc}
    /\ UNCHANGED <<pmVars, confVars, nested, logger_used, lvl, orphans, callback>>

\* Mutant: the loop over the plugins stops before the last one.
EndOfMainEarly ==
    /\ pc = "cleanup"
    /\ next >= Len(plugins)
    /\ UnloadAll
    /\ pc' = "end"
    /\ UNCHANGED <<confVars, next, nested, logVars, heldVars, callback>>

\* Mutant: the message is logged after the hooks.
EndOfMainLogs ==
    /\ pc = "cleanup"
    /\ next = Len(plugins) + 1
    /\ Log("main", {Info})
    /\ UnloadAll
    /\ pc' = "end"
    /\ UNCHANGED <<confVars, next, nested, logger_used, lvl, heldVars, callback>>

\* The libraries are closed, Config and Server deleted, and main returns.
EndOfMain ==
    /\ pc = "cleanup"
    /\ next = Len(plugins) + 1
    /\ UnloadAll
    /\ pc' = "end"
    /\ UNCHANGED <<confVars, next, nested, logVars, heldVars, callback>>

Main == \/ OpenFile \/ ReadLine \/ EndOfFile \/ PostInit \/ CheckRequired
        \/ GetNodes \/ EndServe \/ CleanupPlugin \/ EndOfMain

-----------------------------------------------------------------------------
Running == pc \notin {"end", "failed", "abort"}

\* The network thread has a message: on_message of the plugin logs that, and
\* the one of the server what it says.
NetMessage ==
    /\ Running
    /\ "mosquitto" \in held
    /\ \E l \in (IF callback THEN {Info, Warning, Error} ELSE {Debug}) :
          Log("network", {Debug, l})
    /\ UNCHANGED <<pmVars, pc, confVars, next, nested, logger_used, lvl,
                   heldVars, callback>>

\* Writing to a file after it was closed may end the process.
UseAfterClose ==
    /\ Running
    /\ lost # {}
    /\ pc' = "abort"
    /\ UNCHANGED <<pmVars, confVars, next, nested, logVars, heldVars, callback>>

Stopped == ~Running /\ UNCHANGED vars

Next == Main \/ NetMessage \/ UseAfterClose \/ Stopped

Spec == Init /\ [][Next]_vars

-----------------------------------------------------------------------------
(* Properties.                                                             *)

\* The typing that the proofs of LifecycleProofs rest on.
TypeOK ==
    /\ pc \in {"open", "read", "post", "nodes", "serve", "cleanup", "end",
               "failed", "abort"}
    /\ section \in {"none", "libs", "config"}
    /\ plugins \in Seq(Plugin) /\ libraries \subseteq Plugin
    /\ roles \in [Plugin -> SUBSET Role]
    /\ conf \in [com_actor : Plugin \cup {NULL}, com_notify : Plugin \cup {NULL},
                logger : Plugin \cup {NULL}, fault_manager : Plugin \cup {NULL}]
    /\ next \in 1..(Len(plugins) + 1)
    /\ fault_name \in Value \cup {NULL}
    /\ nested \in Plugin \cup {NULL}
    /\ logger_used \in {"stdout", "filelogger"} /\ lvl \in 0..5
    /\ held \subseteq Plugin /\ callback \in BOOLEAN
    /\ lost \subseteq {"main", "mosquitto", "network"}

\* plugin_internal.h of all_plugins: "This role is always a subset of the
\* capabilities the plugin has" - whatever the configuration and transcribe's
\* hook ask for (add_role and set_role, whose results nobody looks at).
RolesWithinCaps == \A p \in Plugin : roles[p] \subseteq Caps(p)

\* The list of roles that main prints is true: a plugin is listed as
\* communication or logger if and only if the server uses it as such, and as
\* fault manager is listed the one that decides on the faults, never the
\* transcribe in front of it, in whatever order the hooks were called.
RolesFaithful ==
    pc = "serve" =>
        /\ \A p \in Registered :
              /\ "actor" \in roles[p] <=> p = conf.com_actor
              /\ "extern" \in roles[p] <=> p = conf.com_notify
              /\ "logger" \in roles[p] <=> p = conf.logger
        /\ "manager" \in roles[Decider(conf.fault_manager)]
        /\ "manager" \notin roles["transcribe"]

\* A server that serves has all it needs, whatever the configuration file
\* says: plugins of the right type whose libraries are loaded, a chain of
\* fault managers that ends in one that makes faults, and a network thread
\* that hands messages to the server if mosquitto talks to the actors
\* (load_config, set_config, the hooks and Server::init together).
ServeReady ==
    pc = "serve" =>
        /\ Registered \subseteq libraries
        /\ {conf.com_actor, conf.com_notify, conf.fault_manager} \subseteq Registered
        /\ "actor" \in Caps(conf.com_actor) /\ "extern" \in Caps(conf.com_notify)
        /\ Decider(conf.fault_manager) \in Registered \cap {"random", "replay"}
        /\ conf.com_actor = "mosquitto" => "mosquitto" \in held /\ callback

\* A message that is high enough is lost only between the clean-up of the
\* file logger and that of a mosquitto with a higher address, and only by
\* mosquitto (plugin_manager::cleanup against logging_fun of filelogger.c).
LostOnlyAfterClose ==
    lost # {} =>
        /\ lost \subseteq {"mosquitto", "network"}
        /\ pc \in {"cleanup", "end", "abort"}
        /\ \E j, k \in 1..Len(plugins) :
              j < k /\ plugins[j] = "filelogger" /\ plugins[k] = "mosquitto"

\* A registered plugin that holds a file or runs a thread stays loaded:
\* nothing is unloaded under a thread, and what the plugins of the manager
\* opened is closed before the end (plugin_manager::cleanup, load_library).
\* It says nothing of the orphans, which no hook of cleanup is called for.
Released == held \subseteq libraries
=============================================================================

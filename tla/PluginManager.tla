---------------------------- MODULE PluginManager ----------------------------
(***************************************************************************)
(* srv/plugin_internal.cpp and srv/library.cpp: the plugins that have been *)
(* registered, in the order of their addresses (the order of a std::map    *)
(* whose keys are pointers), the roles each is used in, and the libraries  *)
(* that are loaded.  A library of this repository holds one plugin, whose  *)
(* name stands for both.                                                   *)
(***************************************************************************)
EXTENDS Naturals, Sequences, FiniteSets

CONSTANTS
    NULL,       \* nullptr
    MaxCopies   \* bound: the libraries that are loaded more than once

Plugin == {"echo", "mosquitto", "random", "replay", "transcribe", "filelogger"}

ASSUME NullAssumption == NULL \notin Plugin

Role == {"actor", "extern", "manager", "logger", "other"}

\* pl_type of each plugin.
Caps(p) ==
    CASE p \in {"echo", "mosquitto"} -> {"actor", "extern"}
      [] p \in {"random", "replay"}  -> {"manager"}
      [] p = "transcribe"            -> {"manager", "other"}
      [] p = "filelogger"            -> {"logger"}

\* The plugins with a cleanup hook.
HasCleanup(p) == p # "echo"

VARIABLES
    plugins,    \* the keys of plugin_manager::plugins, by address
    roles,      \* the values of plugin_manager::plugins
    libraries,  \* plugin_manager::libraries, by the plugin each has registered
    copies      \* those of them whose plugin was refused, by its name

pmVars == <<plugins, roles, libraries, copies>>

PmInit ==
    /\ plugins = <<>>
    /\ roles = [p \in Plugin |-> {}]
    /\ libraries = {} /\ copies = {}

\* What get_by_name finds.
Registered == {plugins[k] : k \in 1..Len(plugins)}

\* register_plugin: where the plugin lands in the map depends on where its
\* library was mapped.
Register(p) ==
    /\ p \notin Registered
    /\ \E k \in 1..(Len(plugins) + 1) :
          plugins' = [j \in 1..(Len(plugins) + 1) |->
                        IF j < k THEN plugins[j]
                        ELSE IF j = k THEN p ELSE plugins[j - 1]]
    /\ roles' = [roles EXCEPT ![p] = {}]

\* Mutant: the role is not compared with the type of the plugin.
AddRoleUnchecked(rs, p, r) ==
    IF p # NULL THEN [rs EXCEPT ![p] = @ \cup {r}] ELSE rs

\* add_role on the roles rs; a role the plugin has no type for is refused.
AddRole(rs, p, r) ==
    IF p # NULL /\ r \in Caps(p) THEN [rs EXCEPT ![p] = @ \cup {r}] ELSE rs

\* Mutant: set_role adds to the roles.
SetRoleAdds(rs, p, r) ==
    IF p # NULL /\ r \in Caps(p) THEN [rs EXCEPT ![p] = @ \cup {r}] ELSE rs

\* set_role on the roles rs.
SetRole(rs, p, r) ==
    IF p # NULL /\ r \in Caps(p) THEN [rs EXCEPT ![p] = {r}] ELSE rs

-----------------------------------------------------------------------------
(* load_library.                                                           *)

\* The library is opened, its init runs and registers its plugin.
LoadNew(p) ==
    /\ Register(p)
    /\ libraries' = libraries \cup {p}
    /\ UNCHANGED copies

\* A library that is loaded again gets a namespace and variables of its own,
\* and its init runs as the first one did.  Its plugin is refused for its
\* name; only mosquitto's init looks at that and fails.
LoadAgain(p) ==
    /\ p \in Registered
    /\ p # "mosquitto"
    /\ copies' = copies \cup {p}
    /\ Cardinality(copies') <= MaxCopies
    /\ UNCHANGED <<plugins, roles, libraries>>

\* A library that is not found, has no init or whose init fails is closed
\* again before it has registered anything.
LoadFails(p) == UNCHANGED pmVars

\* The end of cleanup, after the hooks of the plugins that are registered.
UnloadAll == libraries' = {} /\ copies' = {} /\ UNCHANGED <<plugins, roles>>
=============================================================================

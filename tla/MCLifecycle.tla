---------------------------- MODULE MCLifecycle ----------------------------
(* Lifecycle with the libraries of the examples of the repository.         *)
EXTENDS Lifecycle

Lib(p, a) == [kind |-> "lib", lib |-> p, arg |-> a]
Set(i, v) == [kind |-> "set", id |-> i, value |-> v]

\* Libraries with and without an argument; transcribe with a manager, with
\* itself, with a plugin that is no manager and with one that is not there.
MCLines ==
    {[kind |-> k] : k \in {"skip", "libs", "config"}}
    \cup {Lib("echo", "none"), Lib("mosquitto", "bad"), Lib("mosquitto", "none"),
          Lib("random", "number"), Lib("filelogger", "bad"),
          Lib("filelogger", "none")}
    \cup {Lib("transcribe", a) : a \in {"random", "transcribe", "echo", "bad"}}
    \cup {Set("com", p) : p \in {"mosquitto", "random"}}
    \cup {Set("actor", "mosquitto"), Set("notify", "echo"),
          Set("logger", "filelogger"), Set("logger", "echo"),
          Set("unknown", "echo"),
          Set("manager", "random"), Set("manager", "transcribe"),
          Set("manager", "none"), Set("tic", "number"), Set("tic", "bad"),
          Set("tic", "none")}

\* A configuration that serves, with a file that may be opened twice.
TwiceLines ==
    {[kind |-> k] : k \in {"libs", "config"}}
    \cup {Lib("mosquitto", "bad"), Lib("random", "number"), Lib("filelogger", "bad"),
          Set("com", "mosquitto"), Set("manager", "random")}
=============================================================================

------------------------------- MODULE Client -------------------------------
(***************************************************************************)
(* The client of a node: main of client/src/client.c and the MQTT side of  *)
(* it, client/src/mqtt.c.  It opens the fifo, connects, reports that it is *)
(* ready, and then passes on to the fifo what get_faults returns, until a  *)
(* signal stops it.                                                        *)
(*                                                                         *)
(* get_faults calls mosquitto_loop until a round brings no message; every  *)
(* message is stored by the callback on_message, in an array that grows    *)
(* with realloc.  The number of entries is given for the number of bytes:  *)
(* an entry past Room lies outside of the array, so that its text may be   *)
(* anything when it is read, and the process may end by it at any time.    *)
(*                                                                         *)
(* A message has a component, "" when its topic ends with the node, and a  *)
(* severity, in hexadecimal.  The broker and libmosquitto are external.    *)
(***************************************************************************)
EXTENDS Integers, Sequences

CONSTANTS
    Message,   \* the messages for this node
    UMod,      \* 2^32: severities are of type unsigned
    Room,      \* how many entries fit in what realloc returns for any number
    MaxMsgs    \* bound: the number of messages

Component == {"net", "memory", "power", "other"}

ASSUME ClientAssumption ==
    /\ UMod \in Nat \ {0}
    /\ Message \subseteq [comp : Component \cup {""}, sev : 0..(UMod - 1)]
    /\ {Room, MaxMsgs} \subseteq Nat

VARIABLES
    pc,         \* "off", "fopen", "setup", "loop", "round" (in get_faults),
                \* "write", "done", and "dead" when it ends without a word
    connected,  \* libmosquitto has its connection; nobody renews it
    arrived,    \* history: the messages that came over the connection
    rcvd,       \* history: for how many of them on_message was called
    faults,     \* the array on_message fills
    flt,        \* the array get_faults returned
    i,          \* how many of its entries main is through with
    synced,
    req_stop,
    overrun,    \* history: an entry was stored past the array
    written,    \* the lines in the fifo
    spoiled     \* history: the lines made from entries past the array

netVars  == <<connected, arrived, rcvd, faults, overrun>>
mainVars == <<flt, i, synced, written, spoiled>>
vars     == <<pc, netVars, mainVars, req_stop>>

Init ==
    /\ pc = "off" /\ req_stop = FALSE
    /\ connected = FALSE /\ arrived = <<>> /\ rcvd = 0 /\ faults = <<>>
    /\ overrun = FALSE
    /\ flt = <<>> /\ i = 0 /\ synced = FALSE /\ written = <<>> /\ spoiled = {}

-----------------------------------------------------------------------------
(* Lines.                                                                  *)

\* "%d" for an unsigned number
SevText(s) == IF 2 * s >= UMod THEN s - UMod ELSE s

LineOf(m) == [comp |-> IF m.comp = "" THEN "power" ELSE m.comp,
              sev |-> SevText(m.sev)]

AnyLine == [comp : Component, sev : {SevText(s) : s \in 0..(UMod - 1)}]

SyncLine == [comp |-> "sync", sev |-> 0]
ExitLine == [comp |-> "exit", sev |-> 0]

-----------------------------------------------------------------------------
(* The start.                                                              *)

\* The launcher has executed it.
Start ==
    /\ pc = "off"
    /\ pc' = "fopen"
    /\ UNCHANGED <<netVars, mainVars, req_stop>>

Fopen ==
    /\ pc = "fopen"
    /\ pc' = "setup"
    /\ UNCHANGED <<netVars, mainVars, req_stop>>

\* The signal handlers; init, which connects and subscribes; the report over
\* send_back, whose result nobody looks at.
Setup ==
    /\ pc = "setup"
    /\ connected' = TRUE
    /\ pc' = "loop"
    /\ UNCHANGED <<arrived, rcvd, faults, overrun, mainVars, req_stop>>

\* init fails, or the arguments are missing: main returns, and the end of the
\* process closes the fifo.
SetupFails ==
    /\ pc = "setup"
    /\ pc' = "dead"
    /\ UNCHANGED <<netVars, mainVars, req_stop>>

-----------------------------------------------------------------------------
(* get_faults.                                                             *)

Arrive ==
    /\ connected /\ pc \notin {"done", "dead"}
    /\ Len(arrived) < MaxMsgs
    /\ \E m \in Message : arrived' = Append(arrived, m)
    /\ UNCHANGED <<pc, connected, rcvd, faults, overrun, mainVars, req_stop>>

\* Mutant: the loop goes on after a signal.
GetFaultsAlways ==
    /\ pc = "loop"
    /\ pc' = "round"
    /\ UNCHANGED <<connected, arrived, rcvd, faults, overrun, mainVars, req_stop>>

\* main's loop: stopping comes first.
GetFaults ==
    /\ pc = "loop"
    /\ ~req_stop
    /\ pc' = "round"
    /\ UNCHANGED <<connected, arrived, rcvd, faults, overrun, mainVars, req_stop>>

\* on_message, for the next n messages
OnMessages(n) ==
    /\ faults' = faults \o SubSeq(arrived, rcvd + 1, rcvd + n)
    /\ overrun' = (overrun \/ Len(faults) + n > Room)
    /\ rcvd' = rcvd + n

\* A round with messages is followed by another one.
Round ==
    /\ pc = "round" /\ connected
    /\ \E n \in 1..(Len(arrived) - rcvd) : OnMessages(n)
    /\ UNCHANGED <<pc, connected, arrived, mainVars, req_stop>>

\* Mutant: the number of faults is not reset.
RoundQuietKeeps ==
    /\ pc = "round" /\ connected
    /\ flt' = faults /\ i' = 0
    /\ pc' = "write"
    /\ UNCHANGED <<connected, arrived, rcvd, faults, overrun, synced,
                   written, spoiled, req_stop>>

\* A round without a message, in time or because a signal interrupts it: what
\* was received so far is returned.
RoundQuiet ==
    /\ pc = "round" /\ connected
    /\ flt' = faults /\ i' = 0
    /\ faults' = <<>>
    /\ pc' = "write"
    /\ UNCHANGED <<connected, arrived, rcvd, overrun, synced, written,
                   spoiled, req_stop>>

\* The connection is lost, perhaps after some messages; from then on every
\* call fails at once.  What was received stays where it is.
RoundFails ==
    /\ pc = "round"
    /\ \E n \in 0..(IF connected THEN Len(arrived) - rcvd ELSE 0) : OnMessages(n)
    /\ connected' = FALSE
    /\ pc' = "loop"
    /\ UNCHANGED <<arrived, mainVars, req_stop>>

-----------------------------------------------------------------------------
(* The lines.                                                              *)

\* Mutant: the first message is a fault too.
WriteNoSync ==
    /\ pc = "write" /\ i < Len(flt)
    /\ \E l \in IF i + 1 > Room THEN AnyLine ELSE {LineOf(flt[i + 1])} :
          written' = Append(written, l)
    /\ spoiled' = IF i + 1 > Room THEN spoiled \cup {Len(written) + 1} ELSE spoiled
    /\ synced' = TRUE
    /\ i' = i + 1
    /\ UNCHANGED <<pc, netVars, flt, req_stop>>

\* The first message of all, whatever it says, is the signal to start.
Write ==
    /\ pc = "write" /\ i < Len(flt)
    /\ \E l \in IF ~synced THEN {SyncLine}
                ELSE IF i + 1 > Room THEN AnyLine ELSE {LineOf(flt[i + 1])} :
          written' = Append(written, l)
    /\ spoiled' = IF i + 1 > Room THEN spoiled \cup {Len(written) + 1} ELSE spoiled
    /\ synced' = TRUE
    /\ i' = i + 1
    /\ UNCHANGED <<pc, netVars, flt, req_stop>>

\* Mutant: a signal ends the loop over the faults.
WriteDoneByStop ==
    /\ pc = "write" /\ (i = Len(flt) \/ req_stop)
    /\ pc' = "loop"
    /\ UNCHANGED <<netVars, mainVars, req_stop>>

WriteDone ==
    /\ pc = "write" /\ i = Len(flt)
    /\ pc' = "loop"
    /\ UNCHANGED <<netVars, mainVars, req_stop>>

\* After the loop: the line "exit", fclose, cleanup.
Exit ==
    /\ pc = "loop" /\ req_stop
    /\ written' = Append(written, ExitLine)
    /\ pc' = "done"
    /\ UNCHANGED <<netVars, flt, i, synced, spoiled, req_stop>>

-----------------------------------------------------------------------------
(* Signals and crashes.                                                    *)

\* SIGTERM or SIGINT, from the launcher or the terminal
Signal ==
    /\ pc \notin {"off", "done", "dead"}
    /\ IF pc \in {"fopen", "setup"} THEN pc' = "dead" /\ UNCHANGED req_stop
                                   ELSE req_stop' = TRUE /\ UNCHANGED pc
    /\ UNCHANGED <<netVars, mainVars>>

\* A line is written and no process of the application is left.
BrokenPipe ==
    /\ (pc = "write" /\ i < Len(flt)) \/ (pc = "loop" /\ req_stop)
    /\ pc' = "dead"
    /\ UNCHANGED <<netVars, mainVars, req_stop>>

\* The heap is damaged.
Crash ==
    /\ overrun /\ pc \notin {"done", "dead"}
    /\ pc' = "dead"
    /\ UNCHANGED <<netVars, mainVars, req_stop>>

-----------------------------------------------------------------------------
Step == \/ Start \/ Fopen \/ Setup \/ SetupFails \/ GetFaults \/ Round
        \/ RoundQuiet \/ RoundFails \/ Write \/ WriteDone \/ Exit

Next == Step \/ Arrive \/ Signal \/ BrokenPipe \/ Crash

Spec == Init /\ [][Next]_vars

\* The operating system runs the client; messages need not come, and neither
\* do signals and failures.
FairSpec == Spec /\ WF_vars(Step)

-----------------------------------------------------------------------------
(* Properties.                                                             *)

\* How many lines stand for messages.
Passed == IF pc = "done" THEN Len(written) - 1 ELSE Len(written)

\* No message is lost, doubled or overtaken between the callback and the fifo,
\* whatever rounds fail and whenever a signal comes: those received are, in
\* this order, in the fifo, in the rest of the array main works on, and in the
\* array of on_message (get_faults, its swap of the two arrays, and main).
InOrder ==
    /\ Passed + (Len(flt) - i) + Len(faults) = rcvd
    /\ \A k \in 1..Len(faults) : faults[k] = arrived[rcvd - Len(faults) + k]
    /\ \A k \in (i + 1)..Len(flt) : flt[k] = arrived[Passed + (k - i)]

\* The first line is the signal, every other one says what its message says:
\* unless it is from an entry past the array (main, on_message).
SaysTheSame ==
    \A k \in 1..Passed :
        \/ k = 1 /\ written[k] = SyncLine
        \/ k > 1 /\ (written[k] = LineOf(arrived[k]) \/ k \in spoiled)

Conserved == InOrder /\ SaysTheSame

\* A message that was received is passed on before the client ends, unless the
\* connection is lost or the client dies.
PassedOn ==
    \A k \in 1..MaxMsgs : rcvd >= k ~> (Passed >= k \/ ~connected \/ pc = "dead")

\* A signal ends the client, with its last line (module Launcher relies on it).
StopEnds == req_stop ~> pc \in {"done", "dead"}

\* What the back end sees of the client.
Line == INSTANCE FifoLine
    WITH Faults <- AnyLine, MaxLines <- MaxMsgs,
         client <- IF pc \in {"off", "fopen"} THEN pc
                   ELSE IF pc \in {"done", "dead"} THEN "closed" ELSE "open"

\* The client writes what module FifoLine says: the signal first, faults then,
\* and "exit" last, after which it is gone; or it ends without a word.
WritesLines == Line!LineSpec
=============================================================================

------------------------------ MODULE FifoLine ------------------------------
(***************************************************************************)
(* What the client writes to the fifo, and when it has it open: the side   *)
(* of client/src/client.c that a back end sees.  Module Client, the client *)
(* in detail, implements it; module Backend reads what it writes.          *)
(*                                                                         *)
(* A line is a record of a component and a severity.  The first line is    *)
(* the newline of the synchronised start, or the client ends before it.    *)
(***************************************************************************)
EXTENDS Integers, Sequences

CONSTANTS
    Faults,    \* the lines the client writes for faults
    MaxLines   \* bound: the number of lines the client writes for faults

ASSUME LineAssumption ==
    /\ Faults \subseteq [comp : {"net", "memory", "power", "other"}, sev : Int]
    /\ MaxLines \in Nat

SyncLine == [comp |-> "sync", sev |-> 0]
ExitLine == [comp |-> "exit", sev |-> 0]

VARIABLES
    written,  \* the lines the client wrote
    client    \* "off", "fopen", "open", or "closed" when the process is gone

lineVars == <<written, client>>

LineInit == written = <<>> /\ client = "off"

\* The client runs; its fopen waits for a reader.
Start == client = "off" /\ client' = "fopen" /\ UNCHANGED written

Opened == client = "fopen" /\ client' = "open" /\ UNCHANGED written

WriteSync ==
    /\ client = "open" /\ written = <<>>
    /\ written' = <<SyncLine>>
    /\ UNCHANGED client

WriteFault ==
    /\ client = "open" /\ Len(written) \in 1..MaxLines
    /\ \E l \in Faults : written' = Append(written, l)
    /\ UNCHANGED client

\* The end of main: the line "exit", fclose.
WriteExit ==
    /\ client = "open"
    /\ written' = Append(written, ExitLine)
    /\ client' = "closed"

\* It ends without a word: killed by a signal (SIGPIPE too), or its init fails.
Gone == client \in {"fopen", "open"} /\ client' = "closed" /\ UNCHANGED written

LineNext == Start \/ Opened \/ WriteSync \/ WriteFault \/ WriteExit \/ Gone

LineSpec == LineInit /\ [][LineNext]_lineVars
=============================================================================

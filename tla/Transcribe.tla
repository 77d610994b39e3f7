----------------------------- MODULE Transcribe -----------------------------
(***************************************************************************)
(* plugins/transcribe/transcribe.c: the fault manager that passes every    *)
(* call of the server on to a nested one and writes what it answers to the *)
(* transcript.  The server calls get_nodes once and then tic and get_fail  *)
(* in turn.  The stream is buffered: what is on disk is decided when it is *)
(* closed, or when the process dies.                                       *)
(***************************************************************************)
EXTENDS Transcript

CONSTANTS
    Nodes,     \* the nodes of the nested fault manager
    Batches,   \* what its get_fail may return
    MayCrash,  \* whether the recording server may die
    MaxRec     \* bound: the number of tics recorded

ASSUME RecordAssumption ==
    /\ Nodes \in Seq(NodeDesc)
    /\ Batches \subseteq Seq(Fault)
    /\ MayCrash \in BOOLEAN
    /\ MaxRec \in Nat

VARIABLES
    trpc,     \* the call the server makes next
    file,     \* the lines written to the stream
    trTicNum, \* tic_num
    rec,      \* history: the batches the server was given
    start,    \* history: the line of each tic
    kept      \* history: how many lines survived the end of the process

trVars == <<trpc, file, trTicNum, rec, start, kept>>

TrInit ==
    /\ trpc = "get_nodes"
    /\ file = <<>>
    /\ trTicNum = 0
    /\ rec = <<>> /\ start = <<>> /\ kept = 0

\* get_nodes of the nested manager succeeds: the nodes are written down.
TrGetNodes ==
    /\ trpc = "get_nodes"
    /\ file' = HeaderLines(Nodes)
    /\ trpc' = "tic"
    /\ UNCHANGED <<disk, trTicNum, rec, start, kept>>

\* It fails: nothing is written and the server gives up.
TrGetNodesFails ==
    /\ trpc = "get_nodes"
    /\ trpc' = "failed"
    /\ UNCHANGED <<disk, file, trTicNum, rec, start, kept>>

\* Mutant: the tic is counted before it is written.
TrTicPreIncrement ==
    /\ trpc = "tic"
    /\ Len(rec) < MaxRec
    /\ file' = Append(file, TicLine(trTicNum + 1))
    /\ trTicNum' = trTicNum + 1
    /\ start' = Append(start, Len(file) + 1)
    /\ trpc' = "get_fail"
    /\ UNCHANGED <<disk, rec, kept>>

TrTic ==
    /\ trpc = "tic"
    /\ Len(rec) < MaxRec
    /\ file' = Append(file, TicLine(trTicNum))
    /\ trTicNum' = trTicNum + 1
    /\ start' = Append(start, Len(file) + 1)
    /\ trpc' = "get_fail"
    /\ UNCHANGED <<disk, rec, kept>>

TrGetFail ==
    /\ trpc = "get_fail"
    /\ \E b \in Batches :
          /\ file' = file \o [k \in 1..Len(b) |-> FaultLine(b[k])]
          /\ rec' = Append(rec, b)
    /\ trpc' = "tic"
    /\ UNCHANGED <<disk, trTicNum, start, kept>>

\* The server ends between two tics and closes the stream.
TrCleanup ==
    /\ trpc = "tic"
    /\ disk' = file
    /\ kept' = Len(file)
    /\ trpc' = "ended"
    /\ UNCHANGED <<file, trTicNum, rec, start>>

\* The process dies: some of the lines are on disk, the last one perhaps
\* only in part.
TrCrash ==
    /\ MayCrash
    /\ trpc \in {"get_nodes", "tic", "get_fail"}
    /\ \E m \in 0..Len(file) :
          /\ kept' = m
          /\ \/ disk' = SubSeq(file, 1, m)
             \/ /\ m < Len(file)
                /\ \E l \in Cut(file[m + 1]) : disk' = Append(SubSeq(file, 1, m), l)
    /\ trpc' = "ended"
    /\ UNCHANGED <<file, trTicNum, rec, start>>

TrNext == \/ TrGetNodes \/ TrGetNodesFails \/ TrTic \/ TrGetFail
          \/ TrCleanup \/ TrCrash
=============================================================================

------------------------------- MODULE Replay -------------------------------
(***************************************************************************)
(* plugins/replay/replay.c: the fault manager that reads a transcript and  *)
(* gives its faults to the server again.  The loop of tic reads one line   *)
(* per step.                                                               *)
(***************************************************************************)
EXTENDS Transcript

CONSTANT
    MaxReplay  \* bound: the number of tics replayed

ASSUME ReplayAssumption == MaxReplay \in Nat

VARIABLES
    rppc,     \* the call the server makes next, or the loop of tic
    pos,      \* the next line to read
    rpTicNum, \* tic_num
    nxtTic,   \* nxt_tic
    done,     \* done
    faults,   \* faults
    rpNodes,  \* the nodes handed to the server
    given     \* history: what get_fail returned, tic by tic

rpVars == <<rppc, pos, rpTicNum, nxtTic, done, faults, rpNodes, given>>

RpInit ==
    /\ rppc = "get_nodes"
    /\ pos = 1
    /\ rpTicNum = 0 /\ nxtTic = 0 /\ done = FALSE
    /\ faults = <<>> /\ rpNodes = <<>> /\ given = <<>>

-----------------------------------------------------------------------------
(* get_nodes                                                               *)

\* Every line get_nodes needs is there and can be read.
HeaderReadable ==
    /\ Len(disk) > 0
    /\ disk[1].kind = "count"
    /\ Len(disk) >= disk[1].num + 1
    /\ \A k \in 1..disk[1].num : disk[k + 1].kind = "node"

\* A number is taken from the line after the nodes if it looks like a tic;
\* without such a line nxt_tic keeps its value, and any other line is lost.
RpGetNodes ==
    /\ rppc = "get_nodes"
    /\ HeaderReadable
    /\ LET n == disk[1].num IN
          /\ rpNodes' = [k \in 1..n |-> disk[k + 1].desc]
          /\ IF Len(disk) < n + 2
             THEN nxtTic' = nxtTic /\ pos' = n + 2
             ELSE /\ pos' = n + 3
                  /\ IF disk[n + 2].kind \in {"tic", "stub", "nonum"}
                     THEN nxtTic' \in TicNums(disk[n + 2])
                     ELSE nxtTic' = nxtTic
    /\ rppc' = "tic"
    /\ UNCHANGED <<disk, rpTicNum, done, faults, given>>

\* The server gives up.
RpGetNodesFails ==
    /\ rppc = "get_nodes"
    /\ ~HeaderReadable
    /\ rppc' = "failed"
    /\ UNCHANGED <<disk, pos, rpTicNum, nxtTic, done, faults, rpNodes, given>>

-----------------------------------------------------------------------------
(* tic and get_fail                                                        *)

\* Mutant: the tic that is due is waited for.
RpTicLate ==
    /\ rppc = "tic"
    /\ Len(given) < MaxReplay
    /\ faults' = <<>>
    /\ rpTicNum' = IF done THEN rpTicNum ELSE rpTicNum + 1
    /\ rppc' = IF done \/ rpTicNum <= nxtTic THEN "get_fail" ELSE "read"
    /\ UNCHANGED <<disk, pos, nxtTic, done, rpNodes, given>>

\* tic up to its loop: nothing is due at the end of the file or before the
\* next tic of the transcript.
RpTic ==
    /\ rppc = "tic"
    /\ Len(given) < MaxReplay
    /\ faults' = <<>>
    /\ rpTicNum' = IF done THEN rpTicNum ELSE rpTicNum + 1
    /\ rppc' = IF done \/ rpTicNum < nxtTic THEN "get_fail" ELSE "read"
    /\ UNCHANGED <<disk, pos, nxtTic, done, rpNodes, given>>

Reading == rppc = "read" /\ nxtTic < rpTicNum /\ ~done

RpReadTic ==
    /\ Reading
    /\ pos <= Len(disk)
    /\ disk[pos].kind \in {"tic", "nonum"}
    /\ nxtTic' \in TicNums(disk[pos])
    /\ pos' = pos + 1
    /\ UNCHANGED <<disk, rppc, rpTicNum, done, faults, rpNodes, given>>

RpReadFault ==
    /\ Reading
    /\ pos <= Len(disk)
    /\ disk[pos].kind = "fault"
    /\ faults' = Append(faults, ParseFault(disk[pos]))
    /\ pos' = pos + 1
    /\ UNCHANGED <<disk, rppc, rpTicNum, nxtTic, done, rpNodes, given>>

\* A line that is neither is skipped with a warning.
RpReadOther ==
    /\ Reading
    /\ pos <= Len(disk)
    /\ disk[pos].kind \notin {"tic", "nonum", "fault"}
    /\ pos' = pos + 1
    /\ UNCHANGED <<disk, rppc, rpTicNum, nxtTic, done, faults, rpNodes, given>>

\* Mutant: the end of the file is not remembered.
RpReadEOFForgets ==
    /\ Reading
    /\ pos > Len(disk)
    /\ done' = done
    /\ UNCHANGED <<disk, rppc, pos, rpTicNum, nxtTic, faults, rpNodes, given>>

RpReadEOF ==
    /\ Reading
    /\ pos > Len(disk)
    /\ done' = TRUE
    /\ UNCHANGED <<disk, rppc, pos, rpTicNum, nxtTic, faults, rpNodes, given>>

RpTicReturns ==
    /\ rppc = "read"
    /\ ~(nxtTic < rpTicNum /\ ~done)
    /\ rppc' = "get_fail"
    /\ UNCHANGED <<disk, pos, rpTicNum, nxtTic, done, faults, rpNodes, given>>

RpGetFail ==
    /\ rppc = "get_fail"
    /\ given' = Append(given, faults)
    /\ rppc' = "tic"
    /\ UNCHANGED <<disk, pos, rpTicNum, nxtTic, done, faults, rpNodes>>

RpNext == \/ RpGetNodes \/ RpGetNodesFails \/ RpTic \/ RpReadTic \/ RpReadFault
          \/ RpReadOther \/ RpReadEOF \/ RpTicReturns \/ RpGetFail
=============================================================================

----------------------------- MODULE RandomRun -----------------------------
(***************************************************************************)
(* The server's tic loop with one of two fault managers: that of           *)
(* plugins/random/random.c, whose tic breaks some of the healthy nodes and *)
(* whose get_fail reports them, or one that returns any of the batches.    *)
(***************************************************************************)
EXTENDS TicLoop

CONSTANT Index  \* the position of a node in random's array nodes

\* What tic can put into faults: nodes that fail, in the order of the array.
RandomBatch(b) ==
    /\ \A k \in 1..Len(b) : b[k].component = NULL /\ b[k].severity = 100
    /\ \A j, k \in 1..Len(b) : j < k => Index[b[j].node] < Index[b[k].node]

ASSUME IndexAssumption == Index \in [Node -> Nat]

VARIABLES
    random,   \* the fault manager of the configuration is random
    healthy,  \* the nodes with a healthy that is not 0
    dropped   \* history: the nodes whose faults tic gave up

randVars == <<random, healthy, dropped>>

\* init made all nodes; with none get_nodes fails and the server ends.
RandomInit == Init /\ random \in BOOLEAN /\ healthy = Node /\ dropped = {}

NodesOf(b) == {b[k].node : k \in 1..Len(b)}

\* Mutant: the nodes that fail stay healthy.
RandomTicForgets ==
    /\ random /\ ManagerTic
    /\ RandomBatch(failed')
    /\ NodesOf(failed') \subseteq healthy
    /\ UNCHANGED randVars

\* Mutant: rand() is compared before healthy is looked at.
RandomTicAny ==
    /\ random /\ ManagerTic
    /\ RandomBatch(failed')
    /\ healthy' = healthy \ NodesOf(failed')
    /\ UNCHANGED <<random, dropped>>

\* tic of random and get_fail: each healthy node may fail, and is reported.
RandomTic ==
    /\ random /\ ManagerTic
    /\ RandomBatch(failed')
    /\ NodesOf(failed') \subseteq healthy
    /\ healthy' = healthy \ NodesOf(failed')
    /\ UNCHANGED <<random, dropped>>

\* realloc fails for the last of the nodes that failed so far: all faults of
\* this tic are given up, and the nodes stay marked.
RandomTicNoMemory ==
    /\ random /\ ManagerTic
    /\ failed' = <<>>
    /\ \E D \in SUBSET healthy \ {{}} :
          healthy' = healthy \ D /\ dropped' = dropped \cup D
    /\ UNCHANGED random

\* The main thread, with the call of the fault manager of the configuration.
RandomMain ==
    \/ RandomTic
    \/ RandomTicNoMemory
    \/ (random => pc # "tic") /\ Main /\ UNCHANGED randVars

Surroundings == (TermHandler \/ ClockTick \/ Terminated) /\ UNCHANGED randVars

RandomNext == RandomMain \/ Surroundings

rvars == <<vars, randVars>>

RandomSpec == RandomInit /\ [][RandomNext]_rvars

\* The fairness of TicLoop.
RandomFairSpec ==
    RandomSpec /\ WF_rvars(RandomMain) /\ WF_rvars(ClockTick /\ UNCHANGED randVars)

-----------------------------------------------------------------------------
(* Properties.                                                             *)

\* The nodes of the faults the actors have not been told yet.
Pending == {failed[k].node : k \in (i + 1)..Len(failed)}

\* What random believes and what the actors were told go together at every
\* step: a node is marked exactly if its actor was told, is about to be told
\* or could not be told, or if its fault was given up for want of memory.
HealthKnown ==
    random => \A n \in Node \ lost :
        n \notin healthy <=> n \in actorDown \cup Pending \cup dropped

\* No node fails twice: a fault that is still to be sent is about a node no
\* actor or external program believes down, and the only one about it
\* (healthy of random.c).
FailsOnce ==
    random => \A k \in (i + 1)..Len(failed) :
        /\ failed[k].node \notin actorDown \cup externDown \cup dropped
        /\ \A j \in (i + 1)..Len(failed) : failed[j].node = failed[k].node => j = k
=============================================================================

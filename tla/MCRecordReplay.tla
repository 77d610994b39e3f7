--------------------------- MODULE MCRecordReplay ---------------------------
(* Two nodes, one of them with a component; severities of 8 bits.          *)
EXTENDS RecordReplay

F(n, c, s) == [node |-> n, component |-> c, severity |-> s]

MCNodes == << [name |-> "node0", comps |-> <<"net">>],
              [name |-> "node1", comps |-> <<>>] >>

\* An empty tic, a failure, a recovery and a fault of a component with a
\* severity "%d" prints as a negative number.
MCBatches == { <<>>,
               <<F("node0", NULL, 100)>>,
               <<F("node1", NULL, 0), F("node0", "net", 200)>> }
=============================================================================

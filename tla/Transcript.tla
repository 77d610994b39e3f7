----------------------------- MODULE Transcript -----------------------------
(***************************************************************************)
(* The transcript of a run: the file the plugin transcribe writes and the  *)
(* plugin replay reads.  A line is a record of what its text says; a line  *)
(* that a crash cut short is one of the lines in Cut(l).                   *)
(*                                                                         *)
(* Names are atomic: they hold no comma, no newline and no "tic#".         *)
(***************************************************************************)
EXTENDS Integers, Sequences

CONSTANTS
    Node,     \* names of nodes
    Comp,     \* names of components
    NULL,     \* the fault is about the node as a whole
    CutName,  \* a name whose end is missing
    UMod,     \* 2^32: severities are of type unsigned
    Garbage   \* values of an uninitialised size_t

Fault    == [node : Node, component : Comp \cup {NULL}, severity : 0..(UMod - 1)]
NodeDesc == [name : Node, comps : Seq(Comp)]

\* A component has a name, which is what tells it from "no component".
ASSUME NameAssumption == NULL \notin Comp /\ "" \notin Comp /\ NULL # ""
ASSUME UModAssumption == UMod \in Nat \ {0} /\ UMod % 2 = 0
ASSUME GarbageAssumption == Garbage \subseteq Nat

VARIABLE disk   \* the lines of the file, as they are on disk

-----------------------------------------------------------------------------
(* Writing.                                                                *)

CountLine(n) == [kind |-> "count", num |-> n]
NodeLine(d)  == [kind |-> "node", desc |-> d]
TicLine(n)   == [kind |-> "tic", num |-> n]

\* "%s" of no component is empty.
CompText(c) == IF c = NULL THEN "" ELSE c

\* "%d" of an unsigned: the upper half of the range is printed negative.
SevText(s) == IF 2 * s >= UMod THEN s - UMod ELSE s

FaultLine(f) == [kind |-> "fault", node |-> f.node,
                 comp |-> CompText(f.component), sev |-> SevText(f.severity)]

\* Mutant: the number of nodes is off by one.
HeaderLinesOneMore(nodes) ==
    <<CountLine(Len(nodes) + 1)>> \o [k \in 1..Len(nodes) |-> NodeLine(nodes[k])]

HeaderLines(nodes) ==
    <<CountLine(Len(nodes))>> \o [k \in 1..Len(nodes) |-> NodeLine(nodes[k])]

-----------------------------------------------------------------------------
(* Reading.                                                                *)

ParseComp(t) == IF t = "" THEN NULL ELSE t

\* strtoull wraps a negative number around, the assignment to an unsigned
\* keeps it modulo 2^32.
ParseSev(t) == t % UMod

ParseFault(l) == [node |-> l.node, component |-> ParseComp(l.comp),
                  severity |-> ParseSev(l.sev)]

\* get_tic_num returns an uninitialised variable if the line has no number.
TicNums(l) == IF l.kind = "tic" THEN {l.num} ELSE Garbage

-----------------------------------------------------------------------------
(* A line whose end is missing.                                            *)

Junk     == [kind |-> "junk"]   \* too short to be anything
TicStub  == [kind |-> "stub"]   \* "[tic"
TicNoNum == [kind |-> "nonum"]  \* "[tic#"

\* An unsigned of 32 bits has at most ten digits.
Powers == {10, 100, 1000, 10000, 100000, 1000000, 10000000, 100000000, 1000000000}

\* The numbers written by a proper, non-empty prefix of the digits of t.
Prefixes(t) ==
    LET Abs == IF t < 0 THEN -t ELSE t
        Cuts == {Abs \div p : p \in Powers} \ {0}
    IN  IF t < 0 THEN {-c : c \in Cuts} ELSE Cuts

CutDescs(d) ==
    IF d.comps = <<>> THEN {}
    ELSE {[d EXCEPT !.comps[Len(d.comps)] = CutName]}

\* Without its newline only, a line still reads as it did.
Cut(l) ==
    {l, Junk} \cup
    CASE l.kind = "count" -> {CountLine(n) : n \in Prefixes(l.num)}
      [] l.kind = "node"  -> {NodeLine(d) : d \in CutDescs(l.desc)}
      [] l.kind = "tic"   -> {TicStub, TicNoNum} \cup {TicLine(n) : n \in Prefixes(l.num)}
      [] l.kind = "fault" -> {[l EXCEPT !.sev = s] : s \in Prefixes(l.sev)}
=============================================================================

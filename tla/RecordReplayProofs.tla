------------------------- MODULE RecordReplayProofs -------------------------
(***************************************************************************)
(* The transcript of a run, whole or torn by a crash, reproduces what it   *)
(* holds of the run, for every set of nodes and batches and every number   *)
(* of tics.                                                                *)
(*                                                                         *)
(* The recorder keeps a file of blocks that follow each other (RecInv); a  *)
(* crash leaves a prefix of it and perhaps a part of the next line         *)
(* (DiskInv).  The replay is always at the first line after a tic it has   *)
(* understood, or past everything that survived (ReplayInv).               *)
(***************************************************************************)
EXTENDS RecordReplay, TLAPS

Line == {CountLine(n) : n \in Nat} \cup {NodeLine(d) : d \in NodeDesc}
        \cup {TicLine(n) : n \in Nat} \cup {FaultLine(f) : f \in Fault}

H == Len(Nodes) + 1

\* The faults of the k-th tic; none are known of one that was not recorded
\* or whose faults were not written before the crash.
Recorded(k) == IF k <= Len(rec) THEN rec[k] ELSE <<>>

\* The last line of the k-th tic.
Offset(k) == start[k] + Len(Recorded(k))

\* The header is in its place.
HeaderInv ==
    file # <<>> => /\ Len(file) >= H
                   /\ file[1] = CountLine(Len(Nodes))
                   /\ \A k \in 1..Len(Nodes) : file[k + 1] = NodeLine(Nodes[k])

\* The k-th tic of the run is written as number k - 1, followed by its
\* faults, in lines next to each other.
BlockInv ==
    \A k \in 1..Len(start) :
        /\ start[k] \in (H + 1)..Len(file)
        /\ file[start[k]] = TicLine(k - 1)
        /\ Offset(k) <= Len(file)
        /\ \A j \in 1..Len(Recorded(k)) : file[start[k] + j] = FaultLine(Recorded(k)[j])

\* The tics follow each other without a gap.
ChainInv ==
    /\ Len(start) > 0 => start[1] = H + 1
    /\ \A k \in 1..Len(start) : k + 1 <= Len(start) => start[k + 1] = Offset(k) + 1
    /\ \A k, l \in 1..Len(start) : k < l => Offset(k) < start[l]

EndInv ==
    /\ file = <<>> => start = <<>>
    /\ trTicNum = Len(start)
    /\ Len(rec) <= Len(start)
    /\ file # <<>> => Len(file) = IF Len(start) = 0 THEN H ELSE Offset(Len(start))
    /\ trpc \in {"get_nodes", "failed"} => file = <<>>
    /\ trpc = "tic" => file # <<>> /\ Len(rec) = Len(start)
    /\ trpc = "get_fail" => file # <<>> /\ Len(start) = Len(rec) + 1

\* On disk are the lines that survived, and perhaps a part of the next one.
DiskInv ==
    trpc = "ended" =>
        /\ kept \in 0..Len(file)
        /\ Len(disk) \in {kept, kept + 1}
        /\ \A i \in 1..kept : disk[i] = file[i]
        /\ Len(disk) = kept + 1 => kept < Len(file) /\ disk[kept + 1] \in Cut(file[kept + 1])

\* Types, as far as the argument needs them.
TypeInv ==
    /\ trpc \in {"get_nodes", "tic", "get_fail", "ended", "failed"}
    /\ file \in Seq(Line)
    /\ trTicNum \in Nat
    /\ rec \in Seq(Seq(Fault))
    /\ start \in Seq(Nat)

RecInv == TypeInv /\ HeaderInv /\ BlockInv /\ ChainInv /\ EndInv /\ DiskInv

-----------------------------------------------------------------------------
(* Lines and sequences.                                                    *)

\* A severity printed as a signed number is read back as it was.
LEMMA SevRoundTrip ==
    ASSUME NEW s \in 0..(UMod - 1)
    PROVE  ParseSev(SevText(s)) = s
<1>1. UMod \in Nat \ {0}
  BY UModAssumption
<1>2. CASE 2 * s >= UMod
  <2>1. SevText(s) = s - UMod
    BY <1>2 DEF SevText
  <2>2. (s - UMod) % UMod = s
    BY <1>1
  <2> QED BY <2>1, <2>2 DEF ParseSev
<1>3. CASE ~(2 * s >= UMod)
  BY <1>1, <1>3 DEF SevText, ParseSev
<1> QED BY <1>2, <1>3

\* A fault is read back as it was written, "no component" included.
LEMMA FaultRoundTrip ==
    ASSUME NEW f \in Fault
    PROVE  ParseFault(FaultLine(f)) = f
<1>1. f.severity \in 0..(UMod - 1) /\ f.component \in Comp \cup {NULL}
  BY DEF Fault
<1>2. ParseSev(SevText(f.severity)) = f.severity
  BY <1>1, SevRoundTrip
<1>3. ParseComp(CompText(f.component)) = f.component
  BY <1>1, NameAssumption DEF ParseComp, CompText
<1>4. f = [node |-> f.node, component |-> f.component, severity |-> f.severity]
  BY DEF Fault
<1> QED BY <1>2, <1>3, <1>4 DEF ParseFault, FaultLine

\* What Append returns.
LEMMA AppendFacts ==
    ASSUME NEW S, NEW s \in Seq(S), NEW e \in S
    PROVE  /\ Append(s, e) \in Seq(S)
           /\ Len(Append(s, e)) = Len(s) + 1
           /\ \A k \in 1..Len(s) : Append(s, e)[k] = s[k]
           /\ Append(s, e)[Len(s) + 1] = e
  OBVIOUS

\* Two sequences with the same entries are the same.
LEMMA SameSequence ==
    ASSUME NEW S, NEW s \in Seq(S), NEW u \in Seq(S), Len(s) = Len(u),
           \A j \in 1..Len(s) : s[j] = u[j]
    PROVE  s = u
  OBVIOUS

\* The header as it is written.
LEMMA HeaderFacts ==
    /\ HeaderLines(Nodes) \in Seq(Line)
    /\ Len(HeaderLines(Nodes)) = H
    /\ HeaderLines(Nodes)[1] = CountLine(Len(Nodes))
    /\ \A k \in 1..Len(Nodes) : HeaderLines(Nodes)[k + 1] = NodeLine(Nodes[k])
<1> DEFINE n == Len(Nodes)
           c == <<CountLine(n)>>
           t == [k \in 1..n |-> NodeLine(Nodes[k])]
<1>1. n \in Nat /\ \A k \in 1..n : Nodes[k] \in NodeDesc
  BY RecordAssumption
<1>2. CountLine(n) \in Line /\ \A k \in 1..n : NodeLine(Nodes[k]) \in Line
  BY <1>1 DEF Line
<1>3. c \in Seq(Line) /\ Len(c) = 1 /\ c[1] = CountLine(n)
  BY <1>2
<1>4. t \in Seq(Line) /\ Len(t) = n
  BY <1>1, <1>2
<1>5. HeaderLines(Nodes) = c \o t
  BY DEF HeaderLines
<1> HIDE DEF c, t
<1>6. /\ c \o t \in Seq(Line)
      /\ Len(c \o t) = 1 + n
      /\ (c \o t)[1] = c[1]
      /\ \A k \in 1..n : (c \o t)[1 + k] = t[k]
  <2>1. /\ c \o t \in Seq(Line)
        /\ Len(c \o t) = Len(c) + Len(t)
        /\ \A k \in 1..Len(c) : (c \o t)[k] = c[k]
        /\ \A k \in 1..Len(t) : (c \o t)[Len(c) + k] = t[k]
    <3>1. c \in Seq(Line) /\ t \in Seq(Line)
      BY <1>3, <1>4
    <3> QED BY <3>1
  <2>2. 1 \in 1..Len(c)
    BY <1>3
  <2> QED BY <2>1, <2>2, <1>3, <1>4
<1>7. \A k \in 1..n : t[k] = NodeLine(Nodes[k]) /\ 1 + k = k + 1
  BY <1>1 DEF t
<1> QED BY <1>1, <1>3, <1>5, <1>6, <1>7 DEF H

-----------------------------------------------------------------------------
(* The recorder.                                                           *)

\* What the invariants are about, for any tic.
LEMMA RecTypes ==
    ASSUME TypeInv
    PROVE  /\ Len(Nodes) \in Nat /\ H \in Nat /\ H >= 1
           /\ Len(file) \in Nat /\ Len(rec) \in Nat /\ Len(start) \in Nat
           /\ \A k \in 1..Len(start) : start[k] \in Nat
           /\ \A k \in Nat \ {0} : Recorded(k) \in Seq(Fault) /\ Len(Recorded(k)) \in Nat
           /\ \A k \in 1..Len(start) : Offset(k) \in Nat /\ start[k] <= Offset(k)
<1>1. /\ Len(Nodes) \in Nat /\ H \in Nat /\ H >= 1
      /\ Len(file) \in Nat /\ Len(rec) \in Nat /\ Len(start) \in Nat
      /\ \A k \in 1..Len(start) : start[k] \in Nat
  BY RecordAssumption DEF H, TypeInv
<1>2. ASSUME NEW k \in Nat \ {0}
      PROVE  Recorded(k) \in Seq(Fault) /\ Len(Recorded(k)) \in Nat
  <2>1. CASE k <= Len(rec)
    <3>1. k \in 1..Len(rec) /\ rec \in Seq(Seq(Fault))
      BY <1>1, <2>1 DEF TypeInv
    <3>2. rec[k] \in Seq(Fault)
      BY <3>1
    <3> QED BY <2>1, <3>2 DEF Recorded
  <2>2. CASE ~(k <= Len(rec))
    BY <2>2 DEF Recorded
  <2> QED BY <2>1, <2>2
<1>3. ASSUME NEW k \in 1..Len(start)
      PROVE  Offset(k) \in Nat /\ start[k] <= Offset(k)
  <2>1. k \in Nat \ {0} /\ start[k] \in Nat
    BY <1>1
  <2>2. Len(Recorded(k)) \in Nat
    BY <1>2, <2>1
  <2> QED BY <2>1, <2>2 DEF Offset
<1> QED BY <1>1, <1>2, <1>3

\* The lines of the nodes are the first of the file.
LEMMA RecHeader ==
    ASSUME RecInv, TrGetNodes
    PROVE  RecInv'
<1>1. /\ file' = HeaderLines(Nodes) /\ trpc' = "tic" /\ trpc = "get_nodes"
      /\ UNCHANGED <<disk, trTicNum, rec, start, kept>>
  BY DEF TrGetNodes
<1>2. /\ Len(Nodes) \in Nat /\ H \in Nat /\ H >= 1 /\ Len(rec) \in Nat
      /\ start = <<>> /\ trTicNum = Len(start) /\ Len(rec) <= Len(start)
  BY <1>1, RecTypes DEF RecInv, EndInv
<1>3. Len(rec') = 0 /\ Len(start') = 0 /\ Len(file') = H /\ file' # <<>>
  BY <1>1, <1>2, HeaderFacts
<1>4. TypeInv'
  BY <1>1, HeaderFacts DEF RecInv, TypeInv
<1>5. HeaderInv'
  BY <1>1, <1>2, <1>3, HeaderFacts DEF HeaderInv
<1>6. BlockInv' /\ ChainInv'
  BY <1>3 DEF BlockInv, ChainInv
<1>7. EndInv' /\ DiskInv'
  BY <1>1, <1>2, <1>3 DEF EndInv, DiskInv
<1> QED BY <1>4, <1>5, <1>6, <1>7 DEF RecInv

\* A line is added to the header.
LEMMA HeaderStays ==
    ASSUME TypeInv, HeaderInv, file # <<>>, Len(file') \in Nat, Len(file') >= Len(file),
           \A k \in 1..Len(file) : file'[k] = file[k]
    PROVE  HeaderInv'
<1>1. /\ Len(file) >= H /\ file[1] = CountLine(Len(Nodes))
      /\ \A k \in 1..Len(Nodes) : file[k + 1] = NodeLine(Nodes[k])
  BY DEF HeaderInv
<1>2. Len(Nodes) \in Nat /\ H = Len(Nodes) + 1 /\ Len(file) \in Nat
  BY RecTypes DEF H
<1>3. ASSUME NEW k \in 1..Len(Nodes) PROVE file'[k + 1] = NodeLine(Nodes[k])
  <2>1. k + 1 \in 1..Len(file)
    BY <1>1, <1>2
  <2> QED BY <1>1, <2>1
<1>4. Len(file') >= H /\ file'[1] = CountLine(Len(Nodes))
  BY <1>1, <1>2
<1> QED BY <1>3, <1>4 DEF HeaderInv

\* A new tic gets the line after all others.
LEMMA RecTic ==
    ASSUME RecInv, TrTic
    PROVE  RecInv'
<1>1. /\ trpc = "tic" /\ trpc' = "get_fail"
      /\ file' = Append(file, TicLine(trTicNum))
      /\ start' = Append(start, Len(file) + 1)
      /\ trTicNum' = trTicNum + 1
      /\ UNCHANGED <<disk, rec, kept>>
  BY DEF TrTic
<1>2. PICK L : L = Len(start)
  OBVIOUS
<1>3. PICK F : F = Len(file)
  OBVIOUS
<1>4. /\ TypeInv /\ HeaderInv /\ file # <<>> /\ Len(rec) = L /\ trTicNum = L /\ F >= H
      /\ F = IF L = 0 THEN H ELSE Offset(L)
  BY <1>1, <1>2, <1>3 DEF RecInv, EndInv, HeaderInv
<1>5. L \in Nat /\ F \in Nat /\ H \in Nat /\ file \in Seq(Line) /\ start \in Seq(Nat)
      /\ TicLine(L) \in Line
  BY <1>2, <1>3, <1>4, RecTypes DEF TypeInv, Line
<1>6. /\ file' \in Seq(Line) /\ Len(file') = F + 1
      /\ \A k \in 1..F : file'[k] = file[k]
      /\ file'[F + 1] = TicLine(L)
  <2>1. file' = Append(file, TicLine(L))
    BY <1>1, <1>4
  <2> QED BY <2>1, <1>3, <1>5, AppendFacts
<1>7. /\ start' \in Seq(Nat) /\ Len(start') = L + 1
      /\ \A k \in 1..L : start'[k] = start[k]
      /\ start'[L + 1] = F + 1
  BY <1>1, <1>2, <1>3, <1>5, AppendFacts
<1>8. /\ \A k : Recorded(k)' = Recorded(k)
      /\ Recorded(L + 1) = <<>>
  BY <1>1, <1>4, <1>5 DEF Recorded
<1>9. /\ \A k \in 1..L : Offset(k)' = Offset(k)
      /\ Offset(L + 1)' = F + 1
  BY <1>5, <1>7, <1>8 DEF Offset
<1>10. \A k \in 1..L :
          /\ start[k] \in (H + 1)..F /\ file[start[k]] = TicLine(k - 1)
          /\ Offset(k) \in Nat /\ Offset(k) <= F /\ Len(Recorded(k)) \in Nat
          /\ start[k] + Len(Recorded(k)) <= F
          /\ \A j \in 1..Len(Recorded(k)) : file[start[k] + j] = FaultLine(Recorded(k)[j])
  <2> TAKE k \in 1..L
  <2>1. k \in 1..Len(start) /\ k \in Nat \ {0}
    BY <1>2, <1>5
  <2>2. Offset(k) \in Nat /\ Len(Recorded(k)) \in Nat
    BY <2>1, <1>4, RecTypes
  <2>3. /\ start[k] \in (H + 1)..Len(file) /\ file[start[k]] = TicLine(k - 1)
        /\ Offset(k) <= Len(file)
        /\ \A j \in 1..Len(Recorded(k)) : file[start[k] + j] = FaultLine(Recorded(k)[j])
    BY <2>1 DEF RecInv, BlockInv
  <2>4. start[k] + Len(Recorded(k)) <= F
    BY <2>3, <1>3 DEF Offset
  <2> QED BY <2>2, <2>3, <2>4, <1>3
<1>11. TypeInv'
  BY <1>1, <1>4, <1>5, <1>6, <1>7 DEF TypeInv
<1>12. HeaderInv'
  BY <1>3, <1>4, <1>5, <1>6, HeaderStays
<1>13. BlockInv'
  <2> SUFFICES ASSUME NEW k \in 1..(L + 1)
               PROVE  /\ start'[k] \in (H + 1)..(F + 1)
                      /\ file'[start'[k]] = TicLine(k - 1)
                      /\ Offset(k)' <= F + 1
                      /\ \A j \in 1..Len(Recorded(k)) :
                            file'[start'[k] + j] = FaultLine(Recorded(k)[j])
    BY <1>6, <1>7, <1>8 DEF BlockInv
  <2>1. CASE k \in 1..L
    <3>1. /\ start'[k] = start[k] /\ Offset(k)' = Offset(k) /\ start[k] \in 1..F
          /\ start[k] \in (H + 1)..(F + 1) /\ Offset(k) <= F + 1
          /\ Len(Recorded(k)) \in Nat /\ start[k] + Len(Recorded(k)) <= F
      <4>1. start'[k] = start[k] /\ Offset(k)' = Offset(k)
        BY <2>1, <1>7, <1>9
      <4>2. /\ start[k] \in (H + 1)..F /\ Offset(k) \in Nat /\ Offset(k) <= F
            /\ Len(Recorded(k)) \in Nat /\ start[k] + Len(Recorded(k)) <= F
        BY <2>1, <1>10
      <4> QED BY <4>1, <4>2, <1>5
    <3>2. ASSUME NEW j \in 1..Len(Recorded(k))
          PROVE  file'[start[k] + j] = FaultLine(Recorded(k)[j])
      <4>1. start[k] + j \in 1..F
        <5>1. PICK s \in Nat : s = start[k]
          BY <3>1, <1>5
        <5>2. PICK r \in Nat : r = Len(Recorded(k))
          BY <3>1
        <5>3. s + r <= F /\ j \in 1..r
          BY <3>1, <5>1, <5>2
        <5>4. s + j \in 1..F /\ F \in Nat
          BY <5>3, <1>5
        <5> QED BY <5>1, <5>4
      <4> QED BY <2>1, <4>1, <1>6, <1>10
    <3>3. file'[start[k]] = TicLine(k - 1)
      BY <2>1, <3>1, <1>6, <1>10
    <3> QED BY <3>1, <3>2, <3>3
  <2>2. CASE k = L + 1
    <3>1. start'[k] = F + 1 /\ Len(Recorded(k)) = 0 /\ Offset(k)' = F + 1
      BY <2>2, <1>7, <1>8, <1>9
    <3> QED BY <2>2, <3>1, <1>4, <1>5, <1>6
  <2> QED BY <2>1, <2>2, <1>5
<1>14. ChainInv'
  <2>1. start'[1] = H + 1
    BY <1>2, <1>4, <1>5, <1>7 DEF RecInv, ChainInv
  <2>2. ASSUME NEW k \in 1..(L + 1), k + 1 <= L + 1
        PROVE  start'[k + 1] = Offset(k)' + 1
    <3>1. k \in 1..L /\ Offset(k)' = Offset(k)
      BY <2>2, <1>5, <1>9
    <3>2. CASE k + 1 <= L
      BY <3>1, <3>2, <1>2, <1>5, <1>7 DEF RecInv, ChainInv
    <3>3. CASE k = L
      BY <3>1, <3>3, <1>4, <1>5, <1>7
    <3> QED BY <3>2, <3>3, <3>1, <1>5
  <2>3. ASSUME NEW k \in 1..(L + 1), NEW l \in 1..(L + 1), k < l
        PROVE  Offset(k)' < start'[l]
    <3>1. k \in 1..L /\ Offset(k)' = Offset(k)
      BY <2>3, <1>5, <1>9
    <3>2. CASE l <= L
      <4>1. l \in 1..L /\ start'[l] = start[l]
        BY <3>2, <1>5, <1>7
      <4> QED BY <2>3, <3>1, <4>1, <1>2 DEF RecInv, ChainInv
    <3>3. CASE l = L + 1
      BY <3>1, <3>3, <1>5, <1>7, <1>10
    <3> QED BY <3>2, <3>3, <1>5
  <2> QED BY <2>1, <2>2, <2>3, <1>7 DEF ChainInv
<1>15. EndInv' /\ DiskInv'
  <2>1. file' # <<>>
    BY <1>5, <1>6
  <2> QED BY <2>1, <1>1, <1>4, <1>5, <1>6, <1>7, <1>9 DEF EndInv, DiskInv
<1> QED BY <1>11, <1>12, <1>13, <1>14, <1>15 DEF RecInv

\* The faults of a tic get the lines after it.
LEMMA RecFail ==
    ASSUME RecInv, TrGetFail
    PROVE  RecInv'
<1>1. PICK b \in Batches :
         /\ file' = file \o [k \in 1..Len(b) |-> FaultLine(b[k])]
         /\ rec' = Append(rec, b)
  BY DEF TrGetFail
<1>2. /\ trpc = "get_fail" /\ trpc' = "tic"
      /\ UNCHANGED <<disk, trTicNum, start, kept>>
  BY DEF TrGetFail
<1>3. PICK L : L = Len(start)
  OBVIOUS
<1>4. PICK F : F = Len(file)
  OBVIOUS
<1>5. /\ TypeInv /\ HeaderInv /\ file # <<>> /\ L = Len(rec) + 1 /\ trTicNum = L /\ F >= H
      /\ F = IF L = 0 THEN H ELSE Offset(L)
  BY <1>2, <1>3, <1>4 DEF RecInv, EndInv, HeaderInv
<1>6. /\ L \in Nat /\ Len(rec) \in Nat /\ F \in Nat /\ H \in Nat /\ L \in 1..L
      /\ file \in Seq(Line) /\ start \in Seq(Nat) /\ rec \in Seq(Seq(Fault))
  BY <1>3, <1>4, <1>5, RecTypes DEF TypeInv
<1>7. b \in Seq(Fault) /\ Len(b) \in Nat /\ \A j \in 1..Len(b) : b[j] \in Fault
  BY RecordAssumption
<1>8. PICK t : t = [k \in 1..Len(b) |-> FaultLine(b[k])]
  OBVIOUS
<1>9. /\ file' \in Seq(Line) /\ Len(file') = F + Len(b)
      /\ \A k \in 1..F : file'[k] = file[k]
      /\ \A k \in 1..Len(b) : file'[F + k] = FaultLine(b[k])
  <2>1. \A k \in 1..Len(b) : FaultLine(b[k]) \in Line
    BY <1>7 DEF Line
  <2>2. t \in Seq(Line) /\ Len(t) = Len(b) /\ \A k \in 1..Len(b) : t[k] = FaultLine(b[k])
    BY <2>1, <1>7, <1>8
  <2>3. file' = file \o t
    BY <1>1, <1>8
  <2>4. /\ file \o t \in Seq(Line)
        /\ Len(file \o t) = Len(file) + Len(t)
        /\ \A k \in 1..Len(file) : (file \o t)[k] = file[k]
        /\ \A k \in 1..Len(t) : (file \o t)[Len(file) + k] = t[k]
    <3>1. file \in Seq(Line) /\ t \in Seq(Line)
      BY <2>2, <1>6
    <3> QED BY <3>1
  <2> QED BY <2>2, <2>3, <2>4, <1>4
<1>10. /\ rec' \in Seq(Seq(Fault)) /\ Len(rec') = L
       /\ \A k \in 1..Len(rec) : rec'[k] = rec[k]
       /\ rec'[L] = b
  <2>1. rec \in Seq(Seq(Fault)) /\ b \in Seq(Fault) /\ rec' = Append(rec, b)
    BY <1>1, <1>6, <1>7
  <2>2. L = Len(rec) + 1
    BY <1>5
  <2> QED BY <2>1, <2>2, AppendFacts
<1>11. /\ \A k \in 1..L : k # L => Recorded(k)' = Recorded(k)
       /\ Recorded(L) = <<>> /\ Recorded(L)' = b
  <2>1. Len(rec) \in Nat /\ L = Len(rec) + 1 /\ Len(rec') = L
    BY <1>5, <1>6, <1>10
  <2>2. ASSUME NEW k \in 1..L, k # L PROVE Recorded(k)' = Recorded(k)
    <3>1. k \in 1..Len(rec) /\ k <= Len(rec) /\ k <= Len(rec')
      BY <2>1, <2>2
    <3> QED BY <3>1, <1>10 DEF Recorded
  <2>3. Recorded(L) = <<>>
    BY <2>1 DEF Recorded
  <2>4. Recorded(L)' = b
    BY <2>1, <1>10 DEF Recorded
  <2> QED BY <2>2, <2>3, <2>4
<1>12. F = start[L]
  <2>1. L # 0 /\ start[L] \in Nat /\ F = Offset(L)
    BY <1>3, <1>5, <1>6, RecTypes
  <2>2. Offset(L) = start[L] + 0
    BY <1>11 DEF Offset
  <2> QED BY <2>1, <2>2
<1>13. /\ \A k \in 1..L : k # L => Offset(k)' = Offset(k)
       /\ Offset(L)' = F + Len(b)
  BY <1>2, <1>11, <1>12 DEF Offset
<1>14. \A k \in 1..L :
          /\ start[k] \in (H + 1)..F /\ file[start[k]] = TicLine(k - 1)
          /\ Offset(k) \in Nat /\ Offset(k) <= F /\ Len(Recorded(k)) \in Nat
          /\ start[k] + Len(Recorded(k)) <= F
          /\ \A j \in 1..Len(Recorded(k)) : file[start[k] + j] = FaultLine(Recorded(k)[j])
  <2> TAKE k \in 1..L
  <2>1. k \in 1..Len(start) /\ k \in Nat \ {0}
    BY <1>3, <1>6
  <2>2. Offset(k) \in Nat /\ Len(Recorded(k)) \in Nat
    BY <2>1, <1>5, RecTypes
  <2>3. /\ start[k] \in (H + 1)..Len(file) /\ file[start[k]] = TicLine(k - 1)
        /\ Offset(k) <= Len(file)
        /\ \A j \in 1..Len(Recorded(k)) : file[start[k] + j] = FaultLine(Recorded(k)[j])
    BY <2>1 DEF RecInv, BlockInv
  <2>4. start[k] + Len(Recorded(k)) <= F
    BY <2>3, <1>4 DEF Offset
  <2> QED BY <2>2, <2>3, <2>4, <1>4
<1>15. TypeInv'
  BY <1>2, <1>5, <1>6, <1>9, <1>10 DEF TypeInv
<1>16. HeaderInv'
  <2>1. Len(file') \in Nat /\ Len(file') >= Len(file)
    BY <1>4, <1>6, <1>7, <1>9
  <2> QED BY <2>1, <1>4, <1>5, <1>9, HeaderStays
<1>17. BlockInv'
  <2> SUFFICES ASSUME NEW k \in 1..L
               PROVE  /\ start[k] \in (H + 1)..(F + Len(b))
                      /\ file'[start[k]] = TicLine(k - 1)
                      /\ Offset(k)' <= F + Len(b)
                      /\ \A j \in 1..Len(Recorded(k)') :
                            file'[start[k] + j] = FaultLine(Recorded(k)'[j])
    BY <1>2, <1>3, <1>9 DEF BlockInv
  <2>1. /\ start[k] \in (H + 1)..F /\ file[start[k]] = TicLine(k - 1)
        /\ Offset(k) \in Nat /\ Offset(k) <= F /\ Len(Recorded(k)) \in Nat
        /\ start[k] + Len(Recorded(k)) <= F
    BY <1>14
  <2>2. start[k] \in (H + 1)..(F + Len(b)) /\ start[k] \in 1..F
    <3>1. H \in Nat /\ F \in Nat /\ Len(b) \in Nat
      BY <1>6, <1>7
    <3>2. PICK s \in (H + 1)..F : s = start[k]
      BY <2>1
    <3>3. s \in (H + 1)..(F + Len(b)) /\ s \in 1..F
      BY <3>1
    <3> QED BY <3>2, <3>3
  <2>3. file'[start[k]] = TicLine(k - 1)
    BY <2>1, <2>2, <1>9
  <2>4. CASE k # L
    <3>1. Offset(k)' = Offset(k) /\ Recorded(k)' = Recorded(k)
      BY <2>4, <1>11, <1>13
    <3>2. ASSUME NEW j \in 1..Len(Recorded(k))
          PROVE  file'[start[k] + j] = FaultLine(Recorded(k)[j])
      <4>1. start[k] + j \in 1..F
        <5>1. PICK s \in Nat : s = start[k]
          BY <2>1, <1>6
        <5>2. PICK r \in Nat : r = Len(Recorded(k))
          BY <2>1
        <5>3. s + r <= F /\ j \in 1..r
          BY <2>1, <5>1, <5>2
        <5>4. s + j \in 1..F
          BY <5>3, <1>6
        <5> QED BY <5>1, <5>4
      <4> QED BY <4>1, <1>9, <1>14
    <3>3. Offset(k) <= F + Len(b)
      BY <2>1, <1>6, <1>7
    <3> QED BY <2>2, <2>3, <3>1, <3>2, <3>3
  <2>5. CASE k = L
    <3>1. Offset(k)' = F + Len(b) /\ Recorded(k)' = b /\ start[k] = F
      BY <2>5, <1>11, <1>12, <1>13
    <3>2. F + Len(b) <= F + Len(b)
      BY <1>6, <1>7
    <3> QED BY <2>2, <2>3, <3>1, <3>2, <1>9
  <2> QED BY <2>4, <2>5
<1>18. ChainInv'
  <2>1. Len(start) > 0 => start[1] = H + 1
    BY DEF RecInv, ChainInv
  <2>2. ASSUME NEW k \in 1..L, k + 1 <= L PROVE start[k + 1] = Offset(k)' + 1
    <3>1. Offset(k)' = Offset(k)
      BY <2>2, <1>6, <1>13
    <3> QED BY <2>2, <3>1, <1>3 DEF RecInv, ChainInv
  <2>3. ASSUME NEW k \in 1..L, NEW l \in 1..L, k < l PROVE Offset(k)' < start[l]
    <3>1. Offset(k)' = Offset(k)
      BY <2>3, <1>6, <1>13
    <3> QED BY <2>3, <3>1, <1>3 DEF RecInv, ChainInv
  <2> QED BY <2>1, <2>2, <2>3, <1>2, <1>3 DEF ChainInv
<1>19. EndInv' /\ DiskInv'
  <2>1. file' # <<>>
    <3>1. F >= 1
      BY <1>5, <1>6, RecTypes
    <3>2. Len(file') >= 1
      BY <3>1, <1>6, <1>7, <1>9
    <3> QED BY <3>2
  <2>2. Len(file') = Offset(L)' /\ L # 0
    BY <1>6, <1>9, <1>13
  <2> QED BY <2>1, <2>2, <1>2, <1>3, <1>5, <1>6, <1>10 DEF EndInv, DiskInv
<1> QED BY <1>15, <1>16, <1>17, <1>18, <1>19 DEF RecInv

\* The first n lines of a file.
LEMMA FirstLines ==
    ASSUME NEW S, NEW s \in Seq(S), NEW n \in 0..Len(s)
    PROVE  /\ SubSeq(s, 1, n) \in Seq(S) /\ Len(SubSeq(s, 1, n)) = n
           /\ \A i \in 1..n : SubSeq(s, 1, n)[i] = s[i]
  OBVIOUS

\* The end of the recording, orderly or by a crash, leaves a prefix of the
\* file and perhaps a part of one line.
LEMMA RecEnds ==
    ASSUME RecInv, TrCleanup \/ TrCrash
    PROVE  RecInv'
<1>1. trpc' = "ended" /\ UNCHANGED <<file, trTicNum, rec, start>>
  BY DEF TrCleanup, TrCrash
<1>2. file \in Seq(Line) /\ Len(file) \in Nat
  BY RecTypes DEF RecInv, TypeInv
<1>3. TypeInv' /\ HeaderInv' /\ BlockInv' /\ ChainInv' /\ EndInv'
  BY <1>1 DEF RecInv, TypeInv, HeaderInv, BlockInv, ChainInv, EndInv, Offset, Recorded
<1>4. DiskInv'
  <2>1. CASE TrCleanup
    <3>1. disk' = file /\ kept' = Len(file)
      BY <2>1 DEF TrCleanup
    <3> QED BY <3>1, <1>1, <1>2 DEF DiskInv
  <2>2. CASE TrCrash
    <3>1. PICK m \in 0..Len(file) :
             /\ kept' = m
             /\ \/ disk' = SubSeq(file, 1, m)
                \/ /\ m < Len(file)
                   /\ \E l \in Cut(file[m + 1]) : disk' = Append(SubSeq(file, 1, m), l)
      BY <2>2 DEF TrCrash
    <3>2. PICK s : s = SubSeq(file, 1, m)
      OBVIOUS
    <3>3. s \in Seq(Line) /\ Len(s) = m /\ \A i \in 1..m : s[i] = file[i]
      BY <1>2, <3>2, FirstLines
    <3>4. CASE disk' = s
      BY <1>1, <1>2, <3>1, <3>3, <3>4 DEF DiskInv
    <3>5. CASE m < Len(file) /\ \E l \in Cut(file[m + 1]) : disk' = Append(s, l)
      <4>1. PICK l \in Cut(file[m + 1]) : disk' = Append(s, l)
        BY <3>5
      <4>2. PICK T : T = Line \cup {l}
        OBVIOUS
      <4>3. s \in Seq(T) /\ l \in T
        BY <3>3, <4>2
      <4>4. /\ Len(disk') = m + 1 /\ disk'[m + 1] = l
            /\ \A i \in 1..m : disk'[i] = s[i]
        BY <3>3, <4>1, <4>3, AppendFacts
      <4> QED BY <1>1, <1>2, <3>1, <3>3, <3>5, <4>4 DEF DiskInv
    <3> QED BY <3>1, <3>2, <3>4, <3>5
  <2> QED BY <2>1, <2>2
<1> QED BY <1>3, <1>4 DEF RecInv

\* The recorder's invariant is kept by every step.
LEMMA RecStep ==
    ASSUME RecInv, [Next]_vars
    PROVE  RecInv'
<1>1. CASE Record /\ TrGetNodesFails
  BY <1>1 DEF TrGetNodesFails, RecInv, TypeInv, HeaderInv, BlockInv, ChainInv, EndInv,
     DiskInv, Offset, Recorded
<1>2. CASE Replaying \/ UNCHANGED vars
  <2>1. UNCHANGED trVars /\ disk' = disk
    BY <1>2 DEF Replaying, vars, RpNext, RpGetNodes, RpGetNodesFails, RpTic, RpReadTic,
       RpReadFault, RpReadOther, RpReadEOF, RpTicReturns, RpGetFail
  <2> QED BY <2>1 DEF trVars, RecInv, TypeInv, HeaderInv, BlockInv, ChainInv, EndInv,
             DiskInv, Offset, Recorded
<1> QED BY <1>1, <1>2, RecHeader, RecTic, RecFail, RecEnds DEF Next, Record, Stopped, TrNext

-----------------------------------------------------------------------------
(* A line whose end is missing.                                            *)

\* A prefix of the digits of a number is closer to 0, and never 0.
LEMMA PrefixFacts ==
    ASSUME NEW t \in Int, NEW s \in Prefixes(t)
    PROVE  /\ s \in Int
           /\ t >= 0 => 0 < s /\ s <= t
           /\ t < 0 => s < 0 /\ t <= s
<1>1. PICK a \in Nat : a = IF t < 0 THEN -t ELSE t
  OBVIOUS
<1>2. PICK p \in Powers : \/ t < 0 /\ s = -(a \div p) /\ a \div p # 0
                          \/ t >= 0 /\ s = a \div p /\ a \div p # 0
  BY <1>1 DEF Prefixes
<1>3. a \div p \in Nat /\ a \div p <= a
  BY <1>1 DEF Powers
<1> QED BY <1>1, <1>2, <1>3

\* What is left of a fault is junk, or the fault with another severity that
\* is 0 if and only if the one that was written is.
LEMMA CutOfFault ==
    ASSUME NEW f \in Fault, NEW l \in Cut(FaultLine(f))
    PROVE  /\ l.kind \in {"fault", "junk"}
           /\ l.kind = "fault" =>
                 /\ ParseFault(l) \in Fault
                 /\ ParseFault(l).node = f.node /\ ParseFault(l).component = f.component
                 /\ ParseFault(l).severity = 0 <=> f.severity = 0
<1>1. PICK t : t = SevText(f.severity)
  OBVIOUS
<1>2. /\ f.severity \in 0..(UMod - 1) /\ f.component \in Comp \cup {NULL} /\ f.node \in Node
      /\ UMod \in Nat \ {0}
  BY UModAssumption DEF Fault
<1>3. ParseComp(CompText(f.component)) = f.component
  BY <1>2, NameAssumption DEF ParseComp, CompText
<1>4. CASE l = Junk
  BY <1>4 DEF Junk
<1>5. CASE l = FaultLine(f)
  <2>1. l.kind = "fault" /\ ParseFault(l) = f
    BY <1>5, FaultRoundTrip DEF FaultLine
  <2> QED BY <2>1
<1>6. CASE l \in {[FaultLine(f) EXCEPT !.sev = s] : s \in Prefixes(t)}
  <2>1. PICK s \in Prefixes(t) : l = [FaultLine(f) EXCEPT !.sev = s]
    BY <1>6
  <2>2. /\ l.kind = "fault" /\ l.node = f.node /\ l.comp = CompText(f.component)
        /\ l.sev = s
    BY <2>1 DEF FaultLine
  <2>3. t \in Int /\ (t >= 0 => t < UMod /\ f.severity = t)
        /\ (t < 0 => -UMod < t /\ f.severity = t + UMod)
    BY <1>1, <1>2 DEF SevText
  <2>4. s \in Int /\ (t >= 0 => 0 < s /\ s <= t) /\ (t < 0 => s < 0 /\ t <= s)
    BY <2>3, PrefixFacts
  <2>5. s % UMod \in 0..(UMod - 1) /\ s % UMod # 0 /\ f.severity # 0
    <3>1. CASE t >= 0
      <4>1. s \in 1..(UMod - 1) /\ f.severity # 0
        BY <3>1, <2>3, <2>4, <1>2
      <4>2. s % UMod = s
        BY <4>1, <1>2
      <4> QED BY <4>1, <4>2, <1>2
    <3>2. CASE t < 0
      <4>1. PICK u \in Int : u = s + UMod
        BY <2>4, <1>2
      <4>2. u \in 1..(UMod - 1) /\ s = u - UMod /\ f.severity # 0
        BY <3>2, <4>1, <2>3, <2>4, <1>2
      <4>3. (u - UMod) % UMod = u
        BY <4>2, <1>2
      <4> QED BY <4>2, <4>3, <1>2
    <3> QED BY <3>1, <3>2, <2>3
  <2>6. ParseFault(l) = [node |-> f.node, component |-> f.component, severity |-> s % UMod]
    BY <2>2, <1>3 DEF ParseFault, ParseSev
  <2> QED BY <2>2, <2>5, <2>6, <1>2 DEF Fault
<1>7. Cut(FaultLine(f)) = {FaultLine(f), Junk}
                          \cup {[FaultLine(f) EXCEPT !.sev = s] : s \in Prefixes(t)}
  <2>1. FaultLine(f).kind = "fault" /\ FaultLine(f).sev = t
    BY <1>1 DEF FaultLine
  <2> QED BY <2>1 DEF Cut
<1> QED BY <1>4, <1>5, <1>6, <1>7

\* What is left of the line of a tic is no fault.
LEMMA CutOfTic ==
    ASSUME NEW n \in Nat, NEW l \in Cut(TicLine(n))
    PROVE  l.kind \in {"tic", "junk", "stub", "nonum"}
<1>1. TicLine(n).kind = "tic" /\ TicLine(n).num = n
  BY DEF TicLine
<1>2. Cut(TicLine(n)) = {TicLine(n), Junk}
                        \cup {TicStub, TicNoNum} \cup {TicLine(m) : m \in Prefixes(n)}
  BY <1>1 DEF Cut
<1> QED BY <1>2 DEF TicLine, Junk, TicStub, TicNoNum

\* What is left of the line of a node names the same node, or is none.
LEMMA CutOfNode ==
    ASSUME NEW d \in NodeDesc, NEW l \in Cut(NodeLine(d)), l.kind = "node"
    PROVE  l.desc.name = d.name
<1>1. NodeLine(d).kind = "node" /\ NodeLine(d).desc = d
  BY DEF NodeLine
<1>2. Cut(NodeLine(d)) = {NodeLine(d), Junk} \cup {NodeLine(e) : e \in CutDescs(d)}
  BY <1>1 DEF Cut
<1>3. CASE l = NodeLine(d)
  BY <1>1, <1>3
<1>4. CASE l \in {NodeLine(e) : e \in CutDescs(d)}
  <2>1. PICK e \in CutDescs(d) : l = NodeLine(e)
    BY <1>4
  <2>2. e.name = d.name
    BY DEF CutDescs, NodeDesc
  <2>3. l.desc = e
    BY <2>1 DEF NodeLine
  <2> QED BY <2>2, <2>3
<1>5. l # Junk
  BY DEF Junk
<1> QED BY <1>2, <1>3, <1>4, <1>5

\* What is left of the number of nodes is that number, or not 0.
LEMMA CutOfCount ==
    ASSUME NEW n \in Nat, NEW l \in Cut(CountLine(n)), l.kind = "count"
    PROVE  l.num \in Nat /\ (l.num = n \/ l.num > 0)
<1>1. CountLine(n).kind = "count" /\ CountLine(n).num = n
  BY DEF CountLine
<1>2. Cut(CountLine(n)) = {CountLine(n), Junk} \cup {CountLine(m) : m \in Prefixes(n)}
  BY <1>1 DEF Cut
<1>3. CASE l = CountLine(n)
  BY <1>1, <1>3
<1>4. CASE l \in {CountLine(m) : m \in Prefixes(n)}
  <2>1. PICK m \in Prefixes(n) : l = CountLine(m)
    BY <1>4
  <2>2. m \in Int /\ m > 0
    BY PrefixFacts
  <2>3. l.num = m
    BY <2>1 DEF CountLine
  <2> QED BY <2>2, <2>3
<1>5. l # Junk
  BY DEF Junk
<1> QED BY <1>2, <1>3, <1>4, <1>5

-----------------------------------------------------------------------------
(* The replay.                                                             *)

\* The next tic of the server is the c-th of the transcript, counted from 0,
\* whose line survived and is the last one read.
Ready(c) ==
    /\ ~done /\ rpTicNum = c /\ nxtTic = c
    /\ c < Len(start) /\ start[c + 1] <= kept
    /\ pos = start[c + 1] + 1

\* Nothing is left to be read and no line of tic c or a later one survived,
\* whatever number a cut line was taken for.
Over(c) ==
    /\ pos > Len(disk)
    /\ c < Len(start) => start[c + 1] > kept

\* The loop of tic is among the faults of tic c.
InBlock(c) ==
    /\ ~done /\ rpTicNum = c + 1 /\ nxtTic = c
    /\ c < Len(start)
    /\ start[c + 1] + Len(faults) <= kept
    /\ Len(faults) <= Len(Recorded(c + 1))
    /\ pos = start[c + 1] + 1 + Len(faults)
    /\ \A j \in 1..Len(faults) : faults[j] = Recorded(c + 1)[j]

\* What Faithful says of the k-th tic, if it is given f.
Matches(k, f) ==
    \/ f = Expected(k)
    \/ /\ Len(f) = Len(Expected(k)) + 1
       /\ SubSeq(f, 1, Len(Expected(k))) = Expected(k)
       /\ IsCutOf(f[Len(f)], k)

\* Tic c has been read to its end.
HasRead(c) == Matches(c + 1, faults) /\ (Ready(c + 1) \/ Over(c + 1))

GivenInv == \A k \in 1..Len(given) : Matches(k, given[k])

PcInv ==
    /\ trpc # "ended" => rppc = "get_nodes"
    /\ rppc = "get_nodes" => RpInit
    /\ rppc = "failed" => given = <<>> /\ (kept < Len(file) \/ file = <<>>)
    /\ rppc = "tic" => Ready(Len(given)) \/ Over(Len(given))
    /\ rppc = "read" => InBlock(Len(given)) \/ HasRead(Len(given))
    /\ rppc = "get_fail" => HasRead(Len(given))
    /\ rppc \notin {"get_nodes", "failed"} =>
          /\ Len(rpNodes) = Len(Nodes)
          /\ \A k \in 1..Len(Nodes) : rpNodes[k].name = Nodes[k].name

RpTypeInv ==
    /\ pos \in Nat
    /\ done \in BOOLEAN
    /\ faults \in Seq(Fault) /\ given \in Seq(Seq(Fault))

ReplayInv == RpTypeInv /\ GivenInv /\ PcInv

IInv == RecInv /\ ReplayInv

\* What RecInv says of the file on disk once the recording has ended.
LEMMA DiskFacts ==
    ASSUME RecInv, trpc = "ended"
    PROVE  /\ Len(Nodes) \in Nat /\ H = Len(Nodes) + 1
           /\ Len(file) \in Nat /\ Len(start) \in Nat /\ Len(rec) \in Nat
           /\ Len(rec) <= Len(start)
           /\ kept \in Nat /\ kept <= Len(file)
           /\ Len(disk) \in Nat /\ Len(disk) \in {kept, kept + 1}
           /\ \A i \in 1..kept : disk[i] = file[i]
           /\ Len(disk) = kept + 1 => kept < Len(file) /\ disk[kept + 1] \in Cut(file[kept + 1])
<1>1. /\ TypeInv /\ Len(rec) <= Len(start)
      /\ kept \in 0..Len(file) /\ Len(disk) \in {kept, kept + 1}
      /\ \A i \in 1..kept : disk[i] = file[i]
      /\ Len(disk) = kept + 1 => kept < Len(file) /\ disk[kept + 1] \in Cut(file[kept + 1])
  BY DEF RecInv, DiskInv, EndInv
<1>2. /\ Len(Nodes) \in Nat /\ H = Len(Nodes) + 1
      /\ Len(file) \in Nat /\ Len(start) \in Nat /\ Len(rec) \in Nat
  BY <1>1, RecTypes DEF H
<1> QED BY <1>1, <1>2

\* What RecInv says of the k-th tic.
LEMMA TicFacts ==
    ASSUME RecInv, NEW k \in 1..Len(start)
    PROVE  /\ k \in Nat \ {0} /\ Len(start) \in Nat /\ Len(file) \in Nat
           /\ start[k] \in Nat /\ start[k] > H /\ start[k] <= Len(file)
           /\ file[start[k]] = TicLine(k - 1)
           /\ Recorded(k) \in Seq(Fault) /\ Len(Recorded(k)) \in Nat
           /\ start[k] + Len(Recorded(k)) <= Len(file)
           /\ \A j \in 1..Len(Recorded(k)) : file[start[k] + j] = FaultLine(Recorded(k)[j])
           /\ k + 1 <= Len(start) => start[k + 1] = start[k] + Len(Recorded(k)) + 1
           /\ k = Len(start) => Len(file) = start[k] + Len(Recorded(k))
<1>1. /\ TypeInv /\ start[k] \in (H + 1)..Len(file) /\ file[start[k]] = TicLine(k - 1)
      /\ start[k] + Len(Recorded(k)) <= Len(file)
      /\ \A j \in 1..Len(Recorded(k)) : file[start[k] + j] = FaultLine(Recorded(k)[j])
      /\ k + 1 <= Len(start) => start[k + 1] = start[k] + Len(Recorded(k)) + 1
  BY DEF RecInv, BlockInv, ChainInv, Offset
<1>2. /\ Len(start) \in Nat /\ H \in Nat /\ Len(file) \in Nat /\ start[k] \in Nat
  BY <1>1, RecTypes
<1>3. k \in Nat \ {0} /\ start # <<>>
  BY <1>2
<1>4. Recorded(k) \in Seq(Fault) /\ Len(Recorded(k)) \in Nat
  BY <1>1, <1>3, RecTypes
<1>5. k = Len(start) => Len(file) = start[k] + Len(Recorded(k))
  BY <1>2, <1>3 DEF RecInv, EndInv, Offset
<1> QED BY <1>1, <1>2, <1>3, <1>4, <1>5

\* How much of a tic is expected: nothing if its line is lost, ...
LEMMA ExpectedLost ==
    ASSUME RecInv, trpc = "ended", NEW k \in Nat \ {0},
           k <= Len(start) => start[k] > kept
    PROVE  Expected(k) = <<>> /\ \A f : ~IsCutOf(f, k)
<1>1. CASE k <= Len(rec)
  <2>1. k \in 1..Len(start) /\ kept \in Nat /\ rec[k] = Recorded(k)
    BY <1>1, DiskFacts DEF Recorded
  <2>2. /\ start[k] \in Nat /\ start[k] > kept
        /\ rec[k] \in Seq(Fault)
    BY <2>1, TicFacts
  <2>3. kept - start[k] <= 0 /\ ~(kept >= start[k])
    BY <2>1, <2>2
  <2>4. Survived(k) = 0
    BY <2>3 DEF Survived
  <2>5. SubSeq(rec[k], 1, 0) = <<>>
    BY <2>2
  <2> QED BY <1>1, <2>3, <2>4, <2>5 DEF Expected, IsCutOf
<1>2. CASE ~(k <= Len(rec))
  BY <1>2 DEF Expected, IsCutOf
<1> QED BY <1>1, <1>2

\* ... all if its last line survived, ...
LEMMA ExpectedWhole ==
    ASSUME RecInv, trpc = "ended", NEW k \in 1..Len(start), start[k] + Len(Recorded(k)) <= kept
    PROVE  Expected(k) = Recorded(k)
<1>1. CASE k <= Len(rec)
  <2>1. rec[k] = Recorded(k) /\ kept \in Nat
    BY <1>1, DiskFacts DEF Recorded
  <2>2. start[k] \in Nat /\ rec[k] \in Seq(Fault) /\ Len(rec[k]) \in Nat
    BY <2>1, TicFacts
  <2>3. start[k] + Len(rec[k]) <= kept
    BY <2>1
  <2>4. kept - start[k] \in Int /\ kept - start[k] >= Len(rec[k])
    BY <2>1, <2>2, <2>3
  <2>5. Survived(k) = Len(rec[k])
    BY <2>2, <2>4 DEF Survived
  <2>6. SubSeq(rec[k], 1, Len(rec[k])) = rec[k]
    BY <2>2
  <2> QED BY <1>1, <2>1, <2>5, <2>6 DEF Expected
<1>2. CASE ~(k <= Len(rec))
  BY <1>2 DEF Expected, Recorded
<1> QED BY <1>1, <1>2

\* ... and otherwise the faults up to the line that is the last one.
LEMMA ExpectedPart ==
    ASSUME RecInv, trpc = "ended", NEW k \in 1..Len(start), NEW n \in Nat,
           kept = start[k] + n, n < Len(Recorded(k))
    PROVE  /\ k <= Len(rec) /\ rec[k] = Recorded(k) /\ Survived(k) = n
           /\ Expected(k) = SubSeq(Recorded(k), 1, n)
<1>1. start[k] \in Nat /\ Len(Recorded(k)) \in Nat
  BY TicFacts
<1>2. k <= Len(rec) /\ rec[k] = Recorded(k)
  <2>1. Len(Recorded(k)) # 0
    BY <1>1
  <2> QED BY <2>1 DEF Recorded
<1>3. kept - start[k] = n
  BY <1>1
<1>4. Survived(k) = n
  BY <1>1, <1>2, <1>3 DEF Survived
<1> QED BY <1>2, <1>4 DEF Expected

\* What has been read of a tic when nothing more of it can be read.
LEMMA PrefixRead ==
    ASSUME NEW r \in Seq(Fault), NEW f \in Seq(Fault), Len(f) <= Len(r),
           \A j \in 1..Len(f) : f[j] = r[j]
    PROVE  f = SubSeq(r, 1, Len(f)) /\ (Len(f) = Len(r) => f = r)
<1>1. Len(f) \in Nat /\ Len(r) \in Nat /\ Len(f) \in 0..Len(r)
  OBVIOUS
<1>2. PICK s : s = SubSeq(r, 1, Len(f))
  OBVIOUS
<1>3. s \in Seq(Fault) /\ Len(s) = Len(f) /\ \A j \in 1..Len(f) : s[j] = r[j]
  BY <1>1, <1>2, FirstLines
<1>4. f = s
  BY <1>1, <1>3, SameSequence
<1>5. Len(f) = Len(r) => f = r
  BY <1>1, SameSequence
<1> QED BY <1>2, <1>4, <1>5

\* Among the faults of tic c: the line to read is its next fault, the next
\* tic, or the first one that did not survive as it was.
AtFault(c) ==
    /\ pos <= kept /\ Len(faults) < Len(Recorded(c + 1))
    /\ disk[pos] = FaultLine(Recorded(c + 1)[Len(faults) + 1])
    /\ Recorded(c + 1)[Len(faults) + 1] \in Fault

AtTic(c) ==
    /\ pos <= kept /\ c + 1 < Len(start) /\ pos = start[c + 2]
    /\ disk[pos] = TicLine(c + 1)
    /\ faults = Expected(c + 1)

AtEnd(c) ==
    /\ pos = kept + 1
    /\ faults = Expected(c + 1)
    /\ c + 1 < Len(start) => start[c + 2] > kept
    /\ pos <= Len(disk) /\ disk[pos].kind = "fault" =>
          /\ ParseFault(disk[pos]) \in Fault
          /\ IsCutOf(ParseFault(disk[pos]), c + 1)

LEMMA BlockLine ==
    ASSUME RecInv, RpTypeInv, trpc = "ended", NEW c \in Nat, InBlock(c)
    PROVE  AtFault(c) \/ AtTic(c) \/ AtEnd(c)
<1>1. /\ Len(start) \in Nat /\ Len(file) \in Nat /\ kept \in Nat /\ kept <= Len(file)
      /\ Len(disk) \in Nat /\ Len(disk) \in {kept, kept + 1}
      /\ \A i \in 1..kept : disk[i] = file[i]
      /\ Len(disk) = kept + 1 => kept < Len(file) /\ disk[kept + 1] \in Cut(file[kept + 1])
  BY DiskFacts
<1>2. c + 1 \in 1..Len(start)
  BY <1>1 DEF InBlock
<1>3. PICK s \in Nat : s = start[c + 1]
  BY <1>2, TicFacts
<1>4. PICK r \in Seq(Fault) : r = Recorded(c + 1)
  BY <1>2, TicFacts
<1>5. PICK n \in Nat : n = Len(faults)
  BY DEF RpTypeInv
<1>6. /\ faults \in Seq(Fault) /\ s + n <= kept /\ n <= Len(r) /\ pos = s + 1 + n
      /\ \A j \in 1..n : faults[j] = r[j]
  BY <1>3, <1>4, <1>5 DEF InBlock, RpTypeInv
<1>7. /\ Len(r) \in Nat /\ s + Len(r) <= Len(file)
      /\ \A j \in 1..Len(r) : file[s + j] = FaultLine(r[j])
      /\ c + 1 < Len(start) => start[c + 2] = s + Len(r) + 1
      /\ c + 1 = Len(start) => Len(file) = s + Len(r)
  <2>1. c + 1 + 1 = c + 2 /\ (c + 1 < Len(start) => c + 1 + 1 <= Len(start))
    BY <1>1
  <2> QED BY <2>1, <1>2, <1>3, <1>4, TicFacts
<1>8. c + 1 < Len(start) => file[start[c + 2]] = TicLine(c + 1)
  <2>1. SUFFICES ASSUME c + 1 < Len(start) PROVE file[start[c + 2]] = TicLine(c + 1)
    OBVIOUS
  <2>2. c + 2 \in 1..Len(start) /\ (c + 2) - 1 = c + 1
    BY <2>1, <1>1
  <2> QED BY <2>2, TicFacts
<1>9. faults = SubSeq(r, 1, n) /\ (n = Len(r) => faults = r)
  BY <1>4, <1>5, <1>6, PrefixRead
<1>10. n < Len(r) =>
          /\ r[n + 1] \in Fault
          /\ file[pos] = FaultLine(r[n + 1])
  <2>1. SUFFICES ASSUME n < Len(r)
                 PROVE  r[n + 1] \in Fault /\ file[pos] = FaultLine(r[n + 1])
    OBVIOUS
  <2>2. n + 1 \in 1..Len(r) /\ pos = s + (n + 1)
    BY <2>1, <1>6, <1>7
  <2> QED BY <2>2, <1>7
<1>11. n = Len(r) /\ pos <= Len(file) => c + 1 < Len(start) /\ pos = start[c + 2]
  <2>1. SUFFICES ASSUME n = Len(r), pos <= Len(file)
                 PROVE  c + 1 < Len(start) /\ pos = start[c + 2]
    OBVIOUS
  <2>2. pos = s + Len(r) + 1
    BY <2>1, <1>6, <1>7
  <2>3. c + 1 # Len(start)
    BY <2>1, <2>2, <1>1, <1>7
  <2>4. c + 1 < Len(start)
    BY <2>3, <1>1, <1>2
  <2> QED BY <2>2, <2>4, <1>7
<1>12. CASE pos <= kept
  <2>1. pos \in 1..kept /\ pos <= Len(file)
    BY <1>1, <1>6, <1>12
  <2>2. disk[pos] = file[pos]
    BY <1>1, <2>1
  <2>3. CASE n < Len(r)
    BY <1>4, <1>5, <1>10, <1>12, <2>2, <2>3 DEF AtFault
  <2>4. CASE n = Len(r)
    <3>1. c + 1 < Len(start) /\ pos = start[c + 2]
      BY <1>11, <2>1, <2>4
    <3>2. s + Len(r) <= kept
      BY <1>1, <1>6, <1>7, <1>12, <2>4
    <3>3. Expected(c + 1) = r
      BY <1>2, <1>3, <1>4, <3>2, ExpectedWhole
    <3> QED BY <1>8, <1>9, <1>12, <2>2, <2>4, <3>1, <3>3 DEF AtTic
  <2> QED BY <1>6, <1>7, <2>3, <2>4
<1>13. CASE ~(pos <= kept)
  <2>1. pos = kept + 1 /\ kept = s + n
    <3>1. kept \in Nat /\ s + n <= kept /\ pos = s + 1 + n
      BY <1>1, <1>6
    <3>2. PICK k \in Nat : k = kept
      BY <3>1
    <3>3. s + n <= k /\ ~(s + 1 + n <= k)
      BY <3>1, <3>2, <1>13
    <3>4. k = s + n
      BY <3>3
    <3> QED BY <3>1, <3>2, <3>4
  <2>2. c + 1 < Len(start) => start[c + 2] > kept
    BY <1>1, <1>6, <1>7, <2>1
  <2>3. CASE n < Len(r)
    <3>1. /\ c + 1 <= Len(rec) /\ rec[c + 1] = r /\ Survived(c + 1) = n
          /\ Expected(c + 1) = SubSeq(r, 1, n)
      BY <1>2, <1>3, <1>4, <2>1, <2>3, ExpectedPart
    <3>2. ASSUME pos <= Len(disk), disk[pos].kind = "fault"
          PROVE  /\ ParseFault(disk[pos]) \in Fault
                 /\ IsCutOf(ParseFault(disk[pos]), c + 1)
      <4>1. Len(disk) = kept + 1 /\ disk[pos] \in Cut(FaultLine(r[n + 1])) /\ r[n + 1] \in Fault
        BY <1>1, <1>10, <2>1, <2>3, <3>2
      <4>2. /\ ParseFault(disk[pos]) \in Fault
            /\ ParseFault(disk[pos]).node = r[n + 1].node
            /\ ParseFault(disk[pos]).component = r[n + 1].component
            /\ ParseFault(disk[pos]).severity = 0 <=> r[n + 1].severity = 0
        BY <3>2, <4>1, CutOfFault
      <4>3. kept >= start[c + 1]
        BY <1>3, <2>1
      <4> QED BY <2>3, <3>1, <4>1, <4>2, <4>3 DEF IsCutOf
    <3> QED BY <1>9, <2>1, <2>2, <3>1, <3>2 DEF AtEnd
  <2>4. CASE n = Len(r)
    <3>1. Expected(c + 1) = r
      <4>1. s + Len(r) <= kept
        BY <1>1, <2>1, <2>4
      <4> QED BY <1>2, <1>3, <1>4, <4>1, ExpectedWhole
    <3>2. ~(pos <= Len(disk) /\ disk[pos].kind = "fault")
      <4>1. SUFFICES ASSUME pos <= Len(disk) PROVE disk[pos].kind # "fault"
        OBVIOUS
      <4>2. Len(disk) = kept + 1 /\ kept < Len(file) /\ disk[pos] \in Cut(file[pos])
        BY <1>1, <2>1, <4>1
      <4>3. pos <= Len(file)
        BY <1>1, <2>1, <4>2
      <4>4. file[pos] = TicLine(c + 1)
        BY <1>8, <1>11, <2>4, <4>3
      <4>5. disk[pos].kind \in {"tic", "junk", "stub", "nonum"}
        BY <4>2, <4>4, CutOfTic
      <4> QED BY <4>5
    <3> QED BY <1>9, <2>1, <2>2, <2>4, <3>1, <3>2 DEF AtEnd
  <2> QED BY <1>6, <1>7, <2>3, <2>4
<1> QED BY <1>12, <1>13

\* What a tic was given, or has read, depends on the recording only.
LEMMA MatchStays ==
    ASSUME UNCHANGED <<trVars, disk>>
    PROVE  /\ \A k : Matches(k, faults') => Matches(k, faults)'
           /\ \A k : Matches(k, given'[k]) => Matches(k, given[k])'
<1>1. UNCHANGED <<disk, rec, start, kept>>
  BY DEF trVars
<1>2. /\ \A k : Expected(k)' = Expected(k)
      /\ \A f, k : IsCutOf(f, k)' <=> IsCutOf(f, k)
  BY <1>1 DEF Expected, Survived, IsCutOf
<1> QED BY <1>2 DEF Matches

\* Nothing is expected of a tic whose line is lost, and of no later one.
LEMMA OverFacts ==
    ASSUME RecInv, trpc = "ended", NEW c \in Nat, Over(c)
    PROVE  Matches(c + 1, <<>>) /\ Over(c + 1)
<1>1. Expected(c + 1) = <<>>
  <2>1. c + 1 <= Len(start) => start[c + 1] > kept
    BY DiskFacts DEF Over
  <2> QED BY <2>1, ExpectedLost
<1>2. c + 1 < Len(start) => start[c + 2] > kept
  <2>1. SUFFICES ASSUME c + 1 < Len(start) PROVE start[c + 2] > kept
    OBVIOUS
  <2>2. c + 1 \in 1..Len(start) /\ c < Len(start) /\ c + 1 + 1 = c + 2
        /\ c + 1 + 1 <= Len(start) /\ kept \in Nat
    BY <2>1, DiskFacts
  <2>3. /\ start[c + 2] = start[c + 1] + Len(Recorded(c + 1)) + 1
        /\ start[c + 1] \in Nat /\ Len(Recorded(c + 1)) \in Nat
    BY <2>2, TicFacts
  <2>4. start[c + 1] > kept
    BY <2>2 DEF Over
  <2> QED BY <2>2, <2>3, <2>4
<1>3. c + 1 + 1 = c + 2
  OBVIOUS
<1> QED BY <1>1, <1>2, <1>3 DEF Matches, Over

\* The header is read as it was written, or the server does not start.
LEMMA ReplayHeader ==
    ASSUME RecInv, ReplayInv, trpc = "ended", RpGetNodes, UNCHANGED trVars
    PROVE  ReplayInv'
<1>1. PICK n \in Nat : n = Len(Nodes)
  BY DiskFacts
<1>2. /\ Len(file) \in Nat /\ kept \in Nat /\ kept <= Len(file) /\ H = n + 1
      /\ Len(disk) \in Nat /\ Len(disk) \in {kept, kept + 1} /\ Len(start) \in Nat
      /\ \A i \in 1..kept : disk[i] = file[i]
      /\ Len(disk) = kept + 1 => kept < Len(file) /\ disk[kept + 1] \in Cut(file[kept + 1])
  BY <1>1, DiskFacts
<1>3. /\ Len(disk) > 0 /\ disk[1].kind = "count" /\ Len(disk) >= disk[1].num + 1
      /\ \A k \in 1..disk[1].num : disk[k + 1].kind = "node"
      /\ rppc = "get_nodes" /\ RpInit
  BY DEF RpGetNodes, HeaderReadable, ReplayInv, PcInv
<1>4. /\ file # <<>> /\ Len(file) >= n + 1 /\ file[1] = CountLine(n)
      /\ \A k \in 1..n : file[k + 1] = NodeLine(Nodes[k])
  <2>1. file # <<>>
    BY <1>2, <1>3
  <2> QED BY <2>1, <1>1, <1>2 DEF RecInv, HeaderInv
<1>5. disk[1].num = n /\ Len(disk) >= n + 1
  <2>1. CASE kept = 0
    <3>1. Len(disk) = 1 /\ disk[1] \in Cut(CountLine(n))
      BY <2>1, <1>2, <1>3, <1>4
    <3>2. disk[1].num \in Nat /\ (disk[1].num = n \/ disk[1].num > 0)
      BY <3>1, <1>3, CutOfCount
    <3> QED BY <3>1, <3>2, <1>3
  <2>2. CASE kept # 0
    <3>1. disk[1] = CountLine(n)
      BY <2>2, <1>2, <1>4
    <3>2. disk[1].num = n
      BY <3>1 DEF CountLine
    <3> QED BY <3>2, <1>3
  <2> QED BY <2>1, <2>2
<1>6. \A k \in 1..n : disk[k + 1].desc.name = Nodes[k].name
  <2> TAKE k \in 1..n
  <2>1. file[k + 1] = NodeLine(Nodes[k]) /\ Nodes[k] \in NodeDesc
    BY <1>1, <1>4, RecordAssumption
  <2>2. CASE k + 1 <= kept
    <3>1. disk[k + 1] = NodeLine(Nodes[k])
      BY <2>1, <2>2, <1>2
    <3>2. disk[k + 1].desc = Nodes[k]
      BY <3>1 DEF NodeLine
    <3> QED BY <3>2
  <2>3. CASE ~(k + 1 <= kept)
    <3>1. k = kept /\ Len(disk) = kept + 1
      BY <2>3, <1>2, <1>5
    <3>2. disk[k + 1] \in Cut(NodeLine(Nodes[k])) /\ disk[k + 1].kind = "node"
      BY <3>1, <2>1, <1>2, <1>3, <1>5
    <3> QED BY <3>2, <2>1, CutOfNode
  <2> QED BY <2>2, <2>3
<1>7. /\ rpNodes' = [k \in 1..n |-> disk[k + 1].desc] /\ rppc' = "tic"
      /\ UNCHANGED <<disk, rpTicNum, done, faults, given>>
      /\ IF Len(disk) < n + 2
         THEN nxtTic' = nxtTic /\ pos' = n + 2
         ELSE /\ pos' = n + 3
              /\ IF disk[n + 2].kind \in {"tic", "stub", "nonum"}
                 THEN nxtTic' \in TicNums(disk[n + 2])
                 ELSE nxtTic' = nxtTic
  BY <1>5 DEF RpGetNodes
<1>8. UNCHANGED <<disk, trpc, rec, start, kept>>
  BY <1>7 DEF trVars
<1>9. given = <<>> /\ faults = <<>> /\ rpTicNum = 0 /\ nxtTic = 0 /\ done = FALSE
  BY <1>3 DEF RpInit
<1>10. Len(start) > 0 => start[1] = n + 2
  BY <1>2 DEF RecInv, ChainInv
<1>11. Ready(0)' \/ Over(0)'
  <2>1. CASE Len(disk) < n + 2
    <3>1. pos' = n + 2 /\ kept < n + 2
      BY <2>1, <1>2, <1>7
    <3>2. Over(0)'
      BY <2>1, <3>1, <1>2, <1>8, <1>10 DEF Over
    <3> QED BY <3>2
  <2>2. CASE Len(disk) >= n + 2 /\ kept < n + 2
    <3>1. pos' = n + 3 /\ pos' > Len(disk)
      BY <2>2, <1>2, <1>7
    <3>2. Over(0)'
      BY <2>2, <3>1, <1>2, <1>8, <1>10 DEF Over
    <3> QED BY <3>2
  <2>3. CASE Len(disk) >= n + 2 /\ kept >= n + 2
    <3>1. Len(start) # 0
      BY <2>3, <1>2, <1>4 DEF RecInv, EndInv
    <3>2. 1 \in 1..Len(start) /\ start[1] = n + 2
      BY <3>1, <1>2, <1>10
    <3>3. file[n + 2] = TicLine(0)
      <4>1. file[start[1]] = TicLine(1 - 1)
        BY <3>2, TicFacts
      <4> QED BY <4>1, <3>2
    <3>4. disk[n + 2] = TicLine(0)
      BY <2>3, <3>3, <1>2
    <3>5. nxtTic' = 0 /\ pos' = n + 3
      BY <2>3, <3>4, <1>2, <1>7 DEF TicLine, TicNums
    <3>6. Ready(0)'
      BY <2>3, <3>2, <3>5, <1>2, <1>7, <1>8, <1>9 DEF Ready
    <3> QED BY <3>6
  <2> QED BY <2>1, <2>2, <2>3, <1>2
<1>12. Len(given') = 0
  BY <1>7, <1>9
<1>13. RpTypeInv' /\ GivenInv'
  <2>1. pos' \in Nat
    BY <1>7
  <2> QED BY <2>1, <1>7, <1>12 DEF ReplayInv, RpTypeInv, GivenInv
<1>14. Len(rpNodes') = n /\ \A k \in 1..n : rpNodes'[k].name = Nodes[k].name
  BY <1>6, <1>7
<1>15. PcInv'
  BY <1>1, <1>7, <1>8, <1>11, <1>12, <1>14 DEF PcInv
<1> QED BY <1>13, <1>15 DEF ReplayInv

\* A transcript that is whole can be read.
LEMMA ReplayRefused ==
    ASSUME RecInv, ReplayInv, trpc = "ended", RpGetNodesFails, UNCHANGED trVars
    PROVE  ReplayInv'
<1>1. /\ rppc = "get_nodes" /\ RpInit /\ rppc' = "failed" /\ ~HeaderReadable
      /\ UNCHANGED <<disk, pos, rpTicNum, nxtTic, done, faults, rpNodes, given>>
  BY DEF RpGetNodesFails, ReplayInv, PcInv
<1>2. given = <<>> /\ UNCHANGED <<trpc, file, kept>>
  BY <1>1 DEF RpInit, trVars
<1>3. kept < Len(file) \/ file = <<>>
  <2>1. SUFFICES ASSUME ~(kept < Len(file)), file # <<>> PROVE HeaderReadable
    BY <1>1
  <2>2. PICK n \in Nat : n = Len(Nodes)
    BY DiskFacts
  <2>3. /\ kept = Len(file) /\ Len(disk) = Len(file) /\ Len(file) \in Nat
        /\ \A i \in 1..Len(file) : disk[i] = file[i]
    BY <2>1, DiskFacts
  <2>4. /\ Len(file) >= n + 1 /\ file[1] = CountLine(n)
        /\ \A k \in 1..n : file[k + 1] = NodeLine(Nodes[k])
    BY <2>1, <2>2, DiskFacts DEF RecInv, HeaderInv
  <2>5. disk[1] = CountLine(n)
    BY <2>3, <2>4
  <2>6. disk[1].kind = "count" /\ disk[1].num = n
    BY <2>5 DEF CountLine
  <2>7. ASSUME NEW k \in 1..n PROVE disk[k + 1].kind = "node"
    <3>1. disk[k + 1] = NodeLine(Nodes[k])
      BY <2>3, <2>4
    <3> QED BY <3>1 DEF NodeLine
  <2> QED BY <2>3, <2>4, <2>6, <2>7 DEF HeaderReadable
<1>4. Len(given') = 0
  BY <1>1, <1>2
<1>5. RpTypeInv' /\ GivenInv'
  BY <1>1, <1>4 DEF ReplayInv, RpTypeInv, GivenInv
<1>6. PcInv'
  BY <1>1, <1>2, <1>3 DEF PcInv
<1> QED BY <1>5, <1>6 DEF ReplayInv

\* The part of the invariant a step of tic leaves alone.
LEMMA ReplayFrame ==
    ASSUME RecInv, ReplayInv, trpc = "ended", UNCHANGED <<trVars, disk, rpNodes, given>>,
           rppc \notin {"get_nodes", "failed"}, RpTypeInv',
           \/ rppc' = "read" /\ (InBlock(Len(given)) \/ HasRead(Len(given)))'
           \/ rppc' = "get_fail" /\ HasRead(Len(given))'
    PROVE  ReplayInv'
<1>1. UNCHANGED <<trpc, given, rpNodes>>
  BY DEF trVars
<1>2. GivenInv'
  BY <1>1, MatchStays DEF ReplayInv, GivenInv
<1>3. PcInv'
  BY <1>1 DEF ReplayInv, PcInv
<1> QED BY <1>2, <1>3 DEF ReplayInv

\* tic starts with the next tic of the transcript, or has nothing to do.
LEMMA ReplayTic ==
    ASSUME RecInv, ReplayInv, trpc = "ended", RpTic, UNCHANGED trVars
    PROVE  ReplayInv'
<1>1. /\ rppc = "tic" /\ faults' = <<>>
      /\ rpTicNum' = IF done THEN rpTicNum ELSE rpTicNum + 1
      /\ rppc' = IF done \/ rpTicNum < nxtTic THEN "get_fail" ELSE "read"
      /\ UNCHANGED <<disk, pos, nxtTic, done, rpNodes, given>>
  BY DEF RpTic
<1>2. UNCHANGED <<trpc, rec, start, kept>> /\ UNCHANGED <<trVars, disk, rpNodes, given>>
  BY <1>1 DEF trVars
<1>3. PICK c \in Nat : c = Len(given)
  BY DEF ReplayInv, RpTypeInv
<1>4. Ready(c) \/ Over(c)
  BY <1>1, <1>3 DEF ReplayInv, PcInv
<1>5. RpTypeInv'
  BY <1>1 DEF ReplayInv, RpTypeInv
<1>6. CASE Over(c)
  <2>1. Matches(c + 1, faults') /\ Over(c + 1)
    BY <1>1, <1>6, OverFacts
  <2>2. HasRead(c)'
    <3>1. Matches(c + 1, faults)'
      BY <1>2, <2>1, MatchStays
    <3>2. Over(c + 1)'
      BY <1>1, <1>2, <2>1 DEF Over
    <3> QED BY <3>1, <3>2 DEF HasRead
  <2>3. HasRead(Len(given))'
    BY <1>1, <1>3, <2>2
  <2> QED BY <1>1, <1>2, <1>5, <2>3, ReplayFrame
<1>7. CASE Ready(c)
  <2>1. rppc' = "read" /\ rpTicNum' = c + 1 /\ ~done /\ Len(faults') = 0
    BY <1>1, <1>7 DEF Ready
  <2>2. /\ c < Len(start) /\ start[c + 1] <= kept /\ pos = start[c + 1] + 1 /\ nxtTic = c
    BY <1>7 DEF Ready
  <2>3. start[c + 1] \in Nat /\ Len(Recorded(c + 1)) \in Nat
    <3>1. c + 1 \in 1..Len(start)
      BY <2>2, DiskFacts
    <3> QED BY <3>1, TicFacts
  <2>4. Recorded(c + 1)' = Recorded(c + 1)
    BY <1>2 DEF Recorded
  <2>5. InBlock(c)'
    BY <1>1, <1>2, <2>1, <2>2, <2>3, <2>4 DEF InBlock
  <2>6. InBlock(Len(given))'
    BY <1>1, <1>3, <2>5
  <2> QED BY <1>1, <1>2, <1>5, <2>1, <2>6, ReplayFrame
<1> QED BY <1>4, <1>6, <1>7

\* While the loop of tic has more to do, it is among the faults of its tic,
\* or at the end of the file.
LEMMA ReadingFacts ==
    ASSUME RecInv, ReplayInv, trpc = "ended", Reading
    PROVE  \/ /\ InBlock(Len(given))
              /\ AtFault(Len(given)) \/ AtTic(Len(given)) \/ AtEnd(Len(given))
           \/ Over(Len(given) + 1) /\ HasRead(Len(given))
<1>1. Len(given) \in Nat /\ RpTypeInv
  BY DEF ReplayInv, RpTypeInv
<1>2. InBlock(Len(given)) \/ HasRead(Len(given))
  BY DEF Reading, ReplayInv, PcInv
<1>3. ~Ready(Len(given) + 1)
  BY <1>1 DEF Reading, Ready
<1> QED BY <1>1, <1>2, <1>3, BlockLine DEF HasRead

\* The loop of tic is past all that survived.
LEMMA ReplayEnds ==
    ASSUME RecInv, ReplayInv, trpc = "ended", Reading, AtEnd(Len(given)),
           UNCHANGED <<trVars, disk, rppc, rpNodes, given>>, RpTypeInv',
           pos' > Len(disk), Matches(Len(given) + 1, faults')
    PROVE  ReplayInv'
<1>1. PICK c \in Nat : c = Len(given)
  BY DEF ReplayInv, RpTypeInv
<1>2. UNCHANGED <<disk, start, kept>> /\ c + 1 + 1 = c + 2
  BY DEF trVars
<1>3. Over(c + 1)'
  BY <1>1, <1>2 DEF AtEnd, Over
<1>4. Matches(c + 1, faults)'
  BY <1>1, MatchStays
<1>5. HasRead(c)'
  BY <1>3, <1>4 DEF HasRead
<1>6. HasRead(Len(given))' /\ rppc = "read" /\ rppc' = "read"
  BY <1>1, <1>5 DEF Reading
<1> QED BY <1>6, ReplayFrame

LEMMA ReplayReadTic ==
    ASSUME RecInv, ReplayInv, trpc = "ended", RpReadTic \/ RpReadOther, UNCHANGED trVars
    PROVE  ReplayInv'
<1>1. /\ Reading /\ rppc = "read" /\ pos <= Len(disk) /\ disk[pos].kind # "fault"
      /\ disk[pos].kind \in {"tic", "nonum"} => nxtTic' \in TicNums(disk[pos])
      /\ pos' = pos + 1
      /\ UNCHANGED <<disk, rppc, rpTicNum, done, faults, rpNodes, given>>
  BY DEF RpReadTic, RpReadOther, Reading
<1>2. UNCHANGED <<trVars, disk, rpNodes, given>> /\ UNCHANGED <<start, kept>>
  BY <1>1 DEF trVars
<1>3. RpTypeInv'
  BY <1>1 DEF ReplayInv, RpTypeInv
<1>4. PICK c \in Nat : c = Len(given)
  BY DEF ReplayInv, RpTypeInv
<1>5. Len(disk) \in Nat /\ pos \in Nat /\ kept \in Nat /\ Len(disk) \in {kept, kept + 1}
      /\ Len(start) \in Nat
  BY DiskFacts DEF ReplayInv, RpTypeInv
<1>6. InBlock(c) /\ (AtFault(c) \/ AtTic(c) \/ AtEnd(c))
  <2>1. ~Over(c + 1)
    BY <1>1, <1>5 DEF Over
  <2> QED BY <1>1, <1>4, <2>1, ReadingFacts
<1>7. ~AtFault(c)
  <2>1. \A f : FaultLine(f).kind = "fault"
    BY DEF FaultLine
  <2> QED BY <1>1, <2>1 DEF AtFault
<1>8. CASE AtTic(c)
  <2>1. /\ disk[pos] = TicLine(c + 1) /\ pos = start[c + 2] /\ pos <= kept
        /\ c + 1 < Len(start) /\ faults = Expected(c + 1)
    BY <1>8 DEF AtTic
  <2>2. nxtTic' = c + 1
    BY <1>1, <2>1 DEF TicLine, TicNums
  <2>3. rpTicNum = c + 1 /\ ~done /\ c + 1 + 1 = c + 2
    BY <1>6 DEF InBlock
  <2>4. Ready(c + 1)'
    BY <1>1, <1>2, <2>1, <2>2, <2>3 DEF Ready
  <2>5. Matches(c + 1, faults')
    BY <1>1, <2>1 DEF Matches
  <2>6. HasRead(c)'
    BY <1>2, <2>4, <2>5, MatchStays DEF HasRead
  <2>7. HasRead(Len(given))' /\ rppc' = "read"
    BY <1>1, <1>4, <2>6
  <2> QED BY <1>1, <1>2, <1>3, <2>7, ReplayFrame
<1>9. CASE AtEnd(c)
  <2>1. pos' > Len(disk)
    BY <1>1, <1>5, <1>9 DEF AtEnd
  <2>2. Matches(c + 1, faults')
    BY <1>1, <1>9 DEF AtEnd, Matches
  <2> QED BY <1>1, <1>2, <1>3, <1>4, <1>9, <2>1, <2>2, ReplayEnds
<1> QED BY <1>6, <1>7, <1>8, <1>9

LEMMA ReplayReadFault ==
    ASSUME RecInv, ReplayInv, trpc = "ended", RpReadFault, UNCHANGED trVars
    PROVE  ReplayInv'
<1>1. /\ Reading /\ rppc = "read" /\ pos <= Len(disk) /\ disk[pos].kind = "fault"
      /\ faults' = Append(faults, ParseFault(disk[pos])) /\ pos' = pos + 1
      /\ UNCHANGED <<disk, rppc, rpTicNum, nxtTic, done, rpNodes, given>>
  BY DEF RpReadFault, Reading
<1>2. UNCHANGED <<trVars, disk, rpNodes, given>> /\ UNCHANGED <<rec, start, kept>>
  BY <1>1 DEF trVars
<1>3. faults \in Seq(Fault) /\ given \in Seq(Seq(Fault)) /\ done \in BOOLEAN
  BY DEF ReplayInv, RpTypeInv
<1>4. PICK c \in Nat : c = Len(given)
  BY <1>3
<1>5. Len(disk) \in Nat /\ pos \in Nat /\ kept \in Nat /\ Len(disk) \in {kept, kept + 1}
      /\ Len(start) \in Nat
  BY DiskFacts DEF ReplayInv, RpTypeInv
<1>6. InBlock(c) /\ (AtFault(c) \/ AtTic(c) \/ AtEnd(c))
  <2>1. ~Over(c + 1)
    BY <1>1, <1>5 DEF Over
  <2> QED BY <1>1, <1>4, <2>1, ReadingFacts
<1>7. ~AtTic(c)
  BY <1>1 DEF AtTic, TicLine
<1>8. PICK n \in Nat : n = Len(faults)
  BY <1>3
<1>9. ASSUME NEW f \in Fault, faults' = Append(faults, f)
      PROVE  /\ RpTypeInv' /\ faults' \in Seq(Fault) /\ Len(faults') = n + 1
             /\ \A j \in 1..n : faults'[j] = faults[j]
             /\ faults'[n + 1] = f
  <2>1. /\ faults' \in Seq(Fault) /\ Len(faults') = n + 1
        /\ \A j \in 1..n : faults'[j] = faults[j]
        /\ faults'[n + 1] = f
    BY <1>3, <1>8, <1>9, AppendFacts
  <2> QED BY <1>1, <1>3, <1>5, <2>1 DEF RpTypeInv
<1>10. CASE AtFault(c)
  <2>1. PICK r : r = Recorded(c + 1)
    OBVIOUS
  <2>2. PICK f \in Fault : f = r[n + 1] /\ disk[pos] = FaultLine(f) /\ n < Len(r) /\ pos <= kept
    BY <1>8, <1>10, <2>1 DEF AtFault
  <2>3. faults' = Append(faults, f)
    BY <1>1, <2>2, FaultRoundTrip
  <2>4. PICK s \in Nat : s = start[c + 1]
    <3>1. c + 1 \in 1..Len(start)
      BY <1>5, <1>6 DEF InBlock
    <3> QED BY <3>1, TicFacts
  <2>5. /\ ~done /\ rpTicNum = c + 1 /\ nxtTic = c /\ c < Len(start)
        /\ pos = s + 1 + n /\ \A j \in 1..n : faults[j] = r[j]
    BY <1>6, <1>8, <2>1, <2>4 DEF InBlock
  <2>6. /\ Len(faults') = n + 1 /\ RpTypeInv'
        /\ \A j \in 1..(n + 1) : faults'[j] = r[j]
    <3>1. /\ RpTypeInv' /\ Len(faults') = n + 1
          /\ \A j \in 1..n : faults'[j] = faults[j]
          /\ faults'[n + 1] = f
      BY <1>9, <2>3
    <3>2. ASSUME NEW j \in 1..(n + 1) PROVE faults'[j] = r[j]
      <4>1. j \in 1..n \/ j = n + 1
        OBVIOUS
      <4> QED BY <3>1, <4>1, <2>2, <2>5
    <3> QED BY <3>1, <3>2
  <2>7. Recorded(c + 1)' = r /\ start'[c + 1] = s /\ kept' = kept /\ Len(r) \in Nat
    <3>1. Recorded(c + 1) \in Seq(Fault)
      BY RecTypes DEF RecInv
    <3> QED BY <3>1, <1>2, <2>1, <2>4 DEF Recorded
  <2>8. s + (n + 1) <= kept /\ n + 1 <= Len(r) /\ pos' = s + 1 + (n + 1)
    BY <1>1, <1>5, <2>2, <2>5, <2>7
  <2>9. InBlock(c)'
    BY <1>1, <1>2, <2>5, <2>6, <2>7, <2>8 DEF InBlock
  <2>10. InBlock(Len(given))' /\ rppc' = "read"
    BY <1>1, <1>4, <2>9
  <2> QED BY <1>1, <1>2, <2>6, <2>10, ReplayFrame
<1>11. CASE AtEnd(c)
  <2>1. PICK f \in Fault : f = ParseFault(disk[pos]) /\ IsCutOf(f, c + 1)
    BY <1>1, <1>11 DEF AtEnd
  <2>2. faults' = Append(faults, f)
    BY <1>1, <2>1
  <2>3. /\ RpTypeInv' /\ faults' \in Seq(Fault) /\ Len(faults') = n + 1
        /\ \A j \in 1..n : faults'[j] = faults[j]
        /\ faults'[n + 1] = f
    BY <1>9, <2>2
  <2>4. faults = Expected(c + 1) /\ pos' > Len(disk)
    BY <1>1, <1>5, <1>11 DEF AtEnd
  <2>5. SubSeq(faults', 1, n) = faults
    <3>1. PICK u : u = SubSeq(faults', 1, n)
      OBVIOUS
    <3>2. n \in 0..Len(faults')
      BY <2>3
    <3>3. u \in Seq(Fault) /\ Len(u) = n /\ \A i \in 1..n : u[i] = faults'[i]
      BY <2>3, <3>1, <3>2, FirstLines
    <3>4. u = faults
      BY <1>3, <1>8, <2>3, <3>3, SameSequence
    <3> QED BY <3>1, <3>4
  <2>6. Matches(c + 1, faults')
    BY <1>8, <2>1, <2>3, <2>4, <2>5 DEF Matches
  <2> QED BY <1>1, <1>2, <1>4, <1>11, <2>3, <2>4, <2>6, ReplayEnds
<1> QED BY <1>6, <1>7, <1>10, <1>11

LEMMA ReplayReadEOF ==
    ASSUME RecInv, ReplayInv, trpc = "ended", RpReadEOF, UNCHANGED trVars
    PROVE  ReplayInv'
<1>1. /\ Reading /\ rppc = "read" /\ pos > Len(disk) /\ done' = TRUE
      /\ UNCHANGED <<disk, rppc, pos, rpTicNum, nxtTic, faults, rpNodes, given>>
  BY DEF RpReadEOF, Reading
<1>2. UNCHANGED <<trVars, disk, rpNodes, given>> /\ UNCHANGED <<rec, start, kept>>
  BY <1>1 DEF trVars
<1>3. RpTypeInv' /\ pos \in Nat /\ kept \in Nat /\ Len(disk) \in {kept, kept + 1}
  BY <1>1, DiskFacts DEF ReplayInv, RpTypeInv
<1>4. PICK c \in Nat : c = Len(given)
  BY DEF ReplayInv, RpTypeInv
<1>5. CASE AtEnd(c)
  <2>1. Matches(c + 1, faults')
    BY <1>1, <1>5 DEF AtEnd, Matches
  <2> QED BY <1>1, <1>2, <1>3, <1>4, <1>5, <2>1, ReplayEnds
<1>6. CASE Over(c + 1) /\ HasRead(c)
  <2>1. Matches(c + 1, faults') /\ Over(c + 1)'
    <3>1. Matches(c + 1, faults)
      BY <1>6 DEF HasRead
    <3>2. faults' = faults
      BY <1>1
    <3>3. Over(c + 1)'
      BY <1>1, <1>2, <1>6 DEF Over
    <3> QED BY <3>1, <3>2, <3>3
  <2>2. HasRead(c)'
    BY <1>2, <2>1, MatchStays DEF HasRead
  <2>3. HasRead(Len(given))' /\ rppc' = "read"
    BY <1>1, <1>4, <2>2
  <2> QED BY <1>1, <1>2, <1>3, <2>3, ReplayFrame
<1>7. ~AtFault(c) /\ ~AtTic(c)
  BY <1>1, <1>3 DEF AtFault, AtTic
<1> QED BY <1>1, <1>4, <1>5, <1>6, <1>7, ReadingFacts

\* tic returns only when its tic has been read to the end.
LEMMA ReplayReturns ==
    ASSUME RecInv, ReplayInv, trpc = "ended", RpTicReturns, UNCHANGED trVars
    PROVE  ReplayInv'
<1>1. /\ rppc = "read" /\ ~(nxtTic < rpTicNum /\ ~done) /\ rppc' = "get_fail"
      /\ UNCHANGED <<disk, pos, rpTicNum, nxtTic, done, faults, rpNodes, given>>
  BY DEF RpTicReturns
<1>2. UNCHANGED <<trVars, disk, rpNodes, given>> /\ UNCHANGED <<rec, start, kept>>
  BY <1>1 DEF trVars
<1>3. PICK c \in Nat : c = Len(given)
  BY DEF ReplayInv, RpTypeInv
<1>4. ~InBlock(c)
  BY <1>1 DEF InBlock
<1>5. HasRead(c)
  BY <1>1, <1>3, <1>4 DEF ReplayInv, PcInv
<1>6. HasRead(c)'
  <2>1. Matches(c + 1, faults) /\ faults' = faults
    BY <1>1, <1>5 DEF HasRead
  <2>2. Matches(c + 1, faults)'
    BY <1>2, <2>1, MatchStays
  <2>3. (Ready(c + 1) \/ Over(c + 1))'
    BY <1>1, <1>2, <1>5 DEF HasRead, Ready, Over
  <2> QED BY <2>2, <2>3 DEF HasRead
<1>7. HasRead(Len(given))' /\ RpTypeInv'
  BY <1>1, <1>3, <1>6 DEF ReplayInv, RpTypeInv
<1> QED BY <1>1, <1>2, <1>7, ReplayFrame

\* The server is given what tic has read.
LEMMA ReplayGives ==
    ASSUME RecInv, ReplayInv, trpc = "ended", RpGetFail, UNCHANGED trVars
    PROVE  ReplayInv'
<1>1. /\ rppc = "get_fail" /\ given' = Append(given, faults) /\ rppc' = "tic"
      /\ UNCHANGED <<disk, pos, rpTicNum, nxtTic, done, faults, rpNodes>>
  BY DEF RpGetFail
<1>2. UNCHANGED <<trVars, disk>> /\ UNCHANGED <<trpc, rec, start, kept>>
  BY <1>1 DEF trVars
<1>3. PICK c \in Nat : c = Len(given)
  BY DEF ReplayInv, RpTypeInv
<1>4. Matches(c + 1, faults) /\ (Ready(c + 1) \/ Over(c + 1))
  BY <1>1, <1>3 DEF ReplayInv, PcInv, HasRead
<1>5. faults \in Seq(Fault) /\ given \in Seq(Seq(Fault))
  BY DEF ReplayInv, RpTypeInv
<1>6. /\ given' \in Seq(Seq(Fault)) /\ Len(given') = c + 1
      /\ \A k \in 1..c : given'[k] = given[k]
      /\ given'[c + 1] = faults
  BY <1>1, <1>3, <1>5, AppendFacts
<1>7. ASSUME NEW k \in 1..Len(given') PROVE Matches(k, given'[k])
  <2>1. CASE k \in 1..c
    BY <2>1, <1>3, <1>6 DEF ReplayInv, GivenInv
  <2>2. CASE k = c + 1
    BY <2>2, <1>4, <1>6
  <2> QED BY <2>1, <2>2, <1>6
<1>8. GivenInv'
  BY <1>2, <1>7, MatchStays DEF GivenInv
<1>9. RpTypeInv'
  BY <1>1, <1>6 DEF ReplayInv, RpTypeInv
<1>10. (Ready(c + 1) \/ Over(c + 1))'
  BY <1>1, <1>2, <1>4 DEF Ready, Over
<1>11. (Ready(Len(given)) \/ Over(Len(given)))'
  BY <1>6, <1>10
<1>12. PcInv'
  BY <1>1, <1>2, <1>11 DEF ReplayInv, PcInv
<1> QED BY <1>8, <1>9, <1>12 DEF ReplayInv

\* The replay's invariant is kept by every step.
LEMMA ReplayKept ==
    ASSUME RecInv, ReplayInv, [Next]_vars
    PROVE  ReplayInv'
<1>1. CASE Record
  <2>1. trpc # "ended"
    BY <1>1 DEF Record, TrNext, TrGetNodes, TrGetNodesFails, TrTic, TrGetFail,
       TrCleanup, TrCrash
  <2>2. rppc = "get_nodes" /\ RpInit
    BY <2>1 DEF ReplayInv, PcInv
  <2>3. UNCHANGED <<rppc, pos, rpTicNum, nxtTic, done, faults, rpNodes, given>>
    BY <1>1 DEF Record, rpVars
  <2>4. Len(given') = 0
    BY <2>2, <2>3 DEF RpInit
  <2>5. RpTypeInv' /\ GivenInv'
    BY <2>3, <2>4 DEF ReplayInv, RpTypeInv, GivenInv
  <2>6. PcInv'
    BY <2>2, <2>3 DEF PcInv, RpInit
  <2> QED BY <2>5, <2>6 DEF ReplayInv
<1>2. CASE Replaying
  BY <1>2, ReplayHeader, ReplayRefused, ReplayTic, ReplayReadTic, ReplayReadFault,
     ReplayReadEOF, ReplayReturns, ReplayGives DEF Replaying, RpNext
<1>3. CASE UNCHANGED vars
  <2>1. UNCHANGED <<trVars, disk>>
        /\ UNCHANGED <<trpc, file, kept, rec, start>>
        /\ UNCHANGED <<rppc, pos, rpTicNum, nxtTic, done, faults, rpNodes, given>>
    BY <1>3 DEF vars, rpVars, trVars
  <2>2. RpTypeInv' /\ GivenInv'
    BY <2>1, MatchStays DEF ReplayInv, RpTypeInv, GivenInv
  <2>3. PICK c : c = Len(given)
    OBVIOUS
  <2>4. Len(given') = c /\ (HasRead(c) => HasRead(c)') /\ (InBlock(c) => InBlock(c)')
        /\ (Ready(c) \/ Over(c) => (Ready(c) \/ Over(c))')
    <3>1. Matches(c + 1, faults) => Matches(c + 1, faults)'
      BY <2>1, MatchStays
    <3>2. /\ Ready(c)' <=> Ready(c)
          /\ Over(c)' <=> Over(c)
          /\ Ready(c + 1)' <=> Ready(c + 1)
          /\ Over(c + 1)' <=> Over(c + 1)
          /\ InBlock(c)' <=> InBlock(c)
      BY <2>1 DEF Ready, Over, InBlock, Recorded
    <3> QED BY <2>1, <2>3, <3>1, <3>2 DEF HasRead
  <2>5. PcInv'
    BY <2>1, <2>3, <2>4 DEF ReplayInv, PcInv, RpInit
  <2> QED BY <2>2, <2>5 DEF ReplayInv
<1> QED BY <1>1, <1>2, <1>3 DEF Next, Stopped

-----------------------------------------------------------------------------
\* The inductive invariant holds in every state, crashes included.
LEMMA Inductive == Spec => []IInv
<1>1. Init => IInv
  <2> SUFFICES ASSUME Init PROVE IInv
    OBVIOUS
  <2>1. RecInv
    <3>1. Len(start) = 0 /\ Len(rec) = 0 /\ start = <<>> /\ file = <<>> /\ trpc = "get_nodes"
      BY DEF Init, TrInit
    <3> QED BY <3>1 DEF Init, TrInit, RecInv, TypeInv, HeaderInv, BlockInv, ChainInv,
               EndInv, DiskInv
  <2>2. ReplayInv
    <3>1. rppc = "get_nodes" /\ given = <<>> /\ faults = <<>> /\ RpInit
      BY DEF Init, RpInit
    <3>2. pos = 1 /\ done \in BOOLEAN /\ Len(given) = 0
      BY DEF Init, RpInit
    <3>3. RpTypeInv
      BY <3>1, <3>2 DEF RpTypeInv
    <3>4. GivenInv /\ PcInv
      BY <3>1, <3>2 DEF GivenInv, PcInv
    <3> QED BY <3>3, <3>4 DEF ReplayInv
  <2> QED BY <2>1, <2>2 DEF IInv
<1>2. IInv /\ [Next]_vars => IInv'
  BY RecStep, ReplayKept DEF IInv
<1> QED BY <1>1, <1>2, PTL DEF Spec

\* Whether or not the recording server crashed, and wherever: every replayed
\* tic is given the recorded faults whose lines survived, in order, and at
\* most the one of the line that was cut (tic and get_fail of transcribe.c
\* and of replay.c).
THEOREM ReplayCorrect == Spec => []Faithful
<1>1. IInv => Faithful
  BY DEF IInv, ReplayInv, GivenInv, Matches, Faithful
<1> QED BY <1>1, Inductive, PTL

\* The server that replays knows all the nodes of the recording, or does not
\* start, and that only if the transcript is torn or empty (get_nodes of
\* transcribe.c and of replay.c).
THEOREM NodesCorrect == Spec => []NodesReproduced
<1>1. IInv => NodesReproduced
  BY DEF IInv, ReplayInv, PcInv, NodesReproduced
<1> QED BY <1>1, Inductive, PTL

-----------------------------------------------------------------------------
(* The refinement.                                                         *)

\* A tic that was given less or other than was recorded is the one the
\* transcript is torn in.
LEMMA TornTic ==
    ASSUME RecInv, trpc = "ended", NEW k \in Nat \ {0}, NEW f, Matches(k, f),
           f # Recorded(k)
    PROVE  /\ k \in 1..Len(rec) /\ k \in 1..Len(start) /\ rec[k] = Recorded(k)
           /\ Survived(k) \in 0..(Len(rec[k]) - 1)
           /\ kept < Offset(k)
<1>1. k <= Len(rec)
  BY DEF Matches, IsCutOf, Expected, Recorded
<1>2. k \in 1..Len(rec) /\ k \in 1..Len(start) /\ rec[k] = Recorded(k) /\ kept \in Nat
  BY <1>1, DiskFacts DEF Recorded
<1>3. PICK s \in Nat : s = start[k]
  BY <1>2, TicFacts
<1>4. PICK r \in Nat : r = Len(rec[k])
  BY <1>2, TicFacts
<1>5. Survived(k) = IF kept - s <= 0 THEN 0 ELSE IF kept - s >= r THEN r ELSE kept - s
  BY <1>3, <1>4 DEF Survived
<1>6. Survived(k) # r
  <2>1. SUFFICES ASSUME Survived(k) = r PROVE FALSE
    OBVIOUS
  <2>2. rec[k] \in Seq(Fault)
    BY <1>2, TicFacts
  <2>3. SubSeq(rec[k], 1, r) = rec[k]
    BY <1>4, <2>2
  <2>4. Expected(k) = Recorded(k)
    BY <1>1, <1>2, <2>1, <2>3 DEF Expected
  <2>5. \A g : ~IsCutOf(g, k)
    BY <1>4, <2>1 DEF IsCutOf
  <2> QED BY <2>4, <2>5 DEF Matches
<1>7. Survived(k) \in 0..(r - 1) /\ kept < s + r
  BY <1>2, <1>5, <1>6
<1>8. Offset(k) = s + r
  BY <1>2, <1>3, <1>4 DEF Offset
<1> QED BY <1>2, <1>4, <1>7, <1>8

\* Nothing is given after it.
LEMMA AfterTornTic ==
    ASSUME RecInv, trpc = "ended", NEW k \in Nat \ {0}, NEW f, Matches(k, f),
           f # Recorded(k), NEW m \in Nat, m > k, NEW g, Matches(m, g)
    PROVE  g = <<>>
<1>1. k \in 1..Len(start) /\ kept < Offset(k)
  BY TornTic
<1>2. m \in Nat \ {0} /\ (m <= Len(start) => m \in 1..Len(start))
  OBVIOUS
<1>3. ASSUME m <= Len(start) PROVE start[m] > kept
  <2>1. Offset(k) < start[m]
    BY <1>1, <1>2, <1>3 DEF RecInv, ChainInv
  <2>2. Offset(k) \in Nat /\ kept \in Nat /\ start[m] \in Nat
    BY <1>1, <1>2, <1>3, DiskFacts, TicFacts, RecTypes DEF RecInv
  <2> QED BY <1>1, <2>1, <2>2
<1>4. Expected(m) = <<>> /\ \A h : ~IsCutOf(h, m)
  BY <1>2, <1>3, ExpectedLost
<1> QED BY <1>4 DEF Matches

\* What get_fail returns is what Reproduction allows.
LEMMA GivesAllowed ==
    ASSUME RecInv, ReplayInv, trpc = "ended", RpGetFail, UNCHANGED trVars
    PROVE  Abstract!Next
<1>1. /\ rppc = "get_fail" /\ given' = Append(given, faults)
      /\ UNCHANGED <<disk, trpc, rec, start, kept, file>>
  BY DEF RpGetFail, trVars
<1>2. PICK k \in Nat \ {0} : k = Len(given) + 1
  BY DEF ReplayInv, RpTypeInv
<1>3. Matches(k, faults) /\ faults \in Seq(Fault)
  BY <1>1, <1>2 DEF ReplayInv, PcInv, HasRead, RpTypeInv
<1>4. \A i : Abstract!Expected(i) = Recorded(i)
  BY DEF Abstract!Expected, Recorded
<1>5. CASE ~Abstract!Complete
  <2>1. PICK i \in 1..Len(given) : given[i] # Recorded(i)
    BY <1>4, <1>5 DEF Abstract!Complete
  <2>2. Matches(i, given[i]) /\ i \in Nat \ {0} /\ k > i
    BY <1>2, <2>1 DEF ReplayInv, GivenInv, RpTypeInv
  <2>3. faults = <<>>
    BY <1>3, <2>1, <2>2, AfterTornTic
  <2> QED BY <1>1, <1>5, <2>3 DEF Abstract!Next, Abstract!GiveNothing
<1>6. CASE Abstract!Complete /\ faults = Recorded(k)
  BY <1>1, <1>2, <1>4, <1>6 DEF Abstract!Next, Abstract!Give
<1>7. CASE Abstract!Complete /\ faults # Recorded(k)
  <2>1. /\ k \in 1..Len(rec) /\ k \in 1..Len(start) /\ rec[k] = Recorded(k)
        /\ Survived(k) \in 0..(Len(rec[k]) - 1) /\ kept < Offset(k)
    BY <1>3, <1>7, TornTic
  <2>2. PICK b \in Seq(Fault) : b = rec[k]
    BY <2>1, TicFacts
  <2>3. PICK n \in 0..(Len(b) - 1) : n = Survived(k)
    BY <2>1, <2>2
  <2>4. kept < Len(file)
    <3>1. Offset(k) <= Len(file) /\ Offset(k) \in Nat /\ Len(file) \in Nat /\ kept \in Nat
      BY <2>1, DiskFacts, TicFacts, RecTypes DEF RecInv, Offset
    <3> QED BY <2>1, <3>1
  <2>5. Expected(k) = SubSeq(b, 1, n)
    BY <2>1, <2>2, <2>3 DEF Expected
  <2>6. SubSeq(b, 1, n) \in Seq(Fault) /\ Len(SubSeq(b, 1, n)) = n /\ Len(b) \in Nat
        /\ n \in Nat /\ n + 1 \in 1..Len(b) /\ b[n + 1] \in Fault
    <3>1. Len(b) \in Nat /\ n \in Nat /\ n \in 0..Len(b) /\ n + 1 \in 1..Len(b)
      BY <2>3
    <3> QED BY <3>1, FirstLines
  <2>7. \/ given' = Append(given, SubSeq(b, 1, n))
        \/ \E f \in Abstract!CutOf(b[n + 1]) :
              given' = Append(given, Append(SubSeq(b, 1, n), f))
    <3>1. CASE faults = Expected(k)
      BY <1>1, <2>5, <3>1
    <3>2. CASE /\ Len(faults) = Len(Expected(k)) + 1
               /\ SubSeq(faults, 1, Len(Expected(k))) = Expected(k)
               /\ IsCutOf(faults[Len(faults)], k)
      <4>1. PICK p \in Seq(Fault) : p = SubSeq(b, 1, n)
        BY <2>6
      <4>2. PICK f : f = faults[n + 1]
        OBVIOUS
      <4>3. Len(faults) = n + 1 /\ SubSeq(faults, 1, n) = p /\ Len(p) = n
        BY <2>5, <2>6, <3>2, <4>1
      <4>4. f \in Fault /\ n + 1 \in 1..Len(faults)
        BY <1>3, <2>6, <4>2, <4>3
      <4>5. faults = Append(p, f)
        <5>1. \A i \in 1..n : faults[i] = p[i]
          <6>1. n \in 0..Len(faults)
            BY <2>6, <4>3
          <6> QED BY <1>3, <4>3, <6>1, FirstLines
        <5>2. PICK q : q = Append(p, f)
          OBVIOUS
        <5>3. /\ q \in Seq(Fault) /\ Len(q) = n + 1 /\ q[n + 1] = f
              /\ \A i \in 1..n : q[i] = p[i]
          BY <4>3, <4>4, <5>2, AppendFacts
        <5>4. \A i \in 1..(n + 1) : faults[i] = q[i]
          <6> TAKE i \in 1..(n + 1)
          <6>1. i \in 1..n \/ i = n + 1
            BY <2>6
          <6> QED BY <6>1, <5>1, <5>3, <4>2
        <5>5. faults = q
          BY <1>3, <4>3, <5>3, <5>4, SameSequence
        <5> QED BY <5>2, <5>5
      <4>6. f \in Abstract!CutOf(b[n + 1])
        <5>1. /\ f.node = b[n + 1].node /\ f.component = b[n + 1].component
              /\ f.severity = 0 <=> b[n + 1].severity = 0
          BY <2>2, <2>3, <3>2, <4>2, <4>3 DEF IsCutOf
        <5>2. f.severity \in 0..(UMod - 1)
          BY <4>4 DEF Fault
        <5>3. f = [b[n + 1] EXCEPT !.severity = f.severity]
          BY <2>6, <4>4, <5>1 DEF Fault
        <5> QED BY <5>1, <5>2, <5>3 DEF Abstract!CutOf
      <4> QED BY <1>1, <4>1, <4>5, <4>6
    <3> QED BY <1>3, <3>1, <3>2 DEF Matches
  <2>8. Abstract!Expected(Len(given) + 1) = b
    BY <1>2, <1>4, <2>1, <2>2
  <2> QED BY <1>1, <1>7, <2>3, <2>4, <2>7, <2>8 DEF Abstract!Next, Abstract!GiveLast
<1> QED BY <1>5, <1>6, <1>7

\* Recording and replaying implement Reproduction, with crashes as without.
THEOREM Refinement == Spec => Reproduces
<1>1. Init => Abstract!Init
  BY DEF Init, TrInit, RpInit, Abstract!Init
<1>2. IInv /\ [Next]_vars => [Abstract!Next]_(Abstract!vars)
  <2> SUFFICES ASSUME IInv, [Next]_vars PROVE [Abstract!Next]_(Abstract!vars)
    OBVIOUS
  <2> USE DEF Abstract!vars
  <2>1. CASE Record /\ TrGetFail
    BY <2>1 DEF Record, TrGetFail, rpVars, Abstract!Next, Abstract!Record
  <2>2. CASE Record /\ (TrCleanup \/ TrCrash)
    <3>1. trpc' = "ended" /\ trpc # "ended" /\ rec' = rec /\ given' = given
      BY <2>2 DEF Record, TrCleanup, TrCrash, rpVars
    <3> QED BY <3>1 DEF Abstract!Next, Abstract!EndOfRecording
  <2>3. CASE Record /\ (TrGetNodes \/ TrGetNodesFails \/ TrTic)
    BY <2>3 DEF Record, TrGetNodes, TrGetNodesFails, TrTic, rpVars
  <2>4. CASE Replaying /\ RpGetFail
    BY <2>4, GivesAllowed DEF Replaying, IInv
  <2>5. CASE Replaying /\ ~RpGetFail
    BY <2>5 DEF Replaying, RpNext, RpGetNodes, RpGetNodesFails, RpTic, RpReadTic,
       RpReadFault, RpReadOther, RpReadEOF, RpTicReturns, trVars
  <2>6. CASE UNCHANGED vars
    BY <2>6 DEF vars, trVars, rpVars
  <2> QED BY <2>1, <2>2, <2>3, <2>4, <2>5, <2>6 DEF Next, Record, Stopped, TrNext
<1> QED BY <1>1, <1>2, Inductive, PTL DEF Spec, Reproduces, Abstract!Spec
=============================================================================

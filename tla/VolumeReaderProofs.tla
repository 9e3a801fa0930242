------------------------- MODULE VolumeReaderProofs -------------------------
(***************************************************************************)
(* For every set of volumes and every sequence of calls: the reader keeps   *)
(* its types, the OS offset of the current volume agrees with the logical   *)
(* position, and the volumes read like one file.                            *)
(***************************************************************************)
EXTENDS VolumeReader, TLAPS

\* Where the current volume stands when the position is not inside it: read
\* has left the last volume only at the end of the data, and it leaves any
\* other volume exactly at its end, so that the next one starts at its first
\* byte.  Positioned alone is not inductive without this.
Left ==
  /\ ready /\ current = vols.n => logical_pos >= Total
  /\ ready /\ current < vols.n - 1 => logical_pos <= SegEnd(current)
  /\ Reading => ready

Inv == TypeOK /\ Positioned /\ Left

-----------------------------------------------------------------------------

\* The sizes of a layout are natural numbers and its cut points increase.
LEMMA LayoutFacts ==
  ASSUME IsLayout(vols), NEW v \in Volumes
  PROVE  /\ vols.n \in Nat /\ vols.n > 0
         /\ v \in Int /\ 0 <= v /\ v < vols.n
         /\ vols.start[v] \in Nat
         /\ vols.cut[v] \in Nat /\ vols.cut[v + 1] \in Nat
         /\ vols.cut[vols.n] \in Nat
         /\ vols.cut[v] <= vols.cut[v + 1]
         /\ vols.cut[v + 1] <= vols.cut[vols.n]
<1>1. vols.n \in Nat /\ vols.n > 0 /\ v \in 0..vols.n - 1
  BY DEF IsLayout, Volumes
<1>2. v \in 0..vols.n /\ v + 1 \in 0..vols.n /\ vols.n \in 0..vols.n /\ v <= v + 1
  BY <1>1
<1>3. /\ vols.start \in [0..vols.n - 1 -> Nat]
      /\ vols.cut \in [0..vols.n -> Nat]
      /\ \A i, j \in 0..vols.n : i <= j => vols.cut[i] <= vols.cut[j]
  BY DEF IsLayout
<1>4. vols.start[v] \in Nat
  BY <1>1, <1>3
<1>5. vols.cut[v] \in Nat /\ vols.cut[v + 1] \in Nat /\ vols.cut[vols.n] \in Nat
  BY <1>2, <1>3
<1>6. v + 1 <= vols.n
  BY <1>1
<1>7. vols.cut[v] <= vols.cut[v + 1] /\ vols.cut[v + 1] <= vols.cut[vols.n]
  BY <1>2, <1>3, <1>6
<1> QED BY <1>1, <1>4, <1>5, <1>7

\* The layout has a last volume, and its whole size is a number.
LEMMA TotalFacts ==
  ASSUME IsLayout(vols)
  PROVE  /\ vols.n \in Nat /\ vols.n > 0
         /\ Total \in Nat
         /\ SegEnd(vols.n - 1) = Total
<1>1. vols.n \in Nat /\ vols.n > 0 /\ vols.cut \in [0..vols.n -> Nat]
  BY DEF IsLayout
<1>2. vols.n \in 0..vols.n /\ (vols.n - 1) + 1 = vols.n
  BY <1>1
<1> QED BY <1>1, <1>2 DEF Total, SegEnd

-----------------------------------------------------------------------------

\* The initial states satisfy the invariant.
LEMMA InitInv == Init => Inv
<1> SUFFICES ASSUME Init PROVE Inv
  OBVIOUS
<1>1. IsLayout(vols)
  BY LayoutsAssumption DEF Init
<1>2. 0 \in Volumes /\ vols.start[0] = 0 /\ vols.cut[0] = 0
  BY <1>1 DEF IsLayout, Volumes
<1>3. \A v \in Volumes : vols.start[v] \in Nat
  BY <1>1 DEF IsLayout, Volumes
<1>4. UNION {0..vols.start[v] : v \in Volumes} \subseteq Nat
  BY <1>3
<1>5. offset \in [Volumes -> Nat]
  BY <1>4 DEF Init
<1>6. TypeOK
  BY <1>1, <1>5 DEF Init, TypeOK, IsLayout, Idle
<1>7. offset[0] = 0
  BY <1>2, <1>5 DEF Init
<1>8. Positioned
  BY <1>2, <1>7 DEF Init, Positioned
<1>9. vols.n \in Nat /\ vols.n > 0
  BY <1>1 DEF IsLayout
<1>10. 0 < vols.n - 1 => SegEnd(0) \in Nat
  BY <1>1, <1>2, LayoutFacts DEF SegEnd
<1>11. Left
  BY <1>9, <1>10 DEF Init, Left, Reading, Idle
<1> QED BY <1>6, <1>8, <1>11 DEF Inv

\* Nothing the invariant speaks of changes.
LEMMA StutterInv == Inv /\ UNCHANGED vars => Inv'
  BY DEF Inv, TypeOK, Positioned, Left, vars, Volumes, SegEnd, Total, AtSegEnd,
         Reading

\* An I/O error keeps the types, and nothing is claimed until the next seek.
LEMMA BreakInv ==
  ASSUME Inv, Break, logical_pos' \in Nat, current' \in 0..vols.n,
         offset' = offset
  PROVE  Inv'
  BY DEF Inv, TypeOK, Positioned, Left, Break, Volumes, Reading, Idle

-----------------------------------------------------------------------------

\* A read is called: only asked changes.
LEMMA StartReadInv == Inv /\ StartRead => Inv'
<1> SUFFICES ASSUME Inv, StartRead PROVE Inv'
  OBVIOUS
<1>1. asked' \in Nat
  BY AsksAssumption DEF StartRead
<1>2. TypeOK'
  BY <1>1 DEF Inv, TypeOK, StartRead, Volumes
<1>3. Positioned'
  BY DEF Inv, Positioned, StartRead, AtSegEnd, SegEnd
<1>4. Left'
  BY DEF Inv, Left, StartRead, Total, SegEnd
<1> QED BY <1>2, <1>3, <1>4 DEF Inv

\* The end of the data: current may move behind the last volume.
LEMMA ReadEndInv == Inv /\ ReadEnd => Inv'
<1> SUFFICES ASSUME Inv, ReadEnd PROVE Inv'
  OBVIOUS
<1>1. IsLayout(vols) /\ logical_pos \in Nat /\ vols' = vols
  BY DEF Inv, TypeOK, ReadEnd
<1>2. vols.n \in Nat /\ vols.n > 0 /\ Total \in Nat
      /\ SegEnd(vols.n - 1) = Total
  BY <1>1, TotalFacts
<1>3. current' = vols.n
  BY <1>2 DEF ReadEnd
<1>4. ready => logical_pos >= Total
  BY <1>2 DEF ReadEnd, AtSegEnd, Inv, Left
<1>5. TypeOK'
  BY <1>1, <1>2, <1>3 DEF Inv, TypeOK, ReadEnd, Answer, Volumes, Idle
<1>6. Positioned'
  BY <1>1, <1>2, <1>3 DEF Positioned
<1>7. Left'
  BY <1>1, <1>2, <1>3, <1>4 DEF Left, ReadEnd, Answer, Reading, Total
<1> QED BY <1>5, <1>6, <1>7 DEF Inv

\* The next volume is entered at its first data byte, which is the next byte
\* of the stream because the volume before was left exactly at its end.
LEMMA NextSegmentInv == Inv /\ NextSegment => Inv'
<1> SUFFICES ASSUME Inv, NextSegment PROVE Inv'
  OBVIOUS
<1> DEFINE v == current + 1
<1>1. /\ IsLayout(vols) /\ logical_pos \in Nat /\ vols' = vols
      /\ current \in 0..vols.n /\ offset \in [Volumes -> Nat]
      /\ logical_pos' = logical_pos /\ ready' = ready /\ asked' = asked
      /\ ready
  BY DEF Inv, TypeOK, NextSegment, Left
<1>2. vols.n \in Nat /\ vols.n > 0
  BY <1>1, TotalFacts
<1>3. v \in Volumes /\ current \in Volumes /\ current < vols.n - 1
  BY <1>1, <1>2 DEF NextSegment, Volumes
<1>4. /\ vols.start[v] \in Nat /\ vols.cut[v] \in Nat
      /\ vols.cut[v + 1] \in Nat /\ vols.cut[v] <= vols.cut[v + 1]
  BY <1>1, <1>3, LayoutFacts
<1>5. logical_pos = vols.cut[v]
  BY <1>1, <1>3, <1>4 DEF NextSegment, AtSegEnd, SegEnd, Inv, Left
<1>6. current' = v /\ offset' = [offset EXCEPT ![v] = vols.start[v]]
  BY DEF NextSegment, StartOffset
<1>7. offset' \in [Volumes -> Nat] /\ offset'[v] = vols.start[v]
  BY <1>1, <1>3, <1>4, <1>6
<1>8. TypeOK'
  BY <1>1, <1>2, <1>3, <1>6, <1>7 DEF Inv, TypeOK, Volumes
<1>9. Positioned'
  BY <1>1, <1>4, <1>5, <1>6, <1>7 DEF Positioned, AtSegEnd, SegEnd
<1>10. Left'
  BY <1>1, <1>2, <1>3, <1>4, <1>5, <1>6
  DEF Left, SegEnd, Volumes
<1> QED BY <1>8, <1>9, <1>10 DEF Inv

\* What a read of n bytes may assume and gives: the bytes come from inside
\* the current volume, and n is 0 only for an empty buffer.
LEMMA ReadSomeFacts ==
  ASSUME Inv, NEW n \in 0..asked, ReadSome(n)
  PROVE  /\ n \in Nat /\ asked \in Nat
         /\ current \in Volumes
         /\ logical_pos + n <= SegEnd(current) /\ SegEnd(current) <= Total
         /\ SegEnd(current) \in Nat /\ Total \in Nat /\ logical_pos \in Nat
         /\ vols.cut[current] \in Nat /\ vols.cut[current] <= logical_pos
         /\ vols.start[current] \in Nat
         /\ offset[current] = vols.start[current]
                                + (logical_pos - vols.cut[current])
         /\ n = 0 => asked = 0
<1>1. /\ IsLayout(vols) /\ logical_pos \in Nat /\ current \in 0..vols.n
      /\ current < vols.n /\ ~AtSegEnd /\ ready /\ asked \in Nat
  BY DEF Inv, TypeOK, Left, ReadSome, Inside, Reading
<1>2. vols.n \in Nat /\ Total \in Nat
  BY <1>1, TotalFacts
<1>3. current \in Volumes
  BY <1>1, <1>2 DEF Volumes
<1>4. /\ vols.start[current] \in Nat
      /\ vols.cut[current] \in Nat /\ vols.cut[current + 1] \in Nat
      /\ vols.cut[current + 1] <= vols.cut[vols.n]
  BY <1>1, <1>3, LayoutFacts
<1>5. /\ vols.cut[current] <= logical_pos
      /\ offset[current] = vols.start[current]
                             + (logical_pos - vols.cut[current])
  BY <1>1 DEF Inv, Positioned
<1>6. SegEnd(current) \in Nat /\ logical_pos < SegEnd(current)
      /\ SegEnd(current) <= Total
  BY <1>1, <1>4 DEF AtSegEnd, SegEnd, Total
<1>7. n \in Nat /\ n <= SegEnd(current) - logical_pos
  BY <1>1, <1>6 DEF ReadSome, ToRead, Smaller
<1>8. ASSUME n = 0 PROVE asked = 0
  <2>1. ~(offset[current] >= FileLen(current))
    BY <1>4, <1>5, <1>6, <1>1 DEF FileLen, SegSize, SegEnd
  <2>2. ToRead = 0
    BY <1>8, <2>1 DEF ReadSome
  <2> QED BY <2>2, <1>1, <1>6 DEF ToRead, Smaller
<1> QED BY <1>1, <1>2, <1>3, <1>4, <1>5, <1>6, <1>7, <1>8

\* A read inside a volume moves position and file offset by the same amount.
LEMMA ReadSomeInv ==
  ASSUME Inv, NEW n \in 0..asked, ReadSome(n)
  PROVE  Inv'
<1>1. /\ n \in Nat /\ asked \in Nat /\ current \in Volumes
      /\ logical_pos + n <= SegEnd(current) /\ SegEnd(current) \in Nat
      /\ logical_pos \in Nat
      /\ vols.cut[current] \in Nat /\ vols.cut[current] <= logical_pos
      /\ vols.start[current] \in Nat
      /\ offset[current] = vols.start[current]
                             + (logical_pos - vols.cut[current])
  BY ReadSomeFacts
<1>2. /\ vols' = vols /\ logical_pos' = logical_pos + n /\ current' = current
      /\ offset' = [offset EXCEPT ![current] = @ + n] /\ ready' = ready
      /\ asked' = Idle /\ offset \in [Volumes -> Nat] /\ current < vols.n
  BY DEF ReadSome, Answer, Inv, TypeOK, Inside
<1>3. offset' \in [Volumes -> Nat] /\ offset'[current] = offset[current] + n
  BY <1>1, <1>2
<1>4. TypeOK'
  <2>1. logical_pos' \in Nat /\ asked' = Idle /\ Volumes' = Volumes
    BY <1>1, <1>2 DEF Volumes
  <2> QED
    BY <1>2, <1>3, <2>1 DEF Inv, TypeOK
<1>5. Positioned'
  BY <1>1, <1>2, <1>3 DEF Positioned
<1>6. logical_pos' \in Int /\ SegEnd(current)' = SegEnd(current)
  BY <1>1, <1>2 DEF SegEnd
<1>7. vols.n \in Nat
  BY DEF Inv, TypeOK, IsLayout
<1>8. Left'
  BY <1>1, <1>2, <1>6, <1>7 DEF Left, Reading
<1> QED BY <1>4, <1>5, <1>8 DEF Inv

\* A seek positions the volume it chooses where the target lies in it.
LEMMA SeekDoneInv ==
  ASSUME Inv, NEW t \in Int, NEW v \in Volumes, SeekDone(t, v)
  PROVE  Inv'
<1>1. /\ IsLayout(vols) /\ t \in Nat /\ IsSegmentOf(v, t)
      /\ vols' = vols /\ logical_pos' = t /\ current' = v
      /\ offset' = [offset EXCEPT ![v] =
                      vols.start[v] + SubtractSaturating(t, vols.cut[v])]
      /\ asked' = Idle /\ ready' = TRUE /\ offset \in [Volumes -> Nat]
  BY DEF Inv, TypeOK, SeekDone, SeekTo
<1>2. /\ vols.n \in Nat /\ v \in Int /\ 0 <= v /\ v < vols.n
      /\ vols.start[v] \in Nat /\ vols.cut[v] \in Nat
      /\ vols.cut[v + 1] \in Nat
  BY <1>1, LayoutFacts
<1>3. SubtractSaturating(t, vols.cut[v]) \in Nat
  BY <1>1, <1>2 DEF SubtractSaturating
<1>4. /\ offset' \in [Volumes -> Nat]
      /\ offset'[v] = vols.start[v] + SubtractSaturating(t, vols.cut[v])
  BY <1>1, <1>2, <1>3
<1>5. TypeOK'
  BY <1>1, <1>2, <1>4 DEF TypeOK, Volumes
<1>6. ASSUME t < vols.cut[v + 1] PROVE vols.cut[v] <= t
  <2>1. \A w \in Volumes : w < v => vols.cut[w + 1] <= t
    <3>1. \A w \in Volumes : w < v => SegEnd(w) \in Int
      BY <1>1, LayoutFacts DEF SegEnd
    <3> QED BY <1>1, <1>2, <1>6, <3>1 DEF IsSegmentOf, SegEnd
  <2>2. CASE v = 0
    BY <1>1, <2>2 DEF IsLayout
  <2>3. CASE v > 0
    <3>1. v - 1 \in Volumes /\ v - 1 < v /\ (v - 1) + 1 = v
      BY <1>2, <2>3 DEF Volumes
    <3> QED BY <2>1, <3>1
  <2> QED BY <2>2, <2>3, <1>2
<1>7. Positioned'
  BY <1>1, <1>2, <1>4, <1>6 DEF Positioned, AtSegEnd, SegEnd, SubtractSaturating
<1>8. v < vols.n - 1 => t < vols.cut[v + 1]
  BY <1>1, <1>2 DEF IsSegmentOf, SegEnd
<1>9. Left'
  BY <1>1, <1>2, <1>8 DEF Left, Reading, SegEnd
<1> QED BY <1>5, <1>7, <1>9 DEF Inv

\* The target of a seek is a number.
LEMMA TargetType ==
  ASSUME Inv, NEW origin \in Origins, NEW d \in Deltas
  PROVE  Target(origin, d) \in Int
<1>1. d \in Int /\ logical_pos \in Int /\ Total \in Int
  BY DeltasAssumption, TotalFacts DEF Inv, TypeOK
<1>2. CASE origin = "start"
  BY <1>1, <1>2 DEF Target
<1>3. CASE origin = "current"
  BY <1>1, <1>3 DEF Target
<1>4. CASE origin = "end"
  BY <1>1, <1>4 DEF Target
<1> QED BY <1>2, <1>3, <1>4 DEF Origins

\* Every step keeps the invariant.
LEMMA NextInv == Inv /\ [Next]_vars => Inv'
<1> SUFFICES ASSUME Inv, [Next]_vars PROVE Inv'
  OBVIOUS
<1>0. /\ logical_pos \in Nat /\ current \in 0..vols.n /\ vols.n \in Nat
  BY DEF Inv, TypeOK, IsLayout
<1>1. CASE StartRead
  BY <1>1, StartReadInv
<1>2. CASE ReadEnd
  BY <1>2, ReadEndInv
<1>3. CASE NextSegment
  BY <1>3, NextSegmentInv
<1>4. CASE NextSegmentFails
  <2>1. logical_pos' = logical_pos /\ current' = current + 1 /\ Break
        /\ current < vols.n - 1 /\ offset' = offset
    BY <1>4 DEF NextSegmentFails
  <2>2. current' \in 0..vols.n
    BY <1>0, <2>1
  <2> QED BY <1>0, <2>1, <2>2, BreakInv
<1>5. CASE \E n \in 0..asked : ReadSome(n)
  BY <1>5, ReadSomeInv
<1>6. CASE ReadFails
  BY <1>0, <1>6, BreakInv DEF ReadFails
<1>7. CASE Seek
  <2>1. PICK origin \in Origins, d \in Deltas :
          \/ SeekRefused(Target(origin, d))
          \/ \E v \in Volumes : \/ SeekDone(Target(origin, d), v)
                                \/ SeekFails(Target(origin, d), v)
    BY <1>7 DEF Seek
  <2>2. PICK t \in Int : t = Target(origin, d)
    BY TargetType
  <2>3. CASE SeekRefused(t)
    BY <2>3 DEF SeekRefused, Inv, TypeOK, Positioned, Left, Volumes, AtSegEnd,
                SegEnd, Total, Reading
  <2>4. CASE \E v \in Volumes : SeekDone(t, v)
    BY <2>4, SeekDoneInv
  <2>5. ASSUME NEW v \in Volumes, SeekFails(t, v) PROVE Inv'
    <3>1. t \in Nat /\ logical_pos' = t /\ current' = v /\ Break
          /\ offset' = offset
      BY <2>5 DEF SeekFails, SeekTo
    <3>2. current' \in 0..vols.n
      BY <1>0, <3>1 DEF Volumes
    <3> QED BY <3>1, <3>2, BreakInv
  <2> QED BY <2>1, <2>2, <2>3, <2>4, <2>5
<1>8. CASE UNCHANGED vars
  BY <1>8, StutterInv
<1> QED BY <1>1, <1>2, <1>3, <1>4, <1>5, <1>6, <1>7, <1>8 DEF Next, ReadStep, Proceeds

\* The invariant holds in every reachable state.
THEOREM ReaderInvariant == Spec => []Inv
  BY InitInv, NextInv, PTL DEF Spec

\* The variables of the reader keep their types: read and seek never leave a
\* volume index behind the list or a negative position (volume.rs 112-173).
THEOREM ReaderTypeOK == Spec => []TypeOK
<1>1. Inv => TypeOK
  BY DEF Inv
<1> QED BY ReaderInvariant, <1>1, PTL

\* While the caller may read inside a volume, the OS offset of its file is the
\* place of the logical position: entering a volume in read and choosing one in
\* seek are the only places that set it, and they set it right.
THEOREM ReaderPositioned == Spec => []Positioned
<1>1. Inv => Positioned
  BY DEF Inv
<1> QED BY ReaderInvariant, <1>1, PTL

-----------------------------------------------------------------------------
(* The volumes read like one file.                                          *)

\* A read inside a volume answers with the next bytes of the stream.
LEMMA ReadSomeIsRead ==
  ASSUME Inv, NEW n \in 0..asked, ReadSome(n)
  PROVE  Flat!Read
<1> DEFINE got == [i \in 1..n |-> logical_pos + i - 1]
<1>1. /\ n \in Nat /\ asked \in Nat /\ current \in Volumes
      /\ logical_pos + n <= SegEnd(current) /\ SegEnd(current) <= Total
      /\ SegEnd(current) \in Nat /\ Total \in Nat /\ logical_pos \in Nat
      /\ vols.cut[current] \in Nat /\ vols.cut[current] <= logical_pos
      /\ vols.start[current] \in Nat
      /\ offset[current] = vols.start[current]
                             + (logical_pos - vols.cut[current])
      /\ n = 0 => asked = 0
  BY ReadSomeFacts
<1>2. FileBytes(current, offset[current], n) = got
  <2>1. \A i \in 1..n :
          /\ offset[current] + i - 1 >= vols.start[current]
          /\ vols.cut[current]
               + (offset[current] + i - 1 - vols.start[current])
             = logical_pos + i - 1
    BY <1>1
  <2>2. \A i \in 1..n : ~(offset[current] + i - 1 < vols.start[current])
    BY <1>1
  <2> QED BY <2>1, <2>2 DEF FileBytes
<1>3. /\ reply' = [op |-> "read", asked |-> asked, got |-> got]
      /\ logical_pos' = logical_pos + n /\ vols' = vols /\ ready' = ready
  BY <1>2 DEF ReadSome, Answer
<1>4. reply'.op = "read" /\ reply'.asked = asked /\ reply'.got = got
  BY <1>3
<1>5. Len(got) = n
  BY <1>1
<1>6. n <= asked /\ (n > 0 => logical_pos + n <= Total)
  BY <1>1
<1>7. ready
  BY DEF Inv, Left, ReadSome, Inside
<1>8. Total' = Total
  BY <1>3 DEF Total
<1> HIDE DEF got
<1>9. got = [i \in 1..n |-> logical_pos + i - 1]
  BY DEF got
<1> QED BY <1>1, <1>3, <1>4, <1>5, <1>6, <1>7, <1>8, <1>9 DEF Flat!Read

\* The end is reported only at the end.
LEMMA ReadEndIsRead == Inv /\ ReadEnd => Flat!Read
<1> SUFFICES ASSUME Inv, ReadEnd PROVE Flat!Read
  OBVIOUS
<1>1. /\ IsLayout(vols) /\ logical_pos \in Nat /\ asked \in Nat
      /\ vols' = vols /\ logical_pos' = logical_pos /\ ready' = ready /\ ready
      /\ reply' = [op |-> "read", asked |-> asked, got |-> << >>]
  BY DEF Inv, TypeOK, Left, ReadEnd, Answer, Reading
<1>2. vols.n \in Nat /\ Total \in Nat /\ SegEnd(vols.n - 1) = Total
  BY <1>1, TotalFacts
<1>3. logical_pos >= Total
  BY <1>1, <1>2 DEF ReadEnd, AtSegEnd, Inv, Left
<1>4. reply'.op = "read" /\ reply'.asked = asked /\ reply'.got = << >>
  BY <1>1
<1>5. Len(<< >>) = 0 /\ << >> = [i \in 1..0 |-> logical_pos + i - 1]
  OBVIOUS
<1>6. Total' = Total /\ logical_pos' = logical_pos + 0 /\ 0 <= asked
  BY <1>1 DEF Total
<1> QED BY <1>1, <1>3, <1>4, <1>5, <1>6 DEF Flat!Read

\* An I/O error is one of the plain file's.
LEMMA BreakIsBreak ==
  ASSUME Break, logical_pos' \in Nat
  PROVE  Flat!Break
  BY DEF Break, Flat!Break, Total

\* Every step of the reader is one of the plain file, or none.
LEMMA ReaderStep == Inv /\ Inv' /\ [Next]_vars => [Flat!Next]_(Flat!vars)
<1> SUFFICES ASSUME Inv, Inv', [Next]_vars
             PROVE  Flat!Next \/ UNCHANGED Flat!vars
  OBVIOUS
<1>0. logical_pos' \in Nat
  BY DEF Inv, TypeOK
<1>1. CASE StartRead
  BY <1>1 DEF StartRead, Flat!vars, Total
<1>2. CASE ReadEnd
  BY <1>2, ReadEndIsRead DEF Flat!Next
<1>3. CASE NextSegment
  BY <1>3 DEF NextSegment, Flat!vars, Total
<1>4. CASE NextSegmentFails
  BY <1>0, <1>4, BreakIsBreak DEF NextSegmentFails, Flat!Next
<1>5. CASE \E n \in 0..asked : ReadSome(n)
  BY <1>5, ReadSomeIsRead DEF Flat!Next
<1>6. CASE ReadFails
  BY <1>0, <1>6, BreakIsBreak DEF ReadFails, Flat!Next
<1>7. CASE Seek
  <2>1. PICK origin \in Origins, d \in Deltas :
          \/ SeekRefused(Target(origin, d))
          \/ \E v \in Volumes : \/ SeekDone(Target(origin, d), v)
                                \/ SeekFails(Target(origin, d), v)
    BY <1>7 DEF Seek
  <2>2. PICK t \in Int : t = Target(origin, d)
    BY TargetType
  <2>3. CASE SeekRefused(t)
    BY <2>3 DEF SeekRefused, Flat!Refuse, Flat!Next, Total
  <2>4. ASSUME NEW v \in Volumes, SeekDone(t, v) PROVE Flat!Next
    BY <1>0, <2>4 DEF SeekDone, SeekTo, Flat!Seek, Flat!Next, Total
  <2>5. ASSUME NEW v \in Volumes, SeekFails(t, v) PROVE Flat!Next
    BY <1>0, <2>5, BreakIsBreak DEF SeekFails, Flat!Next
  <2> QED BY <2>1, <2>2, <2>3, <2>4, <2>5
<1>8. CASE UNCHANGED vars
  BY <1>8 DEF vars, Flat!vars, Total
<1> QED BY <1>1, <1>2, <1>3, <1>4, <1>5, <1>6, <1>7, <1>8 DEF Next, ReadStep, Proceeds

\* MultiVolumeReader implements a plain file: its reads give the next bytes
\* and end only at the end, whatever was read and sought before
\* (volume.rs 111-174).
THEOREM ReaderReadsLikeOneFile == Spec => ReadsLikeOneFile
<1>1. Init => Flat!Init
  <2> SUFFICES ASSUME Init PROVE Flat!Init
    OBVIOUS
  <2>1. Total \in Nat
    BY LayoutsAssumption, TotalFacts DEF Init
  <2> QED BY <2>1 DEF Init, Flat!Init
<1> QED BY <1>1, ReaderInvariant, ReaderStep, PTL
        DEF Spec, ReadsLikeOneFile, Flat!Spec
=============================================================================

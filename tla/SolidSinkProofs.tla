-------------------------- MODULE SolidSinkProofs --------------------------
EXTENDS SolidSink, SequenceTheorems, TLAPS

\* A run of stream positions is a sequence of known length and elements.
LEMMA DataProperties ==
  ASSUME NEW a \in Nat, NEW n \in Nat
  PROVE  /\ Data(a, n) \in Seq(Nat)
         /\ Len(Data(a, n)) = n
         /\ \A i \in 1..n : Data(a, n)[i] = a + i - 1
<1>1. Data(a, n) \in [1..n -> Nat]
  BY DEF Data
<1>2. Data(a, n) \in Seq(Nat)
  BY <1>1, SeqDef
<1>3. DOMAIN Data(a, n) = 1..n
  BY <1>1
<1> QED
  BY <1>2, <1>3, LenProperties DEF Data

\* A run of no bytes is empty.
LEMMA DataEmpty ==
  ASSUME NEW a \in Nat
  PROVE  Data(a, 0) = << >>
<1> QED
  BY DataProperties, EmptySeq

\* Two runs that follow each other make one.
LEMMA DataAppend ==
  ASSUME NEW a \in Nat, NEW m \in Nat, NEW n \in Nat
  PROVE  Data(a, m) \o Data(a + m, n) = Data(a, m + n)
<1> DEFINE s == Data(a, m)  t == Data(a + m, n)  u == Data(a, m + n)
<1>1. s \in Seq(Nat) /\ Len(s) = m /\ \A i \in 1..m : s[i] = a + i - 1
  BY DataProperties
<1>2. t \in Seq(Nat) /\ Len(t) = n /\ \A i \in 1..n : t[i] = a + m + i - 1
  <2>1. a + m \in Nat
    OBVIOUS
  <2> QED
    BY <2>1, DataProperties
<1>3. u \in Seq(Nat) /\ Len(u) = m + n /\ \A i \in 1..m + n : u[i] = a + i - 1
  <2>1. m + n \in Nat
    OBVIOUS
  <2> QED
    BY <2>1, DataProperties
<1> HIDE DEF s, t, u
<1>4. /\ s \o t \in Seq(Nat)
      /\ Len(s \o t) = m + n
      /\ \A i \in 1..m + n : (s \o t)[i] = IF i <= m THEN s[i] ELSE t[i - m]
  BY <1>1, <1>2, ConcatProperties
<1>5. ASSUME NEW i \in 1..m + n PROVE (s \o t)[i] = u[i]
  <2>1. (s \o t)[i] = (IF i <= m THEN s[i] ELSE t[i - m]) /\ u[i] = a + i - 1
    BY <1>3, <1>4
  <2>2. CASE i <= m
    <3>1. s[i] = a + i - 1
      BY <1>1, <2>2
    <3> QED
      BY <2>1, <2>2, <3>1
  <2>3. CASE ~(i <= m)
    <3>1. i - m \in 1..n /\ a + m + (i - m) - 1 = a + i - 1
      BY <2>3
    <3>2. t[i - m] = a + m + (i - m) - 1
      BY <1>2, <3>1
    <3> QED
      BY <2>1, <2>3, <3>1, <3>2
  <2> QED
    BY <2>2, <2>3
<1>6. s \o t = u
  BY <1>3, <1>4, <1>5, SeqEqual
<1> QED
  BY <1>6 DEF s, t, u

-----------------------------------------------------------------------------
(* The two tilings stay aligned with the stream.                            *)

Aligned ==
  ~Failed =>
    /\ err = "none"
    /\ pos = g.fileCut[file_idx] + file_written
    /\ file_idx < g.nf => file_written <= FileSize(file_idx)
    /\ file_idx = g.nf => file_written = 0 /\ ~file_open
    /\ file_written > 0 => file_open
    /\ writer = IF file_open /\ file_idx \in g.wanted THEN file_idx ELSE None
    /\ pos = g.crcCut[crc_idx] + crc_written
    /\ crc_written > 0 => crc_idx < g.nb /\ crc_written < CrcSize(crc_idx)
    /\ hashed = g.crcCut[crc_idx]
    /\ \A b \in g.bad : crc_idx <= b
    /\ pos + rest <= g.length
    /\ pc = "write" <=> rest > 0
    /\ pc \in {"finish", "ok"} => pos = g.length
    /\ pc = "ok" => AllProduced

Inv1 == ControlOK /\ Aligned

\* What IsGroup says of the two tilings of g, one arithmetic fact at a time.
LEMMA GroupFacts ==
  ASSUME IsGroup(g)
  PROVE  /\ g.nf \in Nat \ {0} /\ g.nb \in Nat \ {0} /\ g.length \in Nat
         /\ g.pipe \in BOOLEAN
         /\ g.wanted \subseteq 0..g.nf - 1 /\ g.bad \subseteq 0..g.nb - 1
         /\ g.path \in [0..g.nf - 1 -> Paths]
         /\ g.disk \in [Paths -> {Absent, Old}]
         /\ g.fileCut[0] = 0 /\ g.crcCut[0] = 0
         /\ \A i \in 0..g.nf : g.fileCut[i] \in Nat
         /\ \A i \in 0..g.nb : g.crcCut[i] \in Nat
         /\ \A i, j \in 0..g.nf : i <= j => g.fileCut[i] <= g.fileCut[j]
         /\ \A i, j \in 0..g.nb : i <= j => g.crcCut[i] <= g.crcCut[j]
<1> QED
  BY DEF IsGroup, IsTiling

\* Sizes are not negative.
LEMMA SizeFacts ==
  ASSUME IsGroup(g)
  PROVE  /\ \A i \in 0..g.nf - 1 : FileSize(i) \in Nat
         /\ \A i \in 0..g.nb - 1 : CrcSize(i) \in Nat
<1>1. \A i \in 0..g.nf - 1 : i \in 0..g.nf /\ i + 1 \in 0..g.nf /\ i <= i + 1
  BY GroupFacts
<1>2. \A i \in 0..g.nb - 1 : i \in 0..g.nb /\ i + 1 \in 0..g.nb /\ i <= i + 1
  BY GroupFacts
<1>3. \A i \in 0..g.nf - 1 : g.fileCut[i] \in Nat /\ g.fileCut[i + 1] \in Nat
                              /\ g.fileCut[i] <= g.fileCut[i + 1]
  BY <1>1, GroupFacts
<1>4. \A i \in 0..g.nb - 1 : g.crcCut[i] \in Nat /\ g.crcCut[i + 1] \in Nat
                              /\ g.crcCut[i] <= g.crcCut[i + 1]
  BY <1>2, GroupFacts
<1> QED
  BY <1>3, <1>4 DEF FileSize, CrcSize

\* The run of one turn of write() stays inside the call and both spans, so no
\* subtraction of the code goes below zero.
LEMMA TakeFacts ==
  ASSUME Inv1, InSpans
  PROVE  /\ file_idx \in 0..g.nf - 1 /\ crc_idx \in 0..g.nb - 1
         /\ Take \in Nat /\ Take <= rest
         /\ file_written + Take <= FileSize(file_idx)
         /\ crc_written + Take <= CrcSize(crc_idx)
<1>0. IsGroup(g) /\ file_idx \in 0..g.nf /\ crc_idx \in 0..g.nb
      /\ file_written \in Nat /\ crc_written \in Nat /\ rest \in Nat
  BY DEF Inv1, ControlOK
<1>1. file_idx \in 0..g.nf - 1 /\ crc_idx \in 0..g.nb - 1
  <2>1. g.nf \in Nat /\ g.nb \in Nat
    BY <1>0, GroupFacts
  <2>2. file_idx < g.nf /\ crc_idx < g.nb
    BY DEF InSpans
  <2> QED
    BY <1>0, <2>1, <2>2
<1>2. FileSize(file_idx) \in Nat /\ CrcSize(crc_idx) \in Nat
  BY <1>0, <1>1, SizeFacts
<1>3. file_written < FileSize(file_idx)
  BY <1>0, <1>1, <1>2 DEF InSpans, Full
<1>4. crc_written <= CrcSize(crc_idx)
  BY <1>0, <1>1, <1>2 DEF Inv1, Aligned, InSpans, Failed
<1> QED
  BY <1>0, <1>1, <1>2, <1>3, <1>4 DEF Take, Smaller

\* Initially both tilings stand at the start of the stream.
LEMMA Inv1Init == Init => Inv1
<1> SUFFICES ASSUME Init PROVE Inv1
  OBVIOUS
<1>1. IsGroup(g)
  BY GroupsAssumption DEF Init
<1>2. 0 \in 0..g.nf /\ 0 \in 0..g.nb /\ g.nf # 0 /\ g.length \in Nat
      /\ g.bad \subseteq 0..g.nb - 1 /\ g.fileCut[0] = 0 /\ g.crcCut[0] = 0
  BY <1>1, GroupFacts
<1>3. ControlOK
  BY <1>1, <1>2 DEF Init, ControlOK, None
<1>4. Aligned
  <2>1. 0 < g.nf => file_written <= FileSize(0)
    BY <1>1, <1>2, SizeFacts, GroupFacts DEF Init
  <2>2. \A b \in g.bad : 0 <= b
    BY <1>1, GroupFacts
  <2> QED
    BY <1>2, <2>1, <2>2 DEF Init, Aligned, Failed
<1> QED
  BY <1>3, <1>4 DEF Inv1

\* What ensure_file_open leaves in the writer.
LEMMA OpenedWriterFacts ==
  ASSUME Inv1, ~Failed
  PROVE  OpenedWriter = IF file_idx \in g.wanted THEN file_idx ELSE None
<1> QED
  BY DEF Inv1, ControlOK, Aligned, OpenedWriter, Opens

\* Opening a file keeps the sequence of created paths well typed.
LEMMA OpenedFilesType ==
  ASSUME ControlOK
  PROVE  OpenedFiles \in SUBSET Paths
<1>1. CASE Creates
  <2>1. file_idx \in 0..g.nf - 1
    BY <1>1, GroupFacts DEF Creates, Opens, ControlOK
  <2>2. g.path[file_idx] \in Paths
    BY <2>1, GroupFacts DEF ControlOK
  <2> QED
    BY <2>2 DEF OpenedFiles, ControlOK
<1>2. CASE ~Creates
  BY <1>2 DEF OpenedFiles, ControlOK
<1> QED
  BY <1>1, <1>2

\* One turn of advance_full_files: the span is exactly full, so the next one
\* starts where the stream is.
LEMMA Inv1CloseFull == Inv1 /\ CloseFull => Inv1'
<1> SUFFICES ASSUME Inv1, CloseFull PROVE Inv1'
  OBVIOUS
<1>1. ~Failed /\ ~Failed' /\ file_idx < g.nf /\ file_written >= FileSize(file_idx)
  BY DEF CloseFull, Advancing, Full, Failed
<1>2. IsGroup(g) /\ file_idx \in 0..g.nf /\ g.nf \in Nat /\ file_written \in Nat
  BY GroupFacts DEF Inv1, ControlOK
<1>3. file_idx \in 0..g.nf - 1 /\ file_idx + 1 \in 0..g.nf /\ file_idx \in 0..g.nf
  BY <1>1, <1>2
<1>4. FileSize(file_idx) \in Nat /\ file_written = FileSize(file_idx)
  BY <1>1, <1>2, <1>3, SizeFacts DEF Inv1, Aligned
<1>5. g.fileCut[file_idx] \in Nat /\ g.fileCut[file_idx + 1] \in Nat
  BY <1>2, <1>3, GroupFacts
<1>6. pos = g.fileCut[file_idx + 1]
  BY <1>1, <1>4, <1>5 DEF Inv1, Aligned, FileSize
<1>7. ControlOK'
  <2>1. created' \in SUBSET Paths
    BY OpenedFilesType DEF Inv1, CloseFull
  <2> QED
    BY <1>3, <2>1 DEF Inv1, ControlOK, CloseFull, None
<1>8. Aligned'
  <2>1. (file_idx + 1 < g.nf => 0 <= FileSize(file_idx + 1))
    BY <1>2, <1>3, SizeFacts
  <2>2. pos' = g.fileCut[file_idx'] + file_written'
    BY <1>5, <1>6 DEF CloseFull
  <2>3. file_idx' < g'.nf => file_written' <= FileSize(file_idx)'
    BY <2>1 DEF CloseFull, FileSize
  <2>4. /\ file_written' = 0 /\ ~file_open' /\ writer' = None
        /\ UNCHANGED <<g, pc, err, pos, rest, crc_idx, crc_written, hashed>>
    BY DEF CloseFull
  <2>5. pc # "ok"
    BY DEF CloseFull, Advancing
  <2> QED
    BY <1>1, <2>2, <2>3, <2>4, <2>5 DEF Inv1, Aligned, CrcSize
<1> QED
  BY <1>7, <1>8 DEF Inv1

\* The steps that fail leave nothing to align.
LEMMA Inv1Fails ==
  ASSUME Inv1, Failed', ControlOK'
  PROVE  Inv1'
<1> QED
  BY DEF Inv1, Aligned

\* A turn that writes a run moves both tilings with the stream.
LEMMA Inv1WriteRun ==
  ASSUME Inv1, WriteRun
  PROVE  /\ file_idx \in 0..g.nf - 1 /\ crc_idx \in 0..g.nb - 1
         /\ Take \in Nat /\ pos \in Nat /\ pos + Take \in Nat
         /\ crc_written \in Nat /\ CrcSize(crc_idx) \in Nat
         /\ crc_written + Take <= CrcSize(crc_idx)
         /\ g.crcCut[crc_idx] \in Nat /\ g.crcCut[crc_idx + 1] \in Nat
         /\ pos = g.crcCut[crc_idx] + crc_written
         /\ pos' = pos + Take /\ pos' \in Nat /\ rest' \in Nat
         /\ pos' + rest' <= g.length
         /\ file_idx' = file_idx /\ file_written' \in Nat
         /\ pos' = g.fileCut[file_idx] + file_written'
         /\ file_written' <= FileSize(file_idx)
         /\ file_open' = TRUE
         /\ writer' = IF file_idx \in g.wanted THEN file_idx ELSE None
         /\ created' \in SUBSET Paths
         /\ g' = g /\ IsGroup(g)
<1>1. InSpans /\ ~Failed
  BY DEF WriteRun, InSpans, Failed
<1>2. IsGroup(g) /\ pos \in Nat /\ rest \in Nat /\ file_written \in Nat /\ crc_written \in Nat
  BY DEF Inv1, ControlOK
<1>3. /\ file_idx \in 0..g.nf - 1 /\ crc_idx \in 0..g.nb - 1
      /\ Take \in Nat /\ Take <= rest
      /\ file_written + Take <= FileSize(file_idx)
      /\ crc_written + Take <= CrcSize(crc_idx)
  BY <1>1, TakeFacts
<1>4. FileSize(file_idx) \in Nat /\ CrcSize(crc_idx) \in Nat
  BY <1>2, <1>3, SizeFacts
<1>5. file_idx \in 0..g.nf /\ crc_idx \in 0..g.nb /\ crc_idx + 1 \in 0..g.nb
      /\ g.length \in Nat
  BY <1>2, <1>3, GroupFacts
<1>6. g.fileCut[file_idx] \in Nat /\ g.crcCut[crc_idx] \in Nat
      /\ g.crcCut[crc_idx + 1] \in Nat
  BY <1>2, <1>5, GroupFacts
<1>7. /\ pos = g.fileCut[file_idx] + file_written
      /\ pos = g.crcCut[crc_idx] + crc_written
      /\ pos + rest <= g.length
  BY <1>1 DEF Inv1, Aligned
<1>8. /\ pos' = pos + Take /\ rest' = rest - Take
      /\ file_written' = file_written + Take
      /\ file_open' = TRUE /\ writer' = OpenedWriter /\ created' = OpenedFiles
      /\ g' = g /\ file_idx' = file_idx
  BY DEF WriteRun
<1>9. writer' = IF file_idx \in g.wanted THEN file_idx ELSE None
  BY <1>1, <1>8, OpenedWriterFacts
<1>10. created' \in SUBSET Paths
  BY <1>8, OpenedFilesType DEF Inv1
<1>11. /\ pos + Take \in Nat /\ rest - Take \in Nat
       /\ (pos + Take) + (rest - Take) <= g.length
       /\ pos + Take = g.fileCut[file_idx] + (file_written + Take)
       /\ file_written + Take \in Nat
  BY <1>2, <1>3, <1>5, <1>6, <1>7
<1> QED
  BY <1>2, <1>3, <1>4, <1>6, <1>7, <1>8, <1>9, <1>10, <1>11

\* A turn that stays inside its block (extract.rs 617-633) keeps the alignment.
LEMMA Inv1WithinBlock == Inv1 /\ WithinBlock => Inv1'
<1> SUFFICES ASSUME Inv1, WithinBlock PROVE Inv1'
  OBVIOUS
<1>1. WriteRun /\ ~Failed /\ pc = "write" /\ file_idx < g.nf
  BY DEF WithinBlock, WriteRun, InSpans, Failed
<1>2. /\ crc_written' = crc_written + Take /\ crc_idx' = crc_idx
      /\ hashed' = hashed /\ err' = err
      /\ pc' = IF rest' = 0 THEN "decode" ELSE "write"
      /\ crc_written + Take # CrcSize(crc_idx)
  BY DEF WithinBlock, EndOfTurn, BlockFull
<1>3. crc_written' \in Nat /\ crc_written' < CrcSize(crc_idx) /\ crc_idx < g.nb
      /\ pos' = g.crcCut[crc_idx] + crc_written'
  BY <1>1, <1>2, Inv1WriteRun DEF InSpans, WriteRun
<1>4. ControlOK'
  BY <1>1, <1>2, <1>3, Inv1WriteRun DEF Inv1, ControlOK
<1>5. Aligned'
  <2>1. /\ pos' = g.fileCut[file_idx] + file_written' /\ file_written' <= FileSize(file_idx)
        /\ file_open' = TRUE /\ pos' + rest' <= g.length /\ file_idx' = file_idx
        /\ rest' \in Nat
        /\ writer' = (IF file_idx \in g.wanted THEN file_idx ELSE None) /\ g' = g
    BY <1>1, Inv1WriteRun
  <2>2. /\ err = "none" /\ hashed = g.crcCut[crc_idx] /\ \A b \in g.bad : crc_idx <= b
    BY <1>1 DEF Inv1, Aligned
  <2>3. file_idx # g.nf
    BY <1>1, Inv1WriteRun, GroupFacts
  <2> QED
    BY <1>2, <1>3, <2>1, <2>2, <2>3 DEF Aligned, FileSize, CrcSize
<1> QED
  BY <1>4, <1>5 DEF Inv1

\* A turn that completes a block with the right CRC keeps the alignment.
LEMMA Inv1CompleteBlock == Inv1 /\ CompleteBlock => Inv1'
<1> SUFFICES ASSUME Inv1, CompleteBlock PROVE Inv1'
  OBVIOUS
<1>1. WriteRun /\ ~Failed /\ pc = "write"
  BY DEF CompleteBlock, WriteRun, InSpans, Failed
<1>2. /\ crc_written' = 0 /\ crc_idx' = crc_idx + 1 /\ hashed' = pos' /\ err' = err
      /\ pc' = IF rest' = 0 THEN "decode" ELSE "write"
      /\ pos + Take = g.crcCut[crc_idx + 1] /\ crc_idx \notin g.bad
  BY DEF CompleteBlock, EndOfTurn, CrcMatches
<1>3. crc_idx' \in 0..g.nb /\ crc_idx \in 0..g.nb - 1
  <2>1. crc_idx \in 0..g.nb - 1 /\ IsGroup(g)
    BY <1>1, Inv1WriteRun
  <2>2. g.nb \in Nat
    BY <2>1, GroupFacts
  <2> QED
    BY <1>2, <2>1, <2>2
<1>4. pos' = g.crcCut[crc_idx'] /\ pos' \in Nat
  BY <1>1, <1>2, Inv1WriteRun
<1>5. ControlOK'
  BY <1>1, <1>2, <1>3, <1>4, Inv1WriteRun DEF Inv1, ControlOK
<1>6. Aligned'
  <2>1. /\ pos' = g.fileCut[file_idx] + file_written' /\ file_written' <= FileSize(file_idx)
        /\ file_open' = TRUE /\ pos' + rest' <= g.length /\ file_idx' = file_idx
        /\ rest' \in Nat
        /\ writer' = (IF file_idx \in g.wanted THEN file_idx ELSE None) /\ g' = g
    BY <1>1, Inv1WriteRun
  <2>2. err = "none" /\ \A b \in g.bad : crc_idx + 1 <= b
    <3>1. g.bad \subseteq 0..g.nb - 1 /\ \A b \in g.bad : crc_idx <= b
      BY <1>1, GroupFacts DEF Inv1, ControlOK, Aligned
    <3>2. \A b \in g.bad : b \in Int /\ crc_idx <= b /\ crc_idx # b
      BY <1>2, <3>1
    <3> QED
      BY <1>1, <1>3, <3>2 DEF Inv1, Aligned
  <2>3. file_idx # g.nf
    BY <1>1, Inv1WriteRun, GroupFacts
  <2>4. pos' = g'.crcCut[crc_idx'] + crc_written'
    <3>1. crc_written' = 0 /\ g' = g
      BY <1>2, <2>1
    <3> QED
      BY <1>4, <3>1
  <2>5. hashed' = g'.crcCut[crc_idx'] /\ ~(crc_written' > 0) /\ err' = "none"
        /\ (\A b \in g.bad : crc_idx' <= b)
    <3>1. crc_written' = 0 /\ g' = g /\ crc_idx' = crc_idx + 1 /\ err' = err
      BY <1>2, <2>1
    <3>2. hashed' = g'.crcCut[crc_idx']
      BY <1>2, <1>4, <3>1
    <3> QED
      BY <2>2, <3>1, <3>2
  <2> QED
    BY <1>2, <2>1, <2>3, <2>4, <2>5 DEF Aligned, FileSize, CrcSize
<1> QED
  BY <1>5, <1>6 DEF Inv1

\* The actions that end in an error.
Failing ==
  \/ CloseFullFails \/ OpenFails \/ ExceedsFiles \/ ExceedsBlocks \/ BlockMismatch
  \/ \E k \in 0..rest - 1 : WriteFails(k)
  \/ DecoderFails \/ Cleanup

\* So does every action that ends in an error.
LEMMA Inv1Failing == Inv1 /\ Failing => Inv1'
<1> SUFFICES ASSUME Inv1, Failing PROVE Inv1'
  OBVIOUS
<1>1. ControlOK
  BY DEF Inv1
<1>2. ASSUME CreateFails PROVE ControlOK' /\ Failed'
  BY <1>1, <1>2 DEF CreateFails, Fail, ControlOK, Failed
<1>3. CASE CloseFullFails \/ OpenFails
  BY <1>2, <1>3, Inv1Fails DEF CloseFullFails, OpenFails
<1>4. CASE ExceedsFiles \/ ExceedsBlocks \/ DecoderFails
  <2>1. ControlOK' /\ Failed'
    BY <1>1, <1>4 DEF ExceedsFiles, ExceedsBlocks, DecoderFails, Fail, sinkVars, ControlOK, Failed
  <2> QED
    BY <2>1, Inv1Fails
<1>5. CASE BlockMismatch
  <2>1. WriteRun /\ Failed' /\ pc' = "fail" /\ err' = "crc mismatch" /\ hashed' = pos'
        /\ crc_idx' = crc_idx /\ crc_written' = crc_written + Take
    BY <1>5 DEF BlockMismatch, Fail, Failed
  <2>2. crc_written' \in Nat
    <3>1. crc_written \in Nat /\ Take \in Nat
      BY <2>1, Inv1WriteRun
    <3>2. crc_written' = crc_written + Take
      BY <2>1
    <3> QED
      BY <3>1, <3>2
  <2>3. ControlOK'
    BY <1>1, <2>1, <2>2, Inv1WriteRun DEF ControlOK
  <2> QED
    BY <2>1, <2>3, Inv1Fails
<1>6. ASSUME NEW k \in 0..rest - 1, WriteFails(k) PROVE Inv1'
  <2>1. /\ Failed' /\ pc' = "fail" /\ err' = "io" /\ ~Failed
        /\ created' = OpenedFiles /\ writer' = OpenedWriter /\ file_open' = TRUE
        /\ UNCHANGED <<g, pos, rest, file_idx, file_written, crc_idx, crc_written, hashed>>
    BY <1>6 DEF WriteFails, Fail, Failed, InSpans
  <2>2. created' \in SUBSET Paths /\ writer' \in {None} \cup g.wanted
    BY <1>1, <2>1, OpenedFilesType, OpenedWriterFacts
  <2>3. ControlOK'
    BY <1>1, <2>1, <2>2 DEF ControlOK
  <2> QED
    BY <2>1, <2>3, Inv1Fails
<1>7. CASE Cleanup
  <2>1. ControlOK' /\ Failed'
    BY <1>1, <1>7 DEF Cleanup, sinkVars, ControlOK, Failed
  <2> QED
    BY <2>1, Inv1Fails
<1> QED
  BY <1>3, <1>4, <1>5, <1>6, <1>7 DEF Failing

\* The decoder's other steps and the verdict of finish().
LEMMA Inv1Other ==
  Inv1 /\ ((\E n \in 1..g.length - pos : DecoderWrites(n)) \/ DecoderEnds \/ Finish)
    => Inv1'
<1> SUFFICES ASSUME Inv1,
                    (\E n \in 1..g.length - pos : DecoderWrites(n)) \/ DecoderEnds \/ Finish
             PROVE  Inv1'
  OBVIOUS
<1>0. pos \in Nat /\ rest \in Nat /\ g.length \in Nat
  BY GroupFacts DEF Inv1, ControlOK
<1>1. ASSUME NEW n \in 1..g.length - pos, DecoderWrites(n) PROVE Inv1'
  <2>1. n \in Nat /\ pos + n <= g.length
    BY <1>0, <1>1
  <2>2. ControlOK'
    BY <1>1, <2>1 DEF DecoderWrites, sinkVars, Inv1, ControlOK
  <2>3. Aligned'
    BY <1>1, <2>1 DEF DecoderWrites, sinkVars, Inv1, Aligned, Failed, FileSize, CrcSize
  <2> QED
    BY <2>2, <2>3 DEF Inv1
<1>2. CASE DecoderEnds
  <2>1. ControlOK'
    BY <1>2 DEF DecoderEnds, sinkVars, Inv1, ControlOK
  <2>2. Aligned'
    BY <1>2 DEF DecoderEnds, sinkVars, Inv1, Aligned, Failed, FileSize, CrcSize
  <2> QED
    BY <2>1, <2>2 DEF Inv1
<1>3. CASE Finish
  <2>1. ControlOK'
    BY <1>3 DEF Finish, Fail, sinkVars, Inv1, ControlOK
  <2>2. Aligned'
    BY <1>3 DEF Finish, Fail, AllProduced, sinkVars, Inv1, Aligned, Failed, FileSize, CrcSize
  <2> QED
    BY <2>1, <2>2 DEF Inv1
<1> QED
  BY <1>1, <1>2, <1>3

\* Every step keeps the two tilings aligned with the stream.
LEMMA Inv1Next == Inv1 /\ [Next \/ Done]_vars => Inv1'
<1> SUFFICES ASSUME Inv1, [Next \/ Done]_vars PROVE Inv1'
  OBVIOUS
<1>1. CASE Next
  BY <1>1, Inv1CloseFull, Inv1WithinBlock, Inv1CompleteBlock, Inv1Failing, Inv1Other
     DEF Next, SinkStep, Decoder, Failing
<1>2. CASE UNCHANGED vars
  BY <1>2 DEF vars, sinkVars, Inv1, ControlOK, Aligned, Failed, FileSize, CrcSize, AllProduced
<1> QED
  BY <1>1, <1>2 DEF Done

\* The alignment of the two tilings holds in every reachable state.
LEMMA Inv1Always == Spec => []Inv1
<1> QED
  BY Inv1Init, Inv1Next, PTL DEF Spec

-----------------------------------------------------------------------------
(* The files: what is on disk follows the first tiling.                     *)

DiskOK == disk \in [Paths -> Contents]

Inv2 == Inv1 /\ DiskOK /\ FilesRouted

\* When the current span is wanted, opening it leaves at its path the bytes it
\* has received so far: none if it was not open yet.
LEMMA OpenedContent ==
  ASSUME Inv2, ~Failed, ~g.pipe, file_idx \in 0..g.nf - 1, file_idx \in g.wanted
  PROVE  /\ g.path[file_idx] \in Paths
         /\ OpenedDisk \in [Paths -> Contents]
         /\ OpenedDisk[g.path[file_idx]] = Data(g.fileCut[file_idx], file_written)
         /\ \A p \in Paths : p # g.path[file_idx] => OpenedDisk[p] = disk[p]
<1> DEFINE q == g.path[file_idx]
<1>0. IsGroup(g) /\ file_idx \in Nat /\ file_open \in BOOLEAN /\ file_written \in Nat
      /\ disk \in [Paths -> Contents] /\ g.wanted \subseteq Int /\ file_idx \in 0..g.nf
  <2>1. IsGroup(g) /\ file_idx \in 0..g.nf /\ file_open \in BOOLEAN
        /\ file_written \in Nat /\ disk \in [Paths -> Contents]
    BY DEF Inv2, Inv1, ControlOK, DiskOK
  <2>2. g.nf \in Nat /\ g.wanted \subseteq 0..g.nf - 1
    BY <2>1, GroupFacts
  <2> QED
    BY <2>1, <2>2
<1>1. q \in Paths /\ g.fileCut[file_idx] \in Nat
  BY <1>0, GroupFacts
<1>2. CASE file_open
  <2>1. OpenedDisk = disk
    BY <1>2 DEF OpenedDisk, Creates, Opens
  <2>2. file_idx \in OpenedOn(q)
    BY <1>2 DEF OpenedOn
  <2>3. PICK f \in OpenedOn(q) : /\ \A h \in OpenedOn(q) : h <= f
                                 /\ disk[q] = Data(g.fileCut[f], Received(f))
    BY <1>1, <2>2 DEF Inv2, FilesRouted
  <2>4. f \in Int /\ f <= file_idx /\ file_idx <= f
    BY <1>0, <2>2, <2>3 DEF OpenedOn
  <2>5. f = file_idx
    BY <1>0, <2>4
  <2>6. Received(file_idx) = file_written
    BY <1>0 DEF Received
  <2> QED
    BY <1>0, <1>1, <2>1, <2>3, <2>5, <2>6
<1>3. CASE ~file_open
  <2>1. OpenedDisk = [disk EXCEPT ![q] = << >>]
    BY <1>3 DEF OpenedDisk, Creates, Opens
  <2>2. file_written = 0
    BY <1>0, <1>3 DEF Inv2, Inv1, Aligned
  <2>3. << >> = Data(g.fileCut[file_idx], file_written)
    BY <1>1, <2>2, DataEmpty
  <2>4. << >> \in Contents
    BY EmptySeq DEF Contents
  <2> QED
    BY <1>0, <1>1, <2>1, <2>3, <2>4
<1> QED
  BY <1>0, <1>2, <1>3

\* ... and when it is not wanted, nothing is opened.
LEMMA NotWantedContent ==
  ASSUME ~Failed, file_idx \notin g.wanted
  PROVE  OpenedDisk = disk
<1> QED
  BY DEF OpenedDisk, Creates, Opens

\* The paths of other entries do not notice a turn that opens, extends or
\* closes the current span.
LEMMA OthersKept ==
  ASSUME Inv2, ~Failed, ~g.pipe, file_idx \in 0..g.nf - 1, g' = g,
         NEW p \in Paths, ~(file_idx \in g.wanted /\ p = g.path[file_idx]),
         disk'[p] = disk[p],
         \/ file_idx' = file_idx /\ file_open' = TRUE
         \/ file_idx' = file_idx + 1 /\ file_open' = FALSE
  PROVE  \/ OpenedOn(p)' = {} /\ disk'[p] = g'.disk[p]
         \/ \E f \in OpenedOn(p)' : /\ \A h \in OpenedOn(p)' : h <= f
                                    /\ disk'[p] = Data(g'.fileCut[f], Received(f)')
<1>0. IsGroup(g) /\ file_idx \in Nat /\ g.wanted \subseteq Int
  <2>1. IsGroup(g) /\ file_idx \in 0..g.nf
    BY DEF Inv2, Inv1, ControlOK
  <2>2. g.nf \in Nat /\ g.wanted \subseteq 0..g.nf - 1
    BY <2>1, GroupFacts
  <2> QED
    BY <2>1, <2>2
<1>1. OpenedOn(p) = {f \in g.wanted : g.path[f] = p /\ f < file_idx}
  BY <1>0 DEF OpenedOn
<1>2. OpenedOn(p)' = {f \in g.wanted : g.path[f] = p /\ f < file_idx}
  BY <1>0 DEF OpenedOn
<1>3. \A f \in OpenedOn(p) : Received(f)' = Received(f)
  <2>1. \A f \in OpenedOn(p) : f < file_idx /\ f < file_idx'
    BY <1>0, <1>1
  <2> QED
    BY <2>1 DEF Received, FileSize
<1> QED
  BY <1>1, <1>2, <1>3 DEF Inv2, FilesRouted

\* The path of the current span, when it is wanted, holds the current span.
LEMMA CurrentExtended ==
  ASSUME Inv2, ~Failed, NEW f \in 0..g.nf - 1, f = file_idx, f \in g.wanted,
         NEW p \in Paths, p = g.path[f], g' = g,
         NEW n \in Nat, disk'[p] = Data(g.fileCut[f], n),
         \/ file_idx' = f /\ file_open' = TRUE /\ file_written' = n
         \/ file_idx' = f + 1 /\ file_open' = FALSE /\ FileSize(f) = n
  PROVE  \E e \in OpenedOn(p)' : /\ \A h \in OpenedOn(p)' : h <= e
                                 /\ disk'[p] = Data(g'.fileCut[e], Received(e)')
<1>0. IsGroup(g) /\ f \in Nat /\ g.wanted \subseteq Int
  <2>1. IsGroup(g) /\ file_idx \in 0..g.nf
    BY DEF Inv2, Inv1, ControlOK
  <2>2. g.nf \in Nat /\ g.wanted \subseteq 0..g.nf - 1
    BY <2>1, GroupFacts
  <2> QED
    BY <2>1, <2>2
<1>1. OpenedOn(p)' = {h \in g.wanted : g.path[h] = p /\ h <= f}
  BY <1>0 DEF OpenedOn
<1>2. f \in OpenedOn(p)' /\ \A h \in OpenedOn(p)' : h <= f
  BY <1>0, <1>1
<1>3. Received(f)' = n
  BY <1>0 DEF Received, FileSize
<1> QED
  BY <1>2, <1>3

\* Output(k) appends the next k bytes of the stream to the current span's file.
LEMMA OutputToFile ==
  ASSUME Inv2, InSpans, ~g.pipe, NEW k \in Nat, Output(k)
  PROVE  /\ disk' \in [Paths -> Contents]
         /\ file_idx \in g.wanted =>
              disk'[g.path[file_idx]] = Data(g.fileCut[file_idx], file_written + k)
         /\ \A p \in Paths : ~(file_idx \in g.wanted /\ p = g.path[file_idx])
                              => disk'[p] = disk[p]
<1>1. Inv1 /\ ~Failed /\ IsGroup(g)
  BY DEF Inv2, Inv1, ControlOK, InSpans, Failed
<1>2. file_idx \in 0..g.nf - 1 /\ file_idx \in 0..g.nf
  BY <1>1, TakeFacts DEF Inv1, ControlOK
<1>3. OpenedWriter = IF file_idx \in g.wanted THEN file_idx ELSE None
  BY <1>1, OpenedWriterFacts
<1>4. CASE file_idx \in g.wanted
  <2> DEFINE q == g.path[file_idx]  c == g.fileCut[file_idx]
  <2>1. /\ q \in Paths /\ OpenedDisk \in [Paths -> Contents]
        /\ OpenedDisk[q] = Data(c, file_written)
        /\ \A p \in Paths : p # q => OpenedDisk[p] = disk[p]
    BY <1>1, <1>2, <1>4, OpenedContent
  <2>2. file_idx # None
    BY <1>2 DEF None
  <2>3. disk' = [OpenedDisk EXCEPT ![q] = OpenedDisk[q] \o Data(pos, k)]
    BY <1>3, <1>4, <2>2 DEF Output
  <2>4. c \in Nat /\ file_written \in Nat /\ pos = c + file_written
    BY <1>1, <1>2, GroupFacts DEF Inv1, ControlOK, Aligned
  <2>5. OpenedDisk[q] \o Data(pos, k) = Data(c, file_written + k)
    <3>1. Data(c, file_written) \o Data(c + file_written, k) = Data(c, file_written + k)
      <4> HIDE DEF c
      <4> QED
        BY <2>4, DataAppend
    <3>2. Data(pos, k) = Data(c + file_written, k)
      BY <2>4
    <3> QED
      BY <2>1, <3>1, <3>2
  <2>6. Data(c, file_written + k) \in Contents
    <3>1. file_written + k \in Nat
      BY <2>4
    <3> QED
      BY <2>4, <3>1, DataProperties DEF Contents
  <2> QED
    BY <1>4, <2>1, <2>3, <2>5, <2>6
<1>5. CASE file_idx \notin g.wanted
  BY <1>1, <1>3, <1>5, NotWantedContent DEF Output, Inv2, DiskOK
<1> QED
  BY <1>4, <1>5

\* Output(k) in pipe mode appends the next k bytes to the standard output.
LEMMA OutputToPipe ==
  ASSUME g.pipe, NEW k, Output(k)
  PROVE  disk' = disk
<1> QED
  BY DEF Output, OpenedDisk, Creates

\* A turn that writes a run routes it to the path of the current span.
LEMMA Inv2WriteRun ==
  ASSUME Inv2, WriteRun
  PROVE  DiskOK' /\ FilesRouted'
<1>1. InSpans /\ ~Failed /\ Inv1 /\ g' = g /\ Output(Take) /\ file_idx' = file_idx
      /\ file_open' = TRUE /\ file_written' = file_written + Take
  BY DEF WriteRun, InSpans, Failed, Inv2
<1>2. Take \in Nat /\ file_idx \in 0..g.nf - 1 /\ file_written \in Nat
  BY <1>1, TakeFacts DEF Inv1, ControlOK
<1>3. CASE g.pipe
  BY <1>1, <1>3, OutputToPipe DEF Inv2, DiskOK, FilesRouted
<1>4. CASE ~g.pipe
  <2>1. /\ disk' \in [Paths -> Contents]
        /\ file_idx \in g.wanted =>
             disk'[g.path[file_idx]] = Data(g.fileCut[file_idx], file_written + Take)
        /\ \A p \in Paths : ~(file_idx \in g.wanted /\ p = g.path[file_idx])
                             => disk'[p] = disk[p]
    BY <1>1, <1>2, <1>4, OutputToFile
  <2>2. file_written + Take \in Nat
    BY <1>2
  <2>3. ASSUME NEW p \in Paths
        PROVE  \/ OpenedOn(p)' = {} /\ disk'[p] = g'.disk[p]
               \/ \E f \in OpenedOn(p)' :
                    /\ \A h \in OpenedOn(p)' : h <= f
                    /\ disk'[p] = Data(g'.fileCut[f], Received(f)')
    <3>1. CASE file_idx \in g.wanted /\ p = g.path[file_idx]
      BY <1>1, <1>2, <2>1, <2>2, <3>1, CurrentExtended
    <3>2. CASE ~(file_idx \in g.wanted /\ p = g.path[file_idx])
      BY <1>1, <1>2, <1>4, <2>1, <3>2, OthersKept
    <3> QED
      BY <3>1, <3>2
  <2> QED
    BY <2>1, <2>3 DEF DiskOK, FilesRouted
<1> QED
  BY <1>3, <1>4

\* Stepping to the next file leaves the finished span as it is.
LEMMA Inv2CloseFull ==
  ASSUME Inv2, CloseFull
  PROVE  DiskOK' /\ FilesRouted'
<1>1. ~Failed /\ Inv1 /\ g' = g /\ disk' = OpenedDisk /\ file_idx' = file_idx + 1
      /\ file_open' = FALSE /\ file_idx < g.nf /\ file_written >= FileSize(file_idx)
  BY DEF CloseFull, Advancing, Full, Failed, Inv2
<1>2. IsGroup(g) /\ file_idx \in 0..g.nf /\ file_written \in Nat
  BY <1>1 DEF Inv1, ControlOK
<1>3. file_idx \in 0..g.nf - 1
  BY <1>1, <1>2, GroupFacts
<1>4. FileSize(file_idx) \in Nat /\ file_written = FileSize(file_idx)
  BY <1>1, <1>2, <1>3, SizeFacts DEF Inv1, Aligned
<1>5. CASE g.pipe
  BY <1>1, <1>5 DEF Inv2, DiskOK, FilesRouted, OpenedDisk, Creates
<1>6. CASE ~g.pipe
  <2>1. /\ disk' \in [Paths -> Contents]
        /\ file_idx \in g.wanted =>
             disk'[g.path[file_idx]] = Data(g.fileCut[file_idx], FileSize(file_idx))
        /\ \A p \in Paths : ~(file_idx \in g.wanted /\ p = g.path[file_idx])
                             => disk'[p] = disk[p]
    <3>1. CASE file_idx \in g.wanted
      BY <1>1, <1>3, <1>4, <1>6, <3>1, OpenedContent
    <3>2. CASE file_idx \notin g.wanted
      BY <1>1, <3>2, NotWantedContent DEF Inv2, DiskOK
    <3> QED
      BY <3>1, <3>2
  <2>2. ASSUME NEW p \in Paths
        PROVE  \/ OpenedOn(p)' = {} /\ disk'[p] = g'.disk[p]
               \/ \E f \in OpenedOn(p)' :
                    /\ \A h \in OpenedOn(p)' : h <= f
                    /\ disk'[p] = Data(g'.fileCut[f], Received(f)')
    <3>1. CASE file_idx \in g.wanted /\ p = g.path[file_idx]
      BY <1>1, <1>3, <1>4, <2>1, <3>1, CurrentExtended
    <3>2. CASE ~(file_idx \in g.wanted /\ p = g.path[file_idx])
      BY <1>1, <1>3, <1>6, <2>1, <3>2, OthersKept
    <3> QED
      BY <3>1, <3>2
  <2> QED
    BY <2>1, <2>2 DEF DiskOK, FilesRouted
<1> QED
  BY <1>5, <1>6

\* The other actions either fail or leave the files as they are.
LEMMA Inv2Others ==
  ASSUME Inv2, Failing \/ (\E n \in 1..g.length - pos : DecoderWrites(n))
                \/ DecoderEnds \/ Finish
  PROVE  DiskOK' /\ FilesRouted'
<1>1. disk \in [Paths -> Contents] /\ Inv1
  BY DEF Inv2, DiskOK
<1>2. CASE CloseFullFails \/ OpenFails \/ ExceedsFiles \/ ExceedsBlocks \/ DecoderFails
  BY <1>1, <1>2 DEF CloseFullFails, OpenFails, CreateFails, ExceedsFiles, ExceedsBlocks,
                    DecoderFails, Fail, DiskOK, FilesRouted, Failed
<1>3. CASE BlockMismatch
  BY <1>3, Inv2WriteRun DEF BlockMismatch
<1>4. ASSUME NEW k \in 0..rest - 1, WriteFails(k) PROVE DiskOK' /\ FilesRouted'
  <2>1. FilesRouted'
    BY <1>4 DEF WriteFails, Fail, FilesRouted, Failed
  <2>2. InSpans /\ Output(k) /\ k \in Nat
    BY <1>4 DEF WriteFails
  <2>3. CASE g.pipe
    BY <1>1, <2>1, <2>2, <2>3, OutputToPipe DEF DiskOK
  <2>4. CASE ~g.pipe
    BY <2>1, <2>2, <2>4, OutputToFile DEF DiskOK
  <2> QED
    BY <2>1, <2>3, <2>4
<1>5. CASE Cleanup
  <2>1. disk' \in [Paths -> Contents]
    BY <1>1, <1>5 DEF Cleanup, Contents
  <2> QED
    BY <1>5, <2>1 DEF Cleanup, DiskOK, FilesRouted, Failed
<1>6. CASE (\E n \in 1..g.length - pos : DecoderWrites(n)) \/ DecoderEnds \/ Finish
  <2>1. /\ UNCHANGED <<g, file_idx, file_open, file_written, disk>>
        /\ ~Failed' => ~Failed
    BY <1>6 DEF DecoderWrites, DecoderEnds, Finish, Failed, sinkVars
  <2>2. \A p \in Paths : OpenedOn(p)' = OpenedOn(p)
    BY <2>1 DEF OpenedOn
  <2>3. \A f : Received(f)' = Received(f)
    BY <2>1 DEF Received, FileSize
  <2> QED
    BY <1>1, <2>1, <2>2, <2>3 DEF Inv2, DiskOK, FilesRouted
<1> QED
  BY <1>2, <1>3, <1>4, <1>5, <1>6 DEF Failing

\* Before the first byte no path was touched.
LEMMA Inv2Init == Init => Inv2
<1> SUFFICES ASSUME Init PROVE Inv2
  OBVIOUS
<1>1. Inv1 /\ IsGroup(g)
  BY Inv1Init DEF Inv1, ControlOK
<1>2. disk \in [Paths -> Contents] /\ disk = g.disk
  BY <1>1, GroupFacts DEF Init, Contents
<1>3. \A p \in Paths : OpenedOn(p) = {}
  <2>1. \A f \in g.wanted : f \in Nat
    BY <1>1, GroupFacts
  <2> QED
    BY <2>1 DEF OpenedOn, Init
<1> QED
  BY <1>1, <1>2, <1>3 DEF Inv2, DiskOK, FilesRouted

\* Every step keeps the routing of bytes to paths.
LEMMA Inv2Next == Inv2 /\ [Next \/ Done]_vars => Inv2'
<1> SUFFICES ASSUME Inv2, [Next \/ Done]_vars PROVE Inv2'
  OBVIOUS
<1>1. Inv1'
  BY Inv1Next DEF Inv2
<1>2. CASE CloseFull
  BY <1>1, <1>2, Inv2CloseFull DEF Inv2
<1>3. CASE WithinBlock \/ CompleteBlock
  BY <1>1, <1>3, Inv2WriteRun DEF Inv2, WithinBlock, CompleteBlock
<1>4. CASE Failing \/ (\E n \in 1..g.length - pos : DecoderWrites(n))
            \/ DecoderEnds \/ Finish
  BY <1>1, <1>4, Inv2Others DEF Inv2
<1>5. CASE UNCHANGED vars
  <2>1. \A p \in Paths : OpenedOn(p)' = OpenedOn(p)
    BY <1>5 DEF vars, sinkVars, OpenedOn
  <2>2. \A f : Received(f)' = Received(f)
    BY <1>5 DEF vars, sinkVars, Received, FileSize
  <2> QED
    BY <1>1, <1>5, <2>1, <2>2 DEF vars, sinkVars, Inv2, DiskOK, FilesRouted, Failed
<1> QED
  BY <1>2, <1>3, <1>4, <1>5 DEF Next, SinkStep, Decoder, Failing, Done

\* Every path holds exactly its own span of the stream, as far as it has come.
\* For every group, decoder and way the calls are cut: what write() and
\* advance_full_files do to the output tiling.
THEOREM SinkRoutesFiles == Spec => []FilesRouted
<1>1. Inv2 => FilesRouted
  BY DEF Inv2
<1> QED
  BY <1>1, Inv2Init, Inv2Next, PTL DEF Spec

-----------------------------------------------------------------------------
(* The footprint: which paths the sink has touched.                         *)

Footprint ==
  /\ created \subseteq {g.path[f] : f \in g.wanted}
  /\ g.pipe => created = {}
  /\ \A p \in Paths : p \notin created => disk[p] = g.disk[p]
  /\ ~Failed /\ ~g.pipe /\ file_open /\ file_idx \in g.wanted
       => g.path[file_idx] \in created
  /\ pc = "cleaned" => \A p \in Paths : p \in created => disk[p] = Absent

Inv3 == Inv2 /\ Footprint

\* Opening adds the current path to what was created, and truncates it.
LEMMA OpenedFootprint ==
  ASSUME Inv3, ~Failed, file_idx \in 0..g.nf - 1
  PROVE  /\ OpenedFiles \subseteq {g.path[f] : f \in g.wanted}
         /\ g.pipe => OpenedFiles = {}
         /\ OpenedDisk \in [Paths -> Contents]
         /\ \A p \in Paths : p \notin OpenedFiles => OpenedDisk[p] = g.disk[p]
         /\ ~g.pipe /\ file_idx \in g.wanted => g.path[file_idx] \in OpenedFiles
<1>1. IsGroup(g) /\ disk \in [Paths -> Contents] /\ Footprint
  BY DEF Inv3, Inv2, Inv1, ControlOK, DiskOK
<1>2. g.path[file_idx] \in Paths
  BY <1>1, GroupFacts
<1>3. CASE Creates
  <2>1. /\ OpenedFiles = created \cup {g.path[file_idx]}
        /\ OpenedDisk = [disk EXCEPT ![g.path[file_idx]] = << >>]
        /\ file_idx \in g.wanted /\ ~g.pipe
    BY <1>3 DEF OpenedFiles, OpenedDisk, Creates, Opens
  <2>2. << >> \in Contents
    BY EmptySeq DEF Contents
  <2> QED
    BY <1>1, <1>2, <2>1, <2>2 DEF Footprint
<1>4. CASE ~Creates
  <2>1. OpenedFiles = created /\ OpenedDisk = disk
        /\ (g.pipe \/ file_open \/ file_idx \notin g.wanted)
    BY <1>4 DEF OpenedFiles, OpenedDisk, Creates, Opens
  <2> QED
    BY <1>1, <2>1 DEF Footprint
<1> QED
  BY <1>3, <1>4

\* Output only changes a path that was created.
LEMMA OutputFootprint ==
  ASSUME Inv3, InSpans, NEW k, Output(k)
  PROVE  \A p \in Paths : p \notin OpenedFiles => disk'[p] = g.disk[p]
<1>1. ~Failed /\ Inv1
  BY DEF InSpans, Failed, Inv3, Inv2
<1>2. file_idx \in 0..g.nf - 1
  BY <1>1, TakeFacts
<1>3. OpenedWriter = IF file_idx \in g.wanted THEN file_idx ELSE None
  BY <1>1, OpenedWriterFacts
<1>4. CASE g.pipe
  BY <1>1, <1>2, <1>4, OpenedFootprint, OutputToPipe DEF Inv3, Footprint
<1>5. CASE ~g.pipe /\ OpenedWriter = None
  BY <1>1, <1>2, <1>5, OpenedFootprint DEF Output
<1>6. CASE ~g.pipe /\ OpenedWriter # None
  <2>1. file_idx \in g.wanted /\ g.path[OpenedWriter] \in OpenedFiles
    BY <1>1, <1>2, <1>3, <1>6, OpenedFootprint
  <2>2. OpenedDisk \in [Paths -> Contents]
    BY <1>1, <1>2, OpenedFootprint
  <2>3. disk' = [OpenedDisk EXCEPT ![g.path[OpenedWriter]] = @ \o Data(pos, k)]
    BY <1>6 DEF Output
  <2> QED
    BY <1>1, <1>2, <2>1, <2>2, <2>3, OpenedFootprint
<1> QED
  BY <1>4, <1>5, <1>6

\* Only wanted paths are ever created.
LEMMA FootprintOpening ==
  ASSUME Inv3, CloseFull \/ WriteRun \/ (\E k \in 0..rest - 1 : WriteFails(k)),
         pc' # "cleaned"
  PROVE  Footprint'
<1>1. ~Failed /\ Inv1
  BY DEF CloseFull, Advancing, WriteRun, WriteFails, InSpans, Failed, Inv3, Inv2
<1>2. CASE CloseFull
  <2>1. file_idx \in 0..g.nf - 1
    <3>1. IsGroup(g) /\ file_idx \in 0..g.nf /\ file_idx < g.nf
      BY <1>1, <1>2 DEF Inv1, ControlOK, CloseFull, Advancing, Full
    <3>2. g.nf \in Nat
      BY <3>1, GroupFacts
    <3> QED
      BY <3>1, <3>2
  <2>2. created' = OpenedFiles /\ disk' = OpenedDisk /\ file_open' = FALSE /\ g' = g
    BY <1>2 DEF CloseFull
  <2> QED
    BY <1>1, <2>1, <2>2, OpenedFootprint DEF Footprint
<1>3. ASSUME NEW k, InSpans, Output(k), created' = OpenedFiles, g' = g,
             file_idx' = file_idx
      PROVE  Footprint'
  <2>1. file_idx \in 0..g.nf - 1
    BY <1>1, <1>3, TakeFacts
  <2>2. \A p \in Paths : p \notin OpenedFiles => disk'[p] = g.disk[p]
    BY <1>3, OutputFootprint
  <2> QED
    BY <1>1, <1>3, <2>1, <2>2, OpenedFootprint DEF Footprint
<1>4. CASE WriteRun
  BY <1>3, <1>4 DEF WriteRun
<1>5. CASE \E k \in 0..rest - 1 : WriteFails(k)
  BY <1>3, <1>5 DEF WriteFails
<1> QED
  BY <1>2, <1>4, <1>5

\* Initially nothing was created.
LEMMA Inv3Init == Init => Inv3
<1> QED
  BY Inv2Init DEF Init, Inv3, Footprint

\* No step touches a path that was not created by the sink.
LEMMA Inv3Next == Inv3 /\ [Next \/ Done]_vars => Inv3'
<1> SUFFICES ASSUME Inv3, [Next \/ Done]_vars PROVE Footprint'
  BY Inv2Next DEF Inv3
<1>0. Footprint
  BY DEF Inv3
<1>1. CASE CloseFull
  BY <1>1, FootprintOpening DEF CloseFull, Advancing
<1>2. CASE WithinBlock \/ CompleteBlock
  BY <1>2, FootprintOpening DEF WithinBlock, CompleteBlock, EndOfTurn
<1>3. CASE BlockMismatch
  BY <1>3, FootprintOpening DEF BlockMismatch, Fail
<1>4. CASE \E k \in 0..rest - 1 : WriteFails(k)
  BY <1>4, FootprintOpening DEF WriteFails, Fail
<1>5. CASE CloseFullFails \/ OpenFails \/ ExceedsFiles \/ ExceedsBlocks \/ DecoderFails
  <2>1. created' = created /\ g' = g /\ disk' = disk /\ pc' = "fail"
    BY <1>5 DEF CloseFullFails, OpenFails, CreateFails, ExceedsFiles, ExceedsBlocks,
                DecoderFails, Fail, sinkVars
  <2> QED
    BY <1>0, <2>1 DEF Footprint, Failed
<1>6. CASE Cleanup
  BY <1>0, <1>6 DEF Cleanup, Footprint, Failed, sinkVars
<1>7. CASE (\E n \in 1..g.length - pos : DecoderWrites(n)) \/ DecoderEnds \/ Finish
  BY <1>0, <1>7 DEF DecoderWrites, DecoderEnds, Finish, Fail, Footprint, Failed, sinkVars
<1>8. CASE UNCHANGED vars
  BY <1>0, <1>8 DEF vars, sinkVars, Footprint, Failed
<1> QED
  BY <1>1, <1>2, <1>3, <1>4, <1>5, <1>6, <1>7, <1>8 DEF Next, SinkStep, Decoder, Done

-----------------------------------------------------------------------------
(* The standard output, and how far any output goes.                        *)

\* stdout holds the wanted bytes below n, in order, and nothing else.
Printed(n) ==
  IF g.pipe
    THEN /\ \A j, k \in 1..Len(stdout) : j < k => stdout[j] < stdout[k]
         /\ \A k \in 1..Len(stdout) : stdout[k] \in WantedBytes /\ stdout[k] < n
         /\ \A i \in WantedBytes : i < n => \E k \in 1..Len(stdout) : stdout[k] = i
    ELSE stdout = << >>

\* No path holds a byte of the stream at or above n.
DiskBelow(n) ==
  \A p \in Paths : disk[p] \notin {Absent, Old} =>
    \A k \in 1..Len(disk[p]) : disk[p][k] < n

\* What a write may reach: both tilings, and the first bad block's end.
Allowed(n) ==
  n <= FileTotal /\ n <= CrcTotal /\ \A b \in g.bad : n <= g.crcCut[b + 1]

Output4 ==
  /\ stdout \in Seq(Nat)
  /\ ~Failed => Printed(pos) /\ Allowed(pos)
  /\ \E n \in Nat : Printed(n) /\ Allowed(n) /\ DiskBelow(n)

Inv4 == Inv3 /\ Output4

\* As long as nothing failed, the stream position is within what is declared
\* and no bad block was completed.
LEMMA AllowedPos ==
  ASSUME Inv1, ~Failed
  PROVE  Allowed(pos)
<1>0. IsGroup(g) /\ file_idx \in 0..g.nf /\ crc_idx \in 0..g.nb /\ file_written \in Nat
      /\ crc_written \in Nat /\ pos \in Nat
  BY DEF Inv1, ControlOK
<1>1. g.nf \in Nat /\ g.nb \in Nat /\ g.bad \subseteq 0..g.nb - 1
  BY <1>0, GroupFacts
<1>2. pos <= FileTotal
  <2>1. CASE file_idx = g.nf
    <3>1. pos = g.fileCut[file_idx] + file_written /\ file_written = 0
      BY <2>1 DEF Inv1, Aligned
    <3>2. g.fileCut[g.nf] \in Nat
      BY <1>0, <2>1, GroupFacts
    <3> QED
      BY <2>1, <3>1, <3>2 DEF FileTotal
  <2>2. CASE file_idx # g.nf
    <3>1. file_idx \in 0..g.nf - 1 /\ file_idx + 1 \in 0..g.nf /\ g.nf \in 0..g.nf
          /\ file_idx + 1 <= g.nf /\ file_idx < g.nf
      BY <1>0, <1>1, <2>2
    <3>2. g.fileCut[file_idx + 1] <= g.fileCut[g.nf] /\ g.fileCut[file_idx] \in Nat
          /\ g.fileCut[file_idx + 1] \in Nat /\ g.fileCut[g.nf] \in Nat
      BY <1>0, <3>1, GroupFacts
    <3>3. pos = g.fileCut[file_idx] + file_written /\ file_written <= FileSize(file_idx)
      BY <3>1 DEF Inv1, Aligned
    <3> QED
      BY <1>0, <3>2, <3>3 DEF FileTotal, FileSize
  <2> QED
    BY <2>1, <2>2
<1>3. pos = g.crcCut[crc_idx] + crc_written /\ g.crcCut[crc_idx] \in Nat
  BY <1>0, GroupFacts DEF Inv1, Aligned
<1>4. ASSUME NEW c \in 0..g.nb, crc_idx < c PROVE pos <= g.crcCut[c]
  <2>1. crc_idx \in 0..g.nb - 1 /\ crc_idx + 1 \in 0..g.nb /\ crc_idx + 1 <= c
    BY <1>0, <1>1, <1>4
  <2>2. g.crcCut[crc_idx + 1] <= g.crcCut[c] /\ g.crcCut[crc_idx + 1] \in Nat
        /\ g.crcCut[c] \in Nat
    BY <1>0, <2>1, GroupFacts
  <2>3. crc_written <= CrcSize(crc_idx)
    <3>1. CrcSize(crc_idx) \in Nat
      BY <1>0, <2>1, SizeFacts
    <3> QED
      BY <1>0, <3>1 DEF Inv1, Aligned
  <2> QED
    BY <1>0, <1>3, <2>2, <2>3 DEF CrcSize
<1>5. pos <= CrcTotal
  <2>1. CASE crc_idx = g.nb
    <3>1. crc_written = 0
      BY <1>0, <1>1, <2>1 DEF Inv1, Aligned
    <3> QED
      BY <1>3, <2>1, <3>1 DEF CrcTotal
  <2>2. CASE crc_idx # g.nb
    <3>1. crc_idx < g.nb /\ g.nb \in 0..g.nb
      BY <1>0, <1>1, <2>2
    <3> QED
      BY <1>4, <3>1 DEF CrcTotal
  <2> QED
    BY <2>1, <2>2
<1>6. ASSUME NEW b \in g.bad PROVE pos <= g.crcCut[b + 1]
  <2>1. b \in 0..g.nb - 1 /\ crc_idx <= b
    BY <1>1 DEF Inv1, Aligned
  <2>2. b + 1 \in 0..g.nb /\ crc_idx < b + 1
    BY <1>0, <1>1, <2>1
  <2> QED
    BY <1>4, <2>2
<1> QED
  BY <1>2, <1>5, <1>6 DEF Allowed

\* ... and so is every byte of the run a turn of write() may write.
LEMMA AllowedRun ==
  ASSUME Inv1, InSpans, NEW k \in Nat, k <= Take
  PROVE  pos + k \in Nat /\ Allowed(pos + k)
         /\ pos + k <= g.fileCut[file_idx + 1] /\ g.fileCut[file_idx] <= pos
<1>0. IsGroup(g) /\ file_written \in Nat /\ crc_written \in Nat /\ pos \in Nat /\ ~Failed
  BY DEF Inv1, ControlOK, InSpans, Failed
<1>1. /\ file_idx \in 0..g.nf - 1 /\ crc_idx \in 0..g.nb - 1 /\ Take \in Nat
      /\ file_written + Take <= FileSize(file_idx)
      /\ crc_written + Take <= CrcSize(crc_idx)
  BY TakeFacts
<1>2. g.nf \in Nat /\ g.nb \in Nat /\ g.bad \subseteq 0..g.nb - 1
  BY <1>0, GroupFacts
<1>3. file_idx \in 0..g.nf /\ file_idx + 1 \in 0..g.nf /\ g.nf \in 0..g.nf
      /\ file_idx + 1 <= g.nf /\ crc_idx \in 0..g.nb /\ crc_idx + 1 \in 0..g.nb
  BY <1>1, <1>2
<1>4. /\ g.fileCut[file_idx] \in Nat /\ g.fileCut[file_idx + 1] \in Nat
      /\ g.fileCut[g.nf] \in Nat /\ g.fileCut[file_idx + 1] <= g.fileCut[g.nf]
      /\ g.crcCut[crc_idx] \in Nat /\ g.crcCut[crc_idx + 1] \in Nat
  BY <1>0, <1>3, GroupFacts
<1>5. pos = g.fileCut[file_idx] + file_written /\ pos = g.crcCut[crc_idx] + crc_written
      /\ \A b \in g.bad : crc_idx <= b
  BY <1>0 DEF Inv1, Aligned
<1>6. pos + k \in Nat /\ pos + k <= g.fileCut[file_idx + 1] /\ g.fileCut[file_idx] <= pos
  BY <1>0, <1>1, <1>4, <1>5 DEF FileSize
<1>7. pos + k <= g.crcCut[crc_idx + 1]
  BY <1>0, <1>1, <1>4, <1>5 DEF CrcSize
<1>8. ASSUME NEW c \in 0..g.nb, crc_idx + 1 <= c PROVE pos + k <= g.crcCut[c]
  <2>1. g.crcCut[c] \in Nat /\ g.crcCut[crc_idx + 1] <= g.crcCut[c]
    BY <1>0, <1>3, <1>8, GroupFacts
  <2> QED
    BY <1>4, <1>6, <1>7, <2>1
<1>9. pos + k <= FileTotal
  BY <1>4, <1>6 DEF FileTotal
<1>10. pos + k <= CrcTotal
  BY <1>1, <1>2, <1>8 DEF CrcTotal
<1>11. \A b \in g.bad : pos + k <= g.crcCut[b + 1]
  <2>1. \A b \in g.bad : b + 1 \in 0..g.nb /\ crc_idx + 1 <= b + 1
    BY <1>1, <1>2, <1>5
  <2> QED
    BY <1>8, <2>1
<1> QED
  BY <1>6, <1>9, <1>10, <1>11 DEF Allowed

\* Of the bytes of such a run, all are wanted or none is.
LEMMA RunWanted ==
  ASSUME Inv1, InSpans, NEW k \in Nat, k <= Take,
         NEW i \in Int, pos <= i, i < pos + k
  PROVE  i \in WantedBytes <=> file_idx \in g.wanted
<1>0. IsGroup(g) /\ pos \in Nat
  BY DEF Inv1, ControlOK
<1>1. pos + k <= g.fileCut[file_idx + 1] /\ g.fileCut[file_idx] <= pos
  BY AllowedRun
<1>2. file_idx \in 0..g.nf - 1
  BY TakeFacts
<1>3. g.nf \in Nat /\ g.wanted \subseteq 0..g.nf - 1
  BY <1>0, GroupFacts
<1>4. \A f \in 0..g.nf - 1 : f \in 0..g.nf /\ f + 1 \in 0..g.nf
  BY <1>3
<1>5. \A f \in 0..g.nf - 1 : g.fileCut[f] \in Nat /\ g.fileCut[f + 1] \in Nat
  BY <1>0, <1>4, GroupFacts
<1>6. ASSUME NEW f \in 0..g.nf - 1, i \in g.fileCut[f] .. g.fileCut[f + 1] - 1
      PROVE  f = file_idx
  <2>1. g.fileCut[f] <= i /\ i < g.fileCut[f + 1]
    BY <1>5, <1>6
  <2>2. CASE f < file_idx
    <3>1. f + 1 \in 0..g.nf /\ f + 1 <= file_idx /\ file_idx \in 0..g.nf
      BY <1>2, <1>3, <2>2
    <3>2. g.fileCut[f + 1] <= g.fileCut[file_idx]
      BY <1>0, <3>1, GroupFacts
    <3> QED
      BY <1>0, <1>1, <1>2, <1>5, <2>1, <3>2
  <2>3. CASE f > file_idx
    <3>1. f \in 0..g.nf /\ file_idx + 1 <= f /\ file_idx + 1 \in 0..g.nf
      BY <1>2, <1>3, <2>3
    <3>2. g.fileCut[file_idx + 1] <= g.fileCut[f]
      BY <1>0, <3>1, GroupFacts
    <3> QED
      BY <1>0, <1>1, <1>2, <1>5, <2>1, <3>2
  <2> QED
    BY <1>2, <1>3, <2>2, <2>3
<1>7. i \in g.fileCut[file_idx] .. g.fileCut[file_idx + 1] - 1
  BY <1>0, <1>1, <1>2, <1>5
<1>8. i \in WantedBytes => file_idx \in g.wanted
  BY <1>3, <1>6 DEF WantedBytes
<1>9. file_idx \in g.wanted => i \in WantedBytes
  BY <1>7 DEF WantedBytes
<1> QED
  BY <1>8, <1>9

\* Printing the next k bytes keeps the standard output at the wanted bytes so far.
LEMMA OutputPrinted ==
  ASSUME Inv1, stdout \in Seq(Nat), Printed(pos), InSpans, NEW k \in Nat, k <= Take,
         Output(k), g' = g, NEW n \in Nat, n = pos + k
  PROVE  stdout' \in Seq(Nat) /\ Printed(n)'
<1>0. pos \in Nat /\ ~Failed
  BY DEF Inv1, ControlOK, InSpans, Failed
<1>1. OpenedWriter = IF file_idx \in g.wanted THEN file_idx ELSE None
  BY <1>0, OpenedWriterFacts
<1>2. file_idx # None
  BY TakeFacts DEF None
<1>3. \A i \in Int : pos <= i /\ i < n => (i \in WantedBytes <=> file_idx \in g.wanted)
  BY RunWanted
<1>4. WantedBytes \subseteq Int /\ WantedBytes' = WantedBytes
  BY DEF WantedBytes
<1>5. CASE ~g.pipe
  <2>1. stdout' = stdout
    BY <1>5 DEF Output
  <2> QED
    BY <1>5, <2>1 DEF Printed
<1>6. CASE g.pipe /\ file_idx \notin g.wanted
  <2>1. stdout' = stdout
    BY <1>1, <1>6 DEF Output
  <2>2. \A i \in WantedBytes : i < n <=> i < pos
    BY <1>0, <1>3, <1>4, <1>6
  <2>3. \A j \in 1..Len(stdout) : stdout[j] \in WantedBytes /\ stdout[j] < pos
    BY <1>6 DEF Printed
  <2> QED
    BY <1>4, <1>6, <2>1, <2>2, <2>3 DEF Printed
<1>7. CASE g.pipe /\ file_idx \in g.wanted
  <2> DEFINE d == Data(pos, k)
  <2>1. stdout' = stdout \o d
    BY <1>1, <1>2, <1>7 DEF Output
  <2>2. d \in Seq(Nat) /\ Len(d) = k /\ \A i \in 1..k : d[i] = pos + i - 1
    BY <1>0, DataProperties
  <2>3. Len(stdout) \in Nat
    BY LenProperties
  <2> HIDE DEF d
  <2>4. /\ stdout' \in Seq(Nat) /\ Len(stdout') = Len(stdout) + k
        /\ \A i \in 1..Len(stdout) + k :
             stdout'[i] = IF i <= Len(stdout) THEN stdout[i] ELSE d[i - Len(stdout)]
    BY <2>1, <2>2, ConcatProperties
  <2>5. \A i \in 1..Len(stdout) : stdout'[i] = stdout[i]
    BY <2>3, <2>4
  <2>6. \A i \in Len(stdout) + 1 .. Len(stdout) + k :
          stdout'[i] = pos + (i - Len(stdout)) - 1
    BY <2>2, <2>3, <2>4
  <2>7. \A j \in 1..Len(stdout) : stdout[j] \in WantedBytes /\ stdout[j] < pos /\ stdout[j] \in Int
    BY <1>4, <1>7 DEF Printed
  <2>8. ASSUME NEW i \in 1..Len(stdout'), NEW j \in 1..Len(stdout'), i < j
        PROVE  stdout'[i] < stdout'[j]
    <3>1. CASE j <= Len(stdout)
      <4>1. i \in 1..Len(stdout) /\ j \in 1..Len(stdout)
        BY <2>3, <2>4, <2>8, <3>1
      <4> QED
        BY <1>7, <2>5, <2>8, <4>1 DEF Printed
    <3>2. CASE i <= Len(stdout) /\ j > Len(stdout)
      <4>1. i \in 1..Len(stdout) /\ j \in Len(stdout) + 1 .. Len(stdout) + k
        BY <2>3, <2>4, <3>2
      <4>2. stdout'[i] = stdout[i] /\ stdout'[j] = pos + (j - Len(stdout)) - 1
        BY <2>5, <2>6, <4>1
      <4> QED
        BY <1>0, <2>3, <2>7, <4>1, <4>2
    <3>3. CASE i > Len(stdout)
      <4>1. i \in Len(stdout) + 1 .. Len(stdout) + k /\ j \in Len(stdout) + 1 .. Len(stdout) + k
        BY <2>3, <2>4, <2>8, <3>3
      <4>2. stdout'[i] = pos + (i - Len(stdout)) - 1 /\ stdout'[j] = pos + (j - Len(stdout)) - 1
        BY <2>6, <4>1
      <4> QED
        BY <1>0, <2>3, <2>8, <4>1, <4>2
    <3> QED
      BY <2>3, <2>4, <3>1, <3>2, <3>3
  <2>9. ASSUME NEW i \in 1..Len(stdout') PROVE stdout'[i] \in WantedBytes /\ stdout'[i] < n
    <3>1. CASE i <= Len(stdout)
      <4>1. i \in 1..Len(stdout)
        BY <2>3, <2>4, <3>1
      <4> QED
        BY <1>0, <2>5, <2>7, <4>1
    <3>2. CASE i > Len(stdout)
      <4>1. i \in Len(stdout) + 1 .. Len(stdout) + k
        BY <2>3, <2>4, <3>2
      <4>2. stdout'[i] \in Int /\ pos <= stdout'[i] /\ stdout'[i] < n
        BY <1>0, <2>3, <2>6, <4>1
      <4> QED
        BY <1>3, <1>7, <4>2
    <3> QED
      BY <2>3, <2>4, <3>1, <3>2
  <2>10. ASSUME NEW i \in WantedBytes, i < n PROVE \E j \in 1..Len(stdout') : stdout'[j] = i
    <3>1. CASE i < pos
      <4>1. PICK j \in 1..Len(stdout) : stdout[j] = i
        BY <1>7, <3>1 DEF Printed
      <4>2. j \in 1..Len(stdout')
        BY <2>3, <2>4
      <4> QED
        BY <2>5, <4>1, <4>2
    <3>2. CASE i >= pos
      <4> DEFINE j == Len(stdout) + (i - pos) + 1
      <4>1. i \in Int
        BY <1>4
      <4>2. j \in Len(stdout) + 1 .. Len(stdout) + k /\ j \in 1..Len(stdout')
        BY <1>0, <2>3, <2>4, <2>10, <3>2, <4>1
      <4>3. stdout'[j] = pos + (j - Len(stdout)) - 1
        BY <2>6, <4>2
      <4>4. stdout'[j] = i
        BY <1>0, <2>3, <4>1, <4>3
      <4> QED
        BY <4>2, <4>4
    <3> QED
      BY <1>0, <1>4, <3>1, <3>2
  <2> QED
    BY <1>4, <1>7, <2>4, <2>8, <2>9, <2>10 DEF Printed
<1> QED
  BY <1>5, <1>6, <1>7

\* A sequence of consecutive positions ends before its end.
LEMMA DataBelow ==
  ASSUME NEW a \in Nat, NEW m \in Nat, NEW n \in Int, a + m <= n
  PROVE  \A k \in 1..Len(Data(a, m)) : Data(a, m)[k] < n
<1>1. Len(Data(a, m)) = m /\ \A k \in 1..m : Data(a, m)[k] = a + k - 1
  BY DataProperties
<1> QED
  BY <1>1

\* No path holds a byte that the decoder has not produced yet.
LEMMA DiskBelowPos ==
  ASSUME Inv3, ~Failed
  PROVE  DiskBelow(pos)
<1>0. IsGroup(g) /\ pos \in Nat /\ file_idx \in 0..g.nf /\ Inv1 /\ file_written \in Nat
  BY DEF Inv3, Inv2, Inv1, ControlOK
<1>1. g.nf \in Nat /\ g.wanted \subseteq 0..g.nf - 1 /\ g.disk \in [Paths -> {Absent, Old}]
  BY <1>0, GroupFacts
<1>2. ASSUME NEW p \in Paths, disk[p] \notin {Absent, Old}
      PROVE  \A k \in 1..Len(disk[p]) : disk[p][k] < pos
  <2>1. disk[p] # g.disk[p]
    BY <1>1, <1>2
  <2>2. ~g.pipe
    BY <2>1 DEF Inv3, Footprint
  <2>3. PICK f \in OpenedOn(p) : disk[p] = Data(g.fileCut[f], Received(f))
    BY <2>1, <2>2 DEF Inv3, Inv2, FilesRouted
  <2>4. f \in 0..g.nf - 1 /\ f \in 0..g.nf /\ f + 1 \in 0..g.nf /\ f <= file_idx
    BY <1>0, <1>1, <2>3 DEF OpenedOn
  <2>5. g.fileCut[f] \in Nat /\ g.fileCut[f + 1] \in Nat /\ g.fileCut[file_idx] \in Nat
    BY <1>0, <2>4, GroupFacts
  <2>6. pos = g.fileCut[file_idx] + file_written
    BY DEF Inv3, Inv2, Inv1, Aligned
  <2>7. Received(f) \in Nat /\ g.fileCut[f] + Received(f) <= pos
    <3>1. CASE f < file_idx
      <4>1. g.fileCut[f + 1] <= g.fileCut[file_idx]
        BY <1>0, <1>1, <2>4, <3>1, GroupFacts
      <4>2. FileSize(f) \in Nat
        BY <1>0, <2>4, SizeFacts
      <4>3. Received(f) = FileSize(f)
        BY <3>1 DEF Received
      <4> QED
        BY <1>0, <2>5, <2>6, <4>1, <4>2, <4>3 DEF FileSize
    <3>2. CASE f = file_idx
      <4>1. Received(f) = file_written
        BY <1>0, <1>1, <3>2 DEF Received
      <4> QED
        BY <1>0, <2>5, <2>6, <3>2, <4>1
    <3> QED
      BY <1>0, <1>1, <2>4, <3>1, <3>2
  <2> QED
    BY <1>0, <2>3, <2>5, <2>7, DataBelow
<1> QED
  BY <1>2 DEF DiskBelow

\* Output reaches no further than the run that is written.
LEMMA OutputBelow ==
  ASSUME Inv3, InSpans, NEW k \in Nat, k <= Take, Output(k), NEW n \in Nat, n = pos + k
  PROVE  DiskBelow(n)'
<1>1. ~Failed /\ Inv2 /\ Inv1 /\ IsGroup(g) /\ file_written \in Nat /\ pos \in Nat
  BY DEF InSpans, Failed, Inv3, Inv2, Inv1, ControlOK
<1>2. DiskBelow(pos)
  BY <1>1, DiskBelowPos
<1>3. disk \in [Paths -> Contents]
  BY <1>1 DEF Inv2, DiskOK
<1>4. ASSUME NEW p \in Paths, disk[p] \notin {Absent, Old}
      PROVE  \A i \in 1..Len(disk[p]) : disk[p][i] < n
  <2>1. disk[p] \in Seq(Nat)
    BY <1>3, <1>4 DEF Contents
  <2>2. \A i \in 1..Len(disk[p]) : disk[p][i] \in Nat /\ disk[p][i] < pos
    BY <1>2, <1>4, <2>1, ElementOfSeq DEF DiskBelow
  <2> QED
    BY <1>1, <2>2
<1>5. CASE g.pipe
  BY <1>4, <1>5, OutputToPipe DEF DiskBelow
<1>6. CASE ~g.pipe
  <2>1. /\ file_idx \in g.wanted =>
             disk'[g.path[file_idx]] = Data(g.fileCut[file_idx], file_written + k)
        /\ \A p \in Paths : ~(file_idx \in g.wanted /\ p = g.path[file_idx])
                             => disk'[p] = disk[p]
    BY <1>1, <1>6, OutputToFile
  <2>2. /\ g.fileCut[file_idx] \in Nat /\ file_written + k \in Nat
        /\ g.fileCut[file_idx] + (file_written + k) <= n
    <3>1. file_idx \in 0..g.nf
      BY <1>1 DEF Inv1, ControlOK
    <3>2. g.fileCut[file_idx] \in Nat
      BY <1>1, <3>1, GroupFacts
    <3>3. pos = g.fileCut[file_idx] + file_written
      BY <1>1 DEF Inv1, Aligned
    <3> QED
      BY <1>1, <3>2, <3>3
  <2>3. ASSUME NEW p \in Paths, disk'[p] \notin {Absent, Old}
        PROVE  \A i \in 1..Len(disk'[p]) : disk'[p][i] < n
    <3>1. CASE file_idx \in g.wanted /\ p = g.path[file_idx]
      <4>1. disk'[p] = Data(g.fileCut[file_idx], file_written + k)
        BY <2>1, <3>1
      <4> DEFINE c == g.fileCut[file_idx]  m == file_written + k
      <4>2. \A i \in 1..Len(Data(c, m)) : Data(c, m)[i] < n
        <5>1. c \in Nat /\ m \in Nat /\ c + m <= n /\ n \in Int
          BY <2>2
        <5> HIDE DEF c, m
        <5> QED
          BY <5>1, DataBelow
      <4> QED
        BY <4>1, <4>2
    <3>2. CASE ~(file_idx \in g.wanted /\ p = g.path[file_idx])
      BY <1>4, <2>1, <2>3, <3>2
    <3> QED
      BY <3>1, <3>2
  <2> QED
    BY <2>3 DEF DiskBelow
<1> QED
  BY <1>5, <1>6

\* Allowed(n) depends on the group alone.
LEMMA AllowedKept ==
  ASSUME g' = g, NEW n \in Nat, Allowed(n)
  PROVE  Allowed(n)'
<1> QED
  BY DEF Allowed, FileTotal, CrcTotal

\* After a run, complete or cut short by an error, the output reaches pos + k.
LEMMA Output4Run ==
  ASSUME Inv4, InSpans, NEW k \in Nat, k <= Take, Output(k), g' = g,
         ~Failed' => pos' = pos + k
  PROVE  Output4'
<1>1. Inv3 /\ Inv1 /\ ~Failed /\ stdout \in Seq(Nat) /\ Printed(pos)
  BY DEF Inv4, Output4, Inv3, Inv2, InSpans, Failed
<1>2. PICK n \in Nat : n = pos + k /\ Allowed(n)
  BY <1>1, AllowedRun
<1>3. stdout' \in Seq(Nat) /\ Printed(n)'
  BY <1>1, <1>2, OutputPrinted
<1>4. DiskBelow(n)'
  BY <1>1, <1>2, OutputBelow
<1>5. Allowed(n)'
  BY <1>2, AllowedKept
<1>6. ~Failed' => Printed(pos)' /\ Allowed(pos)'
  <2>1. SUFFICES ASSUME ~Failed' PROVE Printed(pos)' /\ Allowed(pos)'
    OBVIOUS
  <2>2. pos' = n
    BY <1>2, <2>1
  <2> QED
    BY <1>3, <1>5, <2>2 DEF Printed, Allowed
<1> QED
  BY <1>3, <1>4, <1>5, <1>6 DEF Output4

\* Initially nothing is on the standard output or in a file of the group.
LEMMA Inv4Init == Init => Inv4
<1> SUFFICES ASSUME Init PROVE Output4
  BY Inv3Init DEF Inv4
<1>1. Inv3 /\ Inv1 /\ ~Failed /\ pos \in Nat /\ pos = 0
  BY Inv3Init DEF Inv3, Inv2, Inv1, ControlOK, Init, Failed
<1>2. stdout = << >> /\ stdout \in Seq(Nat) /\ Len(stdout) = 0
  BY EmptySeq DEF Init
<1>3. \A i \in WantedBytes : ~(i < 0)
  <2>1. IsGroup(g)
    BY <1>1 DEF Inv1, ControlOK
  <2>2. \A f \in g.wanted : f \in 0..g.nf
    BY <2>1, GroupFacts
  <2>3. \A f \in g.wanted : g.fileCut[f] \in Nat
    BY <2>1, <2>2, GroupFacts
  <2> QED
    BY <2>3 DEF WantedBytes
<1>4. Printed(pos)
  BY <1>1, <1>2, <1>3 DEF Printed
<1> QED
  BY <1>1, <1>2, <1>4, AllowedPos, DiskBelowPos DEF Output4

\* The steps that write nothing.
LEMMA Output4Kept ==
  ASSUME Inv4, g' = g, stdout' = stdout, ~Failed' => ~Failed /\ pos' = pos,
         \A p \in Paths : disk'[p] \notin {Absent, Old} =>
                            disk'[p] = disk[p] \/ disk'[p] = << >>
  PROVE  Output4'
<1>1. PICK n \in Nat : Printed(n) /\ Allowed(n) /\ DiskBelow(n)
  BY DEF Inv4, Output4
<1>2. \A m \in Nat : Printed(m) => Printed(m)'
  BY DEF Printed, WantedBytes
<1>3. DiskBelow(n)'
  <2>1. Len(<< >>) = 0
    BY EmptySeq
  <2>2. \A k \in 1..0 : FALSE
    OBVIOUS
  <2>3. ASSUME NEW p \in Paths, disk'[p] \notin {Absent, Old}
        PROVE  \A k \in 1..Len(disk'[p]) : disk'[p][k] < n
    <3>1. CASE disk'[p] = disk[p]
      BY <1>1, <2>3, <3>1 DEF DiskBelow
    <3>2. CASE disk'[p] = << >>
      BY <2>1, <2>2, <3>2
    <3> QED
      BY <2>3, <3>1, <3>2
  <2> QED
    BY <2>3 DEF DiskBelow
<1>4. ~Failed' => Printed(pos)' /\ Allowed(pos)'
  <2>1. SUFFICES ASSUME ~Failed' PROVE Printed(pos)' /\ Allowed(pos)'
    OBVIOUS
  <2>2. pos' = pos /\ Printed(pos) /\ Allowed(pos)
    BY <2>1 DEF Inv4, Output4
  <2> QED
    BY <2>2 DEF Printed, Allowed, WantedBytes, FileTotal, CrcTotal
<1> QED
  BY <1>1, <1>2, <1>3, <1>4, AllowedKept DEF Inv4, Output4

\* Every step keeps every emitted byte among the allowed ones.
LEMMA Inv4Next == Inv4 /\ [Next \/ Done]_vars => Inv4'
<1> SUFFICES ASSUME Inv4, [Next \/ Done]_vars PROVE Output4'
  BY Inv3Next DEF Inv4
<1>0. Inv1 /\ disk \in [Paths -> Contents]
  BY DEF Inv4, Inv3, Inv2, DiskOK
<1>1. CASE CloseFull
  <2>1. \A p \in Paths : OpenedDisk[p] = disk[p] \/ OpenedDisk[p] = << >>
    BY <1>0 DEF OpenedDisk
  <2> QED
    BY <1>1, <2>1, Output4Kept DEF CloseFull, Advancing, Failed
<1>2. ASSUME WriteRun PROVE Output4'
  <2>1. InSpans /\ Output(Take) /\ g' = g /\ pos' = pos + Take
    BY <1>2 DEF WriteRun
  <2>2. Take \in Nat /\ Take <= Take
    BY <1>0, <2>1, TakeFacts
  <2> QED
    BY <2>1, <2>2, Output4Run
<1>3. CASE WithinBlock \/ CompleteBlock \/ BlockMismatch
  BY <1>2, <1>3 DEF WithinBlock, CompleteBlock, BlockMismatch
<1>4. ASSUME NEW k \in 0..rest - 1, WriteFails(k) PROVE Output4'
  <2>1. InSpans /\ Output(k) /\ g' = g /\ Failed' /\ k < Take
    BY <1>4 DEF WriteFails, Fail, Failed
  <2>2. Take \in Nat /\ k \in Nat /\ k <= Take
    BY <1>0, <2>1, TakeFacts
  <2> QED
    BY <2>1, <2>2, Output4Run
<1>5. CASE CloseFullFails \/ OpenFails \/ ExceedsFiles \/ ExceedsBlocks \/ DecoderFails
  BY <1>5, Output4Kept DEF CloseFullFails, OpenFails, CreateFails, ExceedsFiles,
       ExceedsBlocks, DecoderFails, Fail, Failed, sinkVars
<1>6. CASE Cleanup
  BY <1>0, <1>6, Output4Kept DEF Cleanup, Failed, sinkVars
<1>7. CASE (\E n \in 1..g.length - pos : DecoderWrites(n)) \/ DecoderEnds \/ Finish
  BY <1>7, Output4Kept DEF DecoderWrites, DecoderEnds, Finish, Fail, Failed, sinkVars
<1>8. CASE UNCHANGED vars
  BY <1>8, Output4Kept DEF vars, sinkVars, Failed
<1> QED
  BY <1>1, <1>3, <1>4, <1>5, <1>6, <1>7, <1>8 DEF Next, SinkStep, Decoder, Done

\* Every emitted byte is an allowed one, in every reachable state.
LEMMA Inv4Always == Spec => []Inv4
<1> QED
  BY Inv4Init, Inv4Next, PTL DEF Spec

\* Every variable of the sink, the destination and the output keeps its type.
THEOREM SinkTypeOK == Spec => []TypeOK
<1>1. Inv4 => TypeOK
  BY DEF Inv4, Inv3, Inv2, Inv1, DiskOK, Output4, TypeOK
<1> QED
  BY <1>1, Inv4Always, PTL

\* In pipe mode the standard output holds the wanted bytes so far, in order.
THEOREM SinkPipesInOrder == Spec => []PipeInOrder
<1>1. Inv4 => PipeInOrder
  <2> SUFFICES ASSUME Inv4, ~Failed, g.pipe PROVE PipeInOrder
    BY DEF PipeInOrder
  <2>1. Printed(pos)
    BY DEF Inv4, Output4
  <2> QED
    BY <2>1 DEF Printed, PipeInOrder
<1> QED
  BY <1>1, Inv4Always, PTL

\* Nothing emitted lies at or above a bound that Allowed respects.
LEMMA EmittedAllowed ==
  ASSUME Inv4, NEW i \in Int, Emitted(i)
  PROVE  \E n \in Nat : i < n /\ Allowed(n)
<1>1. PICK n \in Nat : Printed(n) /\ Allowed(n) /\ DiskBelow(n)
  BY DEF Inv4, Output4
<1>2. Len(<< >>) = 0
  BY EmptySeq
<1>3. i < n
  BY <1>1, <1>2 DEF Emitted, Printed, DiskBelow
<1> QED
  BY <1>1, <1>3

\* No byte reaches a file or the standard output beyond either declared total,
\* whatever the decoder produces.
THEOREM SinkBombGuard == Spec => []NothingBeyondDeclared
<1>1. Inv4 => NothingBeyondDeclared
  <2> SUFFICES ASSUME Inv4, NEW i \in 0..g.length, Emitted(i)
               PROVE  i < FileTotal /\ i < CrcTotal
    BY DEF NothingBeyondDeclared
  <2>1. PICK n \in Nat : i < n /\ Allowed(n)
    BY EmittedAllowed
  <2>2. FileTotal \in Nat /\ CrcTotal \in Nat
    <3>1. IsGroup(g)
      BY DEF Inv4, Inv3, Inv2, Inv1, ControlOK
    <3>2. g.nf \in 0..g.nf /\ g.nb \in 0..g.nb
      BY <3>1, GroupFacts
    <3> QED
      BY <3>1, <3>2, GroupFacts DEF FileTotal, CrcTotal
  <2> QED
    BY <2>1, <2>2 DEF Allowed
<1> QED
  BY <1>1, Inv4Always, PTL

\* No byte behind a block whose CRC is wrong is ever written: write() stops at
\* the end of that block, also in the middle of a file.
THEOREM SinkStopsAtBadBlock == Spec => []NothingAfterBadBlock
<1>1. Inv4 => NothingAfterBadBlock
  <2> SUFFICES ASSUME Inv4, NEW b \in g.bad, NEW i \in 0..g.length, Emitted(i)
               PROVE  i < g.crcCut[b + 1]
    BY DEF NothingAfterBadBlock
  <2>1. PICK n \in Nat : i < n /\ Allowed(n)
    BY EmittedAllowed
  <2>2. g.crcCut[b + 1] \in Nat
    <3>1. IsGroup(g)
      BY DEF Inv4, Inv3, Inv2, Inv1, ControlOK
    <3>2. b \in 0..g.nb - 1 /\ g.nb \in Nat
      BY <3>1, GroupFacts
    <3>3. b + 1 \in 0..g.nb
      BY <3>2
    <3> QED
      BY <3>1, <3>3, GroupFacts
  <2> QED
    BY <2>1, <2>2 DEF Allowed
<1> QED
  BY <1>1, Inv4Always, PTL

-----------------------------------------------------------------------------
(* The causes of the errors.                                                *)

\* finish() fails on a stream that reaches both totals only at a trailing
\* zero-length block.
LEMMA CorruptedCause ==
  ASSUME Inv1, pc = "finish", ~Full, ~AllProduced
  PROVE  g.length < FileTotal \/ g.length < CrcTotal \/ CrcSize(g.nb - 1) = 0
<1>0. IsGroup(g) /\ file_idx \in 0..g.nf /\ crc_idx \in 0..g.nb /\ file_written \in Nat
      /\ crc_written \in Nat /\ pos \in Nat /\ ~Failed
  BY DEF Inv1, ControlOK, Failed
<1>1. g.nf \in Nat \ {0} /\ g.nb \in Nat \ {0}
  BY <1>0, GroupFacts
<1>2. pos = g.length /\ Allowed(pos)
  BY <1>0, AllowedPos DEF Inv1, Aligned
<1>3. CASE file_idx # g.nf
  <2>1. file_idx \in 0..g.nf - 1 /\ file_idx + 1 \in 0..g.nf /\ g.nf \in 0..g.nf
        /\ file_idx + 1 <= g.nf /\ file_idx < g.nf
    BY <1>0, <1>1, <1>3
  <2>2. /\ g.fileCut[file_idx] \in Nat /\ g.fileCut[file_idx + 1] \in Nat
        /\ g.fileCut[g.nf] \in Nat /\ g.fileCut[file_idx + 1] <= g.fileCut[g.nf]
    BY <1>0, <2>1, GroupFacts
  <2>3. file_written < FileSize(file_idx)
    BY <1>0, <2>1, <2>2 DEF Full, FileSize
  <2>4. pos = g.fileCut[file_idx] + file_written
    BY <1>0 DEF Inv1, Aligned
  <2> QED
    BY <1>0, <1>2, <2>2, <2>3, <2>4 DEF FileSize, FileTotal
<1>4. CASE crc_idx # g.nb
  <2>1. /\ crc_idx \in 0..g.nb - 1 /\ crc_idx + 1 \in 0..g.nb /\ g.nb \in 0..g.nb
        /\ g.nb - 1 \in 0..g.nb /\ crc_idx <= g.nb - 1 /\ crc_idx + 1 <= g.nb
    BY <1>0, <1>1, <1>4
  <2>2. /\ g.crcCut[crc_idx] \in Nat /\ g.crcCut[crc_idx + 1] \in Nat
        /\ g.crcCut[g.nb] \in Nat /\ g.crcCut[g.nb - 1] \in Nat
        /\ g.crcCut[crc_idx] <= g.crcCut[g.nb - 1]
        /\ g.crcCut[g.nb - 1] <= g.crcCut[g.nb]
        /\ g.crcCut[crc_idx + 1] <= g.crcCut[g.nb]
    BY <1>0, <1>1, <2>1, GroupFacts
  <2>3. pos = g.crcCut[crc_idx] + crc_written
        /\ (crc_written = 0 \/ crc_written < CrcSize(crc_idx))
    BY <1>0 DEF Inv1, Aligned
  <2>4. pos < g.crcCut[g.nb] \/ g.crcCut[g.nb - 1] = g.crcCut[g.nb]
    BY <1>0, <2>2, <2>3 DEF CrcSize
  <2>5. (g.nb - 1) + 1 = g.nb
    BY <1>1
  <2> QED
    BY <1>2, <2>2, <2>4, <2>5 DEF CrcSize, CrcTotal
<1>5. CASE file_idx = g.nf /\ crc_idx = g.nb
  BY <1>0, <1>1, <1>5 DEF AllProduced, Inv1, Aligned
<1> QED
  BY <1>3, <1>4, <1>5

Inv5 == Inv1 /\ RejectedForCause

\* Every step that fails with CorruptedFile has a cause in the group.
LEMMA CauseNext == Inv5 /\ [Next \/ Done]_vars => Inv5'
<1> SUFFICES ASSUME Inv5, [Next \/ Done]_vars PROVE RejectedForCause'
  BY Inv1Next DEF Inv5
<1>0. Inv1 /\ IsGroup(g) /\ RejectedForCause
      /\ pos \in Nat /\ rest \in Nat /\ file_idx \in 0..g.nf /\ crc_idx \in 0..g.nb
  BY DEF Inv5, Inv1, ControlOK
<1>1. g.nf \in Nat /\ g.nb \in Nat /\ g.length \in Nat
  BY <1>0, GroupFacts
<1>2. g' = g
  BY DEF Next, SinkStep, Decoder, CloseFull, CloseFullFails, OpenFails, CreateFails,
         ExceedsFiles, ExceedsBlocks, WithinBlock, CompleteBlock, BlockMismatch, WriteRun,
         WriteFails, DecoderWrites, DecoderEnds, DecoderFails, Finish, Cleanup, Done, vars
<1>3. ASSUME err' \in {err, "none", "io", "decoder"} PROVE RejectedForCause'
  BY <1>0, <1>2, <1>3 DEF RejectedForCause, FileTotal, CrcTotal, CrcSize
<1>4. CASE CloseFull \/ CloseFullFails \/ OpenFails \/ WithinBlock \/ CompleteBlock \/ Cleanup
            \/ Decoder \/ UNCHANGED vars \/ \E k \in 0..rest - 1 : WriteFails(k)
  <2>1. err' \in {err, "none", "io", "decoder"}
    BY <1>4 DEF CloseFull, CloseFullFails, OpenFails, CreateFails, WithinBlock, CompleteBlock,
         EndOfTurn, WriteFails, Cleanup, Decoder, DecoderWrites, DecoderEnds, DecoderFails,
         Fail, vars
  <2> QED
    BY <1>3, <2>1
<1>5. CASE ExceedsFiles
  <2>1. pos = FileTotal /\ pos + rest <= g.length /\ rest > 0
    <3>1. pos = g.fileCut[file_idx] + file_written /\ file_written = 0 /\ file_idx = g.nf
          /\ pos + rest <= g.length /\ rest > 0
      BY <1>0, <1>5 DEF ExceedsFiles, Inv1, Aligned, Failed
    <3>2. g.fileCut[file_idx] \in Nat
      BY <1>0, GroupFacts
    <3> QED
      BY <3>1, <3>2 DEF FileTotal
  <2>2. g.length > FileTotal
    BY <1>0, <1>1, <2>1
  <2> QED
    BY <1>2, <1>5, <2>2 DEF ExceedsFiles, Fail, RejectedForCause, FileTotal
<1>6. CASE ExceedsBlocks
  <2>1. pos = CrcTotal /\ pos + rest <= g.length /\ rest > 0
    <3>1. crc_idx = g.nb /\ pc = "write" /\ ~Failed
      BY <1>6 DEF ExceedsBlocks, Failed
    <3>2. pos = g.crcCut[crc_idx] + crc_written /\ crc_written \in Nat
          /\ pos + rest <= g.length /\ rest > 0
      BY <1>0, <3>1 DEF Inv1, ControlOK, Aligned
    <3>3. crc_written = 0
      <4>1. crc_written > 0 => crc_idx < g.nb
        BY <1>0, <3>1 DEF Inv1, Aligned
      <4> QED
        BY <1>1, <3>1, <3>2, <4>1
    <3>4. g.crcCut[crc_idx] \in Nat
      BY <1>0, GroupFacts
    <3> QED
      BY <3>1, <3>2, <3>3, <3>4 DEF CrcTotal
  <2>2. g.length > CrcTotal
    BY <1>0, <1>1, <2>1
  <2> QED
    BY <1>2, <1>6, <2>2 DEF ExceedsBlocks, Fail, RejectedForCause, CrcTotal
<1>7. CASE BlockMismatch
  <2>1. WriteRun /\ crc_written + Take = CrcSize(crc_idx) /\ ~CrcMatches(crc_idx)
        /\ err' = "crc mismatch" /\ ~Failed
    BY <1>7 DEF BlockMismatch, BlockFull, Fail, WriteRun, InSpans, Failed
  <2>2. /\ Take \in Nat /\ crc_written \in Nat
        /\ g.crcCut[crc_idx] \in Nat /\ g.crcCut[crc_idx + 1] \in Nat
        /\ pos = g.crcCut[crc_idx] + crc_written
        /\ pos' = pos + Take /\ rest' \in Nat /\ pos' + rest' <= g.length
    BY <1>0, <2>1, Inv1WriteRun
  <2>3. pos + Take = g.crcCut[crc_idx + 1]
    <3>1. crc_written + Take = g.crcCut[crc_idx + 1] - g.crcCut[crc_idx]
      BY <2>1 DEF CrcSize
    <3>2. /\ Take \in Nat /\ crc_written \in Nat /\ g.crcCut[crc_idx] \in Nat
          /\ g.crcCut[crc_idx + 1] \in Nat /\ pos = g.crcCut[crc_idx] + crc_written
      BY <2>2
    <3> QED
      BY <3>1, <3>2
  <2>4. hashed = g.crcCut[crc_idx]
    BY <1>0, <2>1 DEF Inv1, Aligned
  <2>5. crc_idx \in g.bad
    BY <2>1, <2>3, <2>4 DEF CrcMatches
  <2>6. g.length >= g.crcCut[crc_idx + 1]
    BY <1>0, <1>1, <2>2, <2>3
  <2> QED
    BY <1>2, <2>1, <2>5, <2>6 DEF RejectedForCause
<1>8. CASE Finish
  <2>1. CASE AllProduced
    BY <1>3, <1>8, <2>1 DEF Finish
  <2>2. CASE ~AllProduced
    <3>1. err' = "corrupted" /\ pc = "finish" /\ ~Full
      BY <1>8, <2>2 DEF Finish, Fail
    <3>2. g.length < FileTotal \/ g.length < CrcTotal \/ CrcSize(g.nb - 1) = 0
      BY <1>0, <2>2, <3>1, CorruptedCause
    <3> QED
      BY <1>2, <3>1, <3>2 DEF RejectedForCause, FileTotal, CrcTotal, CrcSize
  <2> QED
    BY <2>1, <2>2
<1> QED
  BY <1>4, <1>5, <1>6, <1>7, <1>8 DEF Next, SinkStep, Done

\* Every error of the sink names something that is really wrong with the
\* group, the trailing zero-length block excepted.
THEOREM SinkRejectsForCause == Spec => []RejectedForCause
<1>1. Init => Inv5
  BY Inv1Init DEF Init, Inv5, RejectedForCause
<1>2. Inv5 => RejectedForCause
  BY DEF Inv5
<1> QED
  BY <1>1, <1>2, CauseNext, PTL DEF Spec

\* Whatever was wanted, and nothing else, is where it belongs as far as the
\* stream has come: in the files by write() and advance_full_files, or on the
\* standard output in pipe mode.
THEOREM SinkRoutes == Spec => []Routed
<1>1. FilesRouted /\ PipeInOrder => Routed
  BY DEF Routed
<1> QED
  BY <1>1, SinkRoutesFiles, SinkPipesInOrder, PTL

\* Bytes that are not declared, or that follow a block whose CRC is wrong, are
\* never written, whatever the decoder hands to write() and wherever it fails.
THEOREM SinkWritesOnlySound == Spec => []WritesOnlySound
<1>1. NothingBeyondDeclared /\ NothingAfterBadBlock => WritesOnlySound
  BY DEF WritesOnlySound
<1> QED
  BY <1>1, SinkBombGuard, SinkStopsAtBadBlock, PTL

-----------------------------------------------------------------------------
(* SolidSink implements Delivery: every step of the sink is a step of the   *)
(* promise, or leaves it alone, under the mapping SolidSink defines (Job,   *)
(* Tree, Status).                                                           *)

\* What the promise is about never changes.
LEMMA JobKept ==
  ASSUME g' = g
  PROVE  Job' = Job
<1> QED
  BY DEF Job, After, LastOn, WantedBytes, FileSize, FileTotal, CrcTotal

\* What the standard output holds is always a prefix of what it should.
LEMMA PrintedPrefix ==
  ASSUME NEW n \in Nat, Printed(n)
  PROVE  Promise!PrefixOf(stdout, Job.print)
<1>1. Job.print = IF g.pipe THEN WantedBytes ELSE {}
  BY DEF Job
<1>2. CASE ~g.pipe
  <2>1. Len(stdout) = 0 /\ Job.print = {}
    BY <1>1, <1>2, EmptySeq DEF Printed
  <2> QED
    BY <2>1 DEF Promise!PrefixOf
<1>3. CASE g.pipe
  <2>1. /\ \A k \in 1..Len(stdout) : stdout[k] \in WantedBytes
        /\ \A j, k \in 1..Len(stdout) : j < k => stdout[j] < stdout[k]
    BY <1>3 DEF Printed
  <2>2. ASSUME NEW i \in WantedBytes, NEW k \in 1..Len(stdout), i < stdout[k]
        PROVE  \E j \in 1..Len(stdout) : stdout[j] = i
    <3>1. stdout[k] < n /\ stdout[k] \in WantedBytes
      BY <1>3 DEF Printed
    <3>2. i < n
      BY <2>2, <3>1 DEF WantedBytes
    <3> QED
      BY <1>3, <3>2 DEF Printed
  <2> QED
    BY <1>1, <1>3, <2>1, <2>2 DEF Promise!PrefixOf
<1> QED
  BY <1>2, <1>3

InvD == Inv4 /\ Promise!PrefixOf(stdout, Job.print)

\* In every reachable state the standard output is a prefix of what is due.
LEMMA InvDAlways == Spec => []InvD
<1>1. Inv4 => InvD
  <2> SUFFICES ASSUME Inv4 PROVE Promise!PrefixOf(stdout, Job.print)
    BY DEF InvD
  <2>1. PICK n \in Nat : Printed(n)
    BY DEF Inv4, Output4
  <2> QED
    BY <2>1, PrintedPrefix
<1> QED
  BY <1>1, Inv4Always, PTL

\* A step that does not end the extraction emits, or changes nothing visible.
LEMMA RunningStep ==
  ASSUME InvD, InvD', g' = g, pc \notin {"ok", "cleaned"}, pc' \notin {"ok", "cleaned"},
         stdout' = stdout \/ \E d \in Seq(Nat) : stdout' = stdout \o d
  PROVE  [Promise!Next]_(Promise!vars)
<1>1. Job' = Job
  BY JobKept
<1>2. Tree' = Tree /\ Status' = Status /\ Status = "running"
  BY DEF Tree, Status
<1>3. CASE stdout' = stdout
  BY <1>1, <1>2, <1>3 DEF Promise!vars
<1>4. CASE stdout' # stdout
  <2>1. PICK d \in Seq(Nat) : stdout' = stdout \o d
    BY <1>4
  <2>2. stdout \in Seq(Nat)
    BY DEF InvD, Inv4, Output4
  <2>3. d # << >>
    BY <1>4, <2>1, <2>2, ConcatEmptySeq
  <2>4. Len(stdout) \in Nat /\ Len(d) \in Nat \ {0}
    BY <2>2, <2>3, EmptySeq, LenProperties
  <2>5. /\ stdout' \in Seq(Nat) /\ Len(stdout') = Len(stdout) + Len(d)
        /\ \A i \in 1..Len(stdout) + Len(d) :
             stdout'[i] = IF i <= Len(stdout) THEN stdout[i] ELSE d[i - Len(stdout)]
    BY <2>1, <2>2, ConcatProperties
  <2>6. SubSeq(stdout', 1, Len(stdout)) = stdout
    <3>1. \A i \in 1..Len(stdout) : stdout'[i] \in Nat
      <4>1. \A i \in 1..Len(stdout) : i \in 1..Len(stdout')
        BY <2>4, <2>5
      <4> QED
        BY <2>5, <4>1, ElementOfSeq
    <3>2. /\ SubSeq(stdout', 1, Len(stdout)) \in Seq(Nat)
          /\ Len(SubSeq(stdout', 1, Len(stdout))) = Len(stdout)
          /\ \A i \in 1..Len(stdout) : SubSeq(stdout', 1, Len(stdout))[i] = stdout'[i]
      <4> DEFINE m == Len(stdout)
      <4>1. m \in Nat /\ \A i \in 1..m : stdout'[i] \in Nat
        BY <2>4, <3>1
      <4>2. /\ SubSeq(stdout', 1, m) \in Seq(Nat)
            /\ Len(SubSeq(stdout', 1, m)) = IF 1 <= m THEN m - 1 + 1 ELSE 0
            /\ \A i \in 1..m - 1 + 1 : SubSeq(stdout', 1, m)[i] = stdout'[1 + i - 1]
        <5> HIDE DEF m
        <5> QED
          BY <4>1, SubSeqProperties
      <4>3. m - 1 + 1 = m /\ (~(1 <= m) => m = 0) /\ \A i \in 1..m : 1 + i - 1 = i
        BY <4>1
      <4> QED
        BY <4>2, <4>3
    <3>3. \A i \in 1..Len(stdout) : SubSeq(stdout', 1, Len(stdout))[i] = stdout[i]
      BY <2>4, <2>5, <3>2
    <3> QED
      BY <2>2, <3>2, <3>3, SeqEqual
  <2>7. Promise!PrefixOf(stdout', Job.print)
    <3>1. Promise!PrefixOf(stdout, Job.print)'
      BY DEF InvD
    <3> QED
      BY <1>1, <3>1 DEF Promise!PrefixOf
  <2>8. Len(stdout') > Len(stdout)
    BY <2>4, <2>5
  <2> QED
    BY <1>1, <1>2, <2>6, <2>7, <2>8 DEF Promise!Next, Promise!Emit
<1> QED
  BY <1>3, <1>4

\* finish() accepts: the stream was whole and sound.
LEMMA FinishedSound ==
  ASSUME Inv4, pc = "finish", AllProduced
  PROVE  Job.sound /\ pos = FileTotal
<1>0. Inv1 /\ IsGroup(g) /\ ~Failed
  BY DEF Inv4, Inv3, Inv2, Inv1, ControlOK, Failed
<1>1. g.nf \in 0..g.nf /\ g.nb \in Nat /\ g.nb \in 0..g.nb /\ g.bad \subseteq 0..g.nb - 1
  BY <1>0, GroupFacts
<1>2. /\ file_idx = g.nf /\ crc_idx = g.nb /\ crc_written = 0 /\ file_written = 0
      /\ pos = g.length /\ pos = g.fileCut[g.nf] + 0 /\ pos = g.crcCut[g.nb] + 0
      /\ \A b \in g.bad : g.nb <= b
  BY <1>0 DEF Inv1, Aligned, AllProduced
<1>3. g.bad = {}
  BY <1>1, <1>2
<1>4. g.fileCut[g.nf] \in Nat /\ g.crcCut[g.nb] \in Nat
  BY <1>0, <1>1, GroupFacts
<1>5. g.length = FileTotal /\ g.length = CrcTotal /\ pos = FileTotal
  BY <1>2, <1>4 DEF FileTotal, CrcTotal
<1>6. Job.sound = (g.length = FileTotal /\ g.length = CrcTotal /\ g.bad = {})
  BY DEF Job
<1> QED
  BY <1>3, <1>5, <1>6, Zenon

\* ... and every wanted path holds all of its last entry.
LEMMA FinishedFiles ==
  ASSUME Inv4, pc = "finish", AllProduced
  PROVE  disk = After
<1>0. IsGroup(g) /\ ~Failed /\ disk \in [Paths -> Contents] /\ file_idx = g.nf
      /\ Footprint /\ FilesRouted
  BY DEF Inv4, Inv3, Inv2, Inv1, ControlOK, DiskOK, Failed, AllProduced
<1>1. g.nf \in Nat /\ g.wanted \subseteq 0..g.nf - 1
  BY <1>0, GroupFacts
<1>2. ASSUME NEW p \in Paths PROVE disk[p] = After[p]
  <2>1. CASE g.pipe
    BY <1>0, <2>1 DEF Footprint, After
  <2>2. CASE ~g.pipe
    <3>1. OpenedOn(p) = {f \in g.wanted : g.path[f] = p}
      BY <1>0, <1>1 DEF OpenedOn
    <3>2. CASE OpenedOn(p) = {} /\ disk[p] = g.disk[p]
      <4>1. LastOn(p) = {}
        BY <3>1, <3>2 DEF LastOn
      <4> QED
        BY <3>2, <4>1 DEF After
    <3>3. ASSUME NEW f \in OpenedOn(p), \A h \in OpenedOn(p) : h <= f,
                 disk[p] = Data(g.fileCut[f], Received(f))
          PROVE  disk[p] = After[p]
      <4>1. f \in 0..g.nf - 1 /\ f < file_idx
        BY <1>0, <1>1, <3>1, <3>3
      <4>2. LastOn(p) = {f}
        <5>1. f \in LastOn(p)
          BY <3>1, <3>3 DEF LastOn
        <5>2. ASSUME NEW e \in LastOn(p) PROVE e = f
          <6>1. e <= f /\ f <= e /\ e \in Int /\ f \in Int
            BY <1>1, <3>1, <3>3 DEF LastOn
          <6> QED
            BY <6>1
        <5> QED
          BY <5>1, <5>2
      <4>3. (CHOOSE e \in LastOn(p) : TRUE) = f
        BY <4>2
      <4>4. Received(f) = FileSize(f)
        BY <4>1 DEF Received
      <4> QED
        BY <2>2, <3>3, <4>2, <4>3, <4>4 DEF After
    <3> QED
      BY <1>0, <2>2, <3>2, <3>3 DEF FilesRouted
  <2> QED
    BY <2>1, <2>2
<1> QED
  BY <1>0, <1>2 DEF After

\* ... and the standard output holds every wanted byte.
LEMMA FinishedStdout ==
  ASSUME InvD, pc = "finish", AllProduced
  PROVE  Promise!AllOf(stdout, Job.print)
<1>0. IsGroup(g) /\ Printed(pos) /\ pos = FileTotal
  BY FinishedSound DEF InvD, Inv4, Output4, Inv3, Inv2, Inv1, ControlOK, Failed
<1>1. \A i \in WantedBytes : i < FileTotal
  <2>1. g.nf \in Nat /\ g.wanted \subseteq 0..g.nf - 1
    BY <1>0, GroupFacts
  <2>2. \A f \in g.wanted : f + 1 \in 0..g.nf /\ f + 1 <= g.nf /\ g.nf \in 0..g.nf /\ f \in 0..g.nf
    BY <2>1
  <2>3. \A f \in g.wanted : /\ g.fileCut[f + 1] <= g.fileCut[g.nf]
                            /\ g.fileCut[f + 1] \in Nat /\ g.fileCut[f] \in Nat
                            /\ g.fileCut[g.nf] \in Nat
    BY <1>0, <2>2, GroupFacts
  <2> QED
    BY <2>3 DEF WantedBytes, FileTotal
<1>2. ASSUME NEW i \in Job.print PROVE \E k \in 1..Len(stdout) : stdout[k] = i
  BY <1>0, <1>1, <1>2 DEF Job, Printed
<1> QED
  BY <1>2 DEF InvD, Promise!AllOf

\* finish() is the step of the promise that delivers or fails.
LEMMA FinishStep ==
  ASSUME InvD, InvD', Finish
  PROVE  [Promise!Next]_(Promise!vars)
<1>1. /\ g' = g /\ disk' = disk /\ stdout' = stdout /\ pc = "finish"
  BY DEF Finish, sinkVars
<1>2. CASE ~AllProduced
  BY <1>1, <1>2, RunningStep DEF Finish, Fail
<1>3. CASE AllProduced
  <2>1. pc' = "ok"
    BY <1>3 DEF Finish
  <2>2. Status = "running" /\ Status' = "ok" /\ Tree' = disk
    BY <1>1, <2>1 DEF Status, Tree
  <2>3. Job' = Job
    BY <1>1, JobKept
  <2>4. Job.sound /\ disk = Job.after /\ Promise!AllOf(stdout, Job.print)
    <3>1. Job.after = After
      BY DEF Job
    <3> QED
      BY <1>1, <1>3, <3>1, FinishedSound, FinishedFiles, FinishedStdout DEF InvD
  <2> QED
    BY <1>1, <2>2, <2>3, <2>4 DEF Promise!Next, Promise!Commit
<1> QED
  BY <1>2, <1>3

\* cleanup() is the step of the promise that gives everything up.
LEMMA CleanupStep ==
  ASSUME InvD, InvD', Cleanup
  PROVE  [Promise!Next]_(Promise!vars)
<1>1. /\ g' = g /\ stdout' = stdout /\ pc = "fail" /\ pc' = "cleaned"
      /\ disk' = IF g.pipe THEN disk
                 ELSE [p \in Paths |-> IF p \in created THEN Absent ELSE disk[p]]
  BY DEF Cleanup, sinkVars
<1>2. Status = "running" /\ Status' = "failed" /\ Tree' = disk' /\ Tree = g.disk
  BY <1>1 DEF Status, Tree
<1>3. Job' = Job
  BY <1>1, JobKept
<1>4. g.disk \in [Paths -> {Absent, Old}] /\ disk \in [Paths -> Contents]
  <2>1. IsGroup(g) /\ disk \in [Paths -> Contents]
    BY DEF InvD, Inv4, Inv3, Inv2, Inv1, ControlOK, DiskOK
  <2> QED
    BY <2>1, GroupFacts
<1>5. /\ created \subseteq {g.path[f] : f \in g.wanted}
      /\ g.pipe => created = {}
      /\ \A p \in Paths : p \notin created => disk[p] = g.disk[p]
  BY DEF InvD, Inv4, Inv3, Footprint
<1>6. created \in SUBSET Job.touch
  BY <1>5 DEF Job
<1>7. disk' = [p \in DOMAIN Tree |-> IF p \in created THEN Absent ELSE Tree[p]]
  BY <1>1, <1>2, <1>4, <1>5
<1> QED
  BY <1>1, <1>2, <1>3, <1>6, <1>7 DEF Promise!Next, Promise!Rollback

\* What Output(k) does to the standard output.
LEMMA OutputExtends ==
  ASSUME NEW k \in Nat, pos \in Nat, Output(k)
  PROVE  stdout' = stdout \/ \E d \in Seq(Nat) : stdout' = stdout \o d
<1>1. Data(pos, k) \in Seq(Nat)
  BY DataProperties
<1> QED
  BY <1>1 DEF Output

\* Every step of the sink is a step of the promise or a stutter.
LEMMA PromiseNext == InvD /\ InvD' /\ [Next \/ Done]_vars => [Promise!Next]_(Promise!vars)
<1> SUFFICES ASSUME InvD, InvD', [Next \/ Done]_vars
             PROVE  [Promise!Next]_(Promise!vars)
  OBVIOUS
<1>0. Inv1 /\ pos \in Nat /\ rest \in Nat
  BY DEF InvD, Inv4, Inv3, Inv2, Inv1, ControlOK
<1>1. CASE CloseFull \/ CloseFullFails \/ ExceedsFiles \/ ExceedsBlocks \/ OpenFails
            \/ (\E n \in 1..g.length - pos : DecoderWrites(n)) \/ DecoderEnds \/ DecoderFails
  <2>1. g' = g /\ stdout' = stdout /\ pc \notin {"ok", "cleaned"} /\ pc' \notin {"ok", "cleaned"}
    BY <1>1 DEF CloseFull, CloseFullFails, Advancing, ExceedsFiles, ExceedsBlocks, OpenFails,
         InSpans, CreateFails, DecoderWrites, DecoderEnds, DecoderFails, Fail, sinkVars
  <2> QED
    BY <2>1, RunningStep
<1>2. CASE WithinBlock \/ CompleteBlock \/ BlockMismatch
  <2>1. WriteRun /\ pc' \notin {"ok", "cleaned"}
    BY <1>2 DEF WithinBlock, CompleteBlock, BlockMismatch, EndOfTurn, Fail
  <2>2. InSpans /\ Output(Take) /\ g' = g /\ pc \notin {"ok", "cleaned"}
    BY <2>1 DEF WriteRun, InSpans
  <2>3. Take \in Nat
    BY <1>0, <2>2, TakeFacts
  <2>4. stdout' = stdout \/ \E d \in Seq(Nat) : stdout' = stdout \o d
    BY <1>0, <2>2, <2>3, OutputExtends
  <2> QED
    BY <2>1, <2>2, <2>4, RunningStep
<1>3. ASSUME NEW k \in 0..rest - 1, WriteFails(k) PROVE [Promise!Next]_(Promise!vars)
  <2>1. Output(k) /\ k \in Nat /\ g' = g
        /\ pc \notin {"ok", "cleaned"} /\ pc' \notin {"ok", "cleaned"}
    BY <1>0, <1>3 DEF WriteFails, InSpans, Fail
  <2>2. stdout' = stdout \/ \E d \in Seq(Nat) : stdout' = stdout \o d
    BY <1>0, <2>1, OutputExtends
  <2> QED
    BY <2>1, <2>2, RunningStep
<1>4. CASE Finish
  BY <1>4, FinishStep
<1>5. CASE Cleanup
  BY <1>5, CleanupStep
<1>6. CASE UNCHANGED vars
  <2>1. Job' = Job /\ Tree' = Tree /\ Status' = Status /\ stdout' = stdout
    BY <1>6, JobKept DEF vars, Tree, Status
  <2> QED
    BY <2>1 DEF Promise!vars
<1> QED
  BY <1>1, <1>2, <1>3, <1>4, <1>5, <1>6 DEF Next, SinkStep, Decoder, Done

\* The solid extraction delivers everything that is wanted, with the bytes of a
\* stream that is whole and has every CRC right, or it fails, and then no path
\* holds anything but what was there before, or nothing.
THEOREM SinkDelivers == Spec => DeliversAllOrNothing
<1>1. Init => Promise!Init
  BY EmptySeq DEF Init, Promise!Init, Job, Tree, Status
<1> QED
  BY <1>1, InvDAlways, PromiseNext, PTL DEF Spec, DeliversAllOrNothing, Promise!Spec
=============================================================================

------------------------- MODULE ArchiveParserProofs -------------------------
(***************************************************************************)
(* What ArchiveParser promises, for every file.                             *)
(***************************************************************************)
EXTENDS ArchiveParser, FiniteSetTheorems, WellFoundedInduction, TLAPS

Loops == {"egg", "prefix", "entries", "sub", "blocks"}

Inv1 == file \in Files /\ TypeOK

\* The reader stands in front of record k, which was written for the loop the
\* parser is in; the loop over blocks ends at the records of the entries.
AtRecord(k) ==
  /\ k \in 1..Len(file.items)
  /\ file.items[k].pos = pos
  /\ file.items[k].loop = pc \/ (pc = "blocks" /\ file.items[k].loop = "entries")

\* In a file that was cut inside an encryption header a wrong length may be
\* taken: then the reader is inside of a record and finds nothing more.
Lost == RecordsAt(pos) = {} /\ ~IsWhole(file)

\* The last signature the file still has ends a volume.
EndsAt(i) ==
  /\ EndsVolume(file.items[i]) /\ file.items[i].pos + 4 <= file.len
  /\ \A j \in i + 1..Len(file.items) : file.items[j].pos + 4 > file.len
EndsWithVolume == \E i \in 1..Len(file.items) : EndsAt(i)

\* In a file that an archiver wrote, with a reader that did not fail, the parser
\* is always in front of a record it expects.
InPlace ==
  ~faulted /\ Sane(file) =>
    /\ pc \in Loops => (\E k \in 1..Len(file.items) : AtRecord(k)) \/ Lost
    /\ pc \in {"resolve", "ok"} => EndsWithVolume
    /\ pc = "refused" => ~IsWhole(file)

Inv2 == Inv1 /\ InPlace

-----------------------------------------------------------------------------
(* Records                                                                   *)

LEMMA FileFacts ==
  ASSUME file \in Files
  PROVE  /\ Len(file.items) \in Nat /\ file.len \in Nat
         /\ \A i \in 1..Len(file.items) :
              IsRecord(file.items[i]) /\ file.items[i].pos \in Nat
         /\ \A i, j \in 1..Len(file.items) : i < j => file.items[i].pos < file.items[j].pos
<1>1. IsArchiveFile(file)
  BY FilesAssumption
<1>2. Len(file.items) \in Nat
  BY <1>1 DEF IsArchiveFile
<1> QED
  BY <1>1, <1>2 DEF IsArchiveFile, IsRecord

\* Where a record is seen, there is one, and no other.
LEMMA SeenAt ==
  ASSUME file \in Files, NEW o \in Nat, SigAt(o) \notin {"eof", "other"}
  PROVE  /\ o + 4 <= file.len
         /\ \E k \in 1..Len(file.items) :
              /\ file.items[k].pos = o /\ SigAt(o) = file.items[k].sig
              /\ k = CHOOSE i \in RecordsAt(o) : TRUE
<1>1. o + 4 <= file.len /\ RecordsAt(o) # {}
  BY FileFacts DEF SigAt
<1>2. PICK k \in RecordsAt(o) : k = CHOOSE i \in RecordsAt(o) : TRUE
  BY <1>1
<1> QED
  BY <1>1, <1>2 DEF SigAt, RecordsAt

LEMMA ItemFacts ==
  ASSUME file \in Files, pos \in Nat, Sig \notin {"eof", "other"}
  PROVE  /\ pos + 4 <= file.len
         /\ IsRecord(Item) /\ Item.sig = Sig
         /\ Item.ext \in Nat /\ Item.size \in Nat /\ Body \in Nat
<1>1. pos + 4 <= file.len /\ \E k \in 1..Len(file.items) :
              /\ file.items[k].pos = pos /\ Sig = file.items[k].sig /\ Item = file.items[k]
  BY SeenAt DEF Sig, Item
<1>2. IsRecord(Item) /\ Item.sig = Sig
  BY <1>1, FileFacts
<1>3. Item.ext \in Nat /\ Item.size \in Nat
  BY <1>2 DEF IsRecord
<1> QED
  BY <1>1, <1>2, <1>3 DEF Body, BodyOf

\* A set of indices that is not empty has a last one.
LEMMA GreatestFacts ==
  ASSUME NEW n \in Nat, NEW S \in SUBSET (0..n), S # {}
  PROVE  Greatest(S) \in S /\ \A j \in S : j <= Greatest(S)
<1> DEFINE T == {n - i : i \in S}
<1>a. \A i \in S : n - i \in Nat
  OBVIOUS
<1>1. T \subseteq Nat /\ T # {}
  BY <1>a
<1>2. PICK t \in T : \A u \in T : ~(<<u, t>> \in OpToRel(<, Nat))
  BY <1>1, NatLessThanWellFounded, WFMin
<1>3. \A u \in T : ~(u < t)
  BY <1>1, <1>2 DEF OpToRel
<1>4. PICK i \in S : t = n - i
  OBVIOUS
<1>5. \A j \in S : ~(n - j < n - i)
  BY <1>3, <1>4
<1>6. \A j \in S : j <= i
  BY <1>4, <1>5
<1> QED
  BY <1>6 DEF Greatest

-----------------------------------------------------------------------------
(* Types                                                                     *)

\* A payload's length is what the size declares, or one that the method has and
\* that leads to an end marker.
LEMMA PayloadFacts ==
  ASSUME file \in Files, pos \in Nat, Sig = "ENCRYPT", Complete
  PROVE  /\ Item.method \in {"Zip", "Aes128", "Aes256"}
         /\ Declared \in Nat /\ Payload \in Nat
         /\ Fits \subseteq Lengths[Item.method] /\ Fits \subseteq 0..28
         /\ Payload \in Fits \cup {Declared}
         /\ Fits # {} => Payload \in Fits
         /\ Has(Body + 1 + Payload)
<1>1. IsRecord(Item) /\ Item.sig = "ENCRYPT" /\ Item.size \in Nat
  BY ItemFacts
<1>2. Item.size > 0 /\ Item.method # "Unknown" /\ Has(Body + 1 + Payload)
  BY DEF Complete
<1>3. Item.method \in {"Zip", "Aes128", "Aes256"}
  BY <1>1, <1>2 DEF IsRecord, Methods
<1>4. Declared \in Nat
  BY <1>1, <1>2 DEF Declared
<1>5. Fits \subseteq Lengths[Item.method] /\ Lengths[Item.method] \subseteq 0..28
  BY <1>3 DEF Fits, Lengths
<1>6. Fits # {} => Greatest(Fits) \in Fits
  BY <1>5, GreatestFacts
<1>7. Payload \in Fits \cup {Declared} /\ (Fits # {} => Payload \in Fits)
  BY <1>6 DEF Payload
<1> QED
  BY <1>2, <1>3, <1>4, <1>5, <1>7

LEMMA ExpectedFacts ==
  /\ DOMAIN Expected = Loops
  /\ Expected["egg"] = {"EGG"}
  /\ Expected["prefix"] = {"SPLIT", "SOLID", "SKIP", "GLOBAL", "END"}
  /\ Expected["entries"] = {"FILE", "COMMENT", "DUMMY", "END"}
  /\ Expected["sub"] = {"NAME", "COMMENT", "WINDOWS", "POSIX", "ENCRYPT", "END"}
  /\ Expected["blocks"] = {"BLOCK"}
BY DEF Expected, Loops

\* Most steps only move on; the entry at work keeps its blocks.
LEMMA MovesOn ==
  ASSUME Inv1, NEW n \in Nat, pos' = pos + n,
         UNCHANGED <<file, faulted, result>>,
         pc' \in Loops \cup {"resolve", "ok", "refused"},
         cur' \in ParsedEntries, cur'.blocks = cur.blocks
  PROVE  Inv1'
<1>1. \A b \in 1..Len(cur.blocks) : cur.blocks[b].data_pos \in 0..pos
  BY DEF Inv1, TypeOK
<1>2. pos \in Nat /\ pos' \in Nat /\ pos <= pos'
  BY DEF Inv1, TypeOK
<1>3. \A b \in 1..Len(cur.blocks) : cur.blocks[b].data_pos \in 0..pos'
  BY <1>1, <1>2
<1> QED
  BY <1>2, <1>3, ExpectedFacts DEF Inv1, TypeOK, result

LEMMA NewEntryType ==
  ASSUME NEW r, r.id \in Nat, r.usize \in Nat
  PROVE  NewEntry(r) \in ParsedEntries /\ NewEntry(r).blocks = << >>
BY DEF NewEntry, ParsedEntries, NoId, NoTime, NoCipher

LEMMA Inv1Init == Init => Inv1
<1> SUFFICES ASSUME Init PROVE Inv1
  OBVIOUS
<1>1. cur \in ParsedEntries /\ cur.blocks = << >>
  BY DEF Init, NoEntry, NewEntry, ParsedEntries, NoId, NoTime, NoCipher
<1>2. entries \in Seq(ParsedEntries)
  BY DEF Init
<1>3. \A b \in 1..Len(cur.blocks) : cur.blocks[b].data_pos \in 0..pos
  BY <1>1
<1>4. pc \in DOMAIN Expected
  BY ExpectedFacts DEF Init, Loops
<1>5. split \in [prev : Nat, next : Nat]
  BY DEF Init, NoLink
<1> QED
  BY <1>1, <1>2, <1>3, <1>4, <1>5 DEF Init, Inv1, TypeOK

LEMMA CurFacts ==
  ASSUME Inv1
  PROVE  /\ cur.name \in Seq(Components) /\ cur.parent \in Nat \cup {NoId}
         /\ cur.time \in Nat \cup {NoTime} /\ cur.dir \in BOOLEAN
         /\ cur.blocks \in Seq([data_pos : Nat, csize : Nat])
BY DEF Inv1, TypeOK, ParsedEntries

\* The sub-headers fill in the entry at work.
LEMMA SubHeaderType ==
  ASSUME Inv1, ReadName \/ ReadWindows \/ ReadPosix
  PROVE  /\ cur' \in ParsedEntries /\ cur'.blocks = cur.blocks
         /\ pos' = pos + (Body + Item.size) /\ Body + Item.size \in Nat
         /\ pc' = pc /\ pc = "sub"
         /\ UNCHANGED <<file, faulted, result>>
<1>1. Sig \in {"NAME", "WINDOWS", "POSIX"} /\ file \in Files /\ pos \in Nat
  BY DEF ReadName, ReadWindows, ReadPosix, Reads, Inv1, TypeOK
<1>2. IsRecord(Item) /\ Item.sig = Sig /\ Item.size \in Nat /\ Body \in Nat
  BY <1>1, ItemFacts
<1>3. pos' = pos + (Body + Item.size) /\ Body + Item.size \in Nat
  BY <1>1, <1>2 DEF ReadName, ReadWindows, ReadPosix, After
<1>4. cur \in ParsedEntries
  BY DEF Inv1, TypeOK
<1>5. CASE ReadName
  <2>1. Item.name \in Seq(Components) /\ Item.parent \in Nat \cup {NoId}
    BY <1>2, <1>5 DEF IsRecord, ReadName, Reads
  <2>2. PICK n \in Seq(Components), q \in Nat \cup {NoId} :
          cur' = [cur EXCEPT !.name = n, !.parent = q]
    BY <1>5, <2>1, CurFacts DEF ReadName
  <2>3. cur' \in ParsedEntries /\ cur'.blocks = cur.blocks
    BY <1>4, <2>2 DEF ParsedEntries
  <2> QED
    BY <1>3, <1>5, <2>3 DEF ReadName, Reads
<1>6. CASE ReadWindows \/ ReadPosix
  <2>1. Item.time \in Nat /\ Item.dir \in BOOLEAN
    BY <1>2, <1>6 DEF IsRecord, ReadWindows, ReadPosix, Reads
  <2>2. PICK t \in Nat \cup {NoTime}, d \in BOOLEAN : cur' = [cur EXCEPT !.time = t, !.dir = d]
    <3>1. (cur.dir \/ Item.dir) \in BOOLEAN /\ PosixTime \in Nat \cup {NoTime}
      BY <2>1, CurFacts DEF PosixTime
    <3> QED
      BY <1>4, <1>6, <2>1, <3>1 DEF ReadWindows, ReadPosix, ParsedEntries
  <2>3. cur' \in ParsedEntries /\ cur'.blocks = cur.blocks
    BY <1>4, <2>2 DEF ParsedEntries
  <2> QED
    BY <1>3, <1>6, <2>3 DEF ReadWindows, ReadPosix, Reads
<1> QED
  BY <1>5, <1>6

LEMMA TakePayloadType ==
  ASSUME Inv1, NEW n \in Nat, TakePayload(n), Sig = "ENCRYPT", Item.method \in Methods,
         pc = "sub", faulted' \in BOOLEAN
  PROVE  Inv1'
<1>1. file \in Files /\ pos \in Nat /\ cur \in ParsedEntries
  BY DEF Inv1, TypeOK
<1>2. Body \in Nat
  BY <1>1, ItemFacts
<1>3. PICK c \in [method : Methods \cup {"none"}, len : Nat] :
        cur' = [cur EXCEPT !.cipher = c]
  BY DEF TakePayload
<1>4. cur' \in ParsedEntries /\ cur'.blocks = cur.blocks
  BY <1>1, <1>3 DEF ParsedEntries
<1>5. pos' \in Nat /\ pos <= pos'
  BY <1>1, <1>2 DEF TakePayload
<1>6. \A b \in 1..Len(cur.blocks) : cur.blocks[b].data_pos \in 0..pos'
  BY <1>1, <1>5 DEF Inv1, TypeOK
<1>7. \A b \in 1..Len(cur'.blocks) : cur'.blocks[b].data_pos \in 0..pos'
  BY <1>4, <1>6
<1> QED
  BY <1>4, <1>5, <1>7 DEF TakePayload, Inv1, TypeOK

LEMMA AppendType ==
  ASSUME NEW T, NEW s \in Seq(T), NEW e \in T
  PROVE  Append(s, e) \in Seq(T)
OBVIOUS

LEMMA ReadBlockType ==
  ASSUME Inv1, ReadBlock
  PROVE  Inv1'
<1>1. file \in Files /\ pos \in Nat /\ cur \in ParsedEntries /\ Sig = "BLOCK"
  BY DEF Inv1, TypeOK, ReadBlock, Reads
<1>2. Item.csize \in Nat
  <2>1. IsRecord(Item) /\ Item.sig = "BLOCK"
    BY <1>1, ItemFacts
  <2> QED
    BY <2>1 DEF IsRecord
<1>3. PICK b \in [data_pos : Nat, csize : Nat] :
        b = [data_pos |-> pos + 22, csize |-> Item.csize]
  <2>1. pos + 22 \in Nat
    BY <1>1
  <2> QED
    BY <1>2, <2>1
<1>4. PICK s : s = cur.blocks
  OBVIOUS
<1>5. s \in Seq([data_pos : Nat, csize : Nat])
  BY <1>4, CurFacts
<1>6. cur' = [cur EXCEPT !.blocks = Append(s, b)]
  BY <1>1, <1>3, <1>4 DEF ReadBlock, ParsedEntries
<1>7. cur' \in ParsedEntries /\ cur'.blocks = Append(s, b)
  <2>1. PICK t \in Seq([data_pos : Nat, csize : Nat]) : t = Append(s, b)
    BY <1>3, <1>5, AppendType
  <2>2. cur' = [cur EXCEPT !.blocks = t]
    BY <1>6, <2>1
  <2>3. cur' \in ParsedEntries /\ cur'.blocks = t
    BY <1>1, <2>2 DEF ParsedEntries
  <2> QED
    BY <2>1, <2>3
<1>8. pos' = pos + 22 + Item.csize
  BY DEF ReadBlock
<1>9. \A i \in 1..Len(Append(s, b)) : Append(s, b)[i].data_pos \in 0..pos'
  <2>1. \A i \in 1..Len(s) : s[i].data_pos \in 0..pos
    BY <1>4 DEF Inv1, TypeOK
  <2>2. pos \in Nat /\ pos' \in Nat /\ pos <= pos' /\ pos + 22 <= pos'
    BY <1>1, <1>2, <1>8
  <2>3. b.data_pos \in 0..pos'
    BY <1>1, <1>3, <2>2
  <2>4. ASSUME NEW i \in 1..Len(Append(s, b)) PROVE Append(s, b)[i].data_pos \in 0..pos'
    <3>1. CASE i \in 1..Len(s)
      <4>1. Append(s, b)[i] = s[i]
        BY <1>5, <3>1
      <4>2. s[i].data_pos \in 0..pos
        BY <2>1, <3>1
      <4> QED
        BY <2>2, <4>1, <4>2
    <3>2. CASE i \notin 1..Len(s)
      <4>1. Append(s, b)[i] = b
        BY <1>5, <3>2
      <4> QED
        BY <2>3, <4>1
    <3> QED
      BY <3>1, <3>2
  <2> QED
    BY <2>4
<1>10. pos' \in Nat
  BY <1>1, <1>2, <1>8
<1> QED
  BY <1>7, <1>9, <1>10 DEF ReadBlock, Inv1, TypeOK, result

\* A name only ever becomes longer by another entry's name.
LEMMA ResolveType ==
  ASSUME Inv1, Resolve
  PROVE  Inv1'
<1>1. entries \in Seq(ParsedEntries) /\ Len(entries) \in Nat
  BY DEF Inv1, TypeOK
<1>2. ASSUME NEW i \in 1..Len(entries) PROVE WithPrefix(entries, i) \in ParsedEntries
  <2>1. entries[i] \in ParsedEntries
    BY <1>1
  <2>2. Prefix(entries, i) \in Seq(Components)
    <3> DEFINE S == Named(entries, entries[i].parent)
    <3>1. CASE S = {}
      BY <3>1 DEF Prefix
    <3>2. CASE S # {}
      <4>1. S \in SUBSET (0..Len(entries)) /\ S \subseteq 1..Len(entries)
        BY <1>1 DEF Named
      <4>2. Greatest(S) \in 1..Len(entries)
        BY <1>1, <3>2, <4>1, GreatestFacts
      <4>3. entries[Greatest(S)].name \in Seq(Components)
        <5>1. entries[Greatest(S)] \in ParsedEntries
          BY <1>1, <4>2
        <5> QED
          BY <5>1 DEF ParsedEntries
      <4> QED
        BY <4>3 DEF Prefix
    <3> QED
      BY <3>1, <3>2
  <2>3. PICK q \in Seq(Components) : q = Prefix(entries, i)
    BY <2>2
  <2>4. q \o entries[i].name \in Seq(Components)
    BY <2>1 DEF ParsedEntries
  <2>5. WithPrefix(entries, i) = [entries[i] EXCEPT !.name = q \o entries[i].name]
    BY <2>1, <2>3 DEF WithPrefix, ParsedEntries
  <2> QED
    BY <2>1, <2>4, <2>5 DEF ParsedEntries
<1>3. Resolved \in Seq(ParsedEntries)
  BY <1>1, <1>2 DEF Resolved
<1> QED
  BY <1>3 DEF Resolve, Inv1, TypeOK

LEMMA EndEntryType ==
  ASSUME Inv1, EndEntry
  PROVE  Inv1'
<1>1. entries \in Seq(ParsedEntries) /\ cur \in ParsedEntries
  BY DEF Inv1, TypeOK
<1>2. entries' \in Seq(ParsedEntries)
  BY <1>1, AppendType DEF EndEntry
<1> QED
  BY <1>2, ExpectedFacts DEF EndEntry, Inv1, TypeOK, Loops

\* The steps that only move on, and how far.
LEMMA PlainSteps ==
  ASSUME Inv1,
         \/ ReadHeader \/ EndPrefix \/ SkipRecord \/ StartEntry \/ VolumeEnd
         \/ ArchiveEnd \/ EndSub \/ Refuse
  PROVE  Inv1'
<1>1. file \in Files /\ pos \in Nat /\ cur \in ParsedEntries
  BY DEF Inv1, TypeOK
<1> USE <1>1 DEF Loops
<1>2. CASE ReadHeader
  BY <1>2, MovesOn DEF ReadHeader
<1>3. CASE EndPrefix
  BY <1>3, MovesOn DEF EndPrefix
<1>4. CASE SkipRecord
  <2>1. Sig \in {"SKIP", "GLOBAL", "COMMENT", "DUMMY"} /\ pc \in Loops
    BY <1>4 DEF SkipRecord, Reads
  <2>2. Body + Item.size \in Nat /\ pos' = pos + (Body + Item.size)
    BY <1>4, <2>1, ItemFacts DEF SkipRecord, After
  <2> QED
    BY <1>4, <2>1, <2>2, MovesOn DEF SkipRecord
<1>5. CASE StartEntry
  <2>1. IsRecord(Item) /\ Item.sig = "FILE"
    BY <1>5, ItemFacts DEF StartEntry, Reads
  <2>2. cur' \in ParsedEntries /\ cur'.blocks = << >>
    BY <1>5, <2>1, NewEntryType DEF StartEntry, IsRecord
  <2>3. \A b \in 1..Len(cur'.blocks) : cur'.blocks[b].data_pos \in 0..pos'
    BY <2>2
  <2> QED
    BY <1>5, <2>2, <2>3, ExpectedFacts DEF StartEntry, Inv1, TypeOK, result
<1>6. CASE VolumeEnd
  BY <1>6, MovesOn DEF VolumeEnd, Reads
<1>7. CASE ArchiveEnd
  BY <1>7, MovesOn DEF ArchiveEnd
<1>8. CASE EndSub
  BY <1>8, MovesOn DEF EndSub
<1>9. CASE Refuse
  <2>1. pos' = pos + 0
    BY <1>9 DEF Refuse
  <2> QED
    BY <1>9, <2>1, MovesOn DEF Refuse
<1> QED
  BY <1>2, <1>3, <1>4, <1>5, <1>6, <1>7, <1>8, <1>9

LEMMA PrefixType ==
  ASSUME Inv1, ReadSplit \/ ReadSolid
  PROVE  Inv1'
<1>1. file \in Files /\ pos \in Nat /\ Sig \in {"SPLIT", "SOLID"} /\ pc = "prefix"
  BY DEF Inv1, TypeOK, ReadSplit, ReadSolid, Reads
<1>2. IsRecord(Item) /\ Item.sig = Sig /\ Body \in Nat /\ Item.size \in Nat
  BY <1>1, ItemFacts
<1>3. Larger(Item.size, 8) \in Nat
  BY <1>2 DEF Larger
<1>4. pos' \in Nat /\ pos <= pos'
  BY <1>1, <1>2, <1>3 DEF ReadSplit, ReadSolid, AfterSplit, After
<1>5. split' \in [prev : Nat, next : Nat]
  <2>1. CASE ReadSplit
    <3>1. Item.prev \in Nat /\ Item.next \in Nat
      BY <1>2, <2>1 DEF IsRecord, ReadSplit, Reads
    <3> QED
      BY <2>1, <3>1 DEF ReadSplit
  <2>2. CASE ReadSolid
    BY <2>2 DEF ReadSolid, Inv1, TypeOK
  <2> QED
    BY <2>1, <2>2
<1>6. \A b \in 1..Len(cur.blocks) : cur.blocks[b].data_pos \in 0..pos'
  BY <1>1, <1>4 DEF Inv1, TypeOK
<1>7. UNCHANGED <<file, pc, faulted, cur, entries, is_encrypted>> /\ is_solid' \in BOOLEAN
  BY DEF ReadSplit, ReadSolid, Inv1, TypeOK
<1> QED
  BY <1>4, <1>5, <1>6, <1>7 DEF Inv1, TypeOK

LEMMA FaultType ==
  ASSUME Inv1, Faults
  PROVE  Inv1'
<1>1. file \in Files /\ pos \in Nat
  BY DEF Inv1, TypeOK
<1>2. CASE ReadFails
  BY <1>2 DEF ReadFails, Inv1, TypeOK, result
<1>3. CASE PeekFails
  <2>1. pos' \in Nat /\ pos <= pos'
    BY <1>1, <1>3 DEF PeekFails
  <2>2. \A b \in 1..Len(cur.blocks) : cur.blocks[b].data_pos \in 0..pos'
    BY <1>1, <2>1 DEF Inv1, TypeOK
  <2> QED
    BY <1>3, <2>1, <2>2 DEF PeekFails, Inv1, TypeOK, result
<1>4. CASE ProbeFails
  <2>1. pc = "sub" /\ Sig = "ENCRYPT" /\ Item.size > 0 /\ Item.method # "Unknown"
        /\ faulted' = TRUE
    BY <1>4 DEF ProbeFails
  <2>2. IsRecord(Item) /\ Item.sig = "ENCRYPT" /\ Item.size \in Nat
    BY <1>1, <2>1, ItemFacts
  <2>3. Item.method \in {"Zip", "Aes128", "Aes256"}
    BY <2>1, <2>2 DEF IsRecord, Methods
  <2>4. Declared \in Nat /\ Fits \subseteq Nat
    BY <2>1, <2>2, <2>3 DEF Declared, Fits, Lengths
  <2>5. PICK n \in Nat : TakePayload(n)
    BY <1>4, <2>4 DEF ProbeFails
  <2> QED
    BY <2>1, <2>3, <2>5, TakePayloadType DEF Methods
<1> QED
  BY <1>2, <1>3, <1>4 DEF Faults

LEMMA Inv1Next ==
  ASSUME Inv1, [Next \/ Done]_vars
  PROVE  Inv1'
<1>1. CASE ReadName \/ ReadWindows \/ ReadPosix
  BY <1>1, SubHeaderType, MovesOn DEF Loops
<1>2. CASE ReadEncrypt
  <2>1. pc = "sub" /\ Sig = "ENCRYPT" /\ Complete /\ TakePayload(Payload) /\ UNCHANGED faulted
    BY <1>2 DEF ReadEncrypt, Reads
  <2>2. file \in Files /\ pos \in Nat /\ faulted \in BOOLEAN
    BY DEF Inv1, TypeOK
  <2>3. Payload \in Nat /\ Item.method \in {"Zip", "Aes128", "Aes256"}
    BY <2>1, <2>2, PayloadFacts
  <2> QED
    BY <2>1, <2>2, <2>3, TakePayloadType DEF Methods
<1>3. CASE UNCHANGED vars
  BY <1>3 DEF vars, result, Inv1, TypeOK
<1>4. CASE \/ ReadHeader \/ EndPrefix \/ SkipRecord \/ StartEntry \/ VolumeEnd
           \/ ArchiveEnd \/ EndSub \/ Refuse
  BY <1>4, PlainSteps
<1>5. CASE ReadSplit \/ ReadSolid
  BY <1>5, PrefixType
<1>6. CASE ReadBlock
  BY <1>6, ReadBlockType
<1>7. CASE EndEntry
  BY <1>7, EndEntryType
<1>8. CASE Resolve
  BY <1>8, ResolveType
<1>9. CASE Faults
  BY <1>9, FaultType
<1> QED
  BY <1>1, <1>2, <1>3, <1>4, <1>5, <1>6, <1>7, <1>8, <1>9 DEF Next, Proceeds, Done

-----------------------------------------------------------------------------
(* Where the parser is                                                       *)

\* The record the reader stands in front of is the one the parser sees, unless
\* the file ends; another record is behind it, unless it ends a volume.
LEMMA AtFacts ==
  ASSUME Inv1, Sane(file), NEW k \in Nat, AtRecord(k)
  PROVE  /\ k \in 1..Len(file.items) /\ Len(file.items) \in Nat
         /\ pos \in Nat /\ file.len \in Nat /\ file.items[k].pos = pos
         /\ RecordsAt(pos) = {k} /\ Item = file.items[k]
         /\ IsRecord(Item) /\ InLoop(Item) /\ LongEnough(Item)
         /\ Item.loop = pc \/ (pc = "blocks" /\ Item.loop = "entries")
         /\ Sig = IF pos + 4 > file.len THEN "eof" ELSE Item.sig
         /\ k = Len(file.items) => EndsVolume(Item)
         /\ k < Len(file.items) => Linked(file, k)
<1>1. /\ k \in 1..Len(file.items) /\ file.items[k].pos = pos
      /\ file.items[k].loop = pc \/ (pc = "blocks" /\ file.items[k].loop = "entries")
  BY DEF AtRecord
<1>2. file \in Files /\ pos \in Nat
  BY DEF Inv1, TypeOK
<1>3. RecordsAt(pos) = {k}
  <2>1. ASSUME NEW j \in 1..Len(file.items), file.items[j].pos = pos PROVE j = k
    <3>1. ~(j < k) /\ ~(k < j)
      BY <1>1, <1>2, <2>1, FileFacts
    <3> QED
      BY <1>1, <1>2, <3>1, FileFacts
  <2> QED
    BY <1>1, <2>1 DEF RecordsAt
<1>4. Item = file.items[k]
  BY <1>3 DEF Item
<1>5. Sig = IF pos + 4 > file.len THEN "eof" ELSE Item.sig
  BY <1>3 DEF Sig, SigAt, Item
<1>6. IsRecord(Item)
  BY <1>1, <1>2, <1>4, FileFacts
<1>7. InLoop(Item) /\ LongEnough(Item) /\ (k = Len(file.items) => EndsVolume(Item))
  BY <1>1, <1>4 DEF Sane
<1>8. k < Len(file.items) => Linked(file, k)
  BY <1>1, <1>2, FileFacts DEF Sane
<1> QED
  BY <1>1, <1>2, <1>3, <1>4, <1>5, <1>6, <1>7, <1>8, FileFacts

LEMMA ExtentType ==
  ASSUME NEW r, IsRecord(r), LongEnough(r)
  PROVE  Extent(r) \in Nat
<1>1. BodyOf(r) \in Nat /\ r.size \in Nat /\ Larger(r.size, 8) \in Nat
  BY DEF IsRecord, BodyOf, Larger
<1>2. r.sig = "ENCRYPT" => r.true \in Nat
  BY DEF IsRecord, LongEnough, Methods, Lengths
<1> QED
  BY <1>1, <1>2 DEF Extent

\* The parser has read the records from k on and stands in front of record n.
OnFrom(k, n) ==
  AtRecord(k) /\ Item.sig = Sig /\ n \in 1..Len(file.items) /\ AtRecord(n)'

\* From one record to the next.
LEMMA Advance ==
  ASSUME Inv1, Sane(file), NEW k \in Nat, AtRecord(k), k < Len(file.items),
         pc \in Loops, file' = file, pos' = pos + Extent(Item),
         \A l \in LoopsBehind(Item) : l = pc' \/ (pc' = "blocks" /\ l = "entries")
  PROVE  k + 1 \in 1..Len(file.items) /\ AtRecord(k + 1)'
<1>1. /\ k \in 1..Len(file.items) /\ Len(file.items) \in Nat /\ Item = file.items[k]
      /\ Linked(file, k) /\ Item.loop # "data" /\ file.items[k].pos = pos /\ pos \in Nat
  BY AtFacts DEF Loops
<1>2. Extent(Item) \in Nat
  BY AtFacts, ExtentType
<1>3. /\ file.items[k + 1].pos = pos + Extent(Item) + 0
      /\ file.items[k + 1].loop \in LoopsBehind(Item)
  BY <1>1 DEF Linked
<1>4. k + 1 \in 1..Len(file.items)
  BY <1>1
<1>5. file.items[k + 1].pos = pos'
  BY <1>1, <1>2, <1>3
<1>6. AtRecord(k + 1)'
  BY <1>3, <1>4, <1>5 DEF AtRecord
<1> QED
  BY <1>4, <1>6

\* A parser that sees a signature is where it should be.
LEMMA AtSeen ==
  ASSUME Inv2, ~faulted, Sane(file), pc \in Loops, Sig \notin {"eof", "other"}
  PROVE  \E k \in 1..Len(file.items) :
           /\ k \in Nat /\ AtRecord(k) /\ Item.sig = Sig /\ pos + 4 <= file.len
           /\ k < Len(file.items) \/ EndsVolume(Item)
<1>1. ~Lost
  <2>1. RecordsAt(pos) = {} => Sig \in {"eof", "other"}
    BY DEF Sig, SigAt
  <2> QED
    BY <2>1 DEF Lost
<1>2. PICK k \in 1..Len(file.items) : AtRecord(k)
  BY <1>1 DEF Inv2, InPlace
<1>3. k \in Nat /\ Len(file.items) \in Nat
  BY <1>2, FileFacts DEF Inv2, Inv1
<1>4. /\ Sig = IF pos + 4 > file.len THEN "eof" ELSE Item.sig
      /\ k = Len(file.items) => EndsVolume(Item)
      /\ pos \in Nat /\ file.len \in Nat
  BY <1>2, <1>3, AtFacts DEF Inv2
<1> QED
  BY <1>2, <1>3, <1>4

\* The steps that go from one record to the next one.
LEMMA OneRecordOn ==
  ASSUME Inv2, ~faulted, Sane(file),
         \/ ReadHeader \/ ReadSplit \/ ReadSolid \/ EndPrefix \/ SkipRecord
         \/ StartEntry \/ ReadName \/ ReadWindows \/ ReadPosix \/ EndSub
  PROVE  pc' \in Loops /\ \E k \in Nat : OnFrom(k, k + 1)
<1>1. file' = file /\ pc \in Loops /\ pc' \in Loops /\ Sig \notin {"eof", "other"}
  BY DEF ReadHeader, ReadSplit, ReadSolid, EndPrefix, SkipRecord, StartEntry, ReadName,
         ReadWindows, ReadPosix, EndSub, Reads, Loops
<1>2. PICK k \in Nat : /\ AtRecord(k) /\ Item.sig = Sig
                       /\ k < Len(file.items) \/ EndsVolume(Item)
  BY <1>1, AtSeen
<1>3. /\ Item.loop = pc \/ (pc = "blocks" /\ Item.loop = "entries")
      /\ pos \in Nat /\ IsRecord(Item)
  BY <1>2, AtFacts DEF Inv2
<1>4. Body \in Nat /\ Item.size \in Nat /\ Body = BodyOf(Item)
  BY <1>1, <1>3, ItemFacts DEF Inv2, Inv1, Body
<1> DEFINE To(l) == l = pc' \/ (pc' = "blocks" /\ l = "entries")
<1>5. /\ pos' = pos + Extent(Item) /\ ~EndsVolume(Item)
      /\ \A l \in LoopsBehind(Item) : To(l)
  <2>1. CASE ReadHeader
    BY <1>2, <1>3, <2>1 DEF ReadHeader, Reads, Extent, EndsVolume, LoopsBehind
  <2>2. CASE ReadSplit
    BY <1>2, <1>3, <1>4, <2>2
    DEF ReadSplit, Reads, Extent, EndsVolume, LoopsBehind, AfterSplit, Larger
  <2>3. CASE ReadSolid \/ SkipRecord \/ ReadName \/ ReadWindows \/ ReadPosix
    <3>1. /\ Sig \in {"SOLID", "SKIP", "GLOBAL", "COMMENT", "DUMMY", "NAME", "WINDOWS", "POSIX"}
          /\ pos' = After /\ pc' = pc /\ pc # "blocks"
      BY <2>3 DEF ReadSolid, SkipRecord, ReadName, ReadWindows, ReadPosix, Reads
    <3>2. Extent(Item) = Body + Item.size /\ ~EndsVolume(Item) /\ LoopsBehind(Item) = {pc}
      BY <1>2, <1>3, <1>4, <3>1 DEF Extent, EndsVolume, LoopsBehind
    <3> QED
      BY <1>3, <1>4, <3>1, <3>2 DEF After
  <2>4. CASE EndPrefix
    BY <1>2, <1>3, <2>4 DEF EndPrefix, Reads, Extent, EndsVolume, LoopsBehind
  <2>5. CASE StartEntry
    BY <1>2, <1>3, <2>5 DEF StartEntry, Reads, Extent, EndsVolume, LoopsBehind
  <2>6. CASE EndSub
    BY <1>2, <1>3, <2>6 DEF EndSub, Reads, Extent, EndsVolume, LoopsBehind
  <2> QED
    BY <2>1, <2>2, <2>3, <2>4, <2>5, <2>6
<1>6. k < Len(file.items)
  BY <1>2, <1>5
<1>7. k + 1 \in 1..Len(file.items) /\ AtRecord(k + 1)'
  BY <1>1, <1>2, <1>5, <1>6, Advance DEF Inv2
<1> QED
  BY <1>1, <1>2, <1>7 DEF OnFrom

\* Behind the end marker of a volume.
LEMMA EndsInPlace ==
  ASSUME Inv2, ~faulted, Sane(file), pc = "entries", Sig = "END", pos' = pos + 4, file' = file
  PROVE  /\ MoreFollows /\ pc' = "entries" => \E k \in Nat : OnFrom(k, k + 1)
         /\ ~MoreFollows => \E k \in 1..Len(file.items) : AtRecord(k) /\ EndsAt(k)
<1>1. PICK k \in 1..Len(file.items) : k \in Nat /\ AtRecord(k) /\ Item.sig = "END"
                                      /\ pos + 4 <= file.len
  BY AtSeen DEF Loops
<1>2. /\ Item.loop = "entries" /\ pos \in Nat /\ file.items[k].pos = pos
      /\ Item = file.items[k] /\ Len(file.items) \in Nat /\ file.len \in Nat
      /\ k < Len(file.items) => Linked(file, k)
  BY <1>1, AtFacts DEF Inv2
<1>3. EndsVolume(Item) /\ Extent(Item) = 4 /\ LoopsBehind(Item) = {"entries"}
  BY <1>1, <1>2 DEF EndsVolume, Extent, LoopsBehind
<1>4. ASSUME MoreFollows, pc' = "entries" PROVE \E n \in Nat : OnFrom(n, n + 1)
  <2>1. PICK j \in 1..Len(file.items) : file.items[j].pos = pos + 4
    BY <1>2, <1>4, SeenAt DEF MoreFollows, Inv2, Inv1
  <2>2. ~(j < k) /\ j # k
    BY <1>2, <2>1, FileFacts DEF Inv2, Inv1
  <2>3. k < Len(file.items)
    BY <1>2, <2>1, <2>2
  <2>4. k + 1 \in 1..Len(file.items) /\ AtRecord(k + 1)'
    BY <1>1, <1>3, <1>4, <2>3, Advance DEF Inv2, Loops
  <2> QED
    BY <1>1, <2>4 DEF OnFrom
<1>5. ASSUME ~MoreFollows PROVE AtRecord(k) /\ EndsAt(k)
  <2>1. ASSUME NEW j \in k + 1..Len(file.items) PROVE file.items[j].pos + 4 > file.len
    <3>1. k + 1 \in 1..Len(file.items) /\ k < Len(file.items) /\ j \in 1..Len(file.items)
      BY <1>2
    <3> DEFINE s == file.items[k + 1]
    <3>2. s.pos = pos + 4 /\ s.loop = "entries" /\ s.sig # "END"
      BY <1>2, <1>3, <3>1 DEF Linked
    <3>3. s.sig \in {"FILE", "COMMENT", "DUMMY"}
      BY <3>1, <3>2, ExpectedFacts DEF Sane, InLoop
    <3>4. RecordsAt(pos + 4) = {k + 1}
      <4>1. ASSUME NEW i \in 1..Len(file.items), file.items[i].pos = pos + 4
            PROVE  i = k + 1
        <5>1. ~(i < k + 1) /\ ~(k + 1 < i)
          BY <3>1, <3>2, <4>1, FileFacts DEF Inv2, Inv1
        <5> QED
          BY <1>2, <5>1
      <4> QED
        BY <3>1, <3>2, <4>1 DEF RecordsAt
    <3>5. pos + 4 + 4 > file.len
      BY <1>5, <3>3, <3>4 DEF MoreFollows, SigAt
    <3>6. s.pos <= file.items[j].pos
      <4>1. j = k + 1 \/ k + 1 < j
        BY <1>2
      <4> QED
        BY <1>2, <3>1, <3>2, <4>1, FileFacts DEF Inv2, Inv1
    <3>7. file.items[j].pos \in Nat
      BY <3>1, FileFacts DEF Inv2, Inv1
    <3>8. ASSUME NEW p \in Nat, pos + 4 <= p PROVE p + 4 > file.len
      BY <1>2, <3>5, <3>8
    <3> QED
      BY <3>2, <3>6, <3>7, <3>8
  <2> QED
    BY <1>1, <1>2, <1>3, <2>1 DEF EndsAt
<1> QED
  BY <1>1, <1>4, <1>5

\* A block's data lie behind its own end marker; the record behind the data is
\* another block, or the entry is over.
LEMMA BlockInPlace ==
  ASSUME Inv2, ~faulted, Sane(file), ReadBlock
  PROVE  \E k \in Nat : OnFrom(k, k + 2) /\ file.items[k + 1].sig = "END"
<1>1. pc = "blocks" /\ Sig = "BLOCK" /\ pos' = pos + 22 + Item.csize /\ UNCHANGED <<file, pc>>
  BY DEF ReadBlock, Reads
<1>2. PICK k \in 1..Len(file.items) : k \in Nat /\ AtRecord(k) /\ Item.sig = "BLOCK"
                                      /\ (k < Len(file.items) \/ EndsVolume(Item))
  BY <1>1, AtSeen DEF Loops
<1>3. /\ pos \in Nat /\ file.items[k].pos = pos /\ IsRecord(Item)
      /\ Item = file.items[k] /\ Len(file.items) \in Nat
      /\ k < Len(file.items) => Linked(file, k)
  BY <1>2, AtFacts DEF Inv2
<1>4. k < Len(file.items) /\ Item.csize \in Nat
  BY <1>2, <1>3 DEF EndsVolume, IsRecord
<1>5. Item.loop # "data" /\ Extent(Item) = 18 /\ LoopsBehind(Item) = {"data"}
  BY <1>2, AtFacts, <1>1 DEF Inv2, Extent, LoopsBehind
<1> DEFINE s == file.items[k + 1]
<1>6. k + 1 \in 1..Len(file.items) /\ s.pos = pos + 18 /\ s.loop = "data"
  BY <1>3, <1>4, <1>5 DEF Linked
<1>7. s.sig = "END"
  BY <1>6, ExpectedFacts DEF Sane, InLoop, Loops
<1>8. k + 1 # Len(file.items)
  BY <1>6 DEF Sane, EndsVolume
<1>9. k + 1 \in 1..Len(file.items) - 1 /\ k + 2 \in 1..Len(file.items)
  BY <1>3, <1>4, <1>8
<1>10. Linked(file, k + 1)
  BY <1>9 DEF Sane
<1>11. Extent(s) = 4 /\ LoopsBehind(s) = {"blocks", "entries"}
  BY <1>6, <1>7 DEF Extent, LoopsBehind
<1>12. k + 1 + 1 = k + 2 /\ k + 1 - 1 = k
  BY <1>3
<1>13. /\ file.items[k + 2].pos = pos + 18 + 4 + Item.csize
       /\ file.items[k + 2].loop \in {"blocks", "entries"}
  BY <1>3, <1>6, <1>10, <1>11, <1>12 DEF Linked
<1>14. file.items[k + 2].pos = pos'
  BY <1>1, <1>3, <1>4, <1>13
<1>15. AtRecord(k + 2)'
  BY <1>1, <1>9, <1>13, <1>14 DEF AtRecord
<1> QED
  BY <1>1, <1>2, <1>7, <1>9, <1>15 DEF OnFrom

\* The true length of a payload leads to the end marker of the sub-headers, and
\* no other length of the method leads to one.
LEMMA TrueLength ==
  ASSUME Inv1, Sane(file), NEW k \in Nat, AtRecord(k), pc = "sub", Item.sig = "ENCRYPT"
  PROVE  /\ k + 1 \in 1..Len(file.items) /\ file.items[k + 1].sig = "END"
         /\ file.items[k + 1].loop = "sub"
         /\ file.items[k + 1].pos = pos + Body + 1 + Item.true
         /\ Body \in Nat /\ Item.true \in Nat /\ Item.true \in Lengths[Item.method]
         /\ Fits \subseteq {Item.true}
         /\ Item.true \in Fits <=> file.items[k + 1].pos + 4 <= file.len
<1>1. /\ k \in 1..Len(file.items) /\ Len(file.items) \in Nat /\ pos \in Nat
      /\ file.len \in Nat /\ file.items[k].pos = pos /\ Item = file.items[k]
      /\ IsRecord(Item) /\ LongEnough(Item) /\ Item.loop = "sub"
      /\ k = Len(file.items) => EndsVolume(Item)
      /\ k < Len(file.items) => Linked(file, k)
  BY AtFacts
<1>2. k < Len(file.items) /\ Linked(file, k)
  BY <1>1 DEF EndsVolume
<1>3. Body = BodyOf(Item) /\ Body \in Nat
  BY <1>1 DEF Body, BodyOf, IsRecord
<1>4. Item.true \in Lengths[Item.method] /\ Item.method \in {"Zip", "Aes128", "Aes256"}
  BY <1>1 DEF LongEnough, IsRecord, Methods
<1>5. Lengths[Item.method] \subseteq Nat
  BY <1>4 DEF Lengths
<1>6. Extent(Item) = Body + 1 + Item.true /\ LoopsBehind(Item) = {"sub"}
  BY <1>1, <1>3 DEF Extent, LoopsBehind
<1>7. k + 1 \in 1..Len(file.items)
  BY <1>1, <1>2
<1> DEFINE s == file.items[k + 1]
<1>8. s.loop = "sub" /\ s.pos = pos + (Body + 1 + Item.true) + 0
  BY <1>1, <1>2, <1>6 DEF Linked
<1>9. s.pos = pos + Body + 1 + Item.true
  <2>1. PICK t \in Nat : t = Item.true
    BY <1>4, <1>5
  <2>2. pos + (Body + 1 + t) + 0 = pos + Body + 1 + t
    BY <1>1, <1>3
  <2> QED
    BY <1>8, <2>1, <2>2
<1>10. Unambiguous(file, k)
  BY <1>1, <1>2 DEF Linked
<1>11. s.sig = "END"
  BY <1>10 DEF Unambiguous
<1>12. ASSUME NEW n \in Fits PROVE n = Item.true
  <2>1. n \in Lengths[Item.method] /\ SigAt(pos + Body + 1 + n) = "END"
    BY DEF Fits, LandsOnEnd
  <2>2. PICK j \in 1..Len(file.items) :
          file.items[j].pos = pos + Body + 1 + n /\ file.items[j].sig = "END"
    <3>1. n \in Nat
      BY <1>5, <2>1
    <3>2. pos + Body + 1 + n \in Nat
      BY <1>1, <1>3, <3>1
    <3> QED
      BY <2>1, <3>2, SeenAt DEF Inv1
  <2>3. file.items[j].pos = file.items[k].pos + BodyOf(file.items[k]) + 1 + n
    BY <1>1, <1>3, <2>2
  <2> QED
    BY <1>1, <1>10, <2>1, <2>2, <2>3 DEF Unambiguous
<1>13. RecordsAt(s.pos) = {k + 1}
  <2>1. ASSUME NEW i \in 1..Len(file.items), file.items[i].pos = s.pos PROVE i = k + 1
    <3>1. ~(i < k + 1) /\ ~(k + 1 < i)
      BY <1>7, <2>1, FileFacts DEF Inv1
    <3> QED
      BY <1>1, <3>1
  <2> QED
    BY <1>7, <2>1 DEF RecordsAt
<1>14. SigAt(s.pos) = "END" <=> ~(s.pos + 4 > file.len)
  BY <1>11, <1>13 DEF SigAt
<1>15. Item.true \in Fits <=> s.pos + 4 <= file.len
  <2>1. Item.true \in Fits <=> SigAt(s.pos) = "END"
    BY <1>4, <1>9 DEF Fits, LandsOnEnd
  <2>2. s.pos \in Nat
    BY <1>7, FileFacts DEF Inv1
  <2>3. file.len \in Nat
    BY <1>1
  <2>4. s.pos + 4 <= file.len <=> ~(s.pos + 4 > file.len)
    BY <2>2, <2>3
  <2> QED
    BY <1>14, <2>1, <2>4
<1> QED
  BY <1>3, <1>4, <1>5, <1>7, <1>8, <1>9, <1>11, <1>12, <1>15

\* The last record is not in front of any other.
LEMMA LastIsLast ==
  ASSUME file \in Files, NEW k \in 1..Len(file.items), IsWhole(file)
  PROVE  file.items[k].pos + 4 <= file.len
<1>1. Len(file.items) \in Nat /\ file.len \in Nat /\ Len(file.items) \in 1..Len(file.items)
  BY FileFacts
<1>2. file.items[k].pos <= file.items[Len(file.items)].pos
  <2>1. k = Len(file.items) \/ k < Len(file.items)
    BY <1>1
  <2> QED
    BY <1>1, <2>1, FileFacts
<1>3. file.items[k].pos \in Nat /\ file.items[Len(file.items)].pos \in Nat
  BY <1>1, FileFacts
<1>4. file.items[Len(file.items)].pos + 4 <= file.len
  BY <1>1, <1>3 DEF IsWhole
<1>5. ASSUME NEW p \in Nat, NEW q \in Nat, p <= q, q + 4 <= file.len
      PROVE  p + 4 <= file.len
  BY <1>1, <1>5
<1> QED
  BY <1>2, <1>3, <1>4, <1>5

\* Only in a file that was cut does an encryption header lead astray.
LEMMA EncryptInPlace ==
  ASSUME Inv2, ~faulted, Sane(file), ReadEncrypt
  PROVE  \/ \E k \in Nat : OnFrom(k, k + 1) /\ Payload = Item.true
         \/ Lost'
<1>1. /\ pc = "sub" /\ Sig = "ENCRYPT" /\ Complete /\ UNCHANGED <<file, pc>>
      /\ pos' = pos + Body + 1 + Payload /\ file \in Files /\ pos \in Nat
  BY DEF ReadEncrypt, Reads, TakePayload, Inv2, Inv1, TypeOK
<1>2. PICK k \in 1..Len(file.items) : k \in Nat /\ AtRecord(k) /\ Item.sig = "ENCRYPT"
  BY <1>1, AtSeen DEF Loops
<1> DEFINE s == file.items[k + 1]
<1>3. /\ k + 1 \in 1..Len(file.items) /\ s.sig = "END" /\ s.loop = "sub"
      /\ s.pos = pos + Body + 1 + Item.true /\ Body \in Nat /\ Item.true \in Nat
      /\ Fits \subseteq {Item.true} /\ (Item.true \in Fits <=> s.pos + 4 <= file.len)
  BY <1>1, <1>2, TrueLength DEF Inv2
<1>4. /\ Payload \in Nat /\ Declared \in Nat /\ Payload \in Fits \cup {Declared}
      /\ Fits # {} => Payload \in Fits
      /\ pos + (Body + 1 + Payload) <= file.len
  BY <1>1, PayloadFacts DEF Has
<1>5. CASE Payload = Item.true
  <2>1. AtRecord(k + 1)'
    BY <1>1, <1>3, <1>5 DEF AtRecord
  <2> QED
    BY <1>1, <1>2, <1>3, <1>5, <2>1 DEF OnFrom
<1>6. CASE Payload # Item.true
  <2>1. ~(s.pos + 4 <= file.len)
    BY <1>3, <1>4, <1>6
  <2>2. ~IsWhole(file)
    BY <1>1, <1>3, <2>1, LastIsLast
  <2>3. file.len \in Nat /\ Len(file.items) \in Nat /\ s.pos \in Nat
    BY <1>1, <1>3, FileFacts
  <2>4. pos < pos' /\ pos' < s.pos + 4 /\ pos' # s.pos /\ pos' \in Nat
    <3> DEFINE at(n) == pos + Body + 1 + n
    <3>1. ASSUME NEW t \in Nat, NEW p \in Nat, p # t, pos + (Body + 1 + p) <= file.len,
                 ~(at(t) + 4 <= file.len)
          PROVE  pos < at(p) /\ at(p) < at(t) + 4 /\ at(p) # at(t) /\ at(p) \in Nat
      <4>1. pos \in Nat /\ Body \in Nat /\ file.len \in Nat
        BY <1>1, <1>3, <2>3
      <4> QED
        BY <3>1, <4>1
    <3>2. pos' = at(Payload) /\ s.pos = at(Item.true)
      BY <1>1, <1>3
    <3> QED
      BY <1>3, <1>4, <1>6, <2>1, <3>1, <3>2
  <2>5. ASSUME NEW j \in 1..Len(file.items) PROVE file.items[j].pos # pos'
    <3>1. file.items[k].pos = pos
      BY <1>2 DEF AtRecord
    <3>2. CASE j < k + 1
      <4>1. j = k \/ j < k
        BY <1>2, <3>2
      <4>2. file.items[j].pos <= pos
        <5>1. j < k => file.items[j].pos < file.items[k].pos
          BY <1>1, <1>2, FileFacts
        <5>2. file.items[j].pos \in Nat
          BY <1>1, FileFacts
        <5> QED
          BY <1>1, <3>1, <4>1, <5>1, <5>2
      <4>3. ASSUME NEW p \in Nat, p <= pos PROVE p # pos'
        BY <1>1, <2>4, <4>3
      <4>4. file.items[j].pos \in Nat
        BY <1>1, FileFacts
      <4> QED
        BY <4>2, <4>3, <4>4
    <3>3. CASE j = k + 1
      BY <2>4, <3>3
    <3>4. CASE k + 1 < j
      <4>1. k + 1 \in 1..Len(file.items) - 1 /\ k + 2 \in 1..Len(file.items)
            /\ (j = k + 2 \/ k + 2 < j) /\ k + 1 + 1 = k + 2
        BY <1>2, <2>3, <3>4
      <4>2. Linked(file, k + 1)
        BY <4>1 DEF Sane
      <4>3. Extent(s) = 4
        BY <1>3 DEF Extent
      <4>4. file.items[k + 2].pos = s.pos + 4 + 0
        BY <1>3, <4>1, <4>2, <4>3 DEF Linked
      <4>5. file.items[k + 2].pos <= file.items[j].pos /\ file.items[j].pos \in Nat
        <5>1. k + 2 < j => file.items[k + 2].pos < file.items[j].pos
          BY <1>1, <4>1, FileFacts
        <5>2. file.items[k + 2].pos \in Nat /\ file.items[j].pos \in Nat
          BY <1>1, <4>1, FileFacts
        <5> QED
          BY <4>1, <5>1, <5>2
      <4>6. ASSUME NEW p \in Nat, s.pos + 4 + 0 <= p PROVE p # pos'
        BY <2>3, <2>4, <4>6
      <4> QED
        BY <4>4, <4>5, <4>6
    <3>5. j < k + 1 \/ j = k + 1 \/ k + 1 < j
      BY <1>2, <2>3
    <3> QED
      BY <3>2, <3>3, <3>4, <3>5
  <2>6. RecordsAt(pos') = {}
    BY <2>5 DEF RecordsAt
  <2> QED
    BY <1>1, <2>2, <2>6 DEF Lost, RecordsAt
<1> QED
  BY <1>5, <1>6

\* In a whole file a record that stands in front of the reader can be read.
LEMMA WholeIsComplete ==
  ASSUME Inv1, Sane(file), IsWhole(file), NEW k \in Nat, AtRecord(k), pc \in Loops
  PROVE  Sig = Item.sig /\ Complete
<1>1. /\ k \in 1..Len(file.items) /\ Len(file.items) \in Nat
      /\ pos \in Nat /\ file.len \in Nat /\ file.items[k].pos = pos
      /\ RecordsAt(pos) = {k} /\ Item = file.items[k]
      /\ IsRecord(Item) /\ InLoop(Item) /\ LongEnough(Item)
      /\ Item.loop = pc \/ (pc = "blocks" /\ Item.loop = "entries")
      /\ Sig = IF pos + 4 > file.len THEN "eof" ELSE Item.sig
      /\ k = Len(file.items) => EndsVolume(Item)
      /\ k < Len(file.items) => Linked(file, k)
  BY AtFacts
<1>2. file \in Files
  BY DEF Inv1
<1>3. Sig = Item.sig
  BY <1>1, <1>2, LastIsLast
<1>4. Body \in Nat /\ Item.size \in Nat /\ Body = BodyOf(Item)
  BY <1>1 DEF Body, BodyOf, IsRecord
<1>5. CASE Item.sig = "END"
  BY <1>3, <1>5 DEF Complete
<1>6. CASE Item.sig # "END"
  <2> DEFINE s == file.items[k + 1]
  <2>1. k < Len(file.items) /\ k + 1 \in 1..Len(file.items)
    BY <1>1, <1>6 DEF EndsVolume
  <2>2. Extent(Item) \in Nat /\ Item.loop # "data"
    BY <1>1, ExtentType DEF Loops
  <2>3. s.pos = pos + Extent(Item) + 0 /\ s.loop \in LoopsBehind(Item)
    BY <1>1, <2>1, <2>2 DEF Linked
  <2>4. s.pos = pos + Extent(Item) /\ s.pos + 4 <= file.len
    <3>1. s.pos + 4 <= file.len
      BY <1>2, <2>1, LastIsLast
    <3>2. \A n \in Nat : pos + n + 0 = pos + n
      BY <1>1
    <3> QED
      BY <2>2, <2>3, <3>1, <3>2
  <2>5. \A n \in Nat : n <= Extent(Item) => Has(n)
    <3>1. PICK x \in Nat : x = Extent(Item) /\ pos + x + 4 <= file.len
      BY <2>2, <2>4
    <3>2. ASSUME NEW n \in Nat, n <= x PROVE pos + n <= file.len
      BY <1>1, <3>1, <3>2
    <3> QED
      BY <3>1, <3>2 DEF Has
  <2>6. CASE Sig \in {"SOLID", "SKIP", "GLOBAL", "COMMENT", "DUMMY"}
    <3>1. Body <= Extent(Item)
      BY <1>3, <1>4, <2>6 DEF Extent
    <3> QED
      <4>1. Has(Body)
        BY <1>4, <2>5, <3>1
      <4> QED
        BY <1>3, <2>6, <4>1 DEF Complete
  <2>7. CASE Sig = "EGG"
    <3>1. Extent(Item) = 14
      BY <1>3, <2>7 DEF Extent
    <3> QED
      <4>1. Has(14)
        BY <2>5, <3>1
      <4> QED
        BY <1>3, <2>7, <4>1 DEF Complete
  <2>8. CASE Sig = "SPLIT"
    <3>1. Body + 8 <= Extent(Item)
      BY <1>3, <1>4, <2>8 DEF Extent, Larger
    <3> QED
      <4>1. Has(Body + 8)
        BY <1>4, <2>5, <3>1
      <4> QED
        BY <1>3, <2>8, <4>1 DEF Complete
  <2>9. CASE Sig = "FILE"
    <3>1. Extent(Item) = 16
      BY <1>3, <2>9 DEF Extent
    <3> QED
      <4>1. Has(16)
        BY <2>5, <3>1
      <4> QED
        BY <1>3, <2>9, <4>1 DEF Complete
  <2>10. CASE Sig \in {"NAME", "WINDOWS", "POSIX"}
    <3>1. Body + Item.size = Extent(Item)
      BY <1>3, <1>4, <2>10 DEF Extent
    <3>2. /\ Sig = "NAME" => Item.size >= FixedName(Item)
          /\ Sig = "WINDOWS" => Item.size >= 9
          /\ Sig = "POSIX" => Item.size >= 20
      BY <1>1, <1>3 DEF LongEnough
    <3>3. /\ Has(Body + Item.size)
          /\ Sig = "WINDOWS" => Has(Body + 9)
          /\ Sig = "POSIX" => Has(Body + 20)
      BY <1>4, <2>5, <3>1, <3>2
    <3> QED
      BY <1>3, <2>10, <3>2, <3>3 DEF Complete
  <2>11. CASE Sig = "ENCRYPT"
    <3>1. pc = "sub"
      BY <1>1, <1>3, <2>11, ExpectedFacts DEF InLoop, Loops
    <3>2. Item.true \in Nat /\ Fits = {Item.true}
      <4>1. k + 1 \in 1..Len(file.items) /\ Fits \subseteq {Item.true}
            /\ Item.true \in Nat /\ (Item.true \in Fits <=> s.pos + 4 <= file.len)
        BY <1>3, <2>11, <3>1, TrueLength
      <4> QED
        BY <2>4, <4>1
    <3>3. Greatest({Item.true}) = Item.true
      BY <3>2 DEF Greatest
    <3>4. Payload = Item.true
      BY <3>2, <3>3 DEF Payload
    <3>5. Body + 1 + Item.true = Extent(Item)
      BY <1>3, <1>4, <2>11 DEF Extent
    <3>6. Has(Body + 1 + Payload)
      BY <1>4, <2>2, <2>5, <3>4, <3>5
    <3>7. Item.size > 0 /\ Item.method # "Unknown"
      BY <1>1, <1>3, <2>11 DEF LongEnough
    <3> QED
      BY <1>3, <2>11, <3>6, <3>7 DEF Complete
  <2>12. CASE Sig = "BLOCK"
    <3>1. Extent(Item) = 18 /\ LoopsBehind(Item) = {"data"}
      BY <1>3, <2>12 DEF Extent, LoopsBehind
    <3>2. s.sig = "END"
      BY <2>1, <2>3, <3>1, ExpectedFacts DEF Sane, InLoop, Loops
    <3>3. RecordsAt(pos + 18) = {k + 1}
      <4>1. ASSUME NEW i \in 1..Len(file.items), file.items[i].pos = pos + 18
            PROVE  i = k + 1
        <5>1. ~(i < k + 1) /\ ~(k + 1 < i)
          BY <1>2, <2>1, <2>4, <3>1, <4>1, FileFacts
        <5> QED
          BY <1>1, <5>1
      <4> QED
        BY <2>1, <2>4, <3>1, <4>1 DEF RecordsAt
    <3>4. SigAt(pos + 18) = "END"
      <4>1. s.pos = pos + 18 /\ pos + 18 + 4 <= file.len
        BY <2>4, <3>1
      <4>2. ~(pos + 18 + 4 > file.len)
        BY <1>1, <4>1
      <4>3. file.items[CHOOSE i \in RecordsAt(pos + 18) : TRUE] = s
        BY <3>3
      <4> QED
        BY <3>2, <3>3, <4>2, <4>3 DEF SigAt
    <3> QED
      <4>1. Has(18)
        BY <2>5, <3>1
      <4> QED
        BY <1>3, <2>12, <3>4, <4>1 DEF Complete
  <2>13. Sig \in {"SOLID", "SKIP", "GLOBAL", "COMMENT", "DUMMY", "EGG", "SPLIT", "FILE",
                  "NAME", "WINDOWS", "POSIX", "ENCRYPT", "BLOCK"}
    BY <1>1, <1>3, <1>6 DEF IsRecord
  <2> QED
    BY <2>6, <2>7, <2>8, <2>9, <2>10, <2>11, <2>12, <2>13
<1> QED
  BY <1>3, <1>5, <1>6

LEMMA RefusedIsCut ==
  ASSUME Inv2, ~faulted, Sane(file), Refuse
  PROVE  ~IsWhole(file)
<1>1. SUFFICES ASSUME IsWhole(file) PROVE FALSE
  OBVIOUS
<1>2. pc \in Loops /\ ~(Sig \in Expected[pc] /\ Complete)
      /\ (pc = "blocks" => Sig \notin Closers)
  BY ExpectedFacts DEF Refuse
<1>3. PICK k \in 1..Len(file.items) : AtRecord(k)
  BY <1>1, <1>2 DEF Inv2, InPlace, Lost
<1>4. k \in Nat
  BY <1>3, FileFacts DEF Inv2, Inv1
<1>5. Sig = Item.sig /\ Complete
  BY <1>1, <1>2, <1>3, <1>4, WholeIsComplete DEF Inv2
<1>6. InLoop(Item) /\ (Item.loop = pc \/ (pc = "blocks" /\ Item.loop = "entries"))
  BY <1>3, <1>4, AtFacts DEF Inv2
<1>7. Sig \in Expected[Item.loop]
  BY <1>2, <1>5, <1>6, ExpectedFacts DEF InLoop, Loops
<1> QED
  BY <1>2, <1>5, <1>6, <1>7, ExpectedFacts DEF Closers

\* The signature that closes an entry is the one of a record between entries.
LEMMA EndEntryInPlace ==
  ASSUME Inv2, ~faulted, Sane(file), EndEntry
  PROVE  \E k \in Nat : OnFrom(k, k)
<1>1. pc = "blocks" /\ Sig \in Closers /\ pc' = "entries" /\ UNCHANGED <<file, pos>>
  BY DEF EndEntry
<1>2. Sig \notin {"eof", "other"}
  BY <1>1 DEF Closers
<1>3. PICK k \in 1..Len(file.items) : k \in Nat /\ AtRecord(k) /\ Item.sig = Sig
  BY <1>1, <1>2, AtSeen DEF Loops
<1>4. /\ InLoop(Item) /\ Item = file.items[k] /\ file.items[k].pos = pos
      /\ Item.loop \in {"blocks", "entries"}
  BY <1>1, <1>3, AtFacts DEF Inv2
<1>5. Item.loop = "entries"
  BY <1>1, <1>3, <1>4, ExpectedFacts DEF InLoop, Loops, Closers
<1> QED
  BY <1>1, <1>3, <1>4, <1>5 DEF AtRecord, OnFrom

LEMMA InPlaceInit ==
  ASSUME Init, Inv1
  PROVE  InPlace
<1>1. SUFFICES ASSUME Sane(file) PROVE \E k \in 1..Len(file.items) : AtRecord(k)
  BY DEF Init, InPlace
<1>2. 1 \in 1..Len(file.items)
  <2>1. IsArchiveFile(file)
    BY FilesAssumption DEF Inv1
  <2>2. file.items # << >>
    BY <1>1 DEF Sane
  <2> QED
    BY <2>1, <2>2 DEF IsArchiveFile
<1>3. file.items[1].sig = "EGG" /\ file.items[1].pos = 0 /\ InLoop(file.items[1])
  BY <1>1, <1>2 DEF Sane
<1>4. file.items[1].loop = "egg"
  BY <1>3, ExpectedFacts DEF InLoop, Loops
<1> QED
  BY <1>2, <1>3, <1>4 DEF Init, AtRecord

LEMMA InPlaceNext ==
  ASSUME Inv2, [Next \/ Done]_vars
  PROVE  InPlace'
<1>1. SUFFICES ASSUME ~faulted', Sane(file')
               PROVE  /\ pc' \in Loops => (\E k \in 1..Len(file.items)' : AtRecord(k)') \/ Lost'
                      /\ pc' \in {"resolve", "ok"} => EndsWithVolume'
                      /\ pc' = "refused" => ~IsWhole(file')
  BY DEF InPlace
<1>2. CASE UNCHANGED vars
  BY <1>1, <1>2 DEF Inv2, InPlace, vars, result, AtRecord, Lost, RecordsAt, EndsWithVolume, EndsAt
<1>3. ~Faults
  BY <1>1 DEF Faults, ReadFails, PeekFails, ProbeFails
<1>4. CASE Proceeds
  <2>1. file' = file /\ faulted' = faulted
    BY <1>4 DEF Proceeds, ReadHeader, ReadSplit, ReadSolid, EndPrefix, SkipRecord, StartEntry,
       VolumeEnd, ArchiveEnd, ReadName, ReadWindows, ReadPosix, ReadEncrypt, EndSub, ReadBlock,
       EndEntry, Resolve, Refuse, TakePayload
  <2>2. ~faulted /\ Sane(file)
    BY <1>1, <2>1
  <2> DEFINE InFront == \E k \in 1..Len(file.items) : AtRecord(k)'
  <2>a. \A k, n : OnFrom(k, n) => InFront
    BY DEF OnFrom
  <2>3. CASE \/ ReadHeader \/ ReadSplit \/ ReadSolid \/ EndPrefix \/ SkipRecord
             \/ StartEntry \/ ReadName \/ ReadWindows \/ ReadPosix \/ EndSub
    BY <2>1, <2>2, <2>3, <2>a, OneRecordOn DEF Loops
  <2>4. CASE VolumeEnd
    BY <2>1, <2>2, <2>4, <2>a, EndsInPlace DEF VolumeEnd, Reads, Loops
  <2>5. CASE ArchiveEnd
    <3>1. EndsWithVolume /\ pc' = "resolve"
      BY <2>2, <2>5, <2>1, EndsInPlace DEF ArchiveEnd, Reads, EndsWithVolume
    <3> QED
      BY <2>1, <3>1 DEF EndsWithVolume, EndsAt, Loops
  <2>6. CASE ReadEncrypt
    <3>1. pc' = "sub"
      BY <2>6 DEF ReadEncrypt, Reads, TakePayload
    <3> QED
      BY <2>1, <2>2, <2>6, <2>a, <3>1, EncryptInPlace DEF Loops
  <2>7. CASE ReadBlock
    <3>1. pc' = "blocks"
      BY <2>7 DEF ReadBlock, Reads
    <3> QED
      BY <2>1, <2>2, <2>7, <2>a, <3>1, BlockInPlace DEF Loops
  <2>8. CASE EndEntry
    <3>1. pc' = "entries"
      BY <2>8 DEF EndEntry
    <3> QED
      BY <2>1, <2>2, <2>8, <2>a, <3>1, EndEntryInPlace DEF Loops
  <2>9. CASE Resolve
    <3>1. pc' = "ok" /\ EndsWithVolume
      BY <2>2, <2>9 DEF Resolve, Inv2, InPlace
    <3> QED
      BY <2>1, <3>1 DEF EndsWithVolume, EndsAt, Loops
  <2>10. CASE Refuse
    <3>1. pc' = "refused" /\ ~IsWhole(file)
      BY <2>2, <2>10, RefusedIsCut DEF Refuse
    <3> QED
      BY <2>1, <3>1 DEF Loops
  <2> QED
    BY <1>4, <2>3, <2>4, <2>5, <2>6, <2>7, <2>8, <2>9, <2>10 DEF Proceeds
<1> QED
  BY <1>2, <1>3, <1>4 DEF Next, Done

-----------------------------------------------------------------------------
(* Sets of records in their order                                            *)

LEMMA FiniteRecords ==
  ASSUME NEW n \in Nat, NEW S \in SUBSET (1..n)
  PROVE  IsFiniteSet(S) /\ Cardinality(S) \in Nat /\ Cardinality(S) <= n
<1>1. IsFiniteSet(1..n) /\ Cardinality(1..n) = n
  BY FS_Interval
<1>2. IsFiniteSet(S) /\ Cardinality(S) <= Cardinality(1..n)
  BY <1>1, FS_Subset
<1> QED
  BY <1>1, <1>2, FS_CardinalityType

\* The ranks of a set are the numbers up to its size, in the order of the set.
LEMMA RankFacts ==
  ASSUME NEW n \in Nat, NEW S \in SUBSET (1..n), NEW i \in S
  PROVE  /\ Rank(i, S) \in 1..Cardinality(S)
         /\ \A j \in S : i < j => Rank(i, S) < Rank(j, S)
<1> DEFINE UpTo(j) == {m \in S : m <= j}
<1>0. S \subseteq Nat
  OBVIOUS
<1>1. ASSUME NEW j \in S
      PROVE  IsFiniteSet(UpTo(j)) /\ Rank(j, S) \in Nat /\ Rank(j, S) = Cardinality(UpTo(j))
  BY FiniteRecords, UpTo(j) \in SUBSET (1..n) DEF Rank
<1>2. IsFiniteSet(S) /\ Cardinality(S) \in Nat
  BY FiniteRecords
<1>3. Rank(i, S) <= Cardinality(S)
  <2>1. UpTo(i) \in SUBSET S
    OBVIOUS
  <2> QED
    BY <1>1, <1>2, <2>1, FS_Subset
<1>4. Rank(i, S) # 0
  <2>1. i \in UpTo(i)
    OBVIOUS
  <2>2. UpTo(i) # {}
    BY <2>1
  <2> QED
    BY <1>1, <2>2, FS_EmptySet
<1>5. ASSUME NEW j \in S, i < j PROVE Rank(i, S) < Rank(j, S)
  <2>1. UpTo(i) \in SUBSET UpTo(j)
    <3>1. ASSUME NEW m \in S, m <= i PROVE m <= j
      BY <1>0, <1>5, <3>1
    <3> QED
      BY <3>1
  <2>2. j \in UpTo(j) /\ j \notin UpTo(i)
    BY <1>5
  <2>3. UpTo(i) # UpTo(j)
    BY <2>2
  <2>4. Cardinality(UpTo(i)) <= Cardinality(UpTo(j))
        /\ Cardinality(UpTo(i)) # Cardinality(UpTo(j))
    BY <1>1, <2>1, <2>3, FS_Subset
  <2>5. ASSUME NEW a \in Nat, NEW b \in Nat, a <= b, a # b PROVE a < b
    BY <2>5
  <2> QED
    BY <1>1, <2>4, <2>5
<1>6. Rank(i, S) \in 1..Cardinality(S)
  <2>1. ASSUME NEW a \in Nat, NEW b \in Nat, a <= b, a # 0 PROVE a \in 1..b
    BY <2>1
  <2> QED
    BY <1>1, <1>2, <1>3, <1>4, <2>1
<1> QED
  BY <1>5, <1>6

\* A record behind all others has the last rank and leaves the others theirs.
LEMMA RankAdd ==
  ASSUME NEW k \in Nat \ {0}, NEW S \in SUBSET (1..k - 1)
  PROVE  /\ Cardinality(S \cup {k}) = Cardinality(S) + 1
         /\ Rank(k, S \cup {k}) = Cardinality(S) + 1
         /\ \A i \in S : Rank(i, S \cup {k}) = Rank(i, S)
<1>1. IsFiniteSet(S) /\ k \notin S
  BY FiniteRecords, k - 1 \in Nat
<1>2. Cardinality(S \cup {k}) = Cardinality(S) + 1
  BY <1>1, FS_AddElement
<1>3. {j \in S \cup {k} : j <= k} = S \cup {k}
  <2>1. \A j \in S \cup {k} : j <= k
    OBVIOUS
  <2> QED
    BY <2>1
<1>4. ASSUME NEW i \in S PROVE {j \in S \cup {k} : j <= i} = {j \in S : j <= i}
  <2>1. ~(k <= i)
    OBVIOUS
  <2> QED
    BY <2>1
<1> QED
  BY <1>2, <1>3, <1>4 DEF Rank

\* Every set of numbers that is not empty has a first one.
LEMMA FirstFacts ==
  ASSUME NEW S \in SUBSET Nat, S # {}
  PROVE  FirstOf(S) \in S /\ \A j \in S : FirstOf(S) <= j
<1> DEFINE R == {ss \in Nat \X Nat : ss[1] < ss[2]}
<1>1. IsWellFoundedOn(R, Nat)
  BY NatLessThanWellFounded DEF OpToRel
<1>2. \E i \in S : \A j \in S : ~ (<<j, i>> \in R)
  <2> HIDE DEF R
  <2> QED
    BY <1>1, WFMin
<1>3. PICK i \in S : \A j \in S : ~ (<<j, i>> \in R)
  BY <1>2
<1>4. ASSUME NEW j \in S PROVE i <= j
  <2>1. i \in Nat /\ j \in Nat
    OBVIOUS
  <2>2. <<j, i>> \in Nat \X Nat /\ <<j, i>>[1] = j /\ <<j, i>>[2] = i
    BY <2>1
  <2>3. ~ (j < i)
    BY <1>3, <2>2
  <2> QED
    BY <2>1, <2>3
<1> QED
  BY <1>4 DEF FirstOf

\* The first one stays the first when a later one is added.
LEMMA FirstAdd ==
  ASSUME NEW k \in Nat \ {0}, NEW S \in SUBSET (1..k - 1)
  PROVE  /\ S # {} => FirstOf(S \cup {k}) = FirstOf(S)
         /\ FirstOf({k}) = k
<1>1. FirstOf({k}) = k
  BY FirstFacts
<1>2. ASSUME S # {} PROVE FirstOf(S \cup {k}) = FirstOf(S)
  <2>0. S \subseteq Nat /\ \A j \in S : j < k
    OBVIOUS
  <2>1. FirstOf(S) \in S /\ \A j \in S : FirstOf(S) <= j
    BY <1>2, FirstFacts
  <2>2. FirstOf(S \cup {k}) \in S \cup {k} /\ \A j \in S \cup {k} : FirstOf(S \cup {k}) <= j
    <3>1. S \cup {k} \in SUBSET Nat /\ S \cup {k} # {}
      OBVIOUS
    <3> QED
      BY <3>1, FirstFacts
  <2>3. FirstOf(S \cup {k}) <= FirstOf(S) /\ FirstOf(S) < k
    BY <2>0, <2>1, <2>2
  <2>4. FirstOf(S \cup {k}) \in S
    <3>1. ASSUME NEW a \in Nat, k <= a, a < k PROVE FALSE
      BY <3>1
    <3>2. FirstOf(S \cup {k}) # k
      BY <2>0, <2>1, <2>3, <3>1
    <3> QED
      BY <2>2, <3>2
  <2>5. ASSUME NEW a \in Nat, NEW b \in Nat, a <= b, b <= a PROVE a = b
    BY <2>5
  <2> QED
    BY <2>0, <2>1, <2>3, <2>4, <2>5
<1> QED
  BY <1>1, <1>2

\* A record is one more of its own kind.
LEMMA OnlyAdd ==
  ASSUME NEW R, NEW k, NEW sig
  PROVE  /\ file.items[k].sig = sig => Only(R \cup {k}, sig) = Only(R, sig) \cup {k}
         /\ file.items[k].sig # sig => Only(R \cup {k}, sig) = Only(R, sig)
BY DEF Only

-----------------------------------------------------------------------------
(* What is kept of the records                                               *)

\* e is what the records R say of the entry of header i, its name not resolved.
Knows(e, i, R) == Tells(e, i, R) /\ e.name = OwnName(R)

\* The entries es are those of the records in S.
Keeps(es, S) ==
  LET headers == Only(S, "FILE")
  IN  /\ Len(es) = Cardinality(headers)
      /\ \A n \in 1..Len(es) : \E i \in headers : n = Rank(i, headers)
      /\ \A i \in headers : Knows(es[Rank(i, headers)], i, RecordsOf(i, S))

\* A record behind the others belongs to the last entry.
LEMMA LastHeader ==
  ASSUME NEW k \in Nat \ {0}, NEW h \in Only(1..k - 1, "FILE"),
         Rank(h, Only(1..k - 1, "FILE")) = Cardinality(Only(1..k - 1, "FILE")),
         file.items[k].sig # "FILE"
  PROVE  /\ \A m \in h + 1..k : file.items[m].sig # "FILE"
         /\ RecordsOf(h, 1..k) = RecordsOf(h, 1..k - 1) \cup {k}
<1> DEFINE H == Only(1..k - 1, "FILE")
<1>1. H \in SUBSET (1..k - 1) /\ k - 1 \in Nat /\ h \in Nat /\ h < k
  BY DEF Only
<1>2. ASSUME NEW m \in h + 1..k PROVE file.items[m].sig # "FILE"
  <2>1. CASE m = k
    BY <2>1
  <2>2. CASE m # k
    <3>1. m \in 1..k - 1 /\ h < m
      BY <1>1, <2>2
    <3>2. SUFFICES ASSUME m \in H PROVE FALSE
      BY <3>1 DEF Only
    <3>3. Rank(h, H) < Rank(m, H) /\ Rank(m, H) \in 1..Cardinality(H) /\ Cardinality(H) \in Nat
      BY <1>1, <3>1, <3>2, RankFacts, FiniteRecords
    <3> QED
      BY <3>3
  <2> QED
    BY <2>1, <2>2
<1>3. k \in RecordsOf(h, 1..k)
  BY <1>1, <1>2 DEF RecordsOf
<1>4. RecordsOf(h, 1..k) = RecordsOf(h, 1..k - 1) \cup {k}
  BY <1>1, <1>3 DEF RecordsOf
<1> QED
  BY <1>2, <1>4

\* ... and to no other.
LEMMA OtherHeader ==
  ASSUME NEW k \in Nat \ {0}, NEW i \in 1..k - 1, NEW h \in 1..k, i < h,
         file.items[h].sig = "FILE"
  PROVE  RecordsOf(i, 1..k) = RecordsOf(i, 1..k - 1)
<1>1. h \in i + 1..k
  OBVIOUS
<1>2. k \notin RecordsOf(i, 1..k)
  BY <1>1 DEF RecordsOf
<1> QED
  BY <1>2 DEF RecordsOf

\* When only the last entry changes, only the last one is to be looked at.
LEMMA KeepsGrow ==
  ASSUME NEW k \in Nat \ {0}, NEW es, NEW fs, Len(es) \in Nat,
         Keeps(es, 1..k - 1), file.items[k].sig # "FILE",
         Len(fs) = Len(es), \A n \in 1..Len(es) : n < Len(es) => fs[n] = es[n],
         \A h \in Only(1..k - 1, "FILE") :
           Rank(h, Only(1..k - 1, "FILE")) = Len(es) =>
             Knows(fs[Len(es)], h, RecordsOf(h, 1..k - 1) \cup {k})
  PROVE  Keeps(fs, 1..k)
<1> DEFINE H == Only(1..k - 1, "FILE")
<1>1. H \in SUBSET (1..k - 1) /\ k - 1 \in Nat
  BY DEF Only
<1>2. Only(1..k, "FILE") = H
  BY DEF Only
<1>3. Len(es) = Cardinality(H) /\ \A n \in 1..Len(es) : \E i \in H : n = Rank(i, H)
  BY DEF Keeps
<1>4. ASSUME NEW i \in H
      PROVE  Knows(fs[Rank(i, H)], i, RecordsOf(i, 1..k))
  <2>1. Rank(i, H) \in 1..Len(es) /\ \A j \in H : j < i => Rank(j, H) < Rank(i, H)
    BY <1>1, <1>3, RankFacts
  <2>2. CASE Rank(i, H) = Len(es)
    <3>1. RecordsOf(i, 1..k) = RecordsOf(i, 1..k - 1) \cup {k}
      BY <1>3, <2>2, LastHeader
    <3> QED
      BY <2>2, <3>1
  <2>3. CASE Rank(i, H) # Len(es)
    <3>1. Len(es) \in 1..Len(es)
      BY <2>1
    <3>2. PICK h \in H : Rank(h, H) = Len(es)
      BY <1>3, <3>1
    <3>3. ~(h < i) /\ h # i
      BY <2>1, <2>3, <3>2
    <3>4. i \in 1..k - 1 /\ h \in 1..k /\ i < h /\ file.items[h].sig = "FILE"
      BY <1>1, <3>3 DEF Only
    <3>5. RecordsOf(i, 1..k) = RecordsOf(i, 1..k - 1)
      BY <3>4, OtherHeader
    <3>6. fs[Rank(i, H)] = es[Rank(i, H)]
      BY <2>1, <2>3
    <3>7. Knows(es[Rank(i, H)], i, RecordsOf(i, 1..k - 1))
      BY DEF Keeps
    <3> QED
      BY <3>5, <3>6, <3>7
  <2> QED
    BY <2>2, <2>3
<1> QED
  BY <1>2, <1>3, <1>4 DEF Keeps

\* A header starts an entry, of which nothing else is known.
LEMMA KeepsNew ==
  ASSUME NEW k \in Nat \ {0}, NEW es, NEW fs, NEW e, Len(es) \in Nat,
         Keeps(es, 1..k - 1), file.items[k].sig = "FILE",
         Len(fs) = Len(es) + 1, \A n \in 1..Len(es) : fs[n] = es[n],
         fs[Len(es) + 1] = e, e = NewEntry(file.items[k])
  PROVE  Keeps(fs, 1..k)
<1> DEFINE H == Only(1..k - 1, "FILE")
           G == Only(1..k, "FILE")
<1>1. H \in SUBSET (1..k - 1) /\ k - 1 \in Nat /\ k \in Nat
  BY DEF Only
<1>2. G = H \cup {k}
  BY DEF Only
<1>3. Len(es) = Cardinality(H) /\ \A n \in 1..Len(es) : \E i \in H : n = Rank(i, H)
  BY DEF Keeps
<1>4. /\ Cardinality(G) = Len(fs) /\ Rank(k, G) = Len(fs)
      /\ \A i \in H : Rank(i, G) = Rank(i, H)
  BY <1>1, <1>2, <1>3, RankAdd
<1>5. ASSUME NEW n \in 1..Len(fs) PROVE \E i \in G : n = Rank(i, G)
  <2>1. CASE n \in 1..Len(es)
    BY <1>2, <1>3, <1>4, <2>1
  <2>2. CASE n = Len(fs)
    BY <1>2, <1>4, <2>2
  <2> QED
    BY <2>1, <2>2
<1>6. ASSUME NEW i \in H
      PROVE  Knows(fs[Rank(i, G)], i, RecordsOf(i, 1..k))
  <2>1. Rank(i, H) \in 1..Len(es)
    BY <1>1, <1>3, RankFacts
  <2>2. fs[Rank(i, G)] = es[Rank(i, H)]
    BY <1>4, <2>1
  <2>3. RecordsOf(i, 1..k) = RecordsOf(i, 1..k - 1)
    <3>1. i \in 1..k - 1 /\ k \in 1..k /\ i < k
      BY <1>1
    <3> QED
      BY <3>1, OtherHeader
  <2>4. Knows(es[Rank(i, H)], i, RecordsOf(i, 1..k - 1))
    BY DEF Keeps
  <2> QED
    BY <2>2, <2>3, <2>4
<1>7. Knows(e, k, RecordsOf(k, 1..k))
  <2>1. RecordsOf(k, 1..k) = {k}
    BY <1>1 DEF RecordsOf
  <2>2. /\ Only({k}, "NAME") = {} /\ Only({k}, "WINDOWS") = {} /\ Only({k}, "POSIX") = {}
        /\ Only({k}, "ENCRYPT") = {} /\ Only({k}, "BLOCK") = {}
    BY DEF Only
  <2>3. Len(e.blocks) = Cardinality({})
    <3>1. e.blocks = << >>
      BY DEF NewEntry
    <3> QED
      BY <3>1, FS_EmptySet
  <2>4. Parent({k}) = NoId /\ Time({k}) = NoTime /\ ~IsDir({k}) /\ Cipher({k}) = NoCipher
        /\ OwnName({k}) = << >>
    BY <2>2 DEF Parent, Time, IsDir, Cipher, OwnName
  <2>5. /\ e.id = file.items[k].id /\ e.size = file.items[k].usize /\ e.name = << >>
        /\ e.parent = NoId /\ e.time = NoTime /\ e.dir = FALSE /\ e.cipher = NoCipher
    BY DEF NewEntry
  <2>6. Tells(e, k, {k})
    <3>1. e.dir = IsDir({k})
      BY <2>4, <2>5 DEF IsDir
    <3>2. \A j \in Only({k}, "BLOCK") : FALSE
      BY <2>2
    <3>3. e.parent = Parent({k}) /\ e.time = Time({k}) /\ e.cipher = Cipher({k})
      BY <2>4, <2>5
    <3> QED
      BY <2>2, <2>3, <2>5, <3>1, <3>2, <3>3, Zenon DEF Tells
  <2> QED
    BY <2>1, <2>4, <2>5, <2>6 DEF Knows
<1> QED
  BY <1>2, <1>4, <1>5, <1>6, <1>7 DEF Keeps

-----------------------------------------------------------------------------
(* One more record of an entry                                               *)

\* A record that is not of a kind says nothing of what the kind says.
LEMMA OtherKinds ==
  ASSUME NEW k, NEW R
  PROVE  LET Q == R \cup {k}
             sig == file.items[k].sig
         IN  /\ sig # "NAME" => OwnName(Q) = OwnName(R) /\ Parent(Q) = Parent(R)
             /\ sig \notin {"WINDOWS", "POSIX"} => Time(Q) = Time(R) /\ IsDir(Q) = IsDir(R)
             /\ sig # "ENCRYPT" => Cipher(Q) = Cipher(R)
<1> DEFINE sig == file.items[k].sig
<1>1. /\ sig # "NAME" => Only(R \cup {k}, "NAME") = Only(R, "NAME")
      /\ sig # "WINDOWS" => Only(R \cup {k}, "WINDOWS") = Only(R, "WINDOWS")
      /\ sig # "POSIX" => Only(R \cup {k}, "POSIX") = Only(R, "POSIX")
      /\ sig # "ENCRYPT" => Only(R \cup {k}, "ENCRYPT") = Only(R, "ENCRYPT")
  BY OnlyAdd
<1>2. sig # "NAME" => OwnName(R \cup {k}) = OwnName(R) /\ Parent(R \cup {k}) = Parent(R)
  BY <1>1 DEF OwnName, Parent
<1>3. sig \notin {"WINDOWS", "POSIX"} =>
        Time(R \cup {k}) = Time(R) /\ IsDir(R \cup {k}) = IsDir(R)
  BY <1>1 DEF Time, IsDir
<1>4. sig # "ENCRYPT" => Cipher(R \cup {k}) = Cipher(R)
  BY <1>1 DEF Cipher
<1> QED
  BY <1>2, <1>3, <1>4

\* The first record of its kind says what it says.
LEMMA OwnKind ==
  ASSUME NEW k \in Nat \ {0}, NEW R \in SUBSET (1..k - 1)
  PROVE  LET Q == R \cup {k}
             r == file.items[k]
         IN  /\ r.sig = "NAME" /\ Only(R, "NAME") = {} =>
                  OwnName(Q) = r.name /\ Parent(Q) = r.parent
             /\ r.sig = "WINDOWS" /\ Only(R, "WINDOWS") = {} => Time(Q) = r.time
             /\ r.sig = "ENCRYPT" /\ Only(R, "ENCRYPT") = {} =>
                  Cipher(Q) = [method |-> r.method, len |-> r.true]
<1>1. FirstOf({k}) = k
  BY FirstAdd
<1>2. ASSUME NEW sig, file.items[k].sig = sig, Only(R, sig) = {}
      PROVE  Only(R \cup {k}, sig) = {k}
  <2>1. Only(R \cup {k}, sig) = Only(R, sig) \cup {k}
    BY <1>2 DEF Only
  <2> QED
    BY <1>2, <2>1
<1>3. CASE file.items[k].sig = "NAME" /\ Only(R, "NAME") = {}
  <2>1. Only(R \cup {k}, "NAME") = {k}
    BY <1>2, <1>3
  <2> QED
    BY <1>1, <1>3, <2>1 DEF OwnName, Parent
<1>4. CASE file.items[k].sig = "WINDOWS" /\ Only(R, "WINDOWS") = {}
  <2>1. Only(R \cup {k}, "WINDOWS") = {k}
    BY <1>2, <1>4
  <2> QED
    BY <1>1, <1>4, <2>1 DEF Time
<1>5. CASE file.items[k].sig = "ENCRYPT" /\ Only(R, "ENCRYPT") = {}
  <2>1. Only(R \cup {k}, "ENCRYPT") = {k}
    BY <1>2, <1>5
  <2> QED
    BY <1>1, <1>5, <2>1 DEF Cipher
<1> QED
  BY <1>3, <1>4, <1>5

\* The time of a POSIX record counts when no time is known.
LEMMA PosixKind ==
  ASSUME file \in Files, NEW k \in 1..Len(file.items), k \in Nat, NEW R \in SUBSET (1..k - 1),
         file.items[k].sig = "POSIX"
  PROVE  Time(R \cup {k}) = IF Time(R) = NoTime THEN file.items[k].time ELSE Time(R)
<1> DEFINE W == Only(R, "WINDOWS")
           X == Only(R, "POSIX")
           All == IF W # {} THEN W ELSE X
<1>1. Only(R \cup {k}, "WINDOWS") = W /\ Only(R \cup {k}, "POSIX") = X \cup {k}
  <2>1. file.items[k].sig # "WINDOWS"
    OBVIOUS
  <2>2. Only(R \cup {k}, "WINDOWS") = W
    BY <2>1 DEF Only
  <2>3. Only(R \cup {k}, "POSIX") = X \cup {k}
    BY DEF Only
  <2> QED
    BY <2>2, <2>3
<1>2. W \in SUBSET (1..k - 1) /\ X \in SUBSET (1..k - 1) /\ k # 0
  <2>1. W \subseteq R /\ X \subseteq R
    BY DEF Only
  <2>2. k # 0
    OBVIOUS
  <2> QED
    BY <2>1, <2>2
<1>3. CASE All = {}
  <2>1. W = {} /\ X \cup {k} = {k} /\ Time(R) = NoTime
    BY <1>3 DEF Time
  <2>2. FirstOf({k}) = k
    BY <1>2, FirstAdd
  <2> QED
    BY <1>1, <2>1, <2>2 DEF Time
<1>4. CASE All # {}
  <2>1. FirstOf(All) \in All
    BY <1>2, <1>4, FirstFacts
  <2>2. FirstOf(All) \in 1..Len(file.items) /\ file.items[FirstOf(All)].sig \in {"WINDOWS", "POSIX"}
    <3>1. Len(file.items) \in Nat
      BY FileFacts
    <3>2. FirstOf(All) \in 1..k - 1
      BY <1>2, <2>1
    <3>3. file.items[FirstOf(All)].sig \in {"WINDOWS", "POSIX"}
      BY <2>1 DEF Only
    <3> QED
      BY <3>1, <3>2, <3>3
  <2>3. file.items[FirstOf(All)].time \in Nat
    BY <2>2, FileFacts DEF IsRecord
  <2>4. Time(R) = file.items[FirstOf(All)].time
    BY <1>4 DEF Time
  <2>5. Time(R) # NoTime
    BY <2>3, <2>4 DEF NoTime
  <2>6. Time(R \cup {k}) = file.items[FirstOf(All)].time
    <3>1. CASE W # {}
      BY <1>1, <3>1 DEF Time
    <3>2. CASE W = {}
      <4>1. FirstOf(X \cup {k}) = FirstOf(X)
        BY <1>2, <1>4, <3>2, FirstAdd
      <4> QED
        BY <1>1, <3>2, <4>1 DEF Time
    <3> QED
      BY <3>1, <3>2
  <2> QED
    BY <2>4, <2>5, <2>6
<1> QED
  BY <1>3, <1>4

LEMMA DirKind ==
  ASSUME NEW k, NEW R, NEW d, NEW e, file.items[k].sig \in {"WINDOWS", "POSIX"},
         file.items[k].dir \in BOOLEAN, d = IsDir(R), e = (d \/ file.items[k].dir)
  PROVE  e = IsDir(R \cup {k})
<1>1. IsDir(R \cup {k}) <=> IsDir(R) \/ file.items[k].dir
  BY DEF IsDir, Only
<1>2. IsDir(R \cup {k}) \in BOOLEAN /\ IsDir(R) \in BOOLEAN
  BY DEF IsDir
<1> QED
  BY <1>1, <1>2

LEMMA KnowsMore ==
  ASSUME NEW k, NEW h, NEW R, NEW e, NEW f, Knows(e, h, R), file.items[k].sig # "BLOCK",
         f.id = e.id, f.size = e.size, f.blocks = e.blocks,
         f.name = OwnName(R \cup {k}), f.parent = Parent(R \cup {k}), f.time = Time(R \cup {k}),
         f.dir = IsDir(R \cup {k}), f.cipher = Cipher(R \cup {k})
  PROVE  Knows(f, h, R \cup {k})
<1>1. Only(R \cup {k}, "BLOCK") = Only(R, "BLOCK")
  BY DEF Only
<1>2. Tells(e, h, R)
  BY DEF Knows
<1>3. Tells(f, h, R \cup {k})
  BY <1>1, <1>2, Zenon DEF Tells
<1> QED
  BY <1>3 DEF Knows

\* Of a record that says nothing of an entry nothing is kept.
LEMMA KnowsNothing ==
  ASSUME NEW k, NEW h, NEW R, NEW e, Knows(e, h, R),
         file.items[k].sig \notin {"NAME", "WINDOWS", "POSIX", "ENCRYPT", "BLOCK"}
  PROVE  Knows(e, h, R \cup {k})
<1>1. /\ e.name = OwnName(R) /\ e.parent = Parent(R) /\ e.time = Time(R)
      /\ e.dir = IsDir(R) /\ e.cipher = Cipher(R)
  BY DEF Knows, Tells
<1>2. /\ OwnName(R \cup {k}) = OwnName(R) /\ Parent(R \cup {k}) = Parent(R)
      /\ Time(R \cup {k}) = Time(R) /\ IsDir(R \cup {k}) = IsDir(R)
      /\ Cipher(R \cup {k}) = Cipher(R)
  BY OtherKinds
<1> QED
  BY <1>1, <1>2, KnowsMore

\* Another block behind the entry's blocks.
LEMMA KnowsBlock ==
  ASSUME NEW k \in Nat \ {0}, NEW h, NEW R \in SUBSET (1..k - 1), NEW e, NEW f,
         Knows(e, h, R), file.items[k].sig = "BLOCK",
         f.id = e.id, f.size = e.size, f.name = e.name, f.parent = e.parent, f.time = e.time,
         f.dir = e.dir, f.cipher = e.cipher,
         Len(e.blocks) \in Nat, Len(f.blocks) = Len(e.blocks) + 1,
         \A b \in 1..Len(e.blocks) : f.blocks[b] = e.blocks[b],
         f.blocks[Len(e.blocks) + 1]
           = [data_pos |-> file.items[k].pos + 22, csize |-> file.items[k].csize]
  PROVE  Knows(f, h, R \cup {k})
<1> DEFINE B == Only(R, "BLOCK")
           Q == R \cup {k}
           At(j) == [data_pos |-> file.items[j].pos + 22, csize |-> file.items[j].csize]
<1>1. Tells(e, h, R) /\ e.name = OwnName(R)
  BY DEF Knows
<1>2. /\ OwnName(Q) = OwnName(R) /\ Parent(Q) = Parent(R) /\ Time(Q) = Time(R)
      /\ IsDir(Q) = IsDir(R) /\ Cipher(Q) = Cipher(R)
  BY OtherKinds
<1>3. Only(Q, "BLOCK") = B \cup {k}
  BY DEF Only
<1>4. B \in SUBSET (1..k - 1) /\ k - 1 \in Nat
  <2>1. B \subseteq R
    BY DEF Only
  <2>2. R \subseteq 1..k - 1
    OBVIOUS
  <2>3. k - 1 \in Nat
    OBVIOUS
  <2>4. B \in SUBSET (1..k - 1)
    BY <2>1, <2>2, Zenon
  <2> QED
    BY <2>3, <2>4, Zenon
<1>5. /\ Len(e.blocks) = Cardinality(B)
      /\ \A j \in B : e.blocks[Rank(j, B)] = At(j)
  BY <1>1 DEF Tells
<1>6. /\ Cardinality(B \cup {k}) = Len(f.blocks) /\ Rank(k, B \cup {k}) = Len(e.blocks) + 1
      /\ \A j \in B : Rank(j, B \cup {k}) = Rank(j, B)
  BY <1>4, <1>5, RankAdd
<1>7. ASSUME NEW j \in B \cup {k} PROVE f.blocks[Rank(j, B \cup {k})] = At(j)
  <2>1. CASE j = k
    BY <1>6, <2>1
  <2>2. CASE j # k
    <3>1. j \in B /\ Rank(j, B) \in 1..Len(e.blocks)
      BY <1>4, <1>5, <2>2, RankFacts
    <3>2. f.blocks[Rank(j, B)] = e.blocks[Rank(j, B)]
      BY <3>1
    <3> QED
      BY <1>5, <1>6, <3>1, <3>2
  <2> QED
    BY <2>1, <2>2
<1>8. /\ f.id = file.items[h].id /\ f.size = file.items[h].usize
      /\ f.parent = Parent(Q) /\ f.time = Time(Q) /\ f.dir = IsDir(Q) /\ f.cipher = Cipher(Q)
  BY <1>1, <1>2 DEF Tells
<1>9. Tells(f, h, Q)
  <2>1. Only(Q, "BLOCK") = B \cup {k} /\ Cardinality(B \cup {k}) = Len(f.blocks)
    BY <1>3, <1>6
  <2>2. \A j \in B \cup {k} : f.blocks[Rank(j, B \cup {k})] = At(j)
    BY <1>7
  <2> QED
    BY <1>8, <2>1, <2>2, Zenon DEF Tells
<1>10. f.name = OwnName(Q)
  BY <1>1, <1>2
<1> QED
  BY <1>9, <1>10, Zenon DEF Knows

\* An entry has one record of some kinds.
LEMMA NoSecond ==
  ASSUME file \in Files, Sane(file), NEW k \in 1..Len(file.items),
         NEW h \in Nat, \A m \in h + 1..k : file.items[m].sig # "FILE",
         file.items[k].sig \in {"NAME", "WINDOWS", "ENCRYPT"}
  PROVE  Only(RecordsOf(h, 1..k - 1), file.items[k].sig) = {}
<1> SUFFICES ASSUME NEW j \in 1..k - 1, h <= j, file.items[j].sig = file.items[k].sig
             PROVE  FALSE
  BY DEF Only, RecordsOf
<1>1. Len(file.items) \in Nat
  BY FileFacts
<1>2. j \in 1..Len(file.items) /\ j < k /\ j \in Nat /\ k \in Nat
  BY <1>1
<1>3. PICK m \in j..k : file.items[m].sig = "FILE"
  BY <1>2 DEF Sane, OneEach
<1>4. m # j
  BY <1>3
<1>5. m \in h + 1..k
  BY <1>2, <1>3, <1>4
<1> QED
  BY <1>3, <1>5

\* Each sub-header and each block is kept in the entry at work.
LEMMA KnowsRecord ==
  ASSUME Inv1, Sane(file), NEW k \in 1..Len(file.items), k \in Nat,
         Item = file.items[k], IsRecord(Item), Item.sig = Sig, file.items[k].pos = pos,
         NEW h \in Nat, \A m \in h + 1..k : file.items[m].sig # "FILE",
         Knows(cur, h, RecordsOf(h, 1..k - 1)),
         \/ ReadName \/ ReadWindows \/ ReadPosix \/ ReadBlock
         \/ ReadEncrypt /\ Payload = Item.true,
         NEW f, f = cur'
  PROVE  Knows(f, h, RecordsOf(h, 1..k - 1) \cup {k})
<1> DEFINE R == RecordsOf(h, 1..k - 1)
           Q == R \cup {k}
<1>1. cur \in ParsedEntries /\ file \in Files /\ pos \in Nat
  BY DEF Inv1, TypeOK
<1>2. R \in SUBSET (1..k - 1) /\ k \in Nat \ {0}
  <2>1. R \subseteq 1..k - 1
    BY DEF RecordsOf
  <2> QED
    BY <2>1
<1>3. /\ cur.name = OwnName(R) /\ cur.parent = Parent(R) /\ cur.time = Time(R)
      /\ cur.dir = IsDir(R) /\ cur.cipher = Cipher(R)
  BY DEF Knows, Tells
<1>4. /\ Sig # "NAME" => OwnName(Q) = OwnName(R) /\ Parent(Q) = Parent(R)
      /\ Sig \notin {"WINDOWS", "POSIX"} => Time(Q) = Time(R) /\ IsDir(Q) = IsDir(R)
      /\ Sig # "ENCRYPT" => Cipher(Q) = Cipher(R)
  BY OtherKinds
<1>5. Sig \in {"NAME", "WINDOWS", "ENCRYPT"} => Only(R, Sig) = {}
  BY <1>1, NoSecond
<1>6. ASSUME Sig # "BLOCK", f.id = cur.id, f.size = cur.size, f.blocks = cur.blocks,
             f.name = OwnName(Q), f.parent = Parent(Q), f.time = Time(Q),
             f.dir = IsDir(Q), f.cipher = Cipher(Q)
      PROVE  Knows(f, h, Q)
  BY <1>6, KnowsMore
<1>7. CASE ReadName
  <2>1. Sig = "NAME" /\ Only(R, "NAME") = {}
    BY <1>5, <1>7 DEF ReadName, Reads
  <2>2. OwnName(Q) = Item.name /\ Parent(Q) = Item.parent
    BY <1>2, <2>1, OwnKind
  <2>3. Parent(R) = NoId
    BY <2>1 DEF Parent
  <2>4. /\ f.id = cur.id /\ f.size = cur.size /\ f.blocks = cur.blocks /\ f.time = cur.time
        /\ f.dir = cur.dir /\ f.cipher = cur.cipher /\ f.name = Item.name
        /\ f.parent = IF Item.parent # NoId THEN Item.parent ELSE cur.parent
    BY <1>1, <1>7 DEF ReadName, ParsedEntries
  <2>5. f.parent = Parent(Q)
    BY <1>3, <2>2, <2>3, <2>4
  <2> QED
    BY <1>3, <1>4, <1>6, <2>1, <2>2, <2>4, <2>5
<1>8. CASE ReadWindows
  <2>1. Sig = "WINDOWS" /\ Only(R, "WINDOWS") = {}
    BY <1>5, <1>8 DEF ReadWindows, Reads
  <2>2. Time(Q) = Item.time
    BY <1>2, <2>1, OwnKind
  <2>3. /\ f.id = cur.id /\ f.size = cur.size /\ f.blocks = cur.blocks /\ f.time = Item.time
        /\ f.dir = (cur.dir \/ Item.dir) /\ f.cipher = cur.cipher /\ f.name = cur.name
        /\ f.parent = cur.parent
    BY <1>1, <1>8 DEF ReadWindows, ParsedEntries
  <2>4. file.items[k].sig \in {"WINDOWS", "POSIX"} /\ file.items[k].dir \in BOOLEAN
    BY <2>1 DEF IsRecord
  <2>5. f.dir = IsDir(Q)
    <3>1. cur.dir = IsDir(R)
      BY <1>3
    <3>2. f.dir = (cur.dir \/ file.items[k].dir)
      BY <2>3
    <3> QED
      BY <2>4, <3>1, <3>2, DirKind
  <2> QED
    BY <1>3, <1>4, <1>6, <2>1, <2>2, <2>3, <2>5
<1>9. CASE ReadPosix
  <2>1. Sig = "POSIX"
    BY <1>9 DEF ReadPosix, Reads
  <2>2. Time(Q) = PosixTime
    BY <1>1, <1>2, <1>3, <2>1, PosixKind DEF PosixTime
  <2>3. /\ f.id = cur.id /\ f.size = cur.size /\ f.blocks = cur.blocks /\ f.time = PosixTime
        /\ f.dir = (cur.dir \/ Item.dir) /\ f.cipher = cur.cipher /\ f.name = cur.name
        /\ f.parent = cur.parent
    BY <1>1, <1>9 DEF ReadPosix, ParsedEntries
  <2>4. file.items[k].sig \in {"WINDOWS", "POSIX"} /\ file.items[k].dir \in BOOLEAN
    BY <2>1 DEF IsRecord
  <2>5. f.dir = IsDir(Q)
    <3>1. cur.dir = IsDir(R)
      BY <1>3
    <3>2. f.dir = (cur.dir \/ file.items[k].dir)
      BY <2>3
    <3> QED
      BY <2>4, <3>1, <3>2, DirKind
  <2> QED
    BY <1>3, <1>4, <1>6, <2>1, <2>2, <2>3, <2>5
<1>10. CASE ReadEncrypt /\ Payload = Item.true
  <2>1. Sig = "ENCRYPT" /\ Only(R, "ENCRYPT") = {}
    BY <1>5, <1>10 DEF ReadEncrypt, Reads
  <2>2. Cipher(Q) = [method |-> Item.method, len |-> Item.true]
    BY <1>2, <2>1, OwnKind
  <2>3. /\ f.id = cur.id /\ f.size = cur.size /\ f.blocks = cur.blocks /\ f.time = cur.time
        /\ f.dir = cur.dir /\ f.name = cur.name /\ f.parent = cur.parent
        /\ f.cipher = [method |-> Item.method, len |-> Payload]
    BY <1>1, <1>10 DEF ReadEncrypt, TakePayload, ParsedEntries
  <2> QED
    BY <1>3, <1>4, <1>6, <1>10, <2>1, <2>2, <2>3
<1>11. CASE ReadBlock
  <2>1. Sig = "BLOCK"
    BY <1>11 DEF ReadBlock, Reads
  <2>2. PICK b : b = [data_pos |-> pos + 22, csize |-> Item.csize]
    OBVIOUS
  <2>3. PICK s : s = cur.blocks
    OBVIOUS
  <2>4. PICK t : t = Append(s, b)
    OBVIOUS
  <2>5. s \in Seq([data_pos : Nat, csize : Nat])
    BY <2>3, CurFacts
  <2>6. f = [cur EXCEPT !.blocks = t]
    BY <1>1, <1>11, <2>2, <2>3, <2>4 DEF ReadBlock, ParsedEntries
  <2>7. /\ f.id = cur.id /\ f.size = cur.size /\ f.blocks = t /\ f.time = cur.time
        /\ f.dir = cur.dir /\ f.name = cur.name /\ f.parent = cur.parent
        /\ f.cipher = cur.cipher
    BY <1>1, <2>6 DEF ParsedEntries
  <2>8. /\ Len(s) \in Nat /\ Len(t) = Len(s) + 1 /\ t[Len(s) + 1] = b
        /\ \A i \in 1..Len(s) : t[i] = s[i]
    BY <2>4, <2>5
  <2> QED
    BY <1>2, <2>1, <2>2, <2>3, <2>7, <2>8, KnowsBlock
<1> QED
  BY <1>7, <1>8, <1>9, <1>10, <1>11

-----------------------------------------------------------------------------
(* The parser keeps all that was written                                     *)

\* The entries so far, with the one at work.
Kept == IF pc \in {"sub", "blocks"} THEN Append(entries, cur) ELSE entries

Flags(S) ==
  /\ is_solid <=> Only(S, "SOLID") # {}
  /\ is_encrypted <=> Only(S, "ENCRYPT") # {}

KeepsUpTo(k) == Keeps(Kept, 1..k - 1) /\ Flags(1..k - 1)

Content ==
  /\ ~faulted /\ Sane(file) =>
       /\ pc \in Loops => \A k \in 1..Len(file.items) : AtRecord(k) => KeepsUpTo(k)
       /\ pc = "resolve" => Keeps(entries, Present) /\ Flags(Present)
  /\ OpensWhatWasWritten

LEMMA KeptType ==
  ASSUME Inv1
  PROVE  /\ entries \in Seq(ParsedEntries) /\ cur \in ParsedEntries /\ Len(entries) \in Nat
         /\ Kept \in Seq(ParsedEntries) /\ Len(Kept) \in Nat
<1>1. entries \in Seq(ParsedEntries) /\ cur \in ParsedEntries
  BY DEF Inv1, TypeOK
<1>2. Append(entries, cur) \in Seq(ParsedEntries)
  BY <1>1, AppendType
<1>3. Kept \in Seq(ParsedEntries)
  BY <1>1, <1>2 DEF Kept
<1> QED
  BY <1>1, <1>3

\* A record without a meaning to the entries leaves them as they are.
LEMMA KeepsNothing ==
  ASSUME NEW k \in Nat \ {0}, NEW es, Len(es) \in Nat, Keeps(es, 1..k - 1),
         file.items[k].sig \notin {"FILE", "NAME", "WINDOWS", "POSIX", "ENCRYPT", "BLOCK"}
  PROVE  Keeps(es, 1..k)
<1> DEFINE H == Only(1..k - 1, "FILE")
<1>1. ASSUME NEW h \in H, Rank(h, H) = Len(es)
      PROVE  Knows(es[Len(es)], h, RecordsOf(h, 1..k - 1) \cup {k})
  <2>1. Knows(es[Len(es)], h, RecordsOf(h, 1..k - 1))
    BY <1>1 DEF Keeps
  <2> QED
    BY <2>1, KnowsNothing
<1> QED
  BY <1>1, KeepsGrow

\* What the entry at work learns from a record that belongs to it.
LEMMA KeepsRecord ==
  ASSUME Inv1, Sane(file), NEW k \in 1..Len(file.items), k \in Nat,
         Item = file.items[k], IsRecord(Item), Item.sig = Sig, file.items[k].pos = pos,
         Keeps(Kept, 1..k - 1),
         \/ ReadName \/ ReadWindows \/ ReadPosix \/ ReadBlock
         \/ ReadEncrypt /\ Payload = Item.true,
         NEW fs, fs = Kept'
  PROVE  Keeps(fs, 1..k)
<1> DEFINE H == Only(1..k - 1, "FILE")
           n == Len(entries) + 1
<1>1. /\ pc \in {"sub", "blocks"} /\ pc' = pc /\ entries' = entries
      /\ Sig \in {"NAME", "WINDOWS", "POSIX", "ENCRYPT", "BLOCK"}
  BY DEF ReadName, ReadWindows, ReadPosix, ReadBlock, ReadEncrypt, Reads, TakePayload, result
<1>2. PICK es : es = Kept
  OBVIOUS
<1>3. PICK f : f = cur'
  OBVIOUS
<1>4. es = Append(entries, cur) /\ fs = Append(entries, f)
  BY <1>1, <1>2, <1>3 DEF Kept
<1>5. /\ entries \in Seq(ParsedEntries) /\ Len(entries) \in Nat
      /\ Len(es) = n /\ Len(fs) = n /\ n \in Nat /\ es[n] = cur /\ fs[n] = f
      /\ \A i \in 1..n : i < n => fs[i] = es[i]
  BY <1>4, KeptType
<1>6. Keeps(es, 1..k - 1) /\ k \in Nat \ {0}
  BY <1>2
<1>7. ASSUME NEW h \in H, Rank(h, H) = n
      PROVE  Knows(f, h, RecordsOf(h, 1..k - 1) \cup {k})
  <2>1. Knows(cur, h, RecordsOf(h, 1..k - 1))
    BY <1>5, <1>6, <1>7 DEF Keeps
  <2>2. n = Cardinality(H)
    BY <1>5, <1>6 DEF Keeps
  <2>3. \A m \in h + 1..k : file.items[m].sig # "FILE"
    BY <1>1, <1>6, <1>7, <2>2, LastHeader
  <2>4. h \in Nat
    BY DEF Only
  <2> QED
    BY <1>3, <2>1, <2>3, <2>4, KnowsRecord
<1>8. file.items[k].sig # "FILE"
  BY <1>1
<1> QED
  BY <1>5, <1>6, <1>7, <1>8, KeepsGrow

\* What the records say does not change, for the file does not.
LEMMA FileStays ==
  ASSUME file' = file
  PROVE  /\ \A es, S : Keeps(es, S)' <=> Keeps(es, S)
         /\ \A S, sig : Only(S, sig)' = Only(S, sig)
         /\ \A i, S : RecordsOf(i, S)' = RecordsOf(i, S)
         /\ \A R : OwnName(R)' = OwnName(R) /\ Parent(R)' = Parent(R)
         /\ \A e, i, R : Tells(e, i, R)' <=> Tells(e, i, R)
         /\ Present' = Present
<1>1. ASSUME NEW S, NEW sig PROVE Only(S, sig)' = Only(S, sig)
  BY DEF Only
<1>2. ASSUME NEW i, NEW S PROVE RecordsOf(i, S)' = RecordsOf(i, S)
  BY DEF RecordsOf
<1>3. ASSUME NEW R
      PROVE  /\ OwnName(R)' = OwnName(R) /\ Parent(R)' = Parent(R) /\ Time(R)' = Time(R)
             /\ (IsDir(R)' <=> IsDir(R)) /\ Cipher(R)' = Cipher(R)
  <2>1. OwnName(R)' = OwnName(R) /\ Parent(R)' = Parent(R)
    BY <1>1 DEF OwnName, Parent
  <2>2. Time(R)' = Time(R)
    BY <1>1 DEF Time
  <2>3. IsDir(R)' <=> IsDir(R)
    BY <1>1 DEF IsDir
  <2>4. Cipher(R)' = Cipher(R)
    BY <1>1 DEF Cipher
  <2> QED
    BY <2>1, <2>2, <2>3, <2>4
<1>4. ASSUME NEW e, NEW i, NEW R
      PROVE  (Knows(e, i, R)' <=> Knows(e, i, R)) /\ (Tells(e, i, R)' <=> Tells(e, i, R))
  <2>1. IsDir(R)' = IsDir(R)
    BY <1>3 DEF IsDir
  <2>2. Only(R, "BLOCK")' = Only(R, "BLOCK")
    BY <1>1
  <2> QED
    BY <1>3, <2>1, <2>2 DEF Knows, Tells
<1>5. ASSUME NEW es, NEW S PROVE Keeps(es, S)' <=> Keeps(es, S)
  BY <1>1, <1>2, <1>4 DEF Keeps
<1> QED
  BY <1>1, <1>2, <1>3, <1>4, <1>5 DEF Present

\* The flags of the archive after one more record.
LEMMA FlagsStep ==
  ASSUME NEW k \in Nat \ {0}, Flags(1..k - 1), file' = file,
         is_solid' <=> is_solid \/ file.items[k].sig = "SOLID",
         is_encrypted' <=> is_encrypted \/ file.items[k].sig = "ENCRYPT"
  PROVE  Flags(1..k)'
<1>1. 1..k = (1..k - 1) \cup {k}
  OBVIOUS
<1>2. \A sig : Only(1..k, sig) # {} <=> Only(1..k - 1, sig) # {} \/ file.items[k].sig = sig
  BY <1>1 DEF Only
<1>3. /\ is_solid' <=> Only(1..k, "SOLID") # {}
      /\ is_encrypted' <=> Only(1..k, "ENCRYPT") # {}
  BY <1>2 DEF Flags
<1> QED
  BY <1>3, FileStays DEF Flags

\* The parser stands in front of one record only.
LEMMA AtUnique ==
  ASSUME file \in Files, file' = file, NEW n \in 1..Len(file.items), NEW m \in 1..Len(file.items),
         AtRecord(n)', AtRecord(m)'
  PROVE  n = m
<1>1. file.items[n].pos = pos' /\ file.items[m].pos = pos'
  BY DEF AtRecord
<1>2. Len(file.items) \in Nat /\ file.items[n].pos \in Nat
  BY FileFacts
<1>3. ~(n < m) /\ ~(m < n)
  BY <1>1, <1>2, FileFacts
<1> QED
  BY <1>2, <1>3

\* In front of record k, everything in front of it is kept.
LEMMA KeptAt ==
  ASSUME Inv2, Content, ~faulted, Sane(file), pc \in Loops, NEW k \in Nat, AtRecord(k)
  PROVE  /\ k \in 1..Len(file.items) /\ k \in Nat \ {0} /\ k + 1 - 1 = k
         /\ Keeps(Kept, 1..k - 1) /\ Flags(1..k - 1)
         /\ Item = file.items[k] /\ IsRecord(Item) /\ file.items[k].pos = pos
         /\ Len(Kept) \in Nat
<1>1. k \in 1..Len(file.items) /\ KeepsUpTo(k)
  BY DEF Content, AtRecord
<1>2. Item = file.items[k] /\ IsRecord(Item) /\ file.items[k].pos = pos
  BY AtFacts DEF Inv2
<1>3. Len(Kept) \in Nat
  BY KeptType DEF Inv2
<1>4. k \in Nat \ {0} /\ k + 1 - 1 = k
  BY <1>1
<1> QED
  BY <1>1, <1>2, <1>3, <1>4 DEF KeepsUpTo

LEMMA Arrives ==
  ASSUME file' = file, NEW k \in Nat, NEW n, n - 1 = k, NEW fs, fs = Kept', Keeps(fs, 1..k),
         Flags(1..k)'
  PROVE  KeepsUpTo(n)'
<1>1. Keeps(fs, 1..k)'
  BY FileStays
<1>2. Keeps(Kept, 1..n - 1)'
  BY <1>1 DEF Keeps
<1> QED
  BY <1>2 DEF KeepsUpTo

\* The steps over records that say nothing of an entry.
LEMMA PassesOver ==
  ASSUME Inv2, Content, ~faulted, Sane(file),
         \/ ReadHeader \/ ReadSplit \/ ReadSolid \/ EndPrefix \/ SkipRecord \/ EndSub
         \/ VolumeEnd
  PROVE  \E n \in 1..Len(file.items) : AtRecord(n)' /\ KeepsUpTo(n)'
<1>1. /\ pc \in Loops /\ file' = file /\ entries' = entries /\ cur' = cur
      /\ pc' \in {"sub", "blocks"} <=> pc \in {"sub", "blocks"}
      /\ Sig \in {"EGG", "SPLIT", "SOLID", "END", "SKIP", "GLOBAL", "COMMENT", "DUMMY"}
      /\ is_encrypted' = is_encrypted
      /\ is_solid' = (is_solid \/ Sig = "SOLID")
  BY DEF ReadHeader, ReadSplit, ReadSolid, EndPrefix, SkipRecord, EndSub, VolumeEnd, Reads,
         Loops, result, Inv2, Inv1, TypeOK
<1>2. PICK k \in Nat : OnFrom(k, k + 1)
  <2>1. CASE VolumeEnd
    BY <2>1, EndsInPlace DEF VolumeEnd, Reads
  <2>2. CASE ~VolumeEnd
    BY <2>2, OneRecordOn
  <2> QED
    BY <2>1, <2>2
<1>3. AtRecord(k) /\ Item.sig = Sig /\ k + 1 \in 1..Len(file.items) /\ AtRecord(k + 1)'
  BY <1>2 DEF OnFrom
<1>4. /\ k \in Nat \ {0} /\ k + 1 - 1 = k /\ Keeps(Kept, 1..k - 1) /\ Flags(1..k - 1)
      /\ Item = file.items[k] /\ Len(Kept) \in Nat
  BY <1>1, <1>3, KeptAt
<1>5. PICK es : es = Kept
  OBVIOUS
<1>6. es = Kept'
  BY <1>1, <1>5 DEF Kept
<1>7. Keeps(es, 1..k)
  BY <1>1, <1>3, <1>4, <1>5, KeepsNothing
<1>8. Flags(1..k)'
  <2>1. /\ is_solid' <=> is_solid \/ file.items[k].sig = "SOLID"
        /\ is_encrypted' <=> is_encrypted \/ file.items[k].sig = "ENCRYPT"
    BY <1>1, <1>3, <1>4
  <2> QED
    BY <1>1, <1>4, <2>1, FlagsStep
<1>9. KeepsUpTo(k + 1)'
  BY <1>1, <1>4, <1>6, <1>7, <1>8, Arrives
<1> QED
  BY <1>3, <1>9

\* A header starts an entry.
LEMMA StartsEntry ==
  ASSUME Inv2, Content, ~faulted, Sane(file), StartEntry
  PROVE  \E n \in 1..Len(file.items) : AtRecord(n)' /\ KeepsUpTo(n)'
<1>1. /\ pc = "entries" /\ pc' = "sub" /\ file' = file /\ entries' = entries
      /\ cur' = NewEntry(Item) /\ Sig = "FILE"
      /\ is_encrypted' = is_encrypted /\ is_solid' = is_solid
  BY DEF StartEntry, Reads, result
<1>2. PICK k \in Nat : OnFrom(k, k + 1)
  BY OneRecordOn
<1>3. AtRecord(k) /\ Item.sig = Sig /\ k + 1 \in 1..Len(file.items) /\ AtRecord(k + 1)'
  BY <1>2 DEF OnFrom
<1>4. /\ k \in Nat \ {0} /\ k + 1 - 1 = k /\ Keeps(Kept, 1..k - 1) /\ Flags(1..k - 1)
      /\ Item = file.items[k] /\ Len(Kept) \in Nat
  BY <1>1, <1>3, KeptAt DEF Loops
<1>5. PICK es : es = entries
  OBVIOUS
<1>6. PICK e : e = NewEntry(Item)
  OBVIOUS
<1>7. PICK fs : fs = Append(es, e)
  OBVIOUS
<1>8. es = Kept /\ fs = Kept'
  BY <1>1, <1>5, <1>6, <1>7 DEF Kept
<1>9. /\ Len(es) \in Nat /\ Len(fs) = Len(es) + 1 /\ fs[Len(es) + 1] = e
      /\ \A i \in 1..Len(es) : fs[i] = es[i]
  BY <1>5, <1>7, KeptType DEF Inv2
<1>10. Keeps(fs, 1..k)
  <2>1. file.items[k].sig = "FILE" /\ e = NewEntry(file.items[k]) /\ Keeps(es, 1..k - 1)
    BY <1>1, <1>3, <1>4, <1>6, <1>8
  <2> QED
    BY <1>4, <1>9, <2>1, KeepsNew
<1>11. Flags(1..k)'
  <2>1. /\ is_solid' <=> is_solid \/ file.items[k].sig = "SOLID"
        /\ is_encrypted' <=> is_encrypted \/ file.items[k].sig = "ENCRYPT"
    BY <1>1, <1>3, <1>4
  <2> QED
    BY <1>1, <1>4, <2>1, FlagsStep
<1>12. KeepsUpTo(k + 1)'
  BY <1>1, <1>4, <1>8, <1>10, <1>11, Arrives
<1> QED
  BY <1>3, <1>12

\* A sub-header is kept, unless the file was cut and the parser is lost.
LEMMA TakesSubHeader ==
  ASSUME Inv2, Content, ~faulted, Sane(file),
         ReadName \/ ReadWindows \/ ReadPosix \/ ReadEncrypt
  PROVE  (\E n \in 1..Len(file.items) : AtRecord(n)' /\ KeepsUpTo(n)') \/ Lost'
<1>1. /\ pc = "sub" /\ pc' = pc /\ file' = file
      /\ Sig \in {"NAME", "WINDOWS", "POSIX", "ENCRYPT"}
      /\ is_encrypted' = (is_encrypted \/ Sig = "ENCRYPT")
      /\ is_solid' = is_solid
  BY DEF ReadName, ReadWindows, ReadPosix, ReadEncrypt, TakePayload, Reads, result, Inv2, Inv1,
         TypeOK
<1>2. SUFFICES ASSUME ~Lost'
               PROVE  \E n \in 1..Len(file.items) : AtRecord(n)' /\ KeepsUpTo(n)'
  OBVIOUS
<1>3. PICK k \in Nat : OnFrom(k, k + 1) /\ (ReadEncrypt => Payload = Item.true)
  <2>1. CASE ReadEncrypt
    BY <1>2, <2>1, EncryptInPlace
  <2>2. CASE ~ReadEncrypt
    BY <2>2, OneRecordOn
  <2> QED
    BY <2>1, <2>2
<1>4. AtRecord(k) /\ Item.sig = Sig /\ k + 1 \in 1..Len(file.items) /\ AtRecord(k + 1)'
  BY <1>3 DEF OnFrom
<1>5. /\ k \in 1..Len(file.items) /\ k \in Nat \ {0} /\ k + 1 - 1 = k
      /\ Keeps(Kept, 1..k - 1) /\ Flags(1..k - 1)
      /\ Item = file.items[k] /\ IsRecord(Item) /\ file.items[k].pos = pos
  BY <1>1, <1>4, KeptAt DEF Loops
<1>6. PICK fs : fs = Kept'
  OBVIOUS
<1>7. Keeps(fs, 1..k)
  BY <1>3, <1>4, <1>5, <1>6, KeepsRecord DEF Inv2
<1>8. Flags(1..k)'
  <2>1. /\ is_solid' <=> is_solid \/ file.items[k].sig = "SOLID"
        /\ is_encrypted' <=> is_encrypted \/ file.items[k].sig = "ENCRYPT"
    BY <1>1, <1>4, <1>5
  <2> QED
    BY <1>1, <1>5, <2>1, FlagsStep
<1>9. KeepsUpTo(k + 1)'
  BY <1>1, <1>5, <1>6, <1>7, <1>8, Arrives
<1> QED
  BY <1>4, <1>9

\* A block and the end marker in front of its data.
LEMMA TakesBlock ==
  ASSUME Inv2, Content, ~faulted, Sane(file), ReadBlock
  PROVE  \E n \in 1..Len(file.items) : AtRecord(n)' /\ KeepsUpTo(n)'
<1>1. /\ pc = "blocks" /\ pc' = pc /\ file' = file /\ Sig = "BLOCK"
      /\ is_encrypted' = is_encrypted /\ is_solid' = is_solid
  BY DEF ReadBlock, Reads, result
<1>2. PICK k \in Nat : OnFrom(k, k + 2) /\ file.items[k + 1].sig = "END"
  BY BlockInPlace
<1>3. AtRecord(k) /\ Item.sig = Sig /\ k + 2 \in 1..Len(file.items) /\ AtRecord(k + 2)'
  BY <1>2 DEF OnFrom
<1>4. /\ k \in 1..Len(file.items) /\ k \in Nat \ {0}
      /\ Keeps(Kept, 1..k - 1) /\ Flags(1..k - 1)
      /\ Item = file.items[k] /\ IsRecord(Item) /\ file.items[k].pos = pos
  BY <1>1, <1>3, KeptAt DEF Loops
<1>5. PICK fs : fs = Kept'
  OBVIOUS
<1>6. Keeps(fs, 1..k)
  BY <1>3, <1>4, <1>5, KeepsRecord DEF Inv2
<1>7. PICK m \in Nat \ {0} : m = k + 1 /\ m - 1 = k /\ k + 2 - 1 = m
  BY <1>4
<1>8. Keeps(fs, 1..m)
  <2>1. Len(fs) \in Nat
    BY <1>5, Inv1Next, KeptType DEF Inv2, Next, Proceeds
  <2> QED
    BY <1>2, <1>6, <1>7, <2>1, KeepsNothing
<1>9. Flags(1..m)'
  <2>1. file.items[k].sig = "BLOCK" /\ file.items[m].sig = "END"
    BY <1>1, <1>2, <1>3, <1>4, <1>7
  <2>2. 1..m = (1..k - 1) \cup {k, m}
    BY <1>4, <1>7
  <2>3. \A sig : sig \notin {"BLOCK", "END"} => Only(1..m, sig) = Only(1..k - 1, sig)
    BY <2>1, <2>2 DEF Only
  <2>4. Only(1..m, "SOLID")' = Only(1..k - 1, "SOLID")
        /\ Only(1..m, "ENCRYPT")' = Only(1..k - 1, "ENCRYPT")
    BY <1>1, <2>3, FileStays
  <2> QED
    BY <1>1, <1>4, <2>4 DEF Flags
<1>10. KeepsUpTo(k + 2)'
  BY <1>1, <1>5, <1>7, <1>8, <1>9, Arrives
<1> QED
  BY <1>3, <1>10

\* An entry that is over is one of the entries.
LEMMA ClosesEntry ==
  ASSUME Inv2, Content, ~faulted, Sane(file), EndEntry
  PROVE  \E n \in 1..Len(file.items) : AtRecord(n)' /\ KeepsUpTo(n)'
<1>1. /\ pc = "blocks" /\ pc' = "entries" /\ file' = file /\ entries' = Append(entries, cur)
      /\ is_encrypted' = is_encrypted /\ is_solid' = is_solid
  BY DEF EndEntry
<1>2. PICK k \in Nat : OnFrom(k, k)
  BY EndEntryInPlace
<1>3. AtRecord(k) /\ k \in 1..Len(file.items) /\ AtRecord(k)'
  BY <1>2 DEF OnFrom
<1>4. Keeps(Kept, 1..k - 1) /\ Flags(1..k - 1)
  BY <1>1, <1>3, KeptAt DEF Loops
<1>5. PICK es : es = Kept
  OBVIOUS
<1>6. es = Kept'
  BY <1>1, <1>5 DEF Kept
<1>7. Flags(1..k - 1)'
  BY <1>1, <1>4, FileStays DEF Flags
<1>8. PICK j \in Nat : j = k - 1
  BY <1>3
<1>9. KeepsUpTo(k)'
  BY <1>1, <1>4, <1>5, <1>6, <1>7, <1>8, Arrives
<1> QED
  BY <1>3, <1>9

\* When the archive is over, all that the file still has was read.
LEMMA AllKept ==
  ASSUME Inv2, Content, ~faulted, Sane(file), ArchiveEnd
  PROVE  Keeps(entries, Present)' /\ Flags(Present)'
<1>1. /\ pc = "entries" /\ Sig = "END" /\ ~MoreFollows /\ pos' = pos + 4 /\ file' = file
      /\ entries' = entries /\ is_encrypted' = is_encrypted /\ is_solid' = is_solid
  BY DEF ArchiveEnd, Reads, result
<1>2. PICK k \in 1..Len(file.items) : AtRecord(k) /\ EndsAt(k)
  BY <1>1, EndsInPlace
<1>3. Len(file.items) \in Nat /\ k \in Nat /\ file.len \in Nat
  BY <1>2, FileFacts DEF Inv2, Inv1
<1>4. /\ k \in Nat \ {0} /\ Keeps(Kept, 1..k - 1) /\ Flags(1..k - 1) /\ Len(Kept) \in Nat
  BY <1>1, <1>2, <1>3, KeptAt DEF Loops
<1>5. file.items[k].sig = "END" /\ file.items[k].pos + 4 <= file.len
      /\ \A j \in k + 1..Len(file.items) : file.items[j].pos + 4 > file.len
  BY <1>2 DEF EndsAt, EndsVolume
<1>6. Present = 1..k
  <2>1. ASSUME NEW j \in 1..Len(file.items), j <= k PROVE j \in Present
    <3>1. file.items[j].pos \in Nat /\ file.items[k].pos \in Nat
      BY FileFacts DEF Inv2, Inv1
    <3>2. j < k => file.items[j].pos < file.items[k].pos
      BY FileFacts DEF Inv2, Inv1
    <3>3. j = k \/ j < k
      BY <1>3, <2>1
    <3>4. ASSUME NEW a \in Nat, NEW b \in Nat, a <= b, b + 4 <= file.len
          PROVE  a + 4 <= file.len
      BY <1>3, <3>4
    <3>5. file.items[j].pos <= file.items[k].pos
      BY <3>1, <3>2, <3>3
    <3> QED
      BY <1>5, <3>1, <3>4, <3>5 DEF Present
  <2>2. ASSUME NEW j \in 1..Len(file.items), j > k PROVE j \notin Present
    <3>1. j \in k + 1..Len(file.items)
      BY <1>3, <2>2
    <3>2. file.items[j].pos \in Nat
      BY FileFacts DEF Inv2, Inv1
    <3>3. ~(file.items[j].pos + 4 <= file.len)
      BY <1>3, <1>5, <3>1, <3>2
    <3> QED
      BY <3>3 DEF Present
  <2> QED
    BY <1>3, <2>1, <2>2 DEF Present
<1>7. PICK es : es = entries
  OBVIOUS
<1>8. es = Kept /\ es = entries'
  BY <1>1, <1>7 DEF Kept
<1>9. Keeps(es, 1..k)
  BY <1>4, <1>5, <1>8, KeepsNothing
<1>10. Keeps(es, Present)'
  BY <1>1, <1>6, <1>9, FileStays
<1>11. Flags(1..k)'
  BY <1>1, <1>4, <1>5, FlagsStep
<1>12. Keeps(entries, Present)'
  BY <1>8, <1>10 DEF Keeps
<1>13. Flags(Present)'
  <2>1. Present' = 1..k
    BY <1>1, <1>6, FileStays
  <2> QED
    BY <1>11, <2>1 DEF Flags
<1> QED
  BY <1>12, <1>13

-----------------------------------------------------------------------------
(* Names that are relative to another entry's                                *)

\* The prefix that is put in front of a name is the name of the parent, of which
\* there is one at most.
LEMMA PrefixIsParents ==
  ASSUME Inv1, Sane(file), Keeps(entries, Present), NEW i \in Headers
  PROVE  /\ Rank(i, Headers) \in 1..Len(entries)
         /\ Knows(entries[Rank(i, Headers)], i, RecordsOf(i, Present))
         /\ Prefix(entries, Rank(i, Headers)) = ParentName(i)
<1> DEFINE At(m) == Rank(m, Headers)
           P == Parent(RecordsOf(i, Present))
           parents == {m \in Headers \ {i} : file.items[m].id = P}
<1>1. /\ Headers \in SUBSET (1..Len(file.items)) /\ Len(file.items) \in Nat
      /\ Len(entries) = Cardinality(Headers)
  BY FileFacts DEF Headers, Only, Present, Inv1, Keeps
<1>2. ASSUME NEW m \in Headers
      PROVE  /\ At(m) \in 1..Len(entries) /\ At(m) \in Nat
             /\ Knows(entries[At(m)], m, RecordsOf(m, Present))
             /\ file.items[m].sig = "FILE" /\ file.items[m].id \in Nat
             /\ entries[At(m)].id = file.items[m].id
  <2>1. At(m) \in 1..Cardinality(Headers)
    BY <1>1, RankFacts
  <2>2. Knows(entries[At(m)], m, RecordsOf(m, Present))
    BY DEF Keeps, Headers
  <2>3. file.items[m].sig = "FILE" /\ m \in 1..Len(file.items)
    BY DEF Headers, Only, Present
  <2>4. IsRecord(file.items[m])
    BY <2>3, FileFacts DEF Inv1
  <2> QED
    BY <1>1, <2>1, <2>2, <2>3, <2>4 DEF IsRecord, Knows, Tells
<1>3. ASSUME NEW n \in 1..Len(entries) PROVE \E m \in Headers : n = At(m)
  BY DEF Keeps, Headers
<1>4. ASSUME NEW a \in Headers, NEW b \in Headers, At(a) = At(b) \/ file.items[a].id = file.items[b].id
      PROVE  a = b
  <2>1. a \in 1..Len(file.items) /\ b \in 1..Len(file.items) /\ a \in Nat /\ b \in Nat
    BY <1>1
  <2>2. file.items[a].sig = "FILE" /\ file.items[b].sig = "FILE"
    BY <1>2
  <2>3. ~(a < b)
    <3>1. SUFFICES ASSUME a < b PROVE FALSE
      OBVIOUS
    <3>2. file.items[a].id # file.items[b].id
      BY <2>1, <2>2, <3>1 DEF Sane, OneEach
    <3>3. At(a) < At(b) /\ At(a) \in Nat /\ At(b) \in Nat
      BY <1>1, <1>2, <3>1, RankFacts
    <3> QED
      BY <1>4, <3>2, <3>3
  <2>4. ~(b < a)
    <3>1. SUFFICES ASSUME b < a PROVE FALSE
      OBVIOUS
    <3>2. file.items[b].id # file.items[a].id
      BY <2>1, <2>2, <3>1 DEF Sane, OneEach
    <3>3. At(b) < At(a) /\ At(a) \in Nat /\ At(b) \in Nat
      BY <1>1, <1>2, <3>1, RankFacts
    <3> QED
      BY <1>4, <3>2, <3>3
  <2> QED
    BY <2>1, <2>3, <2>4
<1>5. entries[At(i)].parent = P
  BY <1>2 DEF Knows, Tells
<1>6. ASSUME NEW j \in Named(entries, P)
      PROVE  \E m \in Headers : j = At(m) /\ file.items[m].id = P
  <2>1. j \in 1..Len(entries) /\ entries[j].id = P
    BY DEF Named
  <2>2. PICK m \in Headers : j = At(m)
    BY <1>3, <2>1
  <2> QED
    BY <1>2, <2>1, <2>2
<1>7. ParentName(i) = IF parents = {} THEN << >>
                      ELSE OwnName(RecordsOf(CHOOSE m \in parents : TRUE, Present))
  BY DEF ParentName
<1>8. CASE P = NoId \/ ~ \E m \in Headers : file.items[m].id = P
  <2>1. \A m \in Headers : file.items[m].id # P
    BY <1>2, <1>8 DEF NoId
  <2>2. parents = {} /\ Named(entries, P) = {}
    BY <1>6, <2>1
  <2> QED
    BY <1>2, <1>5, <1>7, <2>2 DEF Prefix
<1>9. CASE P # NoId /\ \E m \in Headers : file.items[m].id = P
  <2>1. PICK m \in Headers : file.items[m].id = P
    BY <1>9
  <2>2. At(m) \in Named(entries, P)
    BY <1>2, <2>1 DEF Named
  <2>3. \A j \in Named(entries, P) : j = At(m)
    BY <1>4, <1>6, <2>1
  <2>4. Named(entries, P) = {At(m)} /\ At(m) \in Nat
    BY <1>2, <2>2, <2>3
  <2>5. Greatest({At(m)}) = At(m)
    BY <2>4 DEF Greatest
  <2>6. Prefix(entries, At(i)) = IF At(m) = At(i) THEN << >> ELSE entries[At(m)].name
    BY <1>5, <1>9, <2>4, <2>5 DEF Prefix
  <2>7. CASE m = i
    <3>1. parents = {}
      BY <1>4, <2>1, <2>7
    <3> QED
      BY <1>2, <1>7, <2>6, <2>7, <3>1
  <2>8. CASE m # i
    <3>1. parents = {m}
      BY <1>4, <2>1, <2>8
    <3>2. ParentName(i) = OwnName(RecordsOf(m, Present))
      BY <1>7, <3>1
    <3>3. entries[At(m)].name = OwnName(RecordsOf(m, Present))
      BY <1>2 DEF Knows
    <3>4. At(m) # At(i)
      BY <1>4, <2>8
    <3> QED
      BY <1>2, <2>6, <3>2, <3>3, <3>4
  <2> QED
    BY <2>7, <2>8
<1> QED
  BY <1>8, <1>9

LEMMA NamesStay ==
  ASSUME file' = file
  PROVE  Headers' = Headers /\ \A i : ParentName(i)' = ParentName(i)
<1>1. Headers' = Headers
  BY FileStays DEF Headers
<1>2. PICK S : S = Present
  OBVIOUS
<1>3. ASSUME NEW i PROVE ParentName(i)' = ParentName(i)
  <2>1. /\ Present' = S /\ \A R : OwnName(R)' = OwnName(R)
        /\ \A m : RecordsOf(m, S)' = RecordsOf(m, S)
        /\ Parent(RecordsOf(i, S))' = Parent(RecordsOf(i, S))
    BY <1>2, FileStays
  <2> QED
    BY <1>1, <1>2, <2>1 DEF ParentName
<1> QED
  BY <1>1, <1>3

\* resolve_relative_paths makes what was kept what was written.
LEMMA ResolvesNames ==
  ASSUME Inv2, Content, ~faulted, Sane(file), Resolve
  PROVE  OpensWhatWasWritten'
<1>1. /\ pc = "resolve" /\ entries' = Resolved /\ file' = file
      /\ is_solid' = is_solid /\ is_encrypted' = is_encrypted
  BY DEF Resolve
<1>2. Keeps(entries, Present) /\ Flags(Present)
  BY <1>1 DEF Content
<1>3. /\ is_solid' \in BOOLEAN /\ is_encrypted' \in BOOLEAN
      /\ entries \in Seq(ParsedEntries) /\ Len(entries) \in Nat
  BY <1>1, KeptType DEF Inv2, Inv1, TypeOK
<1>4. PICK es : es = Resolved
  OBVIOUS
<1>5. Len(es) = Len(entries) /\ \A n \in 1..Len(entries) : es[n] = WithPrefix(entries, n)
  BY <1>3, <1>4 DEF Resolved
<1>6. Len(es) = Cardinality(Headers)
  BY <1>2, <1>5 DEF Keeps, Headers
<1>7. ASSUME NEW i \in Headers
      PROVE  /\ Tells(es[Rank(i, Headers)], i, RecordsOf(i, Present))
             /\ es[Rank(i, Headers)].name = ParentName(i) \o OwnName(RecordsOf(i, Present))
  <2>1. PICK n : n = Rank(i, Headers)
    OBVIOUS
  <2>2. /\ n \in 1..Len(entries) /\ Knows(entries[n], i, RecordsOf(i, Present))
        /\ Prefix(entries, n) = ParentName(i)
    BY <1>2, <2>1, PrefixIsParents DEF Inv2
  <2>3. PICK pre : pre = ParentName(i)
    OBVIOUS
  <2>4. PICK e \in ParsedEntries : e = entries[n]
    BY <1>3, <2>2
  <2>5. PICK q : q = pre \o e.name
    OBVIOUS
  <2>6. es[n] = [e EXCEPT !.name = q]
    <3>1. es[n] = [entries[n] EXCEPT !.name = Prefix(entries, n) \o @]
      BY <1>5, <2>2 DEF WithPrefix
    <3>2. Prefix(entries, n) = pre
      BY <2>2, <2>3
    <3> QED
      BY <2>4, <2>5, <3>1, <3>2, Zenon
  <2>7. /\ es[n].name = q
        /\ es[n].id = e.id /\ es[n].size = e.size
        /\ es[n].parent = e.parent /\ es[n].time = e.time
        /\ es[n].dir = e.dir /\ es[n].cipher = e.cipher
        /\ es[n].blocks = e.blocks
    BY <2>6 DEF ParsedEntries
  <2>8. Knows(e, i, RecordsOf(i, Present))
    BY <2>2, <2>4
  <2> QED
    BY <2>1, <2>3, <2>5, <2>7, <2>8 DEF Knows, Tells
<1>8. is_solid' = (Only(Present, "SOLID") # {}) /\ is_encrypted' = (Only(Present, "ENCRYPT") # {})
  BY <1>1, <1>2, <1>3 DEF Flags
<1> QED
  BY <1>1, <1>4, <1>6, <1>7, <1>8, FileStays, NamesStay DEF OpensWhatWasWritten

-----------------------------------------------------------------------------
(* ... all the time                                                          *)

LEMMA ContentInit ==
  ASSUME Init, Inv1
  PROVE  Content
<1>1. SUFFICES ASSUME Sane(file), NEW k \in 1..Len(file.items), AtRecord(k)
               PROVE  KeepsUpTo(k)
  BY DEF Init, Content, OpensWhatWasWritten
<1>2. k \in Nat /\ Len(file.items) \in Nat /\ file.items[1].pos = 0
      /\ file.items[k].pos = 0 /\ 1 \in 1..Len(file.items)
  BY <1>1, FileFacts DEF Inv1, Sane, AtRecord, Init
<1>3. k = 1
  <2>1. ~(1 < k)
    BY <1>2, FileFacts DEF Inv1
  <2> QED
    BY <1>1, <1>2, <2>1
<1>4. 1..k - 1 = {}
  BY <1>3
<1>5. \A sig : Only(1..k - 1, sig) = {}
  BY <1>4 DEF Only
<1>6. Kept = << >> /\ is_solid = FALSE /\ is_encrypted = FALSE
  BY DEF Init, Kept
<1>7. Cardinality({}) = 0 /\ Len(<< >>) = 0
  BY FS_EmptySet
<1>8. Keeps(Kept, 1..k - 1)
  <2>1. 1..Len(Kept) = {} /\ Len(Kept) = 0
    BY <1>6, <1>7
  <2> QED
    BY <1>5, <1>7, <2>1 DEF Keeps
<1>9. Flags(1..k - 1)
  BY <1>5, <1>6 DEF Flags
<1> QED
  BY <1>8, <1>9 DEF KeepsUpTo

\* Where the parser stands still, nothing is to be shown.
LEMMA ContentStays ==
  ASSUME Inv2, Content, UNCHANGED vars
  PROVE  Content'
<1>1. /\ file' = file /\ pc' = pc /\ faulted' = faulted /\ pos' = pos /\ cur' = cur
      /\ entries' = entries /\ is_solid' = is_solid /\ is_encrypted' = is_encrypted
  BY DEF vars, result
<1>2. PICK es : es = entries
  OBVIOUS
<1>3. PICK fs : fs = Kept
  OBVIOUS
<1>4. es = entries' /\ fs = Kept'
  BY <1>1, <1>2, <1>3 DEF Kept
<1>5. ASSUME NEW S PROVE Flags(S)' <=> Flags(S)
  BY <1>1, FileStays DEF Flags
<1>6. ASSUME NEW k PROVE (AtRecord(k)' <=> AtRecord(k)) /\ (KeepsUpTo(k)' <=> KeepsUpTo(k))
  <2>1. Keeps(Kept, 1..k - 1)' <=> Keeps(fs, 1..k - 1)'
    BY <1>4 DEF Keeps
  <2>2. Keeps(fs, 1..k - 1)' <=> Keeps(fs, 1..k - 1)
    BY <1>1, FileStays
  <2> QED
    BY <1>1, <1>3, <1>5, <2>1, <2>2 DEF AtRecord, KeepsUpTo
<1>7. Keeps(entries, Present)' /\ Flags(Present)' <=> Keeps(entries, Present) /\ Flags(Present)
  <2>1. PICK S : S = Present
    OBVIOUS
  <2>2. S = Present'
    BY <1>1, <2>1, FileStays
  <2>3. Keeps(entries, Present)' <=> Keeps(es, S)'
    BY <1>4, <2>2 DEF Keeps
  <2>4. Keeps(es, S)' <=> Keeps(es, S)
    BY <1>1, FileStays
  <2>5. Flags(Present)' <=> Flags(S)'
    BY <2>2 DEF Flags
  <2> QED
    BY <1>2, <1>5, <2>1, <2>3, <2>4, <2>5
<1>8. OpensWhatWasWritten'
  BY <1>1, <1>2, <1>4, FileStays, NamesStay DEF Content, OpensWhatWasWritten
<1> QED
  BY <1>1, <1>6, <1>7, <1>8 DEF Content

LEMMA ContentNext ==
  ASSUME Inv2, Content, [Next \/ Done]_vars
  PROVE  Content'
<1>1. CASE UNCHANGED vars
  BY <1>1, ContentStays
<1>2. CASE Faults
  BY <1>2 DEF Faults, ReadFails, PeekFails, ProbeFails, Content, OpensWhatWasWritten
<1>3. CASE Proceeds
  <2>1. file' = file /\ faulted' = faulted
    BY <1>3 DEF Proceeds, ReadHeader, ReadSplit, ReadSolid, EndPrefix, SkipRecord, StartEntry,
       VolumeEnd, ArchiveEnd, ReadName, ReadWindows, ReadPosix, ReadEncrypt, EndSub, ReadBlock,
       EndEntry, Resolve, Refuse, TakePayload
  <2>2. SUFFICES ASSUME ~faulted, Sane(file)
                 PROVE  /\ pc' \in Loops => \A k \in 1..Len(file.items) : AtRecord(k)' => KeepsUpTo(k)'
                        /\ pc' = "resolve" => Keeps(entries, Present)' /\ Flags(Present)'
                        /\ pc' = "ok" => OpensWhatWasWritten'
    BY <2>1 DEF Content, OpensWhatWasWritten
  <2> DEFINE Goes == /\ pc' \in Loops
                     /\ (\E n \in 1..Len(file.items) : AtRecord(n)' /\ KeepsUpTo(n)') \/ Lost'
  <2>3. CASE Goes
    <3>1. pc' \in Loops /\ pc' # "resolve" /\ pc' # "ok"
      BY <2>3 DEF Loops
    <3>2. ASSUME NEW k \in 1..Len(file.items), AtRecord(k)' PROVE KeepsUpTo(k)'
      <4>1. ~Lost'
        <5>1. k \in RecordsAt(pos)'
          BY <2>1, <3>2 DEF AtRecord, RecordsAt
        <5> QED
          BY <5>1 DEF Lost
      <4>2. PICK n \in 1..Len(file.items) : AtRecord(n)' /\ KeepsUpTo(n)'
        BY <2>3, <4>1
      <4>3. n = k
        BY <2>1, <3>2, <4>2, AtUnique DEF Inv2, Inv1
      <4> QED
        BY <4>2, <4>3
    <3> QED
      BY <3>1, <3>2
  <2>4. CASE \/ ReadHeader \/ ReadSplit \/ ReadSolid \/ EndPrefix \/ SkipRecord \/ EndSub
             \/ VolumeEnd
    <3>1. pc' \in Loops
      BY <2>4 DEF ReadHeader, ReadSplit, ReadSolid, EndPrefix, SkipRecord, EndSub, VolumeEnd,
         Reads, Loops
    <3> QED
      BY <2>2, <2>3, <2>4, <3>1, PassesOver
  <2>5. CASE StartEntry
    <3>1. pc' \in Loops
      BY <2>5 DEF StartEntry, Loops
    <3> QED
      BY <2>2, <2>3, <2>5, <3>1, StartsEntry
  <2>6. CASE ReadName \/ ReadWindows \/ ReadPosix \/ ReadEncrypt
    <3>1. pc' \in Loops
      BY <2>6 DEF ReadName, ReadWindows, ReadPosix, ReadEncrypt, TakePayload, Reads, Loops
    <3> QED
      BY <2>2, <2>3, <2>6, <3>1, TakesSubHeader
  <2>7. CASE ReadBlock
    <3>1. pc' \in Loops
      BY <2>7 DEF ReadBlock, Reads, Loops
    <3> QED
      BY <2>2, <2>3, <2>7, <3>1, TakesBlock
  <2>8. CASE EndEntry
    <3>1. pc' \in Loops
      BY <2>8 DEF EndEntry, Loops
    <3> QED
      BY <2>2, <2>3, <2>8, <3>1, ClosesEntry
  <2>9. CASE ArchiveEnd
    <3>1. pc' = "resolve"
      BY <2>9 DEF ArchiveEnd
    <3> QED
      BY <2>2, <2>9, <3>1, AllKept DEF Loops
  <2>10. CASE Resolve
    <3>1. pc' = "ok"
      BY <2>10 DEF Resolve
    <3> QED
      BY <2>2, <2>10, <3>1, ResolvesNames DEF Loops
  <2>11. CASE Refuse
    BY <2>11 DEF Refuse, Loops
  <2> HIDE DEF Goes
  <2> QED
    BY <1>3, <2>4, <2>5, <2>6, <2>7, <2>8, <2>9, <2>10, <2>11 DEF Proceeds
<1> QED
  BY <1>1, <1>2, <1>3 DEF Next, Done

-----------------------------------------------------------------------------
(* Theorems                                                                  *)

LEMMA AlwaysInPlace == Spec => []Inv2
<1>1. Init => Inv2
  BY Inv1Init, InPlaceInit DEF Inv2
<1>2. Inv2 /\ [Next \/ Done]_vars => Inv2'
  BY Inv1Next, InPlaceNext DEF Inv2
<1> QED
  BY <1>1, <1>2, PTL DEF Spec

\* EggArchive::open: whatever bytes it is given, the entries it lists are well
\* formed, and no block of the entry at work begins past what it has read.
THEOREM ParserTypeOK == Spec => []TypeOK
<1>1. Inv2 => TypeOK
  BY DEF Inv2, Inv1
<1> QED
  BY <1>1, AlwaysInPlace, PTL

\* open and the peek behind an end marker: of the files that an archiver wrote
\* and something cut, those that open were cut behind the end of a volume, never
\* inside an entry or its data, at whatever byte the file ends.
THEOREM ParserNoticesCuts == Spec => []CutIsNoticed
<1>1. Inv2 => CutIsNoticed
  BY DEF Inv2, InPlace, EndsWithVolume, EndsAt, CutIsNoticed
<1> QED
  BY <1>1, AlwaysInPlace, PTL

\* open, with read_encrypt_payload and the records that are skipped: a whole
\* archive is never refused, whatever optional records it holds and whatever
\* sizes its encryption headers declare, unless reading it fails.
THEOREM ParserOpensWholeArchives == Spec => []WholeArchiveOpens
<1>1. Inv2 => WholeArchiveOpens
  BY DEF Inv2, InPlace, WholeArchiveOpens
<1> QED
  BY <1>1, AlwaysInPlace, PTL

\* What is kept of the records agrees with what was written, up to the record the
\* parser is at.
LEMMA AlwaysContent == Spec => []Content
<1>1. Init => Content
  BY Inv1Init, ContentInit
<1>2. Inv2 /\ Content /\ [Next \/ Done]_vars => Content'
  BY ContentNext
<1> QED
  BY <1>1, <1>2, AlwaysInPlace, PTL DEF Spec

\* open, parse_file_entry and resolve_relative_paths: of every file that an
\* archiver wrote, a cut one that opens included, the entries are those of its
\* headers in their order, each with the name, times, encryption and blocks that
\* its records say, whatever their number and order and whatever sizes are
\* overstated; and a relative name is behind its parent's, whether that entry is
\* an earlier one or a later one.
THEOREM ParserOpensWhatWasWritten == Spec => []OpensWhatWasWritten
<1>1. Content => OpensWhatWasWritten
  BY DEF Content
<1> QED
  BY <1>1, AlwaysContent, PTL
=============================================================================

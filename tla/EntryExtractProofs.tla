------------------------- MODULE EntryExtractProofs -------------------------
(***************************************************************************)
(* What EntryExtract promises, for every archive that is not solid.         *)
(***************************************************************************)
EXTENDS EntryExtract, TLAPS

\* setup_decryptor and verify_hmac have nothing against the entry, and it was
\* asked for under a name that safe_join accepts.
Accepted(e) == e.wanted /\ e.safe /\ ~e.dir /\ e.key /\ e.tag # "bad"

Refusals == {"name", "key", "tag", "corrupted"}

\* Where the loops stand, and what was accepted on the way.
Control ==
  /\ pc \in {"block", "cleanup"} =>
       /\ Accepted(Entry) /\ Entry.nb > 0
       /\ \A b \in 0..Entry.nb - 1 :
            b < blk => b \notin Entry.bad /\ Entry.cut[b + 1] - Entry.cut[b] <= Entry.limit[b]
       /\ blk < Entry.nb => out <= Entry.limit[blk]
  /\ pc = "block" /\ ~pipe => disk[Entry.path] \in Files
  /\ pc = "cleanup" => err \notin Refusals
  /\ pc = "ok" => idx = Len(entries) + 1

Inv1 == TypeOK /\ Control

\* Every path holds what it should, but for the file at work: that one holds
\* the bytes of the entry so far.
DiskOK ==
  /\ pc \in {"entry", "ok"} \/ (pc = "failed" /\ err \in Refusals) =>
       \A p \in Paths : disk[p] = Held(p)
  /\ pc \in {"block", "cleanup"} =>
       \A p \in Paths : p # Entry.path \/ pipe => disk[p] = Held(p)
  /\ pc = "block" /\ ~pipe => disk[Entry.path] = File(Bytes(idx, 0, Progress), None)

Inv2 == Inv1 /\ DiskOK

\* Byte j of entry i may leave the program.
MayEmit(i, j) ==
  /\ i \in 1..Len(entries) /\ Accepted(entries[i])
  /\ \A b \in 0..entries[i].nb - 1 :
       /\ j \in entries[i].cut[b]..entries[i].cut[b + 1] - 1 =>
            j - entries[i].cut[b] < entries[i].limit[b]
       /\ b \in entries[i].bad => j < entries[i].cut[b + 1]
Clean(s) == \A k \in 1..Len(s) : MayEmit(s[k][1], s[k][2])

\* Nothing that left it was a byte that may not.
AllClean ==
  /\ Clean(stdout)
  /\ \A p \in Paths : disk[p] \notin {Absent, Old, Dir} => Clean(disk[p].data)
  /\ pc = "block" /\ ~pipe => Clean(disk[Entry.path].data)

Inv3 == Inv1 /\ AllClean

-----------------------------------------------------------------------------

LEMMA EntriesFacts ==
  ASSUME entries \in Archives
  PROVE  /\ entries \in Seq({entries[i] : i \in DOMAIN entries})
         /\ Len(entries) \in Nat
         /\ \A i \in 1..Len(entries) : IsEntry(entries[i])
<1>1. entries \in Seq({entries[i] : i \in DOMAIN entries})
  BY ArchivesAssumption
<1> QED
  BY <1>1, ArchivesAssumption

\* The call never changes, nor what is said of it alone.
LEMMA CallKept ==
  ASSUME UNCHANGED call
  PROVE  /\ entries' = entries /\ pipe' = pipe /\ unmatched' = unmatched /\ before' = before
         /\ idx' = idx => Entry' = Entry
         /\ idx' = idx /\ blk' = blk => BlockLen' = BlockLen
BY DEF call, Entry, BlockLen

\* What is known of every entry.
LEMMA IndexFacts ==
  ASSUME entries \in Archives, NEW i \in 1..Len(entries)
  PROVE  /\ entries[i].path \in Paths /\ entries[i].nb \in Nat /\ entries[i].size \in Nat
         /\ entries[i].cut[0] = 0
         /\ \A b \in 0..entries[i].nb : entries[i].cut[b] \in Nat
         /\ \A a, b \in 0..entries[i].nb : a <= b => entries[i].cut[a] <= entries[i].cut[b]
         /\ \A b \in 0..entries[i].nb - 1 : entries[i].limit[b] \in Nat
         /\ entries[i].bad \subseteq 0..entries[i].nb - 1
         /\ entries[i].dir \in BOOLEAN /\ entries[i].time \in BOOLEAN
         /\ entries[i].wanted \in BOOLEAN
<1>1. IsEntry(entries[i])
  BY EntriesFacts
<1> QED
  BY <1>1 DEF IsEntry

LEMMA EntryFacts ==
  ASSUME TypeOK, idx <= Len(entries)
  PROVE  /\ idx \in 1..Len(entries)
         /\ Entry.path \in Paths /\ Entry.nb \in Nat /\ Entry.size \in Nat
         /\ Entry.cut[0] = 0
         /\ \A b \in 0..Entry.nb : Entry.cut[b] \in Nat
         /\ \A a, b \in 0..Entry.nb : a <= b => Entry.cut[a] <= Entry.cut[b]
         /\ \A b \in 0..Entry.nb - 1 : Entry.limit[b] \in Nat
         /\ Entry.bad \subseteq 0..Entry.nb - 1
         /\ Entry.dir \in BOOLEAN /\ Entry.time \in BOOLEAN /\ Entry.wanted \in BOOLEAN
<1>1. idx \in 1..Len(entries)
  BY EntriesFacts DEF TypeOK
<1> QED
  BY <1>1, IndexFacts DEF TypeOK, Entry

\* The block at work.
LEMMA BlockFacts ==
  ASSUME TypeOK, InBlock
  PROVE  /\ idx <= Len(entries) /\ blk \in 0..Entry.nb - 1 /\ blk + 1 \in 0..Entry.nb
         /\ Entry.cut[blk] \in Nat /\ Entry.cut[blk + 1] \in Nat
         /\ BlockLen \in Nat /\ Entry.limit[blk] \in Nat
         /\ Entry.cut[blk] + BlockLen = Entry.cut[blk + 1]
         /\ out \in 0..BlockLen
<1>1. idx <= Len(entries) /\ blk \in Nat /\ blk < Entry.nb /\ out \in Nat /\ out <= BlockLen
  BY DEF InBlock, TypeOK
<1>2. blk \in 0..Entry.nb - 1 /\ blk + 1 \in 0..Entry.nb /\ blk \in 0..Entry.nb /\ blk <= blk + 1
  BY <1>1, EntryFacts
<1>3. /\ Entry.cut[blk] \in Nat /\ Entry.cut[blk + 1] \in Nat /\ Entry.limit[blk] \in Nat
      /\ Entry.cut[blk] <= Entry.cut[blk + 1]
  BY <1>1, <1>2, EntryFacts
<1> QED
  BY <1>1, <1>2, <1>3 DEF BlockLen

LEMMA BytesFacts ==
  ASSUME NEW i \in Nat, NEW a \in Nat, NEW n \in Nat
  PROVE  /\ Bytes(i, a, n) \in Seq(ByteIds) /\ Len(Bytes(i, a, n)) = n
         /\ \A k \in 1..n : Bytes(i, a, n)[k] = <<i, a + k - 1>>
<1>1. \A k \in 1..n : <<i, a + k - 1>> \in ByteIds
  BY DEF ByteIds
<1> QED
  BY <1>1 DEF Bytes

\* (The provers match a lemma about Join, but not one about \o.)
Join(s, t) == s \o t

LEMMA BytesAppend ==
  ASSUME NEW i \in Nat, NEW a \in Nat, NEW n \in Nat, NEW m \in Nat, NEW k \in Nat
  PROVE  m = a + n => Join(Bytes(i, a, n), Bytes(i, m, k)) = Bytes(i, a, n + k)
<1> DEFINE u == Bytes(i, a, n)
           v == Bytes(i, m, k)
           t == Bytes(i, a, n + k)
<1>0. n + k \in Nat
  OBVIOUS
<1>4. u \in Seq(ByteIds) /\ Len(u) = n /\ \A j \in 1..n : u[j] = <<i, a + j - 1>>
  BY BytesFacts
<1>5. v \in Seq(ByteIds) /\ Len(v) = k /\ \A j \in 1..k : v[j] = <<i, m + j - 1>>
  BY <1>0, BytesFacts
<1>6. t \in Seq(ByteIds) /\ Len(t) = n + k /\ \A j \in 1..n + k : t[j] = <<i, a + j - 1>>
  BY <1>0, BytesFacts
<1> HIDE DEF u, v, t
<1>a. u \in Seq(ByteIds) /\ v \in Seq(ByteIds) /\ Len(u) = n /\ Len(v) = k
  BY <1>4, <1>5
<1>7. u \o v \in Seq(ByteIds) /\ Len(u \o v) = n + k
  BY <1>a
<1>8. ASSUME NEW j \in 1..n + k, m = a + n PROVE (u \o v)[j] = t[j]
  <2>1. CASE j <= n
    <3>1. j \in 1..n /\ (u \o v)[j] = u[j]
      BY <1>4, <1>5, <2>1
    <3> QED
      BY <1>4, <1>6, <3>1
  <2>2. CASE j > n
    <3>1. j - n \in 1..k /\ (u \o v)[j] = v[j - n]
      BY <1>4, <1>5, <2>2
    <3>2. v[j - n] = <<i, m + (j - n) - 1>>
      BY <1>5, <3>1
    <3>3. m + (j - n) - 1 = a + j - 1
      BY <1>8
    <3>4. t[j] = <<i, a + j - 1>>
      BY <1>6
    <3> QED
      BY <3>1, <3>2, <3>3, <3>4
  <2>3. j <= n \/ j > n
    OBVIOUS
  <2> QED
    BY <2>1, <2>2, <2>3
<1>9. ASSUME m = a + n PROVE u \o v = t
  <2>1. \A j \in 1..n + k : (u \o v)[j] = t[j]
    BY <1>8, <1>9
  <2>2. PICK w : w = u \o v
    OBVIOUS
  <2>3. /\ w \in Seq(ByteIds) /\ Len(w) = n + k
        /\ t \in Seq(ByteIds) /\ Len(t) = n + k
        /\ \A j \in 1..n + k : w[j] = t[j]
    BY <1>6, <1>7, <2>1, <2>2
  <2>4. w = t
    BY <2>3
  <2> QED
    BY <2>2, <2>4
<1>10. m = a + n => Join(u, v) = t
  BY <1>9 DEF Join
<1> QED
  BY <1>10 DEF u, v, t

\* The bytes of a chunk.
LEMMA DataFacts ==
  ASSUME TypeOK, InBlock, NEW k \in Nat
  PROVE  /\ Data(k) \in Seq(ByteIds) /\ Len(Data(k)) = k
         /\ \A j \in 1..k : Data(k)[j] = <<idx, Entry.cut[blk] + out + j - 1>>
<1>1. idx \in Nat
  BY EntriesFacts DEF TypeOK
<1>2. Entry.cut[blk] + out \in Nat
  BY BlockFacts
<1> QED
  BY <1>1, <1>2, BytesFacts DEF Data

\* A file is its bytes and its time.
LEMMA FileType ==
  ASSUME NEW f \in Files
  PROVE  f.data \in Seq(ByteIds) /\ f.time \in Nat /\ f = File(f.data, f.time)
BY DEF Files, File

LEMMA FileFacts ==
  ASSUME NEW s \in Seq(ByteIds), NEW t \in Nat
  PROVE  File(s, t) \in Files /\ File(s, t).data = s /\ File(s, t).time = t
BY DEF Files, File

LEMMA FileGrows ==
  ASSUME NEW f \in Files, NEW s \in Seq(ByteIds)
  PROVE  [f EXCEPT !.data = s] = File(s, f.time)
BY DEF Files, File

LEMMA FileIsDated ==
  ASSUME NEW f \in Files, NEW t \in Nat
  PROVE  [f EXCEPT !.time = t] = File(f.data, t)
BY DEF Files, File

LEMMA OutputFacts ==
  ASSUME Inv1, InBlock, NEW k \in Nat, Output(k)
  PROVE  /\ pipe  => disk' = disk /\ stdout' = stdout \o Data(k)
         /\ ~pipe => LET f == disk[Entry.path]
                     IN  /\ stdout' = stdout
                         /\ f \in Files
                         /\ disk' = [disk EXCEPT ![Entry.path] = File(f.data \o Data(k), f.time)]
         /\ disk' \in [Paths -> {Absent, Old, Dir} \cup Files]
         /\ stdout' \in Seq(ByteIds)
<1>0. /\ disk \in [Paths -> {Absent, Old, Dir} \cup Files] /\ stdout \in Seq(ByteIds)
      /\ pipe \in BOOLEAN
  BY DEF Inv1, TypeOK
<1>1. Entry.path \in Paths /\ Data(k) \in Seq(ByteIds)
  BY BlockFacts, EntryFacts, DataFacts DEF Inv1
<1>2. CASE pipe
  <2>1. disk' = disk /\ stdout' = stdout \o Data(k)
    BY <1>2 DEF Output
  <2> QED
    BY <1>0, <1>1, <1>2, <2>1
<1>3. CASE ~pipe
  <2> DEFINE f == disk[Entry.path]
  <2>1. f \in Files
    BY <1>3 DEF Inv1, Control, InBlock
  <2>2. /\ disk' = [disk EXCEPT ![Entry.path] = [f EXCEPT !.data = f.data \o Data(k)]]
        /\ stdout' = stdout
    BY <1>3, <2>1 DEF Output
  <2>3. f.data \o Data(k) \in Seq(ByteIds) /\ f.time \in Nat
    BY <1>1, <2>1, FileType
  <2>4. [f EXCEPT !.data = f.data \o Data(k)] = File(f.data \o Data(k), f.time)
    BY <2>1, <2>3, FileGrows
  <2>5. File(f.data \o Data(k), f.time) \in Files
    BY <2>1, <2>3, FileFacts
  <2> QED
    BY <1>0, <1>1, <1>3, <2>1, <2>2, <2>4, <2>5
<1> QED
  BY <1>0, <1>2, <1>3

LEMMA PutFacts ==
  ASSUME TypeOK, idx <= Len(entries), NEW c \in {Absent, Old, Dir} \cup Files
  PROVE  Put(c) \in [Paths -> {Absent, Old, Dir} \cup Files]
BY EntryFacts DEF TypeOK, Put

LEMMA EmptyFacts == Empty \in Files /\ Empty = File(<< >>, None)
<1>1. << >> \in Seq(ByteIds) /\ None \in Nat
  BY DEF None
<1> QED
  BY <1>1 DEF Empty, Files, File

LEMMA Inv1Init == Init => Inv1
<1> SUFFICES ASSUME Init PROVE Inv1
  OBVIOUS
<1>1. Len(entries) \in Nat
  BY EntriesFacts DEF Init
<1>2. before \in [Paths -> {Absent, Old, Dir}]
  BY TreesAssumption DEF Init
<1>3. disk \in [Paths -> {Absent, Old, Dir} \cup Files]
  BY <1>2 DEF Init
<1>4. stdout \in Seq(ByteIds)
  BY DEF Init
<1>5. TypeOK
  BY <1>1, <1>2, <1>3, <1>4 DEF Init, TypeOK
<1>6. Control
  BY DEF Init, Control
<1> QED
  BY <1>5, <1>6 DEF Inv1

\* The steps that go on with another entry, or stop, need only be typed.
LEMMA LeavesEntry ==
  ASSUME Inv1, UNCHANGED <<call, blk, out>>, pc' \in {"entry", "failed"},
         idx' \in 1..Len(entries) + 1,
         disk' \in [Paths -> {Absent, Old, Dir} \cup Files], stdout' = stdout
  PROVE  Inv1'
<1>1. entries' = entries /\ pipe' = pipe /\ unmatched' = unmatched /\ before' = before
  BY CallKept
<1>2. blk' = blk /\ out' = out
  OBVIOUS
<1>3. TypeOK'
  BY <1>1, <1>2 DEF Inv1, TypeOK
<1>4. Control'
  BY DEF Control
<1> QED
  BY <1>3, <1>4 DEF Inv1

\* The steps that end in the clean-up.
LEMMA EntersCleanup ==
  ASSUME Inv1, InBlock, UNCHANGED <<call, idx, blk, out>>, pc' = "cleanup", err' \notin Refusals,
         disk' \in [Paths -> {Absent, Old, Dir} \cup Files], stdout' \in Seq(ByteIds)
  PROVE  Inv1'
<1>1. /\ entries' = entries /\ pipe' = pipe /\ unmatched' = unmatched /\ before' = before
      /\ idx' = idx /\ blk' = blk /\ out' = out /\ Entry' = Entry /\ BlockLen' = BlockLen
  BY CallKept
<1>2. pc = "block"
  BY DEF InBlock
<1>3. TypeOK'
  BY <1>1, <1>2 DEF Inv1, TypeOK
<1>4. Control'
  BY <1>1, <1>2 DEF Inv1, Control
<1> QED
  BY <1>3, <1>4 DEF Inv1

LEMMA WriteChunkKeeps ==
  ASSUME Inv1, NEW n \in Nat, WriteChunk(n)
  PROVE  Inv1'
<1>1. /\ entries' = entries /\ pipe' = pipe /\ unmatched' = unmatched /\ before' = before
      /\ idx' = idx /\ blk' = blk /\ pc' = pc /\ err' = err
      /\ Entry' = Entry /\ BlockLen' = BlockLen /\ out' = out + n
  BY CallKept DEF WriteChunk
<1>2. pc = "block" /\ InBlock /\ out + n <= BlockLen /\ ~(n > Entry.limit[blk] - out) /\ Output(n)
  BY DEF WriteChunk, DecoderHas, InBlock, OverLimit
<1>3. /\ disk' \in [Paths -> {Absent, Old, Dir} \cup Files] /\ stdout' \in Seq(ByteIds)
      /\ ~pipe => disk'[Entry.path] \in Files
  <2>1. ASSUME ~pipe PROVE disk'[Entry.path] \in Files
    <3> DEFINE f == disk[Entry.path]
    <3>1. f \in Files /\ disk' = [disk EXCEPT ![Entry.path] = File(f.data \o Data(n), f.time)]
      BY <1>2, <2>1, OutputFacts
    <3>2. f.data \o Data(n) \in Seq(ByteIds) /\ f.time \in Nat
      BY <1>2, <3>1, FileType, DataFacts DEF Inv1
    <3>3. File(f.data \o Data(n), f.time) \in Files
      BY <3>1, <3>2, FileFacts
    <3>4. Entry.path \in Paths
      BY <1>2, BlockFacts, EntryFacts DEF Inv1
    <3> QED
      BY <3>1, <3>3, <3>4 DEF Inv1, TypeOK
  <2> QED
    BY <1>2, <2>1, OutputFacts
<1>4. out' \in Nat /\ out' <= Entry.limit[blk]
  <2>1. out \in Nat /\ Entry.limit[blk] \in Nat /\ BlockLen \in Nat
    BY <1>2, BlockFacts DEF Inv1
  <2> QED
    BY <1>1, <1>2, <2>1
<1>5. TypeOK'
  BY <1>1, <1>2, <1>3, <1>4 DEF Inv1, TypeOK
<1>6. Control'
  <2>1. pc' = "block" /\ pc = "block"
    BY <1>1, <1>2
  <2>2. /\ Accepted(Entry) /\ Entry.nb > 0
        /\ \A b \in 0..Entry.nb - 1 :
             b < blk => b \notin Entry.bad /\ Entry.cut[b + 1] - Entry.cut[b] <= Entry.limit[b]
    BY <2>1 DEF Inv1, Control
  <2> QED
    BY <1>1, <1>3, <1>4, <2>1, <2>2 DEF Control
<1> QED
  BY <1>5, <1>6 DEF Inv1

LEMMA BlockDoneKeeps ==
  ASSUME Inv1, BlockDone
  PROVE  Inv1'
<1>1. /\ entries' = entries /\ pipe' = pipe /\ unmatched' = unmatched /\ before' = before
      /\ idx' = idx /\ pc' = pc /\ err' = err /\ disk' = disk /\ stdout' = stdout
      /\ Entry' = Entry /\ blk' = blk + 1 /\ out' = 0
  BY CallKept DEF BlockDone
<1>2. pc = "block" /\ InBlock /\ out = BlockLen /\ blk \notin Entry.bad
  BY DEF BlockDone, InBlock, CrcMatches
<1>3. /\ idx <= Len(entries) /\ blk \in 0..Entry.nb - 1 /\ Entry.nb \in Nat
      /\ BlockLen <= Entry.limit[blk]
  BY <1>2, BlockFacts, EntryFacts DEF Inv1, Control
<1>4. ASSUME blk + 1 < Entry.nb
      PROVE  0 <= BlockLen' /\ 0 <= Entry.limit[blk + 1]
  <2>1. /\ blk + 1 \in 0..Entry.nb - 1 /\ blk + 1 \in 0..Entry.nb /\ (blk + 1) + 1 \in 0..Entry.nb
        /\ blk + 1 <= (blk + 1) + 1
    BY <1>3, <1>4
  <2>2. /\ Entry.cut[blk + 1] \in Nat /\ Entry.cut[(blk + 1) + 1] \in Nat
        /\ Entry.cut[blk + 1] <= Entry.cut[(blk + 1) + 1] /\ Entry.limit[blk + 1] \in Nat
    BY <1>3, <2>1, EntryFacts DEF Inv1
  <2>3. BlockLen' = Entry.cut[(blk + 1) + 1] - Entry.cut[blk + 1]
    BY <1>1 DEF BlockLen
  <2> QED
    BY <2>2, <2>3
<1>5. TypeOK'
  BY <1>1, <1>2, <1>3, <1>4 DEF Inv1, TypeOK
<1>6. \A b \in 0..Entry.nb - 1 :
        b < blk + 1 => b \notin Entry.bad /\ Entry.cut[b + 1] - Entry.cut[b] <= Entry.limit[b]
  BY <1>2, <1>3 DEF Inv1, Control, BlockLen
<1>7. Control'
  BY <1>1, <1>2, <1>4, <1>6 DEF Inv1, Control
<1> QED
  BY <1>5, <1>7 DEF Inv1

LEMMA Inv1Next == Inv1 /\ [Next \/ Done]_vars => Inv1'
<1> SUFFICES ASSUME Inv1, [Next \/ Done]_vars PROVE Inv1'
  OBVIOUS
<1>n. /\ Len(entries) \in Nat /\ idx \in 1..Len(entries) + 1
      /\ disk \in [Paths -> {Absent, Old, Dir} \cup Files] /\ stdout \in Seq(ByteIds)
  BY EntriesFacts DEF Inv1, TypeOK
<1>m. idx <= Len(entries) => idx + 1 \in 1..Len(entries) + 1
  BY <1>n
<1>1. CASE SkipEntry
  BY <1>1, <1>n, <1>m, LeavesEntry DEF SkipEntry, AtEntry, NextEntry
<1>2. CASE RefuseName
  BY <1>2, <1>n, LeavesEntry DEF RefuseName, Fail
<1>3. CASE MakeDir
  <2>1. idx <= Len(entries) /\ disk' \in [Paths -> {Absent, Old, Dir} \cup Files]
    BY <1>3, PutFacts DEF MakeDir, Starts, AtEntry, Inv1
  <2> QED
    BY <1>3, <1>m, <2>1, LeavesEntry DEF MakeDir, NextEntry
<1>4. CASE EmptyFile
  <2>1. idx <= Len(entries) /\ disk' \in [Paths -> {Absent, Old, Dir} \cup Files]
    BY <1>4, PutFacts, EmptyFacts DEF EmptyFile, NoBlocks, Starts, AtEntry, Inv1
  <2> QED
    BY <1>4, <1>m, <2>1, LeavesEntry DEF EmptyFile, NextEntry
<1>5. CASE LostBlocks
  BY <1>5, <1>n, LeavesEntry DEF LostBlocks, Fail
<1>6. CASE CreateFails
  BY <1>6, <1>n, LeavesEntry DEF CreateFails, Fail
<1>7. CASE RefuseKey
  BY <1>7, <1>n, LeavesEntry DEF RefuseKey, Fail
<1>8. CASE RefuseTag
  BY <1>8, <1>n, LeavesEntry DEF RefuseTag, Fail
<1>9. CASE OpenFile
  <2>1. /\ entries' = entries /\ pipe' = pipe /\ unmatched' = unmatched /\ before' = before
        /\ idx' = idx /\ Entry' = Entry /\ blk' = 0 /\ out' = 0 /\ pc' = "block"
        /\ stdout' = stdout /\ disk' = Put(Empty)
    BY <1>9, CallKept DEF OpenFile
  <2>2. /\ idx <= Len(entries) /\ Accepted(Entry) /\ Entry.nb > 0
    BY <1>9 DEF OpenFile, HasBlocks, Starts, AtEntry, Accepted
  <2>3. disk' \in [Paths -> {Absent, Old, Dir} \cup Files]
    BY <2>1, <2>2, PutFacts, EmptyFacts DEF Inv1
  <2>4. Entry.path \in Paths /\ Entry.nb \in Nat
    BY <2>2, EntryFacts DEF Inv1
  <2>5. ~pipe => disk'[Entry.path] \in Files
    BY <1>n, <2>1, <2>4, EmptyFacts DEF Put
  <2>6. BlockLen' \in Nat /\ Entry.limit[0] \in Nat
    <3>1. 0 \in 0..Entry.nb /\ 1 \in 0..Entry.nb /\ 0 \in 0..Entry.nb - 1 /\ 0 + 1 = 1
      BY <2>2, <2>4
    <3>2. Entry.cut[0] \in Nat /\ Entry.cut[1] \in Nat /\ Entry.cut[0] <= Entry.cut[1]
          /\ Entry.limit[0] \in Nat
      BY <2>2, <3>1, EntryFacts DEF Inv1
    <3>3. BlockLen' = Entry.cut[1] - Entry.cut[0]
      BY <2>1 DEF BlockLen
    <3> QED
      BY <3>2, <3>3
  <2>7. TypeOK'
    BY <2>1, <2>2, <2>3, <2>4, <2>6 DEF Inv1, TypeOK
  <2>8. Control'
    BY <2>1, <2>2, <2>5, <2>6 DEF Control
  <2> QED
    BY <2>7, <2>8 DEF Inv1
<1>10. ASSUME NEW n \in 1..BlockLen - out, InBlock,
              WriteChunk(n) \/ ExceedsLimit(n) \/ \E k \in 0..n - 1 : WriteFails(n, k)
       PROVE  Inv1'
  <2>0. n \in Nat
    BY <1>10, BlockFacts DEF Inv1
  <2>1. CASE WriteChunk(n)
    BY <2>0, <2>1, WriteChunkKeeps
  <2>2. CASE ExceedsLimit(n)
    BY <1>10, <2>2, <1>n, EntersCleanup DEF ExceedsLimit, FailInBlock, Refusals
  <2>3. ASSUME NEW k \in 0..n - 1, WriteFails(n, k) PROVE Inv1'
    <3>1. k \in Nat
      BY <2>0
    <3>2. disk' \in [Paths -> {Absent, Old, Dir} \cup Files] /\ stdout' \in Seq(ByteIds)
      BY <1>10, <2>3, <3>1, OutputFacts DEF WriteFails
    <3> QED
      BY <1>10, <2>3, <3>2, EntersCleanup DEF WriteFails, FailInBlock, Refusals
  <2> QED
    BY <1>10, <2>1, <2>2, <2>3
<1>11. CASE DecoderFails
  BY <1>11, <1>n, EntersCleanup DEF DecoderFails, FailInBlock, Refusals
<1>12. CASE BlockDone
  BY <1>12, BlockDoneKeeps
<1>13. CASE BlockMismatch
  BY <1>13, <1>n, EntersCleanup DEF BlockMismatch, FailInBlock, Refusals
<1>14. CASE EntryDone
  <2>1. idx <= Len(entries) /\ pc = "block"
    BY <1>14 DEF EntryDone, Inv1, TypeOK
  <2>2. disk' \in [Paths -> {Absent, Old, Dir} \cup Files]
    <3>1. CASE pipe \/ ~Entry.time
      BY <1>14, <1>n, <3>1 DEF EntryDone
    <3>2. CASE ~(pipe \/ ~Entry.time)
      <4>1. disk[Entry.path] \in Files /\ idx \in Nat
        <5>1. ~pipe
          BY <3>2
        <5> QED
          BY <1>n, <2>1, <5>1 DEF Inv1, Control
      <4>2. [disk[Entry.path] EXCEPT !.time = idx] \in Files
        BY <4>1, FileType, FileFacts, FileIsDated
      <4>3. disk' = [disk EXCEPT ![Entry.path] = [disk[Entry.path] EXCEPT !.time = idx]]
        BY <1>14, <3>2 DEF EntryDone
      <4> QED
        BY <1>n, <4>2, <4>3
    <3> QED
      BY <3>1, <3>2
  <2> QED
    BY <1>14, <1>m, <2>1, <2>2, LeavesEntry DEF EntryDone, NextEntry
<1>15. CASE RemovePartial
  <2>1. idx <= Len(entries)
    BY <1>15 DEF RemovePartial, Inv1, TypeOK
  <2>2. disk' \in [Paths -> {Absent, Old, Dir} \cup Files]
    BY <1>15, <2>1, PutFacts DEF RemovePartial, Inv1
  <2> QED
    BY <1>15, <1>n, <2>2, LeavesEntry DEF RemovePartial
<1>16. CASE EndOfArchive
  <2>1. CASE unmatched
    BY <1>16, <1>n, <2>1, LeavesEntry DEF EndOfArchive, Fail
  <2>2. CASE ~unmatched
    <3>1. /\ entries' = entries /\ pipe' = pipe /\ unmatched' = unmatched /\ before' = before
          /\ idx' = idx /\ blk' = blk /\ out' = out /\ pc' = "ok"
          /\ stdout' = stdout /\ disk' = disk /\ idx > Len(entries)
      BY <1>16, <2>2, CallKept DEF EndOfArchive
    <3>2. TypeOK'
      BY <3>1 DEF Inv1, TypeOK
    <3>3. Control'
      BY <1>n, <3>1 DEF Control
    <3> QED
      BY <3>2, <3>3 DEF Inv1
  <2> QED
    BY <2>1, <2>2
<1>17. CASE UNCHANGED vars
  BY <1>17, CallKept DEF vars, Inv1, TypeOK, Control
<1> QED
  BY <1>1, <1>2, <1>3, <1>4, <1>5, <1>6, <1>7, <1>8, <1>9, <1>10, <1>11, <1>12, <1>13,
     <1>14, <1>15, <1>16, <1>17 DEF Next, Done, Decode

\* The model's type invariant: the entry, block and byte counters stay within
\* the archive, and every path holds one of the contents a path can have.
THEOREM EntryTypeOK == Spec => []TypeOK
<1>1. Inv1 => TypeOK
  BY DEF Inv1
<1> QED
  BY <1>1, Inv1Init, Inv1Next, PTL DEF Spec

-----------------------------------------------------------------------------
(* What the paths hold.                                                     *)

LEMMA HeldKept ==
  ASSUME UNCHANGED call, idx' = idx, NEW p \in Paths
  PROVE  Held(p)' = Held(p)
<1>1. entries' = entries /\ pipe' = pipe /\ before' = before
  BY CallKept
<1>2. Earlier(p)' = Earlier(p)
  BY <1>1 DEF Earlier
<1> QED
  BY <1>1, <1>2 DEF Held, Content

LEMMA LatestIsNew ==
  ASSUME NEW n \in Nat, NEW S \in SUBSET (1..n - 1)
  PROVE  Latest(S \cup {n}) = n
<1> DEFINE T == S \cup {n}
<1>1. n \in T /\ \A j \in T : j <= n
  OBVIOUS
<1>2. ASSUME NEW i \in T, \A j \in T : j <= i PROVE i = n
  BY <1>1, <1>2
<1> QED
  BY <1>1, <1>2 DEF Latest

\* Past an entry that was asked for, its path holds its content.
LEMMA HeldNext ==
  ASSUME Inv1, UNCHANGED call, idx <= Len(entries), idx' = idx + 1, NEW p \in Paths
  PROVE  Held(p)' = IF Entry.wanted /\ p = Entry.path /\ ~pipe THEN Content(idx) ELSE Held(p)
<1>1. entries' = entries /\ pipe' = pipe /\ before' = before
  BY CallKept
<1>2. idx \in 1..Len(entries) /\ Len(entries) \in Nat
  BY EntryFacts, EntriesFacts DEF Inv1, TypeOK
<1>3. \A i : Content(i)' = Content(i)
  BY <1>1 DEF Content
<1>4. CASE Entry.wanted /\ p = Entry.path
  <2>1. Earlier(p)' = Earlier(p) \cup {idx}
    BY <1>1, <1>2, <1>4 DEF Earlier, Entry
  <2>2. Earlier(p) \in SUBSET (1..idx - 1)
    BY DEF Earlier
  <2>3. Latest(Earlier(p)') = idx
    <3>1. idx \in Nat
      BY <1>2
    <3>2. Latest(Earlier(p) \cup {idx}) = idx
      BY <2>2, <3>1, LatestIsNew
    <3> QED
      BY <2>1, <3>2
  <2>4. Held(p)' = IF pipe THEN before[p] ELSE Content(Latest(Earlier(p)'))
    BY <1>1, <1>3, <2>1 DEF Held
  <2> QED
    BY <1>4, <2>3, <2>4 DEF Held
<1>5. CASE ~(Entry.wanted /\ p = Entry.path)
  <2>1. Earlier(p)' = Earlier(p)
    BY <1>1, <1>2, <1>5 DEF Earlier, Entry
  <2>2. Held(p)' = Held(p)
    BY <1>1, <1>3, <2>1 DEF Held
  <2> QED
    BY <1>5, <2>2
<1> QED
  BY <1>4, <1>5

\* The entry is refused, or its output cannot be created: the disk is as it was.
LEMMA StopsAtEntry ==
  ASSUME Inv2, pc = "entry", UNCHANGED <<call, idx, disk>>, pc' = "failed"
  PROVE  DiskOK'
<1>1. \A p \in Paths : disk'[p] = Held(p)'
  BY HeldKept DEF Inv2, DiskOK
<1> QED
  BY <1>1 DEF DiskOK

\* The next entry, when the paths hold what they should.
LEMMA GoesOn ==
  ASSUME pc' = "entry", \A p \in Paths : disk'[p] = Held(p)'
  PROVE  DiskOK'
BY DEF DiskOK

\* One path at most changes when blocks are decoded.
LEMMA OthersKept ==
  ASSUME Inv2, InBlock, UNCHANGED <<call, idx>>, pc' \in {"block", "cleanup"},
         \A p \in Paths : p # Entry.path \/ pipe => disk'[p] = disk[p]
  PROVE  /\ \A p \in Paths : p # Entry'.path \/ pipe' => disk'[p] = Held(p)'
         /\ pc' = "cleanup" => DiskOK'
<1>1. Entry' = Entry /\ pipe' = pipe
  BY CallKept
<1>2. \A p \in Paths : p # Entry.path \/ pipe => disk'[p] = Held(p)'
  BY HeldKept DEF Inv2, DiskOK, InBlock
<1> QED
  BY <1>1, <1>2 DEF DiskOK

LEMMA OutputElsewhere ==
  ASSUME Inv1, InBlock, NEW k \in Nat, Output(k)
  PROVE  \A p \in Paths : p # Entry.path \/ pipe => disk'[p] = disk[p]
<1>1. CASE pipe
  BY <1>1, OutputFacts
<1>2. CASE ~pipe
  BY <1>2, OutputFacts DEF Inv1, TypeOK
<1> QED
  BY <1>1, <1>2 DEF Inv1, TypeOK

LEMMA WriteChunkOnDisk ==
  ASSUME Inv2, NEW n \in Nat, WriteChunk(n)
  PROVE  DiskOK'
<1>0. Inv1 /\ InBlock /\ Output(n)
  BY DEF Inv2, WriteChunk, DecoderHas
<1>1. /\ entries' = entries /\ pipe' = pipe /\ Entry' = Entry /\ idx' = idx /\ blk' = blk
      /\ pc = "block" /\ pc' = "block" /\ blk < Entry.nb /\ out' = out + n
  BY <1>0, CallKept DEF WriteChunk, InBlock
<1>2. \A p \in Paths : p # Entry'.path \/ pipe' => disk'[p] = Held(p)'
  BY <1>0, <1>1, OthersKept, OutputElsewhere DEF WriteChunk
<1>3. ASSUME ~pipe
      PROVE  disk'[Entry.path] = File(Bytes(idx, 0, Progress'), None)
  <2> DEFINE P == Entry.cut[blk] + out
             f == disk[Entry.path]
  <2>1. P \in Nat /\ idx \in Nat /\ Entry.path \in Paths
    <3>1. /\ Entry.cut[blk] \in Nat /\ BlockLen \in Nat /\ out \in 0..BlockLen
          /\ idx <= Len(entries) /\ Len(entries) \in Nat
      BY <1>0, BlockFacts, EntriesFacts DEF Inv1, TypeOK
    <3>2. idx \in 1..Len(entries) /\ Entry.path \in Paths
      BY <1>0, <3>1, EntryFacts DEF Inv1
    <3> QED
      BY <3>1, <3>2
  <2>2. Progress = P
    BY <1>1 DEF Progress
  <2>3. Progress' = P + n
    <3>1. Progress' = Entry.cut[blk] + (out + n)
      BY <1>1 DEF Progress
    <3>2. Entry.cut[blk] \in Nat /\ out \in Nat
      BY <1>0, BlockFacts DEF Inv1, TypeOK
    <3> QED
      BY <3>1, <3>2
  <2>4. f = File(Bytes(idx, 0, P), None)
    BY <1>1, <1>3, <2>2 DEF Inv2, DiskOK
  <2>5. disk' = [disk EXCEPT ![Entry.path] = File(f.data \o Data(n), f.time)]
    BY <1>0, <1>3, OutputFacts
  <2>6. Bytes(idx, 0, P) \in Seq(ByteIds)
    BY <2>1, BytesFacts
  <2>7. f.data = Bytes(idx, 0, P) /\ f.time = None
    BY <2>4, <2>6, FileFacts DEF None
  <2>8. Bytes(idx, 0, P) \o Data(n) = Bytes(idx, 0, P + n)
    <3>1. PICK m \in Nat : m = P
      BY <2>1
    <3>2. Join(Bytes(idx, 0, m), Bytes(idx, m, n)) = Bytes(idx, 0, m + n)
      BY <2>1, BytesAppend
    <3> QED
      BY <3>1, <3>2 DEF Data, Join
  <2>9. disk'[Entry.path] = File(f.data \o Data(n), f.time)
    BY <1>0, <2>1, <2>5 DEF Inv1, TypeOK
  <2> QED
    BY <2>3, <2>7, <2>8, <2>9
<1> QED
  BY <1>1, <1>2, <1>3 DEF DiskOK

LEMMA BlockDoneProgress ==
  ASSUME Inv1, BlockDone
  PROVE  Progress' = Progress
<1>1. /\ Entry' = Entry /\ blk' = blk + 1 /\ InBlock
      /\ pc = "block" /\ pc' = "block" /\ blk < Entry.nb /\ out = BlockLen /\ out' = 0
  BY CallKept DEF BlockDone, InBlock
<1>2. Progress = Entry.cut[blk] + BlockLen
  BY <1>1 DEF Progress
<1>3. Progress' = Entry.cut[blk + 1] + 0 \/ Progress' = Entry.cut[blk + 1]
  BY <1>1 DEF Progress
<1> QED
  BY <1>1, <1>2, <1>3, BlockFacts DEF Inv1

LEMMA BlockDoneOnDisk ==
  ASSUME Inv2, BlockDone
  PROVE  DiskOK'
<1>0. Inv1 /\ InBlock
  BY DEF Inv2, BlockDone
<1>1. /\ entries' = entries /\ pipe' = pipe /\ Entry' = Entry /\ idx' = idx /\ blk' = blk + 1
      /\ pc = "block" /\ pc' = "block" /\ blk < Entry.nb /\ out = BlockLen /\ out' = 0
      /\ disk' = disk
  BY <1>0, CallKept DEF BlockDone, InBlock
<1>2. \A p \in Paths : p # Entry'.path \/ pipe' => disk'[p] = Held(p)'
  BY <1>0, <1>1, OthersKept DEF BlockDone
<1>3. Progress' = Progress
  BY <1>0, BlockDoneProgress
<1> QED
  BY <1>1, <1>2, <1>3 DEF Inv2, DiskOK

\* The file of an entry that is done is the content of the entry.
LEMMA EntryDoneOnDisk ==
  ASSUME Inv2, EntryDone
  PROVE  DiskOK'
<1>1. /\ pc = "block" /\ blk = Entry.nb /\ idx' = idx + 1 /\ pc' = "entry"
      /\ idx <= Len(entries) /\ Accepted(Entry) /\ Entry.nb > 0 /\ Inv1
  BY DEF EntryDone, NextEntry, Inv2, Inv1, TypeOK, Control
<1>2. Entry.path \in Paths /\ idx \in Nat /\ Entry.nb \in Nat /\ Entry.cut[Entry.nb] \in Nat
      /\ Entry.time \in BOOLEAN
  <2>1. Entry.nb \in 0..Entry.nb
    BY <1>1, EntryFacts DEF Inv1
  <2> QED
    BY <1>1, <2>1, EntryFacts DEF Inv1
<1>3. CASE pipe
  <2>1. disk' = disk /\ \A p \in Paths : disk[p] = Held(p)
    BY <1>1, <1>3 DEF EntryDone, Inv2, DiskOK
  <2>2. \A p \in Paths : Held(p)' = Held(p)
    BY <1>1, <1>3, HeldNext DEF EntryDone
  <2> QED
    BY <1>1, <2>1, <2>2, GoesOn
<1>4. CASE ~pipe
  <2> DEFINE B == Bytes(idx, 0, Entry.cut[Entry.nb])
  <2>1. disk[Entry.path] = File(B, None)
    <3>1. Progress = Entry.cut[Entry.nb]
      BY <1>1, <1>2 DEF Progress
    <3> QED
      BY <1>1, <1>4, <3>1 DEF Inv2, DiskOK
  <2>2. Content(idx) = File(B, IF Entry.time THEN idx ELSE None)
    BY <1>1, <1>2 DEF Content, Entry, Accepted
  <2>3. disk'[Entry.path] = Content(idx) /\ \A p \in Paths : p # Entry.path => disk'[p] = disk[p]
    <3>1. CASE ~Entry.time
      BY <2>1, <2>2, <3>1 DEF EntryDone
    <3>2. CASE Entry.time
      <4>1. disk' = [disk EXCEPT ![Entry.path] = [File(B, None) EXCEPT !.time = idx]]
        BY <1>4, <2>1, <3>2 DEF EntryDone
      <4>2. [File(B, None) EXCEPT !.time = idx] = File(B, idx)
        BY DEF File
      <4> QED
        BY <1>1, <1>2, <2>2, <3>2, <4>1, <4>2 DEF Inv1, TypeOK
    <3> QED
      BY <3>1, <3>2
  <2>4. ASSUME NEW p \in Paths PROVE disk'[p] = Held(p)'
    <3>1. p # Entry.path => disk[p] = Held(p)
      BY <1>1 DEF Inv2, DiskOK
    <3>2. Held(p)' = IF p = Entry.path THEN Content(idx) ELSE Held(p)
      BY <1>1, <1>4, HeldNext DEF EntryDone, Accepted
    <3> QED
      BY <2>3, <3>1, <3>2
  <2> QED
    BY <1>1, <2>4, GoesOn
<1> QED
  BY <1>3, <1>4

LEMMA DiskOKNext == Inv2 /\ [Next \/ Done]_vars => DiskOK'
<1> SUFFICES ASSUME Inv2, [Next \/ Done]_vars PROVE DiskOK'
  OBVIOUS
<1>0. Inv1 /\ disk \in [Paths -> {Absent, Old, Dir} \cup Files]
  BY DEF Inv2, Inv1, TypeOK
<1>1. CASE SkipEntry
  <2>1. pc = "entry" /\ idx <= Len(entries) /\ ~Entry.wanted /\ idx' = idx + 1 /\ pc' = "entry"
        /\ disk' = disk
    BY <1>1 DEF SkipEntry, AtEntry, NextEntry
  <2>2. \A p \in Paths : disk'[p] = Held(p)'
    BY <1>0, <1>1, <2>1, HeldNext DEF SkipEntry, Inv2, DiskOK
  <2> QED
    BY <2>1, <2>2, GoesOn
<1>2. CASE MakeDir \/ EmptyFile
  <2> DEFINE c == IF Entry.dir THEN Dir ELSE Empty
  <2>1. pc = "entry" /\ idx <= Len(entries) /\ Entry.wanted /\ idx' = idx + 1 /\ pc' = "entry"
        /\ disk' = Put(c) /\ (Entry.dir \/ Entry.nb = 0) /\ UNCHANGED call
    BY <1>2 DEF MakeDir, EmptyFile, NoBlocks, Starts, AtEntry, NextEntry
  <2>2. Content(idx) = c
    BY <2>1 DEF Content, Entry
  <2>3. \A p \in Paths : disk[p] = Held(p)
    BY <2>1 DEF Inv2, DiskOK
  <2>4. ASSUME NEW p \in Paths PROVE disk'[p] = Held(p)'
    <3>1. Held(p)' = IF p = Entry.path /\ ~pipe THEN c ELSE Held(p)
      BY <1>0, <2>1, <2>2, HeldNext
    <3>2. disk'[p] = IF p = Entry.path /\ ~pipe THEN c ELSE disk[p]
      BY <1>0, <2>1 DEF Put
    <3> QED
      BY <2>3, <3>1, <3>2
  <2> QED
    BY <2>1, <2>4, GoesOn
<1>3. CASE RefuseName \/ LostBlocks \/ CreateFails \/ RefuseKey \/ RefuseTag
  BY <1>3, StopsAtEntry DEF RefuseName, LostBlocks, CreateFails, RefuseKey, RefuseTag, Fail,
     HasBlocks, NoBlocks, Starts, AtEntry
<1>4. CASE OpenFile
  <2>1. /\ pc = "entry" /\ pc' = "block" /\ idx' = idx /\ idx <= Len(entries)
        /\ Entry.nb > 0 /\ blk' = 0 /\ out' = 0 /\ disk' = Put(Empty)
        /\ Entry' = Entry /\ pipe' = pipe
    BY <1>4, CallKept DEF OpenFile, HasBlocks, Starts, AtEntry
  <2>2. \A p \in Paths : Held(p)' = disk[p]
    BY <1>4, HeldKept DEF OpenFile, HasBlocks, Starts, AtEntry, Inv2, DiskOK
  <2>3. \A p \in Paths : p # Entry.path \/ pipe => disk'[p] = disk[p]
    BY <1>0, <2>1 DEF Put
  <2>4. Entry.path \in Paths /\ Entry.cut[0] = 0
    BY <1>0, <2>1, EntryFacts DEF Inv1
  <2>5. Progress' = 0
    BY <2>1, <2>4 DEF Progress
  <2>6. Bytes(idx, 0, 0) = << >>
    BY DEF Bytes
  <2>7. ~pipe => disk'[Entry.path] = File(Bytes(idx, 0, 0), None)
    BY <1>0, <2>1, <2>4, <2>6, EmptyFacts DEF Put
  <2> QED
    BY <2>1, <2>2, <2>3, <2>5, <2>7 DEF DiskOK
<1>5. ASSUME NEW n \in 1..BlockLen - out, InBlock,
             WriteChunk(n) \/ ExceedsLimit(n) \/ \E k \in 0..n - 1 : WriteFails(n, k)
      PROVE  DiskOK'
  <2>0. n \in Nat
    BY <1>0, <1>5, BlockFacts DEF Inv1
  <2>1. CASE WriteChunk(n)
    BY <2>0, <2>1, WriteChunkOnDisk
  <2>2. CASE ExceedsLimit(n)
    BY <1>5, <2>2, OthersKept DEF ExceedsLimit, FailInBlock
  <2>3. ASSUME NEW k \in 0..n - 1, WriteFails(n, k) PROVE DiskOK'
    <3>1. k \in Nat /\ Output(k)
      BY <2>0, <2>3 DEF WriteFails
    <3>2. \A p \in Paths : p # Entry.path \/ pipe => disk'[p] = disk[p]
      BY <1>0, <1>5, <3>1, OutputElsewhere
    <3> QED
      BY <1>5, <2>3, <3>2, OthersKept DEF WriteFails, FailInBlock
  <2> QED
    BY <1>5, <2>1, <2>2, <2>3
<1>6. CASE DecoderFails \/ BlockMismatch
  BY <1>6, OthersKept DEF DecoderFails, BlockMismatch, FailInBlock
<1>7. CASE BlockDone
  BY <1>7, BlockDoneOnDisk
<1>8. CASE EntryDone
  BY <1>8, EntryDoneOnDisk
<1>9. CASE RemovePartial
  BY <1>9, <1>0 DEF RemovePartial, Inv1, Control, DiskOK
<1>10. CASE EndOfArchive
  <2>1. \A p \in Paths : disk'[p] = Held(p)'
    BY <1>10, HeldKept DEF EndOfArchive, Inv2, DiskOK
  <2>2. pc' \in {"failed", "ok"}
    BY <1>10 DEF EndOfArchive, Fail
  <2> QED
    BY <2>1, <2>2 DEF DiskOK
<1>11. CASE UNCHANGED vars
  <2>1. /\ pc' = pc /\ err' = err /\ disk' = disk /\ idx' = idx /\ pipe' = pipe
        /\ Entry' = Entry /\ Progress' = Progress
    BY <1>11, CallKept DEF vars, Progress
  <2>2. \A p \in Paths : Held(p)' = Held(p)
    BY <1>11, HeldKept DEF vars
  <2> QED
    BY <2>1, <2>2 DEF Inv2, DiskOK
<1> QED
  BY <1>1, <1>2, <1>3, <1>4, <1>5, <1>6, <1>7, <1>8, <1>9, <1>10, <1>11 DEF Next, Done, Decode

LEMMA DiskOKInit == Init => DiskOK
<1> SUFFICES ASSUME Init PROVE DiskOK
  OBVIOUS
<1>1. \A p \in Paths : Earlier(p) = {}
  BY DEF Init, Earlier
<1>2. \A p \in Paths : disk[p] = Held(p)
  BY <1>1 DEF Init, Held
<1> QED
  BY <1>2 DEF Init, DiskOK

LEMMA Inv2Always == Spec => []Inv2
<1>1. Init => Inv2
  BY Inv1Init, DiskOKInit DEF Inv2
<1>2. Inv2 /\ [Next \/ Done]_vars => Inv2'
  BY Inv1Next, DiskOKNext DEF Inv2
<1> QED
  BY <1>1, <1>2, PTL DEF Spec

-----------------------------------------------------------------------------
(* What leaves the program.                                                 *)

LEMMA MayEmitKept ==
  ASSUME UNCHANGED call, NEW s, Clean(s)
  PROVE  Clean(s)'
<1>1. entries' = entries
  BY CallKept
<1> QED
  BY <1>1 DEF Clean, MayEmit

LEMMA CleanAppend ==
  ASSUME NEW s \in Seq(ByteIds), NEW t \in Seq(ByteIds), Clean(s), Clean(t)
  PROVE  Clean(s \o t)
<1>1. PICK u : u = s \o t
  OBVIOUS
<1>2. /\ Len(s) \in Nat /\ Len(t) \in Nat /\ Len(u) = Len(s) + Len(t)
      /\ \A k \in 1..Len(u) : u[k] = IF k <= Len(s) THEN s[k] ELSE t[k - Len(s)]
  BY <1>1
<1>3. ASSUME NEW k \in 1..Len(u) PROVE MayEmit(u[k][1], u[k][2])
  <2>1. CASE k <= Len(s)
    <3>1. k \in 1..Len(s) /\ u[k] = s[k]
      BY <1>2, <2>1
    <3> QED
      BY <3>1 DEF Clean
  <2>2. CASE ~(k <= Len(s))
    <3>1. k - Len(s) \in 1..Len(t) /\ u[k] = t[k - Len(s)]
      BY <1>2, <2>2
    <3> QED
      BY <3>1 DEF Clean
  <2> QED
    BY <2>1, <2>2
<1> QED
  BY <1>1, <1>3 DEF Clean

\* A chunk within the limit of its block is made of bytes that may be emitted:
\* the blocks before it were right, and it is past none of its own end.
LEMMA DataClean ==
  ASSUME Inv1, InBlock, NEW k \in Nat, out + k <= BlockLen, out + k <= Entry.limit[blk]
  PROVE  Clean(Data(k))
<1>1. /\ idx \in 1..Len(entries) /\ idx <= Len(entries)
      /\ blk \in 0..Entry.nb - 1 /\ blk \in 0..Entry.nb /\ blk + 1 \in 0..Entry.nb
      /\ Entry.nb \in Nat /\ out \in Nat
  BY BlockFacts, EntryFacts DEF Inv1
<1>a. PICK c \in Nat, d \in Nat, l \in Nat :
        /\ c = Entry.cut[blk] /\ d = Entry.cut[blk + 1] /\ l = Entry.limit[blk]
        /\ c + BlockLen = d /\ BlockLen \in Nat
  BY BlockFacts DEF Inv1
<1>b. c + out + k <= d /\ out + k <= l
  <2>1. PICK L \in Nat, o \in Nat : L = BlockLen /\ o = out
    BY <1>1, <1>a
  <2>2. c + L = d /\ o + k <= L /\ o + k <= l
    BY <1>a, <2>1
  <2>3. c + o + k <= d
    BY <2>2
  <2> QED
    BY <2>1, <2>2, <2>3
<1>2. /\ Accepted(Entry)
      /\ \A b \in 0..Entry.nb - 1 : b < blk => b \notin Entry.bad
  BY DEF InBlock, Inv1, Control
<1>3. ASSUME NEW j \in Nat, c + out <= j, j < c + out + k
      PROVE  MayEmit(idx, j)
  <2>1. c <= j /\ j < d /\ j - c < l
    BY <1>1, <1>b, <1>3
  <2>2. ASSUME NEW b \in 0..Entry.nb - 1
        PROVE  /\ j \in Entry.cut[b]..Entry.cut[b + 1] - 1 => j - Entry.cut[b] < Entry.limit[b]
               /\ b \in Entry.bad => j < Entry.cut[b + 1]
    <3>0. /\ b \in 0..Entry.nb /\ b + 1 \in 0..Entry.nb
          /\ Entry.cut[b] \in Nat /\ Entry.cut[b + 1] \in Nat
      BY <1>1, EntryFacts DEF Inv1
    <3>a. PICK cb \in Nat, db \in Nat : cb = Entry.cut[b] /\ db = Entry.cut[b + 1]
      BY <3>0
    <3>1. CASE b = blk
      BY <1>a, <2>1, <3>1
    <3>2. CASE b < blk
      <4>1. b + 1 <= blk
        BY <1>1, <3>2
      <4>2. Entry.cut[b + 1] <= Entry.cut[blk]
        BY <1>1, <3>0, <4>1, EntryFacts DEF Inv1
      <4>3. db <= c
        BY <1>a, <3>a, <4>2
      <4>4. ~(j \in cb..db - 1)
        BY <2>1, <4>3
      <4> QED
        BY <1>2, <3>2, <3>a, <4>4
    <3>3. CASE b > blk
      <4>1. blk + 1 <= b /\ blk + 1 <= b + 1
        BY <1>1, <3>3
      <4>2. Entry.cut[blk + 1] <= Entry.cut[b] /\ Entry.cut[blk + 1] <= Entry.cut[b + 1]
        BY <1>1, <3>0, <4>1, EntryFacts DEF Inv1
      <4>3. d <= cb /\ d <= db
        BY <1>a, <3>a, <4>2
      <4>4. ~(j \in cb..db - 1) /\ j < db
        BY <2>1, <4>3
      <4> QED
        BY <3>a, <4>4
    <3> QED
      BY <1>1, <3>1, <3>2, <3>3
  <2> QED
    BY <1>1, <1>2, <2>2 DEF MayEmit, Entry
<1>4. ASSUME NEW m \in 1..k PROVE MayEmit(Data(k)[m][1], Data(k)[m][2])
  <2>1. Data(k)[m] = <<idx, Entry.cut[blk] + out + m - 1>>
    BY DataFacts DEF Inv1
  <2>2. PICK j \in Nat : j = c + out + m - 1
    BY <1>1
  <2>3. c + out <= j /\ j < c + out + k
    BY <1>1, <2>2
  <2>4. MayEmit(idx, j)
    BY <1>3, <2>3
  <2>5. Data(k)[m] = <<idx, j>>
    BY <1>a, <2>1, <2>2
  <2> QED
    BY <2>4, <2>5
<1> QED
  BY <1>4, DataFacts DEF Clean, Inv1

\* What is written of a chunk is clean.
LEMMA OutputClean ==
  ASSUME Inv3, InBlock, NEW k \in Nat, Output(k), UNCHANGED <<call, idx>>,
         out + k <= BlockLen, out + k <= Entry.limit[blk]
  PROVE  AllClean'
<1>0. /\ Inv1 /\ pc = "block" /\ Entry.path \in Paths
      /\ disk \in [Paths -> {Absent, Old, Dir} \cup Files] /\ stdout \in Seq(ByteIds)
      /\ Entry' = Entry /\ pipe' = pipe
  BY BlockFacts, EntryFacts, CallKept DEF Inv3, Inv1, TypeOK, InBlock
<1>1. Data(k) \in Seq(ByteIds) /\ Clean(Data(k))
  BY <1>0, DataFacts, DataClean DEF Inv1
<1>2. /\ Clean(stdout)
      /\ \A p \in Paths : disk[p] \notin {Absent, Old, Dir} => Clean(disk[p].data)
      /\ ~pipe => Clean(disk[Entry.path].data)
  BY <1>0 DEF Inv3, AllClean
<1>3. CASE pipe
  <2>1. disk' = disk /\ stdout' = stdout \o Data(k)
    BY <1>0, <1>3, OutputFacts
  <2>2. Clean(stdout \o Data(k))
    BY <1>0, <1>1, <1>2, CleanAppend
  <2>3. Clean(stdout)' /\ \A p \in Paths : disk'[p] \notin {Absent, Old, Dir} => Clean(disk[p].data)'
    <3>1. entries' = entries
      BY CallKept
    <3>2. PICK u : u = stdout \o Data(k)
      OBVIOUS
    <3>3. stdout' = u /\ Clean(u)
      BY <2>1, <2>2, <3>2
    <3>4. Clean(stdout)'
      BY <3>1, <3>3 DEF Clean, MayEmit
    <3>5. ASSUME NEW p \in Paths, disk'[p] \notin {Absent, Old, Dir}
          PROVE  Clean(disk[p].data)'
      <4>1. PICK v : v = disk[p].data
        OBVIOUS
      <4>2. disk'[p].data = v /\ Clean(v)
        BY <1>2, <2>1, <3>5, <4>1
      <4> QED
        BY <3>1, <4>2 DEF Clean, MayEmit
    <3> QED
      BY <3>4, <3>5
  <2> QED
    BY <1>0, <1>3, <2>1, <2>3 DEF AllClean
<1>4. CASE ~pipe
  <2> DEFINE f == disk[Entry.path]
  <2>1. /\ stdout' = stdout /\ f \in Files
        /\ disk' = [disk EXCEPT ![Entry.path] = File(f.data \o Data(k), f.time)]
    BY <1>0, <1>4, OutputFacts
  <2>2. f.data \in Seq(ByteIds) /\ f.time \in Nat
    BY <2>1, FileType
  <2>3. Clean(f.data \o Data(k)) /\ f.data \o Data(k) \in Seq(ByteIds)
    BY <1>1, <1>2, <1>4, <2>2, CleanAppend
  <2>4. disk'[Entry.path].data = f.data \o Data(k)
    BY <1>0, <2>1, <2>2, <2>3, FileFacts
  <2>5. \A p \in Paths : p # Entry.path => disk'[p] = disk[p]
    BY <1>0, <2>1
  <2>6. entries' = entries
    BY CallKept
  <2>7. Clean(stdout)'
    BY <1>2, <2>1, <2>6 DEF Clean, MayEmit
  <2>8. Clean(disk[Entry.path].data)'
    <3>1. PICK u : u = f.data \o Data(k)
      OBVIOUS
    <3>2. disk'[Entry'.path].data = u /\ Clean(u)
      BY <1>0, <2>3, <2>4, <3>1
    <3> QED
      BY <2>6, <3>2 DEF Clean, MayEmit
  <2>9. ASSUME NEW p \in Paths, disk'[p] \notin {Absent, Old, Dir}
        PROVE  Clean(disk[p].data)'
    <3>1. CASE p = Entry.path
      BY <1>0, <2>8, <3>1 DEF Clean, MayEmit
    <3>2. CASE p # Entry.path
      BY <1>2, <2>5, <2>6, <2>9, <3>2 DEF Clean, MayEmit
    <3> QED
      BY <3>1, <3>2
  <2> QED
    BY <1>0, <1>4, <2>7, <2>8, <2>9 DEF AllClean
<1> QED
  BY <1>3, <1>4

\* A step that puts out nothing leaves on the disk what was there, but for one
\* path that may hold nothing more, or a new directory or file, or get a time.
LEMMA QuietClean ==
  ASSUME Inv3, UNCHANGED <<call, stdout>>, pc' \in {"entry", "cleanup", "ok", "failed"},
         \A p \in Paths : \/ disk'[p] \in {Absent, Old, Dir}
                          \/ disk'[p] = disk[p]
                          \/ disk'[p].data = << >>
  PROVE  AllClean'
<1>1. entries' = entries /\ stdout' = stdout
  BY CallKept
<1>2. Clean(stdout)'
  BY <1>1 DEF Inv3, AllClean, Clean, MayEmit
<1>3. ASSUME NEW p \in Paths, disk'[p] \notin {Absent, Old, Dir}
      PROVE  Clean(disk[p].data)'
  <2>1. CASE disk'[p] = disk[p]
    <3>1. PICK v : v = disk[p].data
      OBVIOUS
    <3>2. disk'[p].data = v /\ Clean(v)
      BY <1>3, <2>1, <3>1 DEF Inv3, AllClean
    <3> QED
      BY <1>1, <3>2 DEF Clean, MayEmit
  <2>2. CASE disk'[p].data = << >>
    BY <2>2 DEF Clean
  <2> QED
    BY <1>3, <2>1, <2>2
<1> QED
  BY <1>2, <1>3 DEF AllClean

LEMMA SameClean ==
  ASSUME Inv3, entries' = entries, pipe' = pipe, Entry' = Entry, stdout' = stdout, disk' = disk,
         pc' = pc
  PROVE  AllClean'
<1>1. Clean(stdout)'
  BY DEF Inv3, AllClean, Clean, MayEmit
<1>2. ASSUME NEW p, Clean(disk[p].data) PROVE Clean(disk[p].data)'
  <2>1. PICK v : v = disk[p].data
    OBVIOUS
  <2>2. disk'[p].data = v /\ Clean(v)
    BY <1>2, <2>1
  <2> QED
    BY <2>2 DEF Clean, MayEmit
<1>3. \A p \in Paths : disk'[p] \notin {Absent, Old, Dir} => Clean(disk[p].data)'
  BY <1>2 DEF Inv3, AllClean
<1>4. pc' = "block" /\ ~pipe' => Clean(disk[Entry.path].data)'
  <2>1. ASSUME pc = "block", ~pipe PROVE Clean(disk[Entry.path].data)'
    <3>1. PICK v : v = disk[Entry.path].data
      OBVIOUS
    <3>2. disk'[Entry'.path].data = v /\ Clean(v)
      BY <2>1, <3>1 DEF Inv3, AllClean
    <3> QED
      BY <3>2 DEF Clean, MayEmit
  <2> QED
    BY <2>1
<1> QED
  BY <1>1, <1>3, <1>4 DEF AllClean

LEMMA AllCleanNext == Inv3 /\ [Next \/ Done]_vars => AllClean'
<1> SUFFICES ASSUME Inv3, [Next \/ Done]_vars PROVE AllClean'
  OBVIOUS
<1>0. Inv1 /\ disk \in [Paths -> {Absent, Old, Dir} \cup Files]
  BY DEF Inv3, Inv1, TypeOK
<1>a. Empty.data = << >>
  BY DEF Empty, File
<1>1. CASE SkipEntry
  BY <1>1, QuietClean DEF SkipEntry, NextEntry
<1>2. CASE MakeDir \/ EmptyFile
  <2>1. disk' = Put(Dir) \/ disk' = Put(Empty)
    BY <1>2 DEF MakeDir, EmptyFile
  <2>2. \A p \in Paths : disk'[p] \in {Absent, Old, Dir} \/ disk'[p] = disk[p] \/ disk'[p].data = << >>
    BY <1>0, <1>a, <2>1 DEF Put
  <2> QED
    BY <1>2, <2>2, QuietClean DEF MakeDir, EmptyFile, NextEntry
<1>3. CASE RefuseName \/ LostBlocks \/ CreateFails \/ RefuseKey \/ RefuseTag
  BY <1>3, QuietClean DEF RefuseName, LostBlocks, CreateFails, RefuseKey, RefuseTag, Fail
<1>4. CASE OpenFile
  <2>1. /\ entries' = entries /\ pipe' = pipe /\ Entry' = Entry /\ stdout' = stdout
        /\ disk' = Put(Empty) /\ idx <= Len(entries)
    BY <1>4, CallKept DEF OpenFile, HasBlocks, Starts, AtEntry
  <2>2. Entry.path \in Paths
    BY <1>0, <2>1, EntryFacts DEF Inv1
  <2>3. Clean(stdout)'
    BY <2>1 DEF Inv3, AllClean, Clean, MayEmit
  <2>4. ASSUME NEW p \in Paths, disk'[p] \notin {Absent, Old, Dir} \/ (~pipe /\ p = Entry.path)
        PROVE  Clean(disk[p].data)'
    <3>1. CASE disk'[p] = disk[p] /\ ~(~pipe /\ p = Entry.path)
      <4>1. PICK v : v = disk[p].data
        OBVIOUS
      <4>2. disk'[p].data = v /\ Clean(v)
        BY <2>4, <3>1, <4>1 DEF Inv3, AllClean
      <4> QED
        BY <2>1, <4>2 DEF Clean, MayEmit
    <3>2. CASE disk'[p] = Empty
      BY <1>a, <3>2 DEF Clean
    <3> QED
      BY <1>0, <2>1, <2>2, <2>4, <3>1, <3>2 DEF Put
  <2>5. ~pipe => Clean(disk[Entry.path].data)'
    <3>1. ASSUME ~pipe PROVE disk'[Entry'.path].data = << >>
      BY <1>0, <1>a, <2>1, <2>2, <3>1 DEF Put
    <3> QED
      BY <3>1 DEF Clean
  <2> QED
    BY <2>1, <2>3, <2>4, <2>5 DEF AllClean
<1>5. ASSUME NEW n \in 1..BlockLen - out, InBlock,
             WriteChunk(n) \/ ExceedsLimit(n) \/ \E k \in 0..n - 1 : WriteFails(n, k)
      PROVE  AllClean'
  <2>0. n \in Nat /\ out \in Nat /\ BlockLen \in Nat /\ Entry.limit[blk] \in Nat
    BY <1>0, <1>5, BlockFacts DEF Inv1
  <2>a. DecoderHas(n) /\ ~OverLimit(n) => out + n <= BlockLen /\ out + n <= Entry.limit[blk]
    BY <2>0 DEF DecoderHas, OverLimit
  <2>1. CASE WriteChunk(n)
    BY <1>5, <2>0, <2>a, <2>1, OutputClean DEF WriteChunk
  <2>2. CASE ExceedsLimit(n)
    BY <2>2, QuietClean DEF ExceedsLimit, FailInBlock
  <2>3. ASSUME NEW k \in 0..n - 1, WriteFails(n, k) PROVE AllClean'
    <3>1. k \in Nat /\ Output(k) /\ UNCHANGED <<call, idx>>
      BY <2>0, <2>3 DEF WriteFails
    <3>2. out + k <= BlockLen /\ out + k <= Entry.limit[blk]
      BY <2>0, <2>3, <2>a DEF WriteFails
    <3> QED
      BY <1>5, <3>1, <3>2, OutputClean
  <2> QED
    BY <1>5, <2>1, <2>2, <2>3
<1>6. CASE DecoderFails \/ BlockMismatch
  BY <1>6, QuietClean DEF DecoderFails, BlockMismatch, FailInBlock
<1>7. CASE BlockDone
  <2>1. /\ entries' = entries /\ pipe' = pipe /\ Entry' = Entry /\ stdout' = stdout /\ disk' = disk
        /\ pc' = pc
    BY <1>7, CallKept DEF BlockDone
  <2> QED
    BY <2>1, SameClean
<1>8. CASE EntryDone
  <2>1. /\ entries' = entries /\ stdout' = stdout /\ pc = "block" /\ pc' = "entry"
        /\ idx <= Len(entries)
    BY <1>0, <1>8, CallKept DEF EntryDone, NextEntry, Inv1, TypeOK
  <2>2. Clean(stdout)'
    BY <2>1 DEF Inv3, AllClean, Clean, MayEmit
  <2>3. Entry.path \in Paths
    BY <1>0, <2>1, EntryFacts DEF Inv1
  <2>4. ASSUME NEW p \in Paths, disk'[p] \notin {Absent, Old, Dir}
        PROVE  Clean(disk[p].data)'
    <3>1. PICK v : v = disk[p].data
      OBVIOUS
    <3>2. disk'[p].data = v /\ Clean(v)
      <4>1. CASE pipe \/ ~Entry.time \/ p # Entry.path
        <5>1. disk'[p] = disk[p]
          BY <1>0, <1>8, <2>3, <4>1 DEF EntryDone
        <5> QED
          BY <2>4, <3>1, <5>1 DEF Inv3, AllClean
      <4>2. CASE ~pipe /\ Entry.time /\ p = Entry.path
        <5>1. disk' = [disk EXCEPT ![Entry.path] = [disk[Entry.path] EXCEPT !.time = idx]]
          BY <1>8, <4>2 DEF EntryDone
        <5>2. disk[Entry.path] \in Files /\ Clean(disk[Entry.path].data)
          BY <1>0, <2>1, <4>2 DEF Inv1, Control, Inv3, AllClean
        <5>3. [disk[Entry.path] EXCEPT !.time = idx].data = disk[Entry.path].data
          BY <5>2 DEF Files
        <5> QED
          BY <1>0, <2>3, <3>1, <4>2, <5>1, <5>2, <5>3
      <4> QED
        BY <4>1, <4>2
    <3> QED
      BY <2>1, <3>2 DEF Clean, MayEmit
  <2> QED
    BY <2>1, <2>2, <2>4 DEF AllClean
<1>9. CASE RemovePartial
  <2>1. \A p \in Paths : disk'[p] \in {Absent, Old, Dir} \/ disk'[p] = disk[p]
    BY <1>0, <1>9 DEF RemovePartial, Put
  <2> QED
    BY <1>9, <2>1, QuietClean DEF RemovePartial
<1>10. CASE EndOfArchive
  BY <1>10, QuietClean DEF EndOfArchive, Fail
<1>11. CASE UNCHANGED vars
  <2>1. /\ entries' = entries /\ pipe' = pipe /\ Entry' = Entry /\ stdout' = stdout /\ disk' = disk
        /\ pc' = pc
    BY <1>11, CallKept DEF vars
  <2> QED
    BY <2>1, SameClean
<1> QED
  BY <1>1, <1>2, <1>3, <1>4, <1>5, <1>6, <1>7, <1>8, <1>9, <1>10, <1>11 DEF Next, Done, Decode

LEMMA AllCleanInit == Init => AllClean
<1> SUFFICES ASSUME Init PROVE AllClean
  OBVIOUS
<1>1. Clean(stdout)
  BY DEF Init, Clean
<1>2. \A p \in Paths : disk[p] \in {Absent, Old, Dir}
  BY TreesAssumption DEF Init
<1> QED
  BY <1>1, <1>2 DEF Init, AllClean

LEMMA Inv3Always == Spec => []Inv3
<1>1. Init => Inv3
  BY Inv1Init, AllCleanInit DEF Inv3
<1>2. Inv3 /\ [Next \/ Done]_vars => Inv3'
  BY Inv1Next, AllCleanNext DEF Inv3
<1> QED
  BY <1>1, <1>2, PTL DEF Spec

LEMMA EmittedMayBe ==
  ASSUME AllClean, NEW i, NEW j, Emitted(i, j)
  PROVE  MayEmit(i, j)
<1>1. CASE \E k \in 1..Len(stdout) : stdout[k] = <<i, j>>
  BY <1>1 DEF AllClean, Clean
<1>2. CASE \E p \in Paths : /\ disk[p] \notin {Absent, Old, Dir}
                            /\ \E k \in 1..Len(disk[p].data) : disk[p].data[k] = <<i, j>>
  BY <1>2 DEF AllClean, Clean
<1> QED
  BY <1>1, <1>2 DEF Emitted

\* A refused entry costs nothing of what the user had, and no byte leaves the
\* program for a file or the standard output unless its entry was asked for and
\* its name, password and footer were accepted, its block keeps within the size
\* it declares, and no block before it failed its CRC: extract_entry.
THEOREM EntryEmitsNothingUnaccepted == Spec => []NothingUnaccepted
<1>1. Inv2 => RefusedUntouched
  BY DEF Inv2, DiskOK, RefusedUntouched, Refusals
<1>2. Inv3 => NothingUnverified
  BY EmittedMayBe DEF Inv3, NothingUnverified, MayEmit, Accepted
<1>3. Inv3 => NothingBeyondBlock
  BY EmittedMayBe DEF Inv3, NothingBeyondBlock, MayEmit
<1>4. Inv2 /\ Inv3 => NothingUnaccepted
  BY <1>1, <1>2, <1>3 DEF NothingUnaccepted
<1> QED
  BY <1>4, Inv2Always, Inv3Always, PTL

-----------------------------------------------------------------------------
(* The standard output.                                                     *)

\* Byte j of entry i was written if everything was that is due by now.
IsSent(i, j) ==
  /\ i \in 1..Len(entries) /\ i <= idx
  /\ entries[i].wanted /\ ~entries[i].dir
  /\ i < idx => j \in DataOf(i)
  /\ i = idx => j \in 0..Progress - 1

\* What is on the standard output is what was sent, in order.
Sorted(s) == \A j, k \in 1..Len(s) : j < k => Before(s[j], s[k])
PipedOK ==
  pipe /\ pc \in {"entry", "block", "ok"} =>
    /\ Sorted(stdout)
    /\ \A k \in 1..Len(stdout) :
         \E i \in 1..Len(entries), j \in Nat : stdout[k] = <<i, j>> /\ IsSent(i, j)
    /\ \A i \in 1..Len(entries), j \in Nat :
         IsSent(i, j) => \E k \in 1..Len(stdout) : stdout[k] = <<i, j>>

Inv4 == Inv1 /\ PipedOK

LEMMA SentIs ==
  ASSUME Inv1
  PROVE  Sent = {x \in ByteIds : IsSent(x[1], x[2])}
<1>0. Len(entries) \in Nat /\ idx \in Nat
  BY EntriesFacts DEF Inv1, TypeOK
<1>1. ASSUME NEW x \in Sent PROVE x \in ByteIds /\ IsSent(x[1], x[2])
  <2>1. PICK i \in 1..Len(entries) :
          /\ i <= idx /\ entries[i].wanted /\ ~entries[i].dir
          /\ x \in {<<i, j>> : j \in IF i < idx THEN DataOf(i) ELSE 0..Progress - 1}
    BY <1>1 DEF Sent
  <2>2. PICK j \in IF i < idx THEN DataOf(i) ELSE 0..Progress - 1 : x = <<i, j>>
    BY <2>1
  <2>3. j \in Nat
    BY <2>2 DEF DataOf
  <2> QED
    BY <1>0, <2>1, <2>2, <2>3 DEF IsSent, ByteIds
<1>2. ASSUME NEW x \in ByteIds, IsSent(x[1], x[2]) PROVE x \in Sent
  <2>1. PICK i, j : x = <<i, j>> /\ i \in Nat /\ j \in Nat
    BY <1>2 DEF ByteIds
  <2>2. IsSent(i, j)
    BY <1>2, <2>1
  <2>3. /\ i \in 1..Len(entries) /\ i <= idx /\ entries[i].wanted /\ ~entries[i].dir
        /\ j \in IF i < idx THEN DataOf(i) ELSE 0..Progress - 1
    BY <1>0, <2>1, <2>2 DEF IsSent
  <2> QED
    BY <2>1, <2>3 DEF Sent
<1> QED
  BY <1>1, <1>2

LEMMA SentSame ==
  ASSUME UNCHANGED call, idx' = idx, Progress' = Progress
  PROVE  \A i \in 1..Len(entries), j \in Nat : IsSent(i, j)' <=> IsSent(i, j)
<1>1. entries' = entries
  BY CallKept
<1> QED
  BY <1>1 DEF IsSent, DataOf

\* Past an entry: what was due of it is what had been written of it.
LEMMA SentNext ==
  ASSUME Inv1, UNCHANGED call, idx <= Len(entries), idx' = idx + 1, pc' = "entry",
         Entry.wanted /\ ~Entry.dir => Progress = Entry.cut[Entry.nb]
  PROVE  \A i \in 1..Len(entries), j \in Nat : IsSent(i, j)' <=> IsSent(i, j)
<1>1. entries' = entries /\ idx \in Nat /\ Len(entries) \in Nat
  BY CallKept, EntriesFacts DEF Inv1, TypeOK
<1>2. Progress' = 0
  BY DEF Progress
<1>3. ASSUME NEW i \in 1..Len(entries), NEW j \in Nat PROVE IsSent(i, j)' <=> IsSent(i, j)
  <2>0. IsSent(i, j)' <=> /\ i <= idx + 1 /\ entries[i].wanted /\ ~entries[i].dir
                          /\ i < idx + 1 => j \in DataOf(i)
                          /\ i = idx + 1 => j \in 0..0 - 1
    BY <1>1, <1>2 DEF IsSent, DataOf
  <2>1. CASE i < idx
    BY <1>1, <2>0, <2>1 DEF IsSent
  <2>2. CASE i = idx
    <3>1. IsSent(i, j)' <=> entries[i].wanted /\ ~entries[i].dir /\ j \in DataOf(i)
      BY <1>1, <2>0, <2>2
    <3>2. IsSent(i, j) <=> entries[i].wanted /\ ~entries[i].dir /\ j \in 0..Progress - 1
      BY <1>1, <2>2 DEF IsSent
    <3>3. entries[i].wanted /\ ~entries[i].dir => DataOf(i) = 0..Progress - 1
      BY <2>2 DEF DataOf, Entry
    <3> QED
      BY <3>1, <3>2, <3>3
  <2>3. CASE i > idx
    <3>1. ~IsSent(i, j)
      BY <1>1, <2>3 DEF IsSent
    <3>2. ~IsSent(i, j)'
      BY <1>1, <2>0, <2>3
    <3> QED
      BY <3>1, <3>2
  <2> QED
    BY <1>1, <2>1, <2>2, <2>3
<1> QED
  BY <1>3

LEMMA QuietPiped ==
  ASSUME Inv4, UNCHANGED <<call, stdout>>, pc \in {"entry", "block", "ok"},
         \A i \in 1..Len(entries), j \in Nat : IsSent(i, j)' <=> IsSent(i, j)
  PROVE  PipedOK'
<1>1. entries' = entries /\ pipe' = pipe /\ stdout' = stdout
  BY CallKept
<1>2. ASSUME pipe
      PROVE  /\ Sorted(stdout)'
             /\ \A k \in 1..Len(stdout) :
                  \E i \in 1..Len(entries), j \in Nat : stdout[k] = <<i, j>> /\ IsSent(i, j)'
             /\ \A i \in 1..Len(entries), j \in Nat :
                  IsSent(i, j)' => \E k \in 1..Len(stdout) : stdout[k] = <<i, j>>
  BY <1>1, <1>2 DEF Inv4, PipedOK, Sorted
<1> QED
  BY <1>1, <1>2 DEF PipedOK

LEMMA WriteChunkPiped ==
  ASSUME Inv4, NEW n \in Nat, WriteChunk(n)
  PROVE  PipedOK'
<1>0. Inv1 /\ InBlock /\ Output(n)
  BY DEF Inv4, WriteChunk, DecoderHas
<1>1. /\ entries' = entries /\ pipe' = pipe /\ Entry' = Entry /\ idx' = idx /\ blk' = blk
      /\ pc = "block" /\ pc' = "block" /\ blk < Entry.nb /\ out' = out + n
  BY <1>0, CallKept DEF WriteChunk, InBlock
<1>2. PICK P \in Nat : P = Entry.cut[blk] + out /\ Progress = P /\ Progress' = P + n
  <2>1. Entry.cut[blk] \in Nat /\ out \in Nat
    BY <1>0, BlockFacts DEF Inv1
  <2>2. Progress = Entry.cut[blk] + out /\ Progress' = Entry.cut[blk] + (out + n)
    BY <1>1 DEF Progress
  <2> QED
    BY <2>1, <2>2
<1>3. /\ idx \in 1..Len(entries) /\ idx \in Nat /\ Len(entries) \in Nat
      /\ entries[idx].wanted /\ ~entries[idx].dir
  <2>1. Len(entries) \in Nat /\ idx <= Len(entries)
    BY <1>0, EntriesFacts, BlockFacts DEF Inv1, TypeOK
  <2>2. idx \in 1..Len(entries)
    BY <1>0, <2>1, EntryFacts DEF Inv1
  <2> QED
    BY <1>0, <1>1, <2>1, <2>2 DEF Inv1, Control, Accepted, Entry
<1>4. ASSUME NEW i \in 1..Len(entries), NEW j \in Nat
      PROVE  IsSent(i, j)' <=> IsSent(i, j) \/ (i = idx /\ j \in P..P + n - 1)
  <2>1. CASE i = idx
    <3>1. IsSent(i, j)' <=> j \in 0..P + n - 1
      <4>1. PICK Q \in Nat : Q = P + n
        OBVIOUS
      <4>2. /\ Progress' = Q /\ entries' = entries /\ idx' = idx /\ pc' = "block"
            /\ i = idx /\ entries[i].wanted /\ ~entries[i].dir
        BY <1>1, <1>2, <1>3, <2>1, <4>1
      <4>3. IsSent(i, j)' <=> j \in 0..Q - 1
        BY <1>3, <4>2 DEF IsSent
      <4> QED
        BY <4>1, <4>3
    <3>2. IsSent(i, j) <=> j \in 0..P - 1
      BY <1>2, <1>3, <2>1 DEF IsSent
    <3> QED
      BY <2>1, <3>1, <3>2
  <2>2. CASE i # idx
    BY <1>1, <2>2 DEF IsSent, DataOf
  <2> QED
    BY <2>1, <2>2
<1>5. ASSUME pipe
      PROVE  /\ Sorted(stdout)'
             /\ \A k \in 1..Len(stdout') :
                  \E i \in 1..Len(entries), j \in Nat : stdout'[k] = <<i, j>> /\ IsSent(i, j)'
             /\ \A i \in 1..Len(entries), j \in Nat :
                  IsSent(i, j)' => \E k \in 1..Len(stdout') : stdout'[k] = <<i, j>>
  <2>1. PICK d : d = Data(n)
    OBVIOUS
  <2>2. PICK t \in Seq(ByteIds) : t = stdout'
    BY <1>0, OutputFacts
  <2>3. d \in Seq(ByteIds) /\ Len(d) = n /\ stdout \in Seq(ByteIds) /\ t = stdout \o d
    BY <1>0, <1>5, <2>1, <2>2, DataFacts, OutputFacts DEF Inv1, TypeOK
  <2>4. \A k \in 1..n : d[k] = <<idx, P + k - 1>>
    BY <1>0, <1>2, <2>1, DataFacts DEF Inv1
  <2>5. PICK m \in Nat : m = Len(stdout)
    BY <2>3
  <2>6. /\ Len(t) = m + n
        /\ \A k \in 1..m : t[k] = stdout[k]
    BY <2>3, <2>5
  <2>7. ASSUME NEW k \in m + 1..m + n
        PROVE  t[k] = <<idx, P + (k - m) - 1>> /\ P + (k - m) - 1 \in P..P + n - 1
    <3>1. k - m \in 1..n /\ t[k] = d[k - m]
      BY <2>3, <2>5
    <3>2. d[k - m] = <<idx, P + (k - m) - 1>>
      BY <2>4, <3>1
    <3> QED
      BY <3>1, <3>2
  <2>8. /\ Sorted(stdout)
        /\ \A k \in 1..m :
             \E i \in 1..Len(entries), j \in Nat : t[k] = <<i, j>> /\ IsSent(i, j)
        /\ \A i \in 1..Len(entries), j \in Nat :
             IsSent(i, j) => \E k \in 1..m : t[k] = <<i, j>>
    <3>1. /\ Sorted(stdout)
          /\ \A k \in 1..Len(stdout) :
               \E i \in 1..Len(entries), j \in Nat : stdout[k] = <<i, j>> /\ IsSent(i, j)
          /\ \A i \in 1..Len(entries), j \in Nat :
               IsSent(i, j) => \E k \in 1..Len(stdout) : stdout[k] = <<i, j>>
      BY <1>1, <1>5 DEF Inv4, PipedOK
    <3>2. ASSUME NEW k \in 1..m
          PROVE  \E i \in 1..Len(entries), j \in Nat : t[k] = <<i, j>> /\ IsSent(i, j)
      <4>1. k \in 1..Len(stdout) /\ t[k] = stdout[k]
        BY <2>5, <2>6
      <4> QED
        BY <3>1, <4>1
    <3>3. ASSUME NEW i \in 1..Len(entries), NEW j \in Nat, IsSent(i, j)
          PROVE  \E k \in 1..m : t[k] = <<i, j>>
      <4>1. PICK k \in 1..Len(stdout) : stdout[k] = <<i, j>>
        BY <3>1, <3>3
      <4>2. k \in 1..m /\ t[k] = stdout[k]
        BY <2>5, <2>6
      <4> QED
        BY <4>1, <4>2
    <3> QED
      BY <3>1, <3>2, <3>3
  <2>9. ASSUME NEW a \in 1..m + n, NEW b \in 1..m + n, a < b PROVE Before(t[a], t[b])
    <3>1. CASE b <= m
      <4>1. a \in 1..m /\ b \in 1..m
        BY <2>9, <3>1
      <4>2. t[a] = stdout[a] /\ t[b] = stdout[b]
        BY <2>6, <4>1
      <4>3. Before(stdout[a], stdout[b])
        BY <2>5, <2>8, <2>9, <4>1 DEF Sorted
      <4> QED
        BY <4>2, <4>3
    <3>2. CASE a <= m /\ b > m
      <4>1. a \in 1..m /\ b \in m + 1..m + n
        BY <3>2
      <4>2. PICK i \in 1..Len(entries), j \in Nat : t[a] = <<i, j>> /\ IsSent(i, j)
        BY <2>8, <4>1
      <4>3. i < idx \/ (i = idx /\ j < P)
        BY <1>2, <1>3, <4>2 DEF IsSent
      <4>4. t[b] = <<idx, P + (b - m) - 1>> /\ P + (b - m) - 1 \in P..P + n - 1
        BY <2>7, <4>1
      <4>5. P <= P + (b - m) - 1
        BY <4>4
      <4> QED
        BY <4>2, <4>3, <4>4, <4>5 DEF Before
    <3>3. CASE a > m
      <4>1. a \in m + 1..m + n /\ b \in m + 1..m + n
        BY <2>9, <3>3
      <4>2. t[a] = <<idx, P + (a - m) - 1>> /\ t[b] = <<idx, P + (b - m) - 1>>
        BY <2>7, <4>1
      <4>3. P + (a - m) - 1 < P + (b - m) - 1
        BY <2>9
      <4> QED
        BY <4>2, <4>3 DEF Before
    <3> QED
      BY <3>1, <3>2, <3>3
  <2>10. ASSUME NEW k \in 1..m + n
         PROVE  \E i \in 1..Len(entries), j \in Nat : t[k] = <<i, j>> /\ IsSent(i, j)'
    <3>1. CASE k <= m
      <4>1. k \in 1..m
        BY <3>1
      <4>2. PICK i \in 1..Len(entries), j \in Nat : t[k] = <<i, j>> /\ IsSent(i, j)
        BY <2>8, <4>1
      <4> QED
        BY <1>4, <4>2
    <3>2. CASE k > m
      <4>1. k \in m + 1..m + n
        BY <3>2
      <4>2. PICK j \in Nat : j = P + (k - m) - 1
        BY <4>1
      <4>3. t[k] = <<idx, j>> /\ j \in P..P + n - 1
        BY <2>7, <4>1, <4>2
      <4> QED
        BY <1>3, <1>4, <4>3
    <3> QED
      BY <3>1, <3>2
  <2>11. ASSUME NEW i \in 1..Len(entries), NEW j \in Nat, IsSent(i, j)'
         PROVE  \E k \in 1..m + n : t[k] = <<i, j>>
    <3>1. CASE IsSent(i, j)
      <4>1. PICK k \in 1..m : t[k] = <<i, j>>
        BY <2>8, <3>1
      <4> QED
        BY <4>1
    <3>2. CASE i = idx /\ j \in P..P + n - 1
      <4>1. PICK k \in m + 1..m + n : k = m + (j - P) + 1
        BY <3>2
      <4>2. t[k] = <<idx, P + (k - m) - 1>>
        BY <2>7
      <4>3. P + (k - m) - 1 = j /\ k \in 1..m + n
        BY <4>1
      <4> QED
        BY <3>2, <4>2, <4>3
    <3> QED
      BY <1>4, <2>11, <3>1, <3>2
  <2> QED
    BY <2>2, <2>6, <2>9, <2>10, <2>11 DEF Sorted
<1> QED
  BY <1>1, <1>5 DEF PipedOK

LEMMA PipedNext == Inv4 /\ [Next \/ Done]_vars => PipedOK'
<1> SUFFICES ASSUME Inv4, [Next \/ Done]_vars PROVE PipedOK'
  OBVIOUS
<1>0. Inv1 /\ (pc # "block" => Progress = 0)
  BY DEF Inv4, Progress
<1>1. CASE SkipEntry \/ MakeDir
  <2>1. /\ UNCHANGED <<call, stdout>> /\ idx <= Len(entries) /\ idx' = idx + 1 /\ pc = "entry"
        /\ pc' = "entry" /\ ~(Entry.wanted /\ ~Entry.dir)
    BY <1>1 DEF SkipEntry, MakeDir, Starts, AtEntry, NextEntry
  <2> QED
    BY <1>0, <2>1, SentNext, QuietPiped
<1>2. CASE EmptyFile
  <2>1. /\ UNCHANGED <<call, stdout>> /\ idx <= Len(entries) /\ idx' = idx + 1 /\ pc = "entry"
        /\ pc' = "entry" /\ Entry.nb = 0
    BY <1>2 DEF EmptyFile, NoBlocks, Starts, AtEntry, NextEntry
  <2>2. Progress = Entry.cut[Entry.nb]
    BY <1>0, <2>1, EntryFacts DEF Inv1
  <2> QED
    BY <1>0, <2>1, <2>2, SentNext, QuietPiped
<1>3. CASE RefuseName \/ LostBlocks \/ CreateFails \/ RefuseKey \/ RefuseTag \/ RemovePartial
  BY <1>3 DEF RefuseName, LostBlocks, CreateFails, RefuseKey, RefuseTag, RemovePartial, Fail,
     PipedOK
<1>4. CASE OpenFile
  <2>1. /\ UNCHANGED <<call, stdout>> /\ idx <= Len(entries) /\ idx' = idx /\ pc = "entry"
        /\ pc' = "block" /\ blk' = 0 /\ out' = 0 /\ Entry.nb > 0 /\ Entry' = Entry
    BY <1>4, CallKept DEF OpenFile, HasBlocks, Starts, AtEntry
  <2>2. Progress' = Entry.cut[0] + 0
    BY <2>1 DEF Progress
  <2>3. Progress' = Progress
    BY <1>0, <2>1, <2>2, EntryFacts DEF Inv1
  <2> QED
    BY <2>1, <2>3, SentSame, QuietPiped
<1>5. ASSUME NEW n \in 1..BlockLen - out, InBlock,
             WriteChunk(n) \/ ExceedsLimit(n) \/ \E k \in 0..n - 1 : WriteFails(n, k)
      PROVE  PipedOK'
  <2>1. n \in Nat
    BY <1>0, <1>5, BlockFacts DEF Inv1
  <2>2. CASE WriteChunk(n)
    BY <2>1, <2>2, WriteChunkPiped
  <2>3. CASE ExceedsLimit(n) \/ \E k \in 0..n - 1 : WriteFails(n, k)
    BY <2>3 DEF ExceedsLimit, WriteFails, FailInBlock, PipedOK
  <2> QED
    BY <1>5, <2>2, <2>3
<1>6. CASE DecoderFails \/ BlockMismatch
  BY <1>6 DEF DecoderFails, BlockMismatch, FailInBlock, PipedOK
<1>7. CASE BlockDone
  <2>1. UNCHANGED <<call, stdout>> /\ idx' = idx /\ pc = "block"
    BY <1>7 DEF BlockDone, InBlock
  <2> QED
    BY <1>0, <1>7, <2>1, BlockDoneProgress, SentSame, QuietPiped
<1>8. CASE EntryDone
  <2>1. /\ UNCHANGED <<call, stdout>> /\ idx <= Len(entries) /\ idx' = idx + 1 /\ pc = "block"
        /\ pc' = "entry" /\ blk = Entry.nb
    BY <1>0, <1>8 DEF EntryDone, NextEntry, Inv1, TypeOK
  <2>2. Entry.nb \in Nat
    BY <1>0, <2>1, EntryFacts DEF Inv1
  <2>3. Progress = Entry.cut[Entry.nb]
    BY <2>1, <2>2 DEF Progress
  <2> QED
    BY <1>0, <2>1, <2>3, SentNext, QuietPiped
<1>9. CASE EndOfArchive
  <2>1. /\ UNCHANGED <<call, stdout>> /\ idx' = idx /\ pc = "entry" /\ pc' # "block"
    BY <1>9 DEF EndOfArchive, Fail
  <2>2. Progress' = Progress
    BY <1>0, <2>1 DEF Progress
  <2> QED
    BY <2>1, <2>2, SentSame, QuietPiped
<1>10. CASE UNCHANGED vars
  <2>1. UNCHANGED <<call, stdout>> /\ idx' = idx /\ pc' = pc /\ Progress' = Progress
    BY <1>10, CallKept DEF vars, Progress
  <2>2. CASE pc \in {"entry", "block", "ok"}
    BY <2>1, <2>2, SentSame, QuietPiped
  <2>3. CASE pc \notin {"entry", "block", "ok"}
    BY <2>1, <2>3 DEF PipedOK
  <2> QED
    BY <2>2, <2>3
<1> QED
  BY <1>1, <1>2, <1>3, <1>4, <1>5, <1>6, <1>7, <1>8, <1>9, <1>10 DEF Next, Done, Decode

LEMMA PipedInit == Init => PipedOK
<1> SUFFICES ASSUME Init PROVE PipedOK
  OBVIOUS
<1>1. Len(stdout) = 0 /\ idx = 1 /\ Progress = 0
  BY DEF Init, Progress
<1>2. \A i \in 1..Len(entries), j \in Nat : ~IsSent(i, j)
  <2>1. Len(entries) \in Nat
    BY EntriesFacts DEF Init
  <2> QED
    BY <1>1, <2>1 DEF IsSent
<1> QED
  BY <1>1, <1>2 DEF PipedOK, Sorted

\* On a pipe the bytes of the entries asked for, and no others, have been
\* written, each once and in the order of the archive: extract_entry with
\* pipe_mode, one entry after the other.
THEOREM EntryPipesInOrder == Spec => []PipedInOrder
<1>1. Init => Inv4
  BY Inv1Init, PipedInit DEF Inv4
<1>2. Inv4 /\ [Next \/ Done]_vars => Inv4'
  BY Inv1Next, PipedNext DEF Inv4
<1>3. Inv4 => PipedInOrder
  <2> SUFFICES ASSUME Inv4, pipe, pc \in {"entry", "block", "ok"}
               PROVE  /\ Sorted(stdout)
                      /\ {stdout[k] : k \in 1..Len(stdout)} = Sent
    BY DEF PipedInOrder, Sorted
  <2>1. /\ Sorted(stdout)
        /\ \A k \in 1..Len(stdout) :
             \E i \in 1..Len(entries), j \in Nat : stdout[k] = <<i, j>> /\ IsSent(i, j)
        /\ \A i \in 1..Len(entries), j \in Nat :
             IsSent(i, j) => \E k \in 1..Len(stdout) : stdout[k] = <<i, j>>
    BY DEF Inv4, PipedOK
  <2>2. Sent = {x \in ByteIds : IsSent(x[1], x[2])}
    BY SentIs DEF Inv4
  <2>3. ASSUME NEW k \in 1..Len(stdout) PROVE stdout[k] \in Sent
    <3>1. PICK i \in 1..Len(entries), j \in Nat : stdout[k] = <<i, j>> /\ IsSent(i, j)
      BY <2>1
    <3>2. <<i, j>> \in ByteIds
      BY <3>1 DEF ByteIds
    <3> QED
      BY <2>2, <3>1, <3>2
  <2>4. ASSUME NEW x \in Sent PROVE \E k \in 1..Len(stdout) : stdout[k] = x
    <3>1. PICK i, j : x = <<i, j>> /\ i \in Nat /\ j \in Nat /\ IsSent(i, j)
      BY <2>2, <2>4 DEF ByteIds
    <3>2. i \in 1..Len(entries)
      BY <3>1 DEF IsSent
    <3> QED
      BY <2>1, <3>1, <3>2
  <2> QED
    BY <2>1, <2>3, <2>4
<1> QED
  BY <1>1, <1>2, <1>3, PTL DEF Spec

-----------------------------------------------------------------------------
(* The promise of Deliveries, step by step.                                 *)

LEMMA PlanFacts ==
  ASSUME Inv1
  PROVE  /\ Len(Plan) = Len(entries) /\ Len(entries) \in Nat
         /\ \A i \in 1..Len(entries) :
              Plan[i] = [path |-> entries[i].path, content |-> Content(i),
                         wanted |-> entries[i].wanted /\ ~pipe, sound |-> Sound(entries[i])]
<1>1. Len(entries) \in Nat
  BY EntriesFacts DEF Inv1, TypeOK
<1> QED
  BY <1>1 DEF Plan

LEMMA PlanKept ==
  ASSUME UNCHANGED call
  PROVE  Plan' = Plan /\ (~unmatched)' = ~unmatched
<1>1. entries' = entries /\ pipe' = pipe /\ unmatched' = unmatched
  BY CallKept
<1>2. \A i : Content(i)' = Content(i)
  BY <1>1 DEF Content
<1> QED
  BY <1>1, <1>2 DEF Plan

\* The entry at work is the next of the plan.
LEMMA NextPlanned ==
  ASSUME Inv1, idx <= Len(entries)
  PROVE  /\ idx - 1 < Len(Plan) /\ (idx - 1) + 1 = idx
         /\ Plan[idx].path = Entry.path /\ Plan[idx].content = Content(idx)
         /\ Plan[idx].wanted = (Entry.wanted /\ ~pipe) /\ Plan[idx].sound = Sound(Entry)
<1>1. idx \in 1..Len(entries)
  BY EntryFacts DEF Inv1
<1>2. Plan[idx] = [path |-> Entry.path, content |-> Content(idx),
                   wanted |-> Entry.wanted /\ ~pipe, sound |-> Sound(Entry)]
  BY <1>1, PlanFacts DEF Entry
<1>3. Len(Plan) = Len(entries) /\ Len(entries) \in Nat
  BY PlanFacts
<1> QED
  BY <1>1, <1>2, <1>3

LEMMA DeliverStep ==
  ASSUME Inv1, UNCHANGED call, idx <= Len(entries), idx' = idx + 1,
         pc \in {"entry", "block"}, pc' = "entry", Sound(Entry),
         Tree' = IF Entry.wanted /\ ~pipe THEN [Tree EXCEPT ![Entry.path] = Content(idx)] ELSE Tree
  PROVE  Promise!Next
<1>1. Status = "running" /\ Status' = "running" /\ Plan' = Plan /\ (~unmatched)' = ~unmatched
  BY PlanKept DEF Status
<1>2. (idx - 1)' = (idx - 1) + 1
  BY DEF Inv1, TypeOK
<1>3. Promise!Deliver
  BY <1>1, <1>2, NextPlanned DEF Promise!Deliver
<1> QED
  BY <1>3 DEF Promise!Next

LEMMA AbandonStep ==
  ASSUME Inv1, UNCHANGED <<call, idx>>, idx <= Len(entries),
         pc \in {"entry", "block", "cleanup"}, pc' = "failed",
         \/ Tree' = Tree
         \/ Entry.wanted /\ ~pipe /\ Tree' = [Tree EXCEPT ![Entry.path] = Absent]
  PROVE  Promise!Next
<1>1. Status = "running" /\ Status' = "failed" /\ Plan' = Plan /\ (~unmatched)' = ~unmatched
  BY PlanKept DEF Status
<1>2. (idx - 1)' = idx - 1
  OBVIOUS
<1>3. Promise!Abandon
  BY <1>1, <1>2, NextPlanned DEF Promise!Abandon
<1> QED
  BY <1>3 DEF Promise!Next

LEMMA StutterStep ==
  ASSUME UNCHANGED <<call, idx>>, Tree' = Tree, Status' = Status
  PROVE  UNCHANGED Promise!vars
<1>1. Plan' = Plan /\ (~unmatched)' = ~unmatched /\ (idx - 1)' = idx - 1
  BY PlanKept
<1> QED
  BY <1>1 DEF Promise!vars

\* While the blocks of an entry are decoded, the tree keeps what its path held.
LEMMA TreeInBlock ==
  ASSUME Inv1, UNCHANGED <<call, idx>>, pc = "block", pc' \in {"block", "cleanup"},
         disk' \in [Paths -> {Absent, Old, Dir} \cup Files],
         \A p \in Paths : p # Entry.path \/ pipe => disk'[p] = disk[p]
  PROVE  Tree' = Tree
<1>1. Entry' = Entry /\ Entry.path \in Paths
  BY CallKept, EntryFacts DEF Inv1, TypeOK
<1>2. Held(Entry.path)' = Held(Entry.path)
  <2>1. PICK p \in Paths : p = Entry.path
    BY <1>1
  <2>2. Held(p)' = Held(p)
    BY HeldKept
  <2> QED
    BY <1>1, <2>1, <2>2
<1>3. Tree = [disk EXCEPT ![Entry.path] = Held(Entry.path)]
  BY DEF Tree
<1>4. Tree' = [disk' EXCEPT ![Entry.path] = Held(Entry.path)]
  BY <1>1, <1>2 DEF Tree
<1>5. disk \in [Paths -> {Absent, Old, Dir} \cup Files]
  BY DEF Inv1, TypeOK
<1> QED
  BY <1>1, <1>3, <1>4, <1>5

\* An entry whose last block is done was sound.
LEMMA EntryDoneDelivers ==
  ASSUME Inv2, Inv2', EntryDone
  PROVE  Promise!Next
<1>1. /\ Inv1 /\ pc = "block" /\ pc' = "entry" /\ blk = Entry.nb /\ idx' = idx + 1
      /\ idx <= Len(entries) /\ UNCHANGED call /\ Accepted(Entry) /\ Entry.nb > 0
  BY DEF EntryDone, NextEntry, Inv2, Inv1, TypeOK, Control
<1>2. /\ Entry.path \in Paths /\ Entry.nb \in Nat /\ Entry.bad \subseteq 0..Entry.nb - 1
      /\ disk \in [Paths -> {Absent, Old, Dir} \cup Files]
      /\ disk' \in [Paths -> {Absent, Old, Dir} \cup Files]
  BY <1>1, EntryFacts DEF Inv2, Inv1, TypeOK
<1>3. Sound(Entry)
  <2>1. \A b \in 0..Entry.nb - 1 :
          b \notin Entry.bad /\ Entry.cut[b + 1] - Entry.cut[b] <= Entry.limit[b]
    BY <1>1, <1>2 DEF Inv1, Control
  <2>2. Entry.bad = {}
    BY <1>2, <2>1
  <2> QED
    BY <1>1, <2>1, <2>2 DEF Sound, Accepted
<1>4. Tree = [disk EXCEPT ![Entry.path] = Held(Entry.path)] /\ Tree' = disk'
  BY <1>1 DEF Tree
<1>5. \A p \in Paths : disk'[p] = IF p = Entry.path /\ ~pipe THEN Content(idx) ELSE Held(p)
  <2>1. ASSUME NEW p \in Paths PROVE disk'[p] = Held(p)'
    BY <1>1 DEF Inv2, DiskOK
  <2> QED
    BY <1>1, <2>1, HeldNext DEF Accepted
<1>6. \A p \in Paths : Tree[p] = Held(p)
  BY <1>1, <1>2, <1>4 DEF Inv2, DiskOK
<1>7. Tree' = IF Entry.wanted /\ ~pipe THEN [Tree EXCEPT ![Entry.path] = Content(idx)] ELSE Tree
  <2>1. \A p \in Paths :
          disk'[p] = IF p = Entry.path /\ ~pipe THEN Content(idx) ELSE Tree[p]
    BY <1>5, <1>6
  <2>2. DOMAIN Tree = Paths
    BY <1>2, <1>4
  <2>3. PICK T : T = Tree
    OBVIOUS
  <2>4. T = [p \in Paths |-> T[p]]
    BY <1>2, <1>4, <2>3
  <2>5. CASE pipe
    BY <1>2, <1>4, <2>1, <2>3, <2>4, <2>5
  <2>6. CASE ~pipe
    BY <1>1, <1>2, <1>4, <2>1, <2>3, <2>4, <2>6 DEF Accepted
  <2> QED
    BY <2>5, <2>6
<1> QED
  BY <1>1, <1>3, <1>7, DeliverStep

\* Every step is a step of the promise, or none.
LEMMA PromiseNext == Inv2 /\ Inv2' /\ [Next \/ Done]_vars => [Promise!Next]_(Promise!vars)
<1> SUFFICES ASSUME Inv2, Inv2', [Next \/ Done]_vars PROVE [Promise!Next]_(Promise!vars)
  OBVIOUS
<1>0. /\ Inv1 /\ disk \in [Paths -> {Absent, Old, Dir} \cup Files]
      /\ disk' \in [Paths -> {Absent, Old, Dir} \cup Files]
  BY DEF Inv2, Inv1, TypeOK
<1>1. CASE SkipEntry
  <2>1. /\ UNCHANGED call /\ idx <= Len(entries) /\ idx' = idx + 1 /\ pc = "entry" /\ pc' = "entry"
        /\ ~Entry.wanted /\ disk' = disk
    BY <1>1 DEF SkipEntry, AtEntry, NextEntry
  <2>2. Sound(Entry) /\ Tree' = Tree
    BY <2>1 DEF Sound, Tree
  <2> QED
    BY <1>0, <2>1, <2>2, DeliverStep
<1>2. CASE MakeDir \/ EmptyFile
  <2> DEFINE c == IF Entry.dir THEN Dir ELSE Empty
  <2>1. /\ UNCHANGED call /\ idx <= Len(entries) /\ idx' = idx + 1 /\ pc = "entry" /\ pc' = "entry"
        /\ Entry.wanted /\ Entry.safe /\ (Entry.dir \/ (Entry.nb = 0 /\ Entry.size = 0))
        /\ disk' = Put(c)
    BY <1>2 DEF MakeDir, EmptyFile, NoBlocks, Starts, AtEntry, NextEntry
  <2>2. Sound(Entry) /\ Content(idx) = c
    BY <2>1 DEF Sound, Content, Entry
  <2>3. Tree = disk /\ Tree' = disk'
    BY <2>1 DEF Tree
  <2>4. Tree' = IF Entry.wanted /\ ~pipe THEN [Tree EXCEPT ![Entry.path] = Content(idx)] ELSE Tree
    BY <2>1, <2>2, <2>3 DEF Put
  <2> QED
    BY <1>0, <2>1, <2>2, <2>4, DeliverStep
<1>3. CASE RefuseName \/ LostBlocks \/ CreateFails \/ RefuseKey \/ RefuseTag
  <2>1. /\ UNCHANGED <<call, idx>> /\ idx <= Len(entries) /\ pc = "entry" /\ pc' = "failed"
        /\ disk' = disk
    BY <1>3 DEF RefuseName, LostBlocks, CreateFails, RefuseKey, RefuseTag, Fail, HasBlocks,
       NoBlocks, Starts, AtEntry
  <2>2. Tree' = Tree
    BY <2>1 DEF Tree
  <2> QED
    BY <1>0, <2>1, <2>2, AbandonStep
<1>4. CASE OpenFile
  <2>1. /\ UNCHANGED <<call, idx>> /\ idx <= Len(entries) /\ pc = "entry" /\ pc' = "block"
        /\ disk' = Put(Empty) /\ Entry' = Entry
    BY <1>4, CallKept DEF OpenFile, HasBlocks, Starts, AtEntry
  <2>2. PICK p \in Paths : p = Entry.path
    BY <1>0, <2>1, EntryFacts DEF Inv1
  <2>3. Held(p)' = disk[p]
    BY <2>1, HeldKept DEF Inv2, DiskOK
  <2>4. Tree = disk /\ Tree' = [disk' EXCEPT ![p] = disk[p]]
    BY <2>1, <2>2, <2>3 DEF Tree
  <2>5. Tree' = Tree
    BY <1>0, <2>1, <2>2, <2>4 DEF Put
  <2>6. Status' = Status
    BY <2>1 DEF Status
  <2> QED
    BY <2>1, <2>5, <2>6, StutterStep
<1>5. ASSUME InBlock, UNCHANGED <<call, idx>>, pc' \in {"block", "cleanup"},
             \A p \in Paths : p # Entry.path \/ pipe => disk'[p] = disk[p]
      PROVE  UNCHANGED Promise!vars
  <2>1. Tree' = Tree /\ Status' = Status
    BY <1>0, <1>5, TreeInBlock DEF InBlock, Status
  <2> QED
    BY <1>5, <2>1, StutterStep
<1>6. ASSUME NEW n \in 1..BlockLen - out, InBlock,
             WriteChunk(n) \/ ExceedsLimit(n) \/ \E k \in 0..n - 1 : WriteFails(n, k)
      PROVE  UNCHANGED Promise!vars
  <2>1. n \in Nat
    BY <1>0, <1>6, BlockFacts DEF Inv1
  <2>2. CASE WriteChunk(n)
    <3>1. Output(n) /\ UNCHANGED <<call, idx>> /\ pc' = "block"
      BY <1>6, <2>2 DEF WriteChunk, InBlock
    <3> QED
      BY <1>0, <1>5, <1>6, <2>1, <3>1, OutputElsewhere
  <2>3. CASE ExceedsLimit(n)
    BY <1>5, <1>6, <2>3 DEF ExceedsLimit, FailInBlock
  <2>4. ASSUME NEW k \in 0..n - 1, WriteFails(n, k) PROVE UNCHANGED Promise!vars
    <3>1. Output(k) /\ UNCHANGED <<call, idx>> /\ pc' = "cleanup" /\ k \in Nat
      BY <2>1, <2>4 DEF WriteFails, FailInBlock
    <3> QED
      BY <1>0, <1>5, <1>6, <3>1, OutputElsewhere
  <2> QED
    BY <1>6, <2>2, <2>3, <2>4
<1>7. CASE DecoderFails \/ BlockDone \/ BlockMismatch
  BY <1>5, <1>7 DEF DecoderFails, BlockDone, BlockMismatch, FailInBlock, InBlock
<1>8. CASE EntryDone
  BY <1>8, EntryDoneDelivers
<1>9. CASE RemovePartial
  <2>1. /\ UNCHANGED <<call, idx>> /\ idx <= Len(entries) /\ pc = "cleanup" /\ pc' = "failed"
        /\ disk' = Put(Absent) /\ Entry.wanted
    BY <1>0, <1>9 DEF RemovePartial, Inv1, TypeOK, Control, Accepted
  <2>2. Entry.path \in Paths
    BY <1>0, <2>1, EntryFacts DEF Inv1
  <2>3. Tree = [disk EXCEPT ![Entry.path] = Held(Entry.path)] /\ Tree' = disk'
    BY <2>1 DEF Tree
  <2>4. CASE pipe
    <3>1. disk[Entry.path] = Held(Entry.path)
      BY <2>1, <2>2, <2>4 DEF Inv2, DiskOK
    <3>2. Tree' = Tree
      BY <1>0, <2>1, <2>2, <2>3, <2>4, <3>1 DEF Put
    <3> QED
      BY <1>0, <2>1, <3>2, AbandonStep
  <2>5. CASE ~pipe
    <3>1. Tree' = [Tree EXCEPT ![Entry.path] = Absent]
      BY <1>0, <2>1, <2>2, <2>3, <2>5 DEF Put
    <3> QED
      BY <1>0, <2>1, <2>5, <3>1, AbandonStep
  <2> QED
    BY <2>4, <2>5
<1>10. CASE EndOfArchive
  <2>1. /\ UNCHANGED <<call, idx, disk>> /\ idx > Len(entries) /\ pc = "entry"
        /\ pc' = IF unmatched THEN "failed" ELSE "ok"
    BY <1>10 DEF EndOfArchive, Fail
  <2>2. /\ Status = "running" /\ Status' = (IF ~unmatched THEN "ok" ELSE "failed") /\ Tree' = Tree
        /\ Plan' = Plan /\ (~unmatched)' = ~unmatched /\ (idx - 1)' = idx - 1
    BY <2>1, PlanKept DEF Status, Tree
  <2>3. idx - 1 = Len(Plan)
    BY <1>0, <2>1, PlanFacts DEF Inv1, TypeOK
  <2>4. Promise!Finish
    BY <2>2, <2>3 DEF Promise!Finish
  <2> QED
    BY <2>4 DEF Promise!Next
<1>11. CASE UNCHANGED vars
  <2>1. UNCHANGED <<call, idx, disk, pc>>
    BY <1>11 DEF vars
  <2>2. Status' = Status
    BY <2>1 DEF Status
  <2>3. Tree' = Tree
    <3>1. CASE pc \in {"block", "cleanup"}
      <4>1. Entry' = Entry
        BY <2>1, CallKept
      <4>2. PICK p \in Paths : p = Entry.path
        BY <1>0, <3>1, EntryFacts DEF Inv1, TypeOK
      <4>3. Held(p)' = Held(p)
        BY <2>1, HeldKept
      <4> QED
        BY <2>1, <3>1, <4>1, <4>2, <4>3 DEF Tree
    <3>2. CASE pc \notin {"block", "cleanup"}
      BY <2>1, <3>2 DEF Tree
    <3> QED
      BY <3>1, <3>2
  <2> QED
    BY <2>1, <2>2, <2>3, StutterStep
<1> QED
  BY <1>1, <1>2, <1>3, <1>4, <1>6, <1>7, <1>8, <1>9, <1>10, <1>11 DEF Next, Done, Decode

\* The entries that were asked for arrive whole and in the order of the archive
\* until the first error, which leaves neither a partial file nor anything of a
\* later entry: extract_entry implements Deliveries.
THEOREM EntryDelivers == Spec => DeliversInOrder
<1>1. Init => Promise!Init
  BY DEF Init, Promise!Init, Status
<1> QED
  BY <1>1, Inv2Always, PromiseNext, PTL DEF Spec, DeliversInOrder, Promise!Spec
=============================================================================

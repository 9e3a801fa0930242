------------------------- MODULE SolidExtractProofs -------------------------
(***************************************************************************)
(* What SolidExtract promises, for every group of entries.                  *)
(***************************************************************************)
EXTENDS SolidExtract, TLAPS, WellFoundedInduction

\* setup_decryptor and verify_hmac have nothing against entry i.
KeyOK(i) ==
  entries[i].key # "bad" /\ (entries[i].key = "good" => entries[i].tag)

HasBlocks(i) == ~entries[i].dir /\ entries[i].nb > 0

\* The reader is past block b of entry i.
IsRead(i, b) == i < fi \/ (i = fi /\ b < blk)

\* Where the loops stand, and on which branch.
Control ==
  /\ pc = "plan" => blk = 0 /\ buffer = << >>
  /\ pc = "read" /\ blk > 0 => fi <= Len(entries) /\ ~Entry.dir /\ blk <= Entry.nb
  /\ pc \in {"read", "sink"} => AnyBlock
  /\ pc = "sink" => fi = Len(entries) + 1
  /\ pc = "bare" => ~AnyBlock /\ ~pipe
  /\ pc = "bare" /\ LostBlocks => fi = 1

Inv1 == TypeOK /\ Control

\* The buffer is the blocks that were read, in the order of the archive.
ChunkBefore(c, d) == c.file < d.file \/ (c.file = d.file /\ c.blk < d.blk)
InOrder == \A j, k \in 1..Len(buffer) : j < k => ChunkBefore(buffer[j], buffer[k])
NothingAhead ==
  pc = "read" => \A k \in 1..Len(buffer) : IsRead(buffer[k].file, buffer[k].blk)
NothingMissing ==
  pc \in {"read", "sink"} =>
    \A i \in 1..Len(entries) : \A b \in 0..entries[i].nb - 1 :
      ~entries[i].dir /\ IsRead(i, b) =>
        \E k \in 1..Len(buffer) : buffer[k].file = i /\ buffer[k].blk = b

\* The decryptor in use is the one of the entry at work, and stands where the
\* block read last ended.
InStep ==
  pc = "read" /\ blk > 0 =>
    LET c == buffer[Len(buffer)]
    IN  /\ Len(buffer) > 0
        /\ c.file = fi /\ c.blk = blk - 1
        /\ crypto = IF Entry.key = "none" THEN NoCrypto
                    ELSE [file |-> fi, used |-> c.at + Entry.csize[blk - 1]]

\* Every entry that was begun was accepted.
AllAccepted ==
  /\ pc \in {"read", "sink"} =>
       \A i \in 1..Len(entries) : HasBlocks(i) /\ IsRead(i, 0) => KeyOK(i)
  /\ pc \in {"times", "ok"} => \A i \in 1..Len(entries) : HasBlocks(i) => KeyOK(i)

Inv2 == InOrder /\ NothingAhead /\ NothingMissing /\ InStep /\ DecryptedInPlace /\ AllAccepted

\* The path holds what it held, or a new directory.
OnlyDir(p) == disk[p] = before[p] \/ (before[p] = Absent /\ disk[p] = Dir)
Created(p) == disk[p] = Empty /\ LastOn(p) # {}

DiskOK ==
  /\ pc \in {"plan", "read", "sink"} \/ (pc = "bare" /\ fi = 1) =>
       \A p \in Paths : OnlyDir(p)
  /\ pc = "bare" =>
       /\ \A p \in Paths : OnlyDir(p) \/ Created(p)
       /\ \A i \in 1..fi - 1 : Wanted(i) => disk[entries[i].path] = Empty
  /\ pc \in {"times", "ok"} /\ ~pipe =>
       \A i \in 1..Len(entries) :
         i \in LastOn(entries[i].path) =>
           disk[entries[i].path] = IF AnyBlock THEN Whole(i) ELSE Empty
  /\ pc = "ok" /\ ~pipe =>
       \A i \in 1..Len(entries) :
         i \in LastOn(entries[i].path) /\ entries[i].time =>
           stamp[entries[i].path] = i

Inv3 == DiskOK /\ NothingBeforeDecoding

-----------------------------------------------------------------------------

LEMMA EntriesFacts ==
  ASSUME entries \in Groups
  PROVE  /\ entries \in Seq({entries[i] : i \in DOMAIN entries})
         /\ Len(entries) \in Nat
         /\ \A i \in 1..Len(entries) : IsEntry(entries[i])
<1>1. entries \in Seq({entries[i] : i \in DOMAIN entries})
  BY GroupsAssumption
<1> QED
  BY <1>1, GroupsAssumption

\* The call never changes, nor what is said of it alone.
LEMMA CallKept ==
  ASSUME UNCHANGED call
  PROVE  /\ entries' = entries /\ pipe' = pipe /\ sound' = sound /\ before' = before
         /\ Chunks' = Chunks /\ Contents' = Contents
         /\ AnyBlock' = AnyBlock /\ LostBlocks' = LostBlocks
         /\ fi' = fi => Entry' = Entry
BY DEF call, Chunks, Contents, AnyBlock, LostBlocks, Entry

LEMMA Inv1Init == Init => Inv1
<1> SUFFICES ASSUME Init PROVE Inv1
  OBVIOUS
<1>1. TypeOK
  <2>1. disk \in [Paths -> Contents]
    BY TreesAssumption DEF Init, Contents
  <2>2. Len(entries) \in Nat
    BY EntriesFacts DEF Init
  <2>3. stamp \in [Paths -> 0..Len(entries)]
    BY <2>2 DEF Init
  <2> QED
    BY <2>1, <2>2, <2>3 DEF Init, TypeOK, NoCrypto
<1>2. Control
  BY DEF Init, Control
<1> QED
  BY <1>1, <1>2 DEF Inv1

\* The entry at work is an entry.
LEMMA EntryFacts ==
  ASSUME Inv1, fi <= Len(entries)
  PROVE  /\ fi \in 1..Len(entries) /\ IsEntry(Entry)
         /\ Entry.path \in Paths /\ Entry.nb \in Nat
         /\ Entry.csize \in [0..Entry.nb - 1 -> Nat]
         /\ Entry.key \in {"none", "good", "bad"} /\ Entry.dir \in BOOLEAN
<1>1. Len(entries) \in Nat
  BY EntriesFacts DEF Inv1, TypeOK
<1>2. fi \in 1..Len(entries)
  BY <1>1 DEF Inv1, TypeOK
<1>3. IsEntry(Entry)
  BY <1>2, EntriesFacts DEF Inv1, TypeOK, Entry
<1> QED
  BY <1>2, <1>3 DEF IsEntry

\* A set of indices that is not empty has a last one.
LEMMA HasLast ==
  ASSUME NEW n \in Nat, NEW S \in SUBSET (1..n), S # {}
  PROVE  \E i \in S : \A j \in S : j <= i
<1> DEFINE T == {n - i : i \in S}
<1>a. \A i \in S : n - i \in Nat
  OBVIOUS
<1>1. T \subseteq Nat /\ T # {}
  BY <1>a
<1>2. PICK t \in T : \A u \in T : ~(<<u, t>> \in OpToRel(<, Nat))
  BY <1>1, NatLessThanWellFounded, WFMin
<1>3. \A u \in T : ~(u < t)
  BY <1>1, <1>2 DEF OpToRel
<1>4. PICK i \in S : t = n - i
  OBVIOUS
<1>5. \A j \in S : ~(n - j < n - i)
  BY <1>3, <1>4
<1> QED
  BY <1>4, <1>5

\* The file that gets the time: the last one that has one.
LEMMA LatestTimed ==
  ASSUME Len(entries) \in Nat, NEW p, Timed(p) # {}
  PROVE  LastTimed(p) \in Timed(p) /\ \A j \in Timed(p) : j <= LastTimed(p)
<1>1. Timed(p) \in SUBSET (1..Len(entries))
  BY DEF Timed
<1>2. \E i \in Timed(p) : \A j \in Timed(p) : j <= i
  BY <1>1, HasLast
<1> QED
  BY <1>2 DEF LastTimed

LEMMA DecryptorType ==
  ASSUME Inv1, ReadBlock
  PROVE  /\ Decryptor \in [file : 0..Len(entries), used : Nat]
         /\ Entry.csize[blk] \in Nat
<1>1. /\ fi \in 1..Len(entries) /\ Entry.csize \in [0..Entry.nb - 1 -> Nat]
      /\ Entry.nb \in Nat /\ blk < Entry.nb /\ blk \in Nat
  BY EntryFacts DEF ReadBlock, Reading, HasBlock, Inv1, TypeOK
<1>2. Entry.csize[blk] \in Nat
  BY <1>1
<1>3. Decryptor \in [file : 0..Len(entries), used : Nat]
  BY <1>1, EntriesFacts DEF Inv1, TypeOK, Decryptor, NewEntry, NoCrypto
<1> QED
  BY <1>2, <1>3

\* Every block that is read is typed like the others.
LEMMA ReadBlockType ==
  ASSUME Inv1, ReadBlock
  PROVE  /\ buffer' \in Seq(Chunks)
         /\ crypto' \in [file : 0..Len(entries), used : Nat]
<1> DEFINE c == [file |-> fi, blk |-> blk, key |-> Decryptor.file, at |-> Decryptor.used]
<1>1. c \in Chunks
  BY DecryptorType, EntryFacts DEF ReadBlock, Reading, Chunks, Inv1, TypeOK
<1>2. buffer' \in Seq(Chunks)
  BY <1>1 DEF ReadBlock, Inv1, TypeOK
<1>3. NoCrypto \in [file : 0..Len(entries), used : Nat]
  BY EntriesFacts DEF NoCrypto, Inv1, TypeOK
<1>4. [Decryptor EXCEPT !.used = @ + Entry.csize[blk]] \in [file : 0..Len(entries), used : Nat]
  BY DecryptorType
<1>5. crypto' = IF Decryptor = NoCrypto THEN NoCrypto
                ELSE [Decryptor EXCEPT !.used = @ + Entry.csize[blk]]
  BY DEF ReadBlock
<1> QED
  BY <1>2, <1>3, <1>4, <1>5

LEMMA Inv1Next == Inv1 /\ [Next \/ Done]_vars => Inv1'
<1> SUFFICES ASSUME Inv1, [Next \/ Done]_vars PROVE Inv1'
  OBVIOUS
<1>n. Len(entries) \in Nat
  BY EntriesFacts DEF Inv1, TypeOK
<1> USE <1>n, CallKept DEF Inv1, TypeOK, Control, Fail
<1>2. CASE PlanDir
  <2>1. Entry.path \in Paths /\ fi' \in 1..Len(entries) + 1
    BY <1>2, EntryFacts DEF PlanDir, Planning
  <2>2. disk' \in [Paths -> Contents]
    BY <1>2, <2>1 DEF PlanDir, Contents
  <2> QED
    BY <1>2, <2>1, <2>2 DEF PlanDir, Planning
<1>3. CASE PlanDirFails
  BY <1>3 DEF PlanDirFails
<1>4. CASE PlanFile
  BY <1>4 DEF PlanFile, Planning
<1>5. CASE RefuseName
  BY <1>5 DEF RefuseName
<1>6. CASE Planned
  BY <1>6 DEF Planned
<1>7. CASE PassEntry
  BY <1>7 DEF PassEntry, Reading
<1>8. CASE RefuseKey
  BY <1>8 DEF RefuseKey
<1>9. CASE RefuseTag
  BY <1>9 DEF RefuseTag
<1>10. CASE ReadBlock
  <2>1. blk' \in Nat /\ blk' <= Entry.nb /\ ~Entry.dir
    BY <1>10, EntryFacts DEF ReadBlock, Reading, HasBlock
  <2> QED
    BY <1>10, <2>1, ReadBlockType DEF ReadBlock, Reading
<1>11. CASE ReadFails
  BY <1>11 DEF ReadFails
<1>12. CASE AllRead
  BY <1>12 DEF AllRead
<1>13. CASE SinkDelivers
  <2>1. ASSUME NEW p \in Paths PROVE After(p) \in Contents
    <3>1. LastOn(p) # {} => (CHOOSE i \in LastOn(p) : TRUE) \in 1..Len(entries)
      BY DEF LastOn
    <3>2. \A i \in 1..Len(entries) : Whole(i) \in Contents
      BY DEF Whole, Contents
    <3> QED
      BY <3>1, <3>2 DEF After
  <2> QED
    BY <1>13, <2>1 DEF SinkDelivers
<1>14. CASE SinkFails
  <2>1. disk' \in [Paths -> Contents]
    BY <1>14 DEF SinkFails, Contents
  <2> QED
    BY <1>14, <2>1 DEF SinkFails
<1>15. CASE RefuseLost
  BY <1>15 DEF RefuseLost
<1>16. CASE CreateEmpty
  <2>1. fi' \in 1..Len(entries) + 1 /\ Entry.path \in Paths
    BY <1>16, EntryFacts DEF CreateEmpty, Creating
  <2>2. disk' \in [Paths -> Contents]
    BY <1>16, <2>1 DEF CreateEmpty, Contents, Empty
  <2> QED
    BY <1>16, <2>1, <2>2 DEF CreateEmpty, Creating
<1>17. CASE CreateFails
  BY <1>17 DEF CreateFails
<1>18. CASE AllCreated
  BY <1>18 DEF AllCreated
<1>19. CASE ApplyTimes
  <2>1. ASSUME NEW p \in Paths, Timed(p) # {} PROVE LastTimed(p) \in 0..Len(entries)
    <3>1. LastTimed(p) \in Timed(p)
      BY <2>1, LatestTimed
    <3> QED
      BY <3>1 DEF Timed
  <2>2. stamp' \in [Paths -> 0..Len(entries)]
    BY <1>19, <2>1 DEF ApplyTimes
  <2> QED
    BY <1>19, <2>2 DEF ApplyTimes
<1>20. CASE UNCHANGED vars
  BY <1>20 DEF vars
<1> QED
  BY <1>2, <1>3, <1>4, <1>5, <1>6, <1>7, <1>8, <1>9, <1>10, <1>11, <1>12, <1>13,
     <1>14, <1>15, <1>16, <1>17, <1>18, <1>19, <1>20 DEF Next, Done

-----------------------------------------------------------------------------
(* The buffer.                                                              *)

LEMMA Inv2Init == Init => Inv2
<1> SUFFICES ASSUME Init PROVE Inv2
  OBVIOUS
<1>1. Len(buffer) = 0 /\ pc = "plan"
  BY DEF Init
<1>2. InOrder /\ DecryptedInPlace
  BY <1>1 DEF InOrder, DecryptedInPlace
<1> QED
  BY <1>1, <1>2 DEF Inv2, NothingAhead, NothingMissing, InStep, AllAccepted

\* A step that leaves the buffer alone keeps what is said of it alone.
LEMMA BufferKept ==
  ASSUME InOrder, DecryptedInPlace, UNCHANGED call, UNCHANGED buffer
  PROVE  InOrder' /\ DecryptedInPlace'
<1>1. entries' = entries /\ buffer' = buffer
  BY CallKept
<1> QED
  BY <1>1 DEF InOrder, DecryptedInPlace

LEMMA ChunkFacts ==
  ASSUME Inv1
  PROVE  /\ Len(buffer) \in Nat /\ Len(entries) \in Nat
         /\ \A k \in 1..Len(buffer) :
              /\ buffer[k] \in Chunks
              /\ buffer[k].file \in 1..Len(entries) /\ buffer[k].blk \in Nat
              /\ buffer[k].key \in 0..Len(entries) /\ buffer[k].at \in Nat
         /\ \A i \in 1..Len(entries) : entries[i].nb \in Nat
<1>1. Len(buffer) \in Nat /\ \A k \in 1..Len(buffer) : buffer[k] \in Chunks
  BY DEF Inv1, TypeOK
<1>2. \A c \in Chunks : /\ c.file \in 1..Len(entries) /\ c.blk \in Nat
                        /\ c.key \in 0..Len(entries) /\ c.at \in Nat
  BY DEF Chunks
<1>3. \A i \in 1..Len(entries) : entries[i].nb \in Nat
  BY EntriesFacts DEF Inv1, TypeOK, IsEntry
<1> QED
  BY <1>1, <1>2, <1>3, EntriesFacts DEF Inv1, TypeOK

LEMMA PassEntryReads ==
  ASSUME Inv1, Inv2, PassEntry
  PROVE  Inv2'
<1> USE DEF Inv1, TypeOK
<1>1. /\ entries' = entries /\ buffer' = buffer /\ pc = "read" /\ pc' = "read"
      /\ fi' = fi + 1 /\ blk' = 0 /\ fi \in 1..Len(entries) /\ Len(entries) \in Nat
  BY CallKept, EntryFacts, EntriesFacts DEF PassEntry, Reading
<1>2. \A i \in 1..Len(entries) : \A b \in Nat : IsRead(i, b) => IsRead(i, b)'
  BY <1>1 DEF IsRead
<1>3. \A i \in 1..Len(entries) : \A b \in 0..entries[i].nb - 1 :
        ~entries[i].dir /\ IsRead(i, b)' => IsRead(i, b)
  <2>1. ~entries[fi].dir => blk >= entries[fi].nb
    BY <1>1, EntryFacts DEF PassEntry, HasBlock, Entry
  <2> SUFFICES ASSUME NEW i \in 1..Len(entries), NEW b \in 0..entries[i].nb - 1,
                      ~entries[i].dir, i < fi + 1
               PROVE  i < fi \/ (i = fi /\ b < blk)
    BY <1>1 DEF IsRead
  <2>2. CASE i < fi
    BY <2>2
  <2>3. CASE i = fi
    <3>1. entries[i].nb \in Nat /\ blk \in Nat
      BY ChunkFacts
    <3> QED
      BY <2>1, <2>3, <3>1
  <2> QED
    BY <1>1, <2>2, <2>3
<1>5. NothingAhead'
  BY <1>1, <1>2, ChunkFacts DEF Inv2, NothingAhead
<1>6. NothingMissing'
  <2> SUFFICES ASSUME NEW i \in 1..Len(entries), NEW b \in 0..entries[i].nb - 1,
                      ~entries[i].dir, IsRead(i, b)'
               PROVE  \E k \in 1..Len(buffer') : buffer'[k].file = i /\ buffer'[k].blk = b
    BY <1>1 DEF NothingMissing
  <2>1. IsRead(i, b)
    BY <1>3
  <2>2. PICK k \in 1..Len(buffer) : buffer[k].file = i /\ buffer[k].blk = b
    BY <1>1, <2>1 DEF Inv2, NothingMissing
  <2> QED
    BY <1>1, <2>2
<1>7. InStep'
  BY <1>1 DEF InStep
<1>8. AllAccepted'
  <2>1. \A i \in 1..Len(entries) : HasBlocks(i) => 0 \in 0..entries[i].nb - 1
    BY ChunkFacts DEF HasBlocks
  <2>2. \A i \in 1..Len(entries) : HasBlocks(i)' = HasBlocks(i) /\ KeyOK(i)' = KeyOK(i)
    BY <1>1 DEF HasBlocks, KeyOK
  <2>3. \A i \in 1..Len(entries) : HasBlocks(i) /\ IsRead(i, 0)' => IsRead(i, 0)
    BY <1>3, <2>1 DEF HasBlocks
  <2> QED
    BY <1>1, <2>2, <2>3 DEF Inv2, AllAccepted
<1>9. UNCHANGED call
  BY DEF PassEntry
<1> QED
  BY <1>1, <1>5, <1>6, <1>7, <1>8, <1>9, BufferKept DEF Inv2

\* The block that is read is the next one of the archive.
LEMMA ReadBlockAppends ==
  ASSUME Inv1, Inv2, ReadBlock
  PROVE  LET n == Len(buffer)
             c == buffer'[n + 1]
         IN  /\ n \in Nat /\ Len(buffer') = n + 1
             /\ \A k \in 1..n : buffer'[k] = buffer[k] /\ buffer[k] \in Chunks
             /\ c = [file |-> fi, blk |-> blk, key |-> Decryptor.file, at |-> Decryptor.used]
             /\ fi \in 1..Len(entries) /\ blk \in 0..Entry.nb - 1 /\ ~Entry.dir
             /\ Entry.nb \in Nat
             /\ entries' = entries /\ fi' = fi /\ blk' = blk + 1
             /\ pc = "read" /\ pc' = "read"
<1> DEFINE c == [file |-> fi, blk |-> blk, key |-> Decryptor.file, at |-> Decryptor.used]
<1>1. buffer \in Seq(Chunks) /\ fi \in 1..Len(entries) + 1 /\ blk \in Nat
  BY DEF Inv1, TypeOK
<1>2. /\ buffer' = Append(buffer, c) /\ fi' = fi /\ blk' = blk + 1
      /\ pc = "read" /\ pc' = "read" /\ fi <= Len(entries) /\ ~Entry.dir /\ blk < Entry.nb
      /\ UNCHANGED call
  BY DEF ReadBlock, Reading, HasBlock
<1>3. fi \in 1..Len(entries) /\ Entry.nb \in Nat
  BY <1>1, <1>2, EntryFacts DEF Inv1
<1> HIDE DEF c
<1>4. /\ Len(buffer) \in Nat /\ Len(buffer') = Len(buffer) + 1
      /\ buffer'[Len(buffer) + 1] = c
      /\ \A k \in 1..Len(buffer) : buffer'[k] = buffer[k] /\ buffer[k] \in Chunks
  BY <1>1, <1>2
<1> QED
  BY <1>1, <1>2, <1>3, <1>4, CallKept DEF c

LEMMA ReadBlockInOrder ==
  ASSUME Inv1, Inv2, ReadBlock
  PROVE  InOrder' /\ NothingAhead' /\ NothingMissing'
<1> DEFINE n == Len(buffer)
<1>0. n \in Nat /\ \A k \in 1..n : buffer'[k] = buffer[k]
  BY ReadBlockAppends
<1>1. \A k \in 1..n : ChunkBefore(buffer'[k], buffer'[n + 1])
  BY ReadBlockAppends DEF Inv2, NothingAhead, IsRead, ChunkBefore, Chunks
<1>2. InOrder'
  <2> SUFFICES ASSUME NEW j \in 1..n + 1, NEW k \in 1..n + 1, j < k
               PROVE  ChunkBefore(buffer'[j], buffer'[k])
    BY ReadBlockAppends DEF InOrder, ChunkBefore
  <2>1. CASE k = n + 1
    <3>1. j \in 1..n
      BY <1>0, <2>1
    <3> QED
      BY <1>1, <2>1, <3>1
  <2>2. CASE k \in 1..n
    <3>1. j \in 1..n
      BY <1>0, <2>2
    <3>2. ChunkBefore(buffer[j], buffer[k])
      BY <2>2, <3>1 DEF Inv2, InOrder
    <3> QED
      BY <1>0, <2>2, <3>1, <3>2
  <2> QED
    BY <1>0, <2>1, <2>2
<1>3. NothingAhead'
  <2> SUFFICES ASSUME NEW k \in 1..n + 1
               PROVE  IsRead(buffer[k].file, buffer[k].blk)'
    BY ReadBlockAppends DEF NothingAhead, IsRead
  <2>1. CASE k = n + 1
    <3>1. buffer'[k].file = fi /\ buffer'[k].blk = blk /\ fi' = fi /\ blk' = blk + 1 /\ blk \in Int
      BY <2>1, ReadBlockAppends
    <3> QED
      BY <3>1 DEF IsRead
  <2>2. CASE k \in 1..n
    <3>1. IsRead(buffer[k].file, buffer[k].blk)
      BY <2>2, ReadBlockAppends DEF Inv2, NothingAhead
    <3>2. buffer'[k] = buffer[k] /\ fi' = fi /\ blk' = blk + 1 /\ blk \in Int
      BY <2>2, ReadBlockAppends
    <3>3. buffer[k].file \in Int /\ buffer[k].blk \in Int
      BY <2>2, ChunkFacts
    <3> QED
      BY <3>1, <3>2, <3>3 DEF IsRead
  <2> QED
    BY <2>1, <2>2, ReadBlockAppends
<1>4. NothingMissing'
  <2> SUFFICES ASSUME NEW i \in 1..Len(entries), NEW b \in 0..entries[i].nb - 1,
                      ~entries[i].dir, IsRead(i, b)'
               PROVE  \E k \in 1..n + 1 : buffer'[k].file = i /\ buffer'[k].blk = b
    BY ReadBlockAppends DEF NothingMissing, IsRead
  <2>1. CASE i = fi /\ b = blk
    BY <2>1, ReadBlockAppends
  <2>2. CASE IsRead(i, b)
    <3>1. PICK k \in 1..n : buffer[k].file = i /\ buffer[k].blk = b
      BY <2>2, ReadBlockAppends DEF Inv2, NothingMissing
    <3> QED
      BY <3>1, ReadBlockAppends
  <2>3. b \in Int
    BY ChunkFacts
  <2> QED
    BY <2>1, <2>2, <2>3, ReadBlockAppends DEF IsRead
<1> QED
  BY <1>2, <1>3, <1>4

\* Where the decryptor in use stands, as the buffer shows it.
LEMMA DecryptorInPlace ==
  ASSUME Inv1, Inv2, ReadBlock
  PROVE  /\ Entry.key = "none" => Decryptor = NoCrypto
         /\ Entry.key # "none" =>
              Decryptor = [file |-> fi,
                           used |-> IF blk = 0 THEN 0
                                    ELSE buffer[Len(buffer)].at + Entry.csize[blk - 1]]
         /\ blk > 0 => /\ Len(buffer) > 0 /\ buffer[Len(buffer)].file = fi
                       /\ buffer[Len(buffer)].blk = blk - 1
<1>1. pc = "read" /\ blk \in Nat
  BY ReadBlockAppends, EntryFacts
<1>2. CASE blk = 0
  BY <1>1, <1>2 DEF Decryptor, NewEntry
<1>3. CASE blk > 0
  BY <1>1, <1>3 DEF Decryptor, NewEntry, Inv2, InStep
<1> QED
  BY <1>1, <1>2, <1>3

LEMMA ReadBlockInPlace ==
  ASSUME Inv1, Inv2, ReadBlock
  PROVE  DecryptedInPlace' /\ InStep' /\ AllAccepted'
<1> DEFINE n == Len(buffer)
           c == buffer'[n + 1]
<1>1. Entry' = Entry /\ Entry = entries[fi]
  BY ReadBlockAppends DEF Entry
<1>2. DecryptedInPlace'
  <2> DEFINE Placed(k) ==
        IF entries[buffer[k].file].key = "none" THEN buffer[k].key = 0
        ELSE /\ buffer[k].key = buffer[k].file
             /\ IF buffer[k].blk = 0 THEN buffer[k].at = 0
                ELSE /\ k > 1 /\ FollowsInEntry(buffer[k], buffer[k - 1])
                     /\ buffer[k].at = buffer[k - 1].at
                                     + entries[buffer[k].file].csize[buffer[k].blk - 1]
  <2>1. ASSUME NEW k \in 1..n PROVE Placed(k)'
    <3>1. Placed(k)
      BY DEF Inv2, DecryptedInPlace
    <3>2. k > 1 => k - 1 \in 1..n
      BY ReadBlockAppends
    <3> QED
      BY <3>1, <3>2, ReadBlockAppends DEF FollowsInEntry
  <2>2. ASSUME NEW k \in 1..n + 1, k = n + 1 PROVE Placed(k)'
    <3>1. /\ buffer'[k].file = fi /\ buffer'[k].blk = blk
          /\ buffer'[k].key = Decryptor.file /\ buffer'[k].at = Decryptor.used
          /\ entries'[fi] = Entry
      BY <2>2, <1>1, ReadBlockAppends
    <3>2. blk > 0 => k > 1 /\ buffer'[k - 1] = buffer[n]
      BY <2>2, ReadBlockAppends, DecryptorInPlace
    <3>3. CASE Entry.key = "none"
      BY <3>1, <3>3, DecryptorInPlace DEF NoCrypto
    <3>4. CASE Entry.key # "none" /\ blk = 0
      BY <3>1, <3>4, DecryptorInPlace
    <3>5. CASE Entry.key # "none" /\ blk > 0
      BY <3>1, <3>2, <3>5, ReadBlockAppends, DecryptorInPlace DEF FollowsInEntry
    <3> QED
      BY <3>3, <3>4, <3>5, ReadBlockAppends
  <2>3. ASSUME NEW k \in 1..n + 1 PROVE Placed(k)'
    <3>1. k \in 1..n \/ k = n + 1
      BY ReadBlockAppends
    <3> HIDE DEF Placed
    <3> QED
      BY <2>1, <2>2, <3>1
  <2> QED
    BY <2>3, ReadBlockAppends DEF DecryptedInPlace
<1>3. InStep'
  <2>1. crypto' = IF Entry.key = "none" THEN NoCrypto
                  ELSE [file |-> fi, used |-> c.at + Entry.csize[blk]]
    <3>1. fi # 0 /\ c.at = Decryptor.used
      BY ReadBlockAppends
    <3>2. CASE Entry.key = "none"
      BY <3>2, DecryptorInPlace DEF ReadBlock
    <3>3. CASE Entry.key # "none"
      <4>1. Decryptor # NoCrypto
        BY <3>1, <3>3, DecryptorInPlace DEF NoCrypto
      <4>2. crypto' = [Decryptor EXCEPT !.used = @ + Entry.csize[blk]]
        BY <4>1 DEF ReadBlock
      <4> QED
        BY <3>1, <3>3, <4>2, DecryptorInPlace
    <3> QED
      BY <3>2, <3>3
  <2>2. /\ fi' = fi /\ blk' = blk + 1 /\ blk \in Nat /\ Len(buffer') = n + 1 /\ n \in Nat
        /\ c.file = fi /\ c.blk = blk
    BY ReadBlockAppends
  <2> HIDE DEF c
  <2>3. buffer'[Len(buffer')] = c
    BY <2>2 DEF c
  <2> QED
    BY <1>1, <2>1, <2>2, <2>3 DEF InStep
<1>4. AllAccepted'
  <2>1. \A i \in 1..Len(entries) : HasBlocks(i)' = HasBlocks(i) /\ KeyOK(i)' = KeyOK(i)
    BY ReadBlockAppends DEF HasBlocks, KeyOK
  <2>2. \A i \in 1..Len(entries) : IsRead(i, 0)' /\ i # fi => IsRead(i, 0)
    BY ReadBlockAppends DEF IsRead
  <2>3. KeyOK(fi)
    <3>1. CASE blk = 0
      BY <1>1, <3>1 DEF ReadBlock, NewEntry, Accepted, KeyOK
    <3>2. CASE blk > 0
      BY <3>2, ReadBlockAppends DEF Inv2, AllAccepted, HasBlocks, IsRead, Entry
    <3> QED
      BY <3>1, <3>2, ReadBlockAppends
  <2> QED
    BY <2>1, <2>2, <2>3, ReadBlockAppends DEF Inv2, AllAccepted
<1> QED
  BY <1>2, <1>3, <1>4

\* All the blocks of the group were read, and all of its entries accepted.
LEMMA AllReadMeans ==
  ASSUME Inv1, fi = Len(entries) + 1
  PROVE  \A i \in 1..Len(entries) : \A b \in Nat : IsRead(i, b)
BY ChunkFacts DEF IsRead

LEMMA Inv2Next == Inv1 /\ Inv2 /\ [Next \/ Done]_vars => Inv2'
<1> SUFFICES ASSUME Inv1, Inv2, [Next \/ Done]_vars PROVE Inv2'
  OBVIOUS
<1>1. UNCHANGED call => \A i \in 1..Len(entries) : HasBlocks(i)' = HasBlocks(i) /\ KeyOK(i)' = KeyOK(i)
  BY CallKept DEF HasBlocks, KeyOK
<1>2. ASSUME UNCHANGED call, UNCHANGED buffer, pc' \in {"failed", "bare"} PROVE Inv2'
  BY <1>2, BufferKept DEF Inv2, NothingAhead, NothingMissing, InStep, AllAccepted
<1>3. CASE PlanDir \/ PlanFile
  <2>1. pc' = "plan" /\ UNCHANGED call /\ UNCHANGED buffer
    BY <1>3 DEF PlanDir, PlanFile, Planning
  <2> QED
    BY <2>1, BufferKept DEF Inv2, NothingAhead, NothingMissing, InStep, AllAccepted
<1>4. CASE Planned
  <2>1. /\ pc' = IF AnyBlock THEN "read" ELSE IF pipe THEN "times" ELSE "bare"
        /\ buffer = << >> /\ buffer' = << >> /\ fi' = 1 /\ blk' = 0 /\ UNCHANGED call
    BY <1>4 DEF Planned, Inv1, Control
  <2>2. \A i \in 1..Len(entries) : \A b \in Nat : ~IsRead(i, b)'
    BY <2>1, ChunkFacts DEF IsRead
  <2>3. NothingAhead' /\ InStep'
    BY <2>1 DEF NothingAhead, InStep
  <2>4. NothingMissing'
    BY <2>1, <2>2, CallKept, ChunkFacts DEF NothingMissing
  <2>5. AllAccepted'
    BY <2>1, <2>2, <1>1, CallKept DEF AllAccepted, AnyBlock, HasBlocks
  <2> QED
    BY <2>1, <2>3, <2>4, <2>5, BufferKept DEF Inv2
<1>5. CASE PassEntry
  BY <1>5, PassEntryReads
<1>6. CASE ReadBlock
  BY <1>6, ReadBlockInOrder, ReadBlockInPlace DEF Inv2
<1>7. CASE AllRead
  <2>1. /\ pc = "read" /\ pc' = "sink" /\ fi' = fi /\ blk' = blk
        /\ UNCHANGED call /\ UNCHANGED buffer
    BY <1>7 DEF AllRead
  <2>2. \A i, b : IsRead(i, b)' = IsRead(i, b)
    BY <2>1 DEF IsRead
  <2>3. NothingMissing' /\ AllAccepted'
    BY <2>1, <2>2, <1>1, CallKept DEF Inv2, NothingMissing, AllAccepted
  <2> QED
    BY <2>1, <2>3, BufferKept DEF Inv2, NothingAhead, InStep
<1>8. CASE SinkDelivers
  <2>1. pc = "sink" /\ pc' = "times" /\ UNCHANGED call /\ UNCHANGED buffer
    BY <1>8 DEF SinkDelivers
  <2>2. \A i \in 1..Len(entries) : HasBlocks(i) => KeyOK(i)
    BY <2>1, AllReadMeans DEF Inv1, Control, Inv2, AllAccepted
  <2>3. AllAccepted'
    BY <2>1, <2>2, <1>1, CallKept DEF AllAccepted
  <2> QED
    BY <2>1, <2>3, BufferKept DEF Inv2, NothingAhead, NothingMissing, InStep
<1>9. CASE AllCreated
  <2>1. pc = "bare" /\ pc' = "times" /\ UNCHANGED call /\ UNCHANGED buffer
    BY <1>9 DEF AllCreated
  <2>2. \A i \in 1..Len(entries) : ~HasBlocks(i)
    BY <2>1 DEF Inv1, Control, AnyBlock, HasBlocks
  <2>3. AllAccepted'
    BY <2>1, <2>2, <1>1, CallKept DEF AllAccepted
  <2> QED
    BY <2>1, <2>3, BufferKept DEF Inv2, NothingAhead, NothingMissing, InStep
<1>10. CASE ApplyTimes
  <2>1. pc = "times" /\ pc' = "ok" /\ UNCHANGED call /\ UNCHANGED buffer
    BY <1>10 DEF ApplyTimes
  <2>2. AllAccepted'
    BY <2>1, <1>1, CallKept DEF Inv2, AllAccepted
  <2> QED
    BY <2>1, <2>2, BufferKept DEF Inv2, NothingAhead, NothingMissing, InStep
<1>11. CASE CreateEmpty
  BY <1>11, <1>2 DEF CreateEmpty, Creating
<1>12. CASE \/ PlanDirFails \/ RefuseName \/ RefuseKey \/ RefuseTag \/ ReadFails
            \/ SinkFails \/ RefuseLost \/ CreateFails
  BY <1>12, <1>2 DEF PlanDirFails, RefuseName, RefuseKey, RefuseTag, ReadFails,
                     SinkFails, RefuseLost, CreateFails, Fail
<1>13. CASE UNCHANGED vars
  <2>1. pc' = pc /\ fi' = fi /\ blk' = blk /\ crypto' = crypto /\ buffer' = buffer /\ UNCHANGED call
    BY <1>13 DEF vars
  <2>2. \A i, b : IsRead(i, b)' = IsRead(i, b)
    BY <2>1 DEF IsRead
  <2> QED
    BY <2>1, <2>2, <1>1, CallKept, BufferKept
       DEF Inv2, NothingAhead, NothingMissing, InStep, AllAccepted
<1> QED
  BY <1>3, <1>4, <1>5, <1>6, <1>7, <1>8, <1>9, <1>10, <1>11, <1>12, <1>13 DEF Next, Done

-----------------------------------------------------------------------------
(* The disk.                                                                *)

LEMMA LastOnFacts ==
  ASSUME Len(entries) \in Nat
  PROVE  \A p : /\ LastOn(p) \subseteq 1..Len(entries)
                /\ \A i, j \in LastOn(p) : i = j
                /\ \A i \in 1..Len(entries) :
                     Wanted(i) /\ entries[i].path = p => LastOn(p) # {}
<1> TAKE p
<1>1. LastOn(p) \subseteq 1..Len(entries) /\ \A i, j \in LastOn(p) : i = j
  BY DEF LastOn
<1>2. ASSUME NEW i \in 1..Len(entries), Wanted(i), entries[i].path = p
      PROVE  LastOn(p) # {}
  <2> DEFINE S == {j \in 1..Len(entries) : Wanted(j) /\ entries[j].path = p}
  <2>1. PICK k \in S : \A j \in S : j <= k
    BY <1>2, HasLast
  <2>2. k \in LastOn(p)
    BY <2>1 DEF LastOn
  <2> QED
    BY <2>2
<1> QED
  BY <1>1, <1>2

LEMMA PlanKept ==
  ASSUME UNCHANGED call
  PROVE  /\ \A i : Wanted(i)' = Wanted(i)
         /\ \A p : LastOn(p)' = LastOn(p)
         /\ UNCHANGED disk => \A p : OnlyDir(p)' = OnlyDir(p) /\ Created(p)' = Created(p)
<1>1. \A i : Wanted(i)' = Wanted(i)
  BY CallKept DEF Wanted
<1>2. \A p : LastOn(p)' = LastOn(p)
  BY CallKept DEF LastOn, Wanted
<1>3. UNCHANGED disk => \A p : OnlyDir(p)' = OnlyDir(p)
  BY CallKept DEF OnlyDir
<1>4. UNCHANGED disk => \A p : Created(p)' = Created(p)
  BY <1>2 DEF Created, Empty
<1> QED
  BY <1>1, <1>2, <1>3, <1>4

LEMMA Inv3Init == Init => Inv3
BY DEF Init, Inv3, DiskOK, OnlyDir, NothingBeforeDecoding

\* What fails outside of the sink leaves the disk as it is.
LEMMA FailKeeps ==
  ASSUME Inv1, Inv3, UNCHANGED call, UNCHANGED disk, pc' = "failed",
         \/ pc \in {"plan", "read"}
         \/ pc = "bare" /\ (fi = 1 \/ err' = "io")
  PROVE  Inv3'
<1>1. DiskOK'
  BY DEF DiskOK
<1>2. \A p \in Paths : \/ OnlyDir(p)
                       \/ ~AnyBlock /\ err' = "io" /\ Created(p)
  BY DEF Inv3, DiskOK, Inv1, Control
<1>3. \A p \in Paths : \/ OnlyDir(p)'
                       \/ ~AnyBlock' /\ err' = "io" /\ Created(p)'
  BY <1>2, CallKept, PlanKept
<1>4. NothingBeforeDecoding'
  BY <1>3 DEF NothingBeforeDecoding, OnlyDir, Created
<1> QED
  BY <1>1, <1>4 DEF Inv3

LEMMA OnlyDirsKept ==
  ASSUME Inv3, UNCHANGED call, UNCHANGED disk,
         pc \in {"plan", "read"}, pc' \in {"plan", "read", "sink"}
  PROVE  Inv3'
BY PlanKept DEF Inv3, DiskOK, NothingBeforeDecoding

LEMMA CreateEmptyDisk ==
  ASSUME Inv1, Inv3, CreateEmpty
  PROVE  Inv3'
<1>1. /\ pc = "bare" /\ pc' = "bare" /\ fi' = fi + 1 /\ fi \in 1..Len(entries)
      /\ UNCHANGED call /\ Len(entries) \in Nat /\ Entry = entries[fi]
      /\ Entry.path \in Paths /\ disk \in [Paths -> Contents]
  BY EntryFacts, ChunkFacts DEF CreateEmpty, Creating, Entry, Inv1, TypeOK
<1>2. /\ \A p \in Paths : OnlyDir(p) \/ Created(p)
      /\ \A i \in 1..fi - 1 : Wanted(i) => disk[entries[i].path] = Empty
  BY <1>1 DEF Inv3, DiskOK
<1>3. CASE ~Wanted(fi)
  <2>1. disk' = disk
    BY <1>3 DEF CreateEmpty
  <2>2. \A p \in Paths : OnlyDir(p)' \/ Created(p)'
    BY <1>1, <1>2, <2>1, PlanKept
  <2>3. \A i \in 1..fi : Wanted(i)' => disk'[entries'[i].path] = Empty'
    BY <1>1, <1>2, <1>3, <2>1, PlanKept, CallKept DEF Empty
  <2> QED
    BY <1>1, <2>2, <2>3 DEF Inv3, DiskOK, NothingBeforeDecoding
<1>4. CASE Wanted(fi)
  <2>1. disk' = [disk EXCEPT ![Entry.path] = Empty]
    BY <1>4 DEF CreateEmpty
  <2>2. LastOn(Entry.path) # {}
    BY <1>1, <1>4, LastOnFacts
  <2>3. ASSUME NEW p \in Paths PROVE OnlyDir(p)' \/ Created(p)'
    <3>1. CASE p = Entry.path
      BY <1>1, <2>1, <2>2, <3>1, PlanKept DEF Created, Empty
    <3>2. CASE p # Entry.path
      <4>1. disk'[p] = disk[p]
        BY <1>1, <2>1, <3>2
      <4> QED
        BY <1>1, <1>2, <4>1, PlanKept, CallKept DEF OnlyDir, Created, Empty
    <3> QED
      BY <3>1, <3>2
  <2>4. ASSUME NEW i \in 1..fi, Wanted(i) PROVE disk'[entries[i].path] = Empty
    <3>1. i \in 1..fi - 1 \/ i = fi
      BY <1>1
    <3>2. entries[i].path \in Paths
      BY <1>1, <2>4, EntriesFacts DEF Inv1, TypeOK, IsEntry
    <3> QED
      BY <1>1, <1>2, <2>1, <2>4, <3>1, <3>2
  <2>5. \A i \in 1..fi : Wanted(i)' => disk'[entries'[i].path] = Empty'
    BY <1>1, <2>4, PlanKept, CallKept DEF Empty
  <2> QED
    BY <1>1, <2>3, <2>5 DEF Inv3, DiskOK, NothingBeforeDecoding
<1> QED
  BY <1>3, <1>4

LEMMA SinkDeliversDisk ==
  ASSUME Inv1, Inv3, SinkDelivers
  PROVE  Inv3'
<1>1. /\ pc' = "times" /\ UNCHANGED call /\ AnyBlock /\ Len(entries) \in Nat
      /\ disk' = [p \in Paths |-> After(p)]
  BY ChunkFacts DEF SinkDelivers, Inv1, Control
<1>2. ASSUME NEW i \in 1..Len(entries), ~pipe, i \in LastOn(entries[i].path)
      PROVE  disk'[entries[i].path] = Whole(i)
  <2> DEFINE p == entries[i].path
  <2>1. p \in Paths
    BY EntriesFacts DEF Inv1, TypeOK, IsEntry
  <2>2. (CHOOSE j \in LastOn(p) : TRUE) = i
    BY <1>1, <1>2, LastOnFacts
  <2> QED
    BY <1>1, <1>2, <2>1, <2>2 DEF After
<1>3. \A i : Whole(i)' = Whole(i)
  BY DEF Whole
<1>4. DiskOK'
  BY <1>1, <1>2, <1>3, CallKept, PlanKept DEF DiskOK
<1> QED
  BY <1>1, <1>4 DEF Inv3, NothingBeforeDecoding

LEMMA ApplyTimesDisk ==
  ASSUME Inv1, Inv3, ApplyTimes
  PROVE  Inv3'
<1>1. /\ pc = "times" /\ pc' = "ok" /\ UNCHANGED call /\ UNCHANGED disk
      /\ Len(entries) \in Nat
      /\ stamp' = [p \in Paths |-> IF pipe \/ Timed(p) = {} THEN 0 ELSE LastTimed(p)]
  BY ChunkFacts DEF ApplyTimes
<1>2. ASSUME NEW i \in 1..Len(entries), ~pipe, i \in LastOn(entries[i].path), entries[i].time
      PROVE  stamp'[entries[i].path] = i
  <2> DEFINE p == entries[i].path
  <2>1. p \in Paths
    BY EntriesFacts DEF Inv1, TypeOK, IsEntry
  <2>2. i \in Timed(p) /\ Timed(p) \subseteq 1..Len(entries)
    BY <1>2 DEF Timed, LastOn
  <2>3. \A j \in Timed(p) : j <= i
    BY <1>2 DEF Timed, LastOn
  <2>4. LastTimed(p) \in Timed(p) /\ i <= LastTimed(p)
    BY <1>1, <2>2, LatestTimed
  <2>5. LastTimed(p) = i
    BY <2>2, <2>3, <2>4
  <2> QED
    BY <1>1, <1>2, <2>1, <2>2, <2>5
<1>3. \A i : Whole(i)' = Whole(i) /\ Empty' = Empty
  BY DEF Whole, Empty
<1>4. (~pipe => \A i \in 1..Len(entries) :
         i \in LastOn(entries[i].path) /\ entries[i].time => stamp[entries[i].path] = i)'
  <2>1. entries' = entries /\ pipe' = pipe
    BY <1>1, CallKept
  <2> SUFFICES ASSUME ~pipe, NEW i \in 1..Len(entries), LastOn(entries[i].path)' = LastOn(entries[i].path),
                      i \in LastOn(entries[i].path), entries[i].time
               PROVE  stamp'[entries[i].path] = i
    BY <1>1, <2>1, PlanKept
  <2> QED
    BY <1>2
<1>5. (~pipe => \A i \in 1..Len(entries) :
         i \in LastOn(entries[i].path) =>
           disk[entries[i].path] = IF AnyBlock THEN Whole(i) ELSE Empty)'
  BY <1>1, <1>3, CallKept, PlanKept DEF Inv3, DiskOK
<1>6. DiskOK'
  BY <1>1, <1>4, <1>5 DEF DiskOK
<1> QED
  BY <1>1, <1>6 DEF Inv3, NothingBeforeDecoding

LEMMA Inv3Next == Inv1 /\ Inv3 /\ [Next \/ Done]_vars => Inv3'
<1> SUFFICES ASSUME Inv1, Inv3, [Next \/ Done]_vars PROVE Inv3'
  OBVIOUS
<1>1. CASE PlanDir
  <2>1. /\ pc = "plan" /\ pc' = "plan" /\ UNCHANGED call
        /\ disk \in [Paths -> Contents] /\ disk[Entry.path] \in {Absent, Dir}
        /\ disk' = [disk EXCEPT ![Entry.path] = Dir]
    BY <1>1 DEF PlanDir, Planning, Inv1, TypeOK
  <2>2. \A p \in Paths : OnlyDir(p)
    BY <2>1 DEF Inv3, DiskOK
  <2>3. \A p \in Paths : OnlyDir(p)'
    BY <2>1, <2>2, CallKept DEF OnlyDir
  <2> QED
    BY <2>1, <2>3 DEF Inv3, DiskOK, NothingBeforeDecoding
<1>2. CASE PlanFile
  BY <1>2, OnlyDirsKept DEF PlanFile, Planning
<1>3. CASE PlanDirFails \/ RefuseName
  BY <1>3, FailKeeps DEF PlanDirFails, RefuseName, Planning, Fail
<1>4. CASE Planned
  <2>1. /\ pc = "plan" /\ fi' = 1 /\ UNCHANGED call /\ UNCHANGED disk
        /\ pc' = IF AnyBlock THEN "read" ELSE IF pipe THEN "times" ELSE "bare"
    BY <1>4 DEF Planned
  <2>2. \A p \in Paths : OnlyDir(p)'
    BY <2>1, PlanKept DEF Inv3, DiskOK
  <2> QED
    BY <2>1, <2>2, CallKept DEF Inv3, DiskOK, NothingBeforeDecoding
<1>5. CASE PassEntry \/ ReadBlock \/ AllRead
  BY <1>5, OnlyDirsKept DEF PassEntry, ReadBlock, AllRead, Reading
<1>6. CASE RefuseKey \/ RefuseTag \/ ReadFails
  BY <1>6, FailKeeps DEF RefuseKey, RefuseTag, ReadFails, Reading, Fail
<1>7. CASE SinkDelivers
  BY <1>7, SinkDeliversDisk
<1>8. CASE SinkFails
  BY <1>8 DEF SinkFails, Fail, Inv3, DiskOK, NothingBeforeDecoding
<1>9. CASE RefuseLost
  BY <1>9, FailKeeps DEF RefuseLost, Fail
<1>10. CASE CreateEmpty
  BY <1>10, CreateEmptyDisk
<1>11. CASE CreateFails
  BY <1>11, FailKeeps DEF CreateFails, Creating, Fail
<1>12. CASE AllCreated
  <2>1. /\ pc = "bare" /\ pc' = "times" /\ UNCHANGED call /\ UNCHANGED disk
        /\ fi > Len(entries) /\ fi \in 1..Len(entries) + 1 /\ Len(entries) \in Nat
        /\ ~AnyBlock
    BY <1>12, ChunkFacts DEF AllCreated, Inv1, TypeOK, Control
  <2>2. \A i \in 1..Len(entries) : Wanted(i) => disk[entries[i].path] = Empty
    BY <2>1 DEF Inv3, DiskOK
  <2>3. \A p : \A i \in LastOn(p) : Wanted(i)
    BY DEF LastOn
  <2>4. Empty' = Empty
    BY DEF Empty
  <2>5. DiskOK'
    BY <2>1, <2>2, <2>3, <2>4, CallKept, PlanKept DEF DiskOK
  <2> QED
    BY <2>1, <2>5 DEF Inv3, NothingBeforeDecoding
<1>13. CASE ApplyTimes
  BY <1>13, ApplyTimesDisk
<1>14. CASE UNCHANGED vars
  <2>1. /\ pc' = pc /\ fi' = fi /\ err' = err /\ stamp' = stamp
        /\ UNCHANGED disk /\ UNCHANGED call
    BY <1>14 DEF vars
  <2>2. Empty' = Empty /\ \A i : Whole(i)' = Whole(i)
    BY DEF Empty, Whole
  <2>3. DiskOK'
    BY <2>1, <2>2, CallKept, PlanKept DEF Inv3, DiskOK
  <2>4. NothingBeforeDecoding'
    BY <2>1, <2>2, CallKept, PlanKept DEF Inv3, NothingBeforeDecoding
  <2> QED
    BY <2>3, <2>4 DEF Inv3
<1> QED
  BY <1>1, <1>2, <1>3, <1>4, <1>5, <1>6, <1>7, <1>8, <1>9, <1>10, <1>11, <1>12,
     <1>13, <1>14 DEF Next, Done

-----------------------------------------------------------------------------

LEMMA InvAlways == Spec => [](Inv1 /\ Inv2 /\ Inv3)
<1>1. Init => Inv1 /\ Inv2 /\ Inv3
  BY Inv1Init, Inv2Init, Inv3Init
<1>2. Inv1 /\ Inv2 /\ Inv3 /\ [Next \/ Done]_vars => Inv1' /\ Inv2' /\ Inv3'
  BY Inv1Next, Inv2Next, Inv3Next
<1> QED
  BY <1>1, <1>2, PTL DEF Spec

\* The loops over entries and blocks, the decryptor in use, the buffer, the disk
\* and the file times stay inside their types for every group.
THEOREM SolidTypeOK == Spec => []TypeOK
<1>1. Inv1 => TypeOK
  BY DEF Inv1
<1> QED
  BY <1>1, InvAlways, PTL

\* extract_all_solid gives the decoder the group as it was compressed: every
\* block once and in its place, decrypted with its own entry's key at the place
\* of the key stream where the block before it ended.
THEOREM SolidDecodesTheGroup == Spec => []DecodesTheGroup
<1>1. Inv1 /\ Inv2 => DecodesTheGroup
  <2> SUFFICES ASSUME Inv1, Inv2, pc = "sink" PROVE BufferInOrder
    BY DEF Inv2, DecodesTheGroup, BufferInOrder
  <2>1. \A i \in 1..Len(entries) : \A b \in 0..entries[i].nb - 1 :
          ~entries[i].dir => \E k \in 1..Len(buffer) : buffer[k].file = i /\ buffer[k].blk = b
    <3>1. \A i \in 1..Len(entries) : \A b \in 0..entries[i].nb - 1 : IsRead(i, b)
      BY AllReadMeans, ChunkFacts DEF Inv1, Control
    <3>2. \A i \in 1..Len(entries) : \A b \in 0..entries[i].nb - 1 :
            ~entries[i].dir /\ IsRead(i, b) =>
              \E k \in 1..Len(buffer) : buffer[k].file = i /\ buffer[k].blk = b
      BY DEF Inv2, NothingMissing
    <3> QED
      BY <3>1, <3>2
  <2> QED
    BY <2>1 DEF Inv2, InOrder, ChunkBefore, BufferInOrder
<1> QED
  BY <1>1, InvAlways, PTL

\* Before the decoder runs, no failure has touched a file of the user.
THEOREM SolidTouchesNothingEarly == Spec => []NothingBeforeDecoding
<1>1. Inv3 => NothingBeforeDecoding
  BY DEF Inv3
<1> QED
  BY <1>1, InvAlways, PTL

\* A group that was extracted was accepted as a whole, and every wanted file is
\* there, whole and with its own time, for every group and every tree.
THEOREM SolidSuccessIsWhole == Spec => []SuccessIsWhole
<1>1. Inv2 /\ Inv3 => SuccessIsWhole
  <2> SUFFICES ASSUME Inv2, Inv3, pc = "ok" PROVE SuccessIsWhole
    BY DEF SuccessIsWhole
  <2>1. \A i \in 1..Len(entries) : HasBlocks(i) => KeyOK(i)
    BY DEF Inv2, AllAccepted
  <2>2. ~pipe => \A i \in 1..Len(entries) :
          i \in LastOn(entries[i].path) =>
            /\ disk[entries[i].path] = (IF AnyBlock THEN Whole(i) ELSE Empty)
            /\ entries[i].time => stamp[entries[i].path] = i
    BY DEF Inv3, DiskOK
  <2> QED
    BY <2>1, <2>2 DEF HasBlocks, KeyOK, SuccessIsWhole
<1> QED
  BY <1>1, InvAlways, PTL
=============================================================================

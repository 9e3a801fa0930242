---------------------------- MODULE SolidExtract ----------------------------
(***************************************************************************)
(* extract_all_solid of src/src/extract.rs around the sink: plan the two    *)
(* tilings and make directories, read and decrypt every block of the group, *)
(* decode it through the sink, apply the file times.                        *)
(*                                                                          *)
(* The sink is taken as Delivery promises it (SolidSink implements that):   *)
(* it delivers every wanted file, or fails and leaves some of their paths   *)
(* empty.  Whole(i) stands for the complete content of entry i.  What goes  *)
(* to the standard output is left to SolidSink.                              *)
(***************************************************************************)
EXTENDS Integers, Sequences

CONSTANTS
  Paths,   \* destination paths
  Groups,  \* sequences of entries
  Trees,   \* contents of the paths before the call
  Absent,  \* content of a path that holds nothing
  Old,     \* content of a file that was there before
  Dir      \* content of a directory

VARIABLES
  entries, pipe, sound, before,  \* the call: they never change
  pc,       \* "plan", "read", "sink", "bare", "times", "ok", "failed"
  fi, blk,  \* the entry at work from 1, its block from 0
  crypto,   \* [file, used]: whose decryptor is in use, bytes it has decrypted
  buffer,   \* all_compressed: [file, blk, key, at] for every block read
  err,
  disk,     \* content of every path
  stamp     \* entry whose file time a path has, 0 for none

call == <<entries, pipe, sound, before>>
vars == <<call, pc, fi, blk, crypto, buffer, err, disk, stamp>>

IsEntry(e) ==
  /\ e.path \in Paths
  /\ e.safe \in BOOLEAN    \* safe_join accepts the name
  /\ e.wanted \in BOOLEAN  \* should_extract
  /\ e.dir \in BOOLEAN     \* is_directory
  /\ e.size \in Nat        \* uncompressed_size of the entry
  /\ e.nb \in Nat          \* its blocks
  /\ e.csize \in [0..e.nb - 1 -> Nat]  \* compressed_size of the block
  /\ e.key \in {"none", "good", "bad"} \* encrypt_info, and setup_decryptor
  /\ e.tag \in BOOLEAN     \* no footer, or verify_hmac accepts it
  /\ e.time \in BOOLEAN    \* there is a file time

ASSUME GroupsAssumption ==
  \A a \in Groups : /\ a \in Seq({a[i] : i \in DOMAIN a})
                    /\ \A i \in 1..Len(a) : IsEntry(a[i])
ASSUME TreesAssumption == Trees \subseteq [Paths -> {Absent, Old, Dir}]

Whole(i) == [of |-> i]
Empty == [of |-> 0]
NoCrypto == [file |-> 0, used |-> 0]

Entry == entries[fi]
Wanted(i) == entries[i].wanted /\ ~entries[i].dir
AnyBlock == \E i \in 1..Len(entries) : ~entries[i].dir /\ entries[i].nb > 0

Init ==
  /\ entries \in Groups /\ pipe \in BOOLEAN /\ sound \in BOOLEAN
  /\ before \in Trees
  /\ pc = "plan" /\ fi = 1 /\ blk = 0 /\ crypto = NoCrypto /\ buffer = << >>
  /\ err = "none" /\ disk = before /\ stamp = [p \in Paths |-> 0]

Fail(e) ==
  /\ pc' = "failed" /\ err' = e
  /\ UNCHANGED <<call, fi, blk, crypto, buffer, stamp>>

-----------------------------------------------------------------------------
(* The plan: one turn for each entry.                                       *)

Planning == pc = "plan" /\ fi <= Len(entries)
MakesDir == Entry.dir /\ Entry.wanted /\ ~pipe
NeedsPath == MakesDir \/ ~Entry.dir

PlanDir ==
  /\ Planning /\ MakesDir /\ Entry.safe
  /\ disk[Entry.path] \in {Absent, Dir}
  /\ disk' = [disk EXCEPT ![Entry.path] = Dir]
  /\ fi' = fi + 1
  /\ UNCHANGED <<call, pc, blk, crypto, buffer, err, stamp>>

PlanDirFails ==
  /\ Planning /\ MakesDir /\ Entry.safe
  /\ Fail("io") /\ UNCHANGED disk

PlanFileCreates ==  \* mutant: the file is created as soon as it is planned
  /\ Planning /\ ~MakesDir /\ (NeedsPath => Entry.safe)
  /\ fi' = fi + 1
  /\ disk' = IF Wanted(fi) THEN [disk EXCEPT ![Entry.path] = Empty] ELSE disk
  /\ UNCHANGED <<call, pc, blk, crypto, buffer, err, stamp>>
PlanFile ==
  /\ Planning /\ ~MakesDir /\ (NeedsPath => Entry.safe)
  /\ fi' = fi + 1
  /\ UNCHANGED <<call, pc, blk, crypto, buffer, err, disk, stamp>>

RefuseName ==
  /\ Planning /\ NeedsPath /\ ~Entry.safe
  /\ Fail("name") /\ UNCHANGED disk

PlannedFromZero ==  \* mutant
  /\ pc = "plan" /\ fi > Len(entries)
  /\ pc' = "times" /\ fi' = 0
  /\ UNCHANGED <<call, blk, crypto, buffer, err, disk, stamp>>
Planned ==
  /\ pc = "plan" /\ fi > Len(entries)
  /\ pc' = IF AnyBlock THEN "read" ELSE IF pipe THEN "times" ELSE "bare"
  /\ fi' = 1
  /\ UNCHANGED <<call, blk, crypto, buffer, err, disk, stamp>>

-----------------------------------------------------------------------------
(* Read and decrypt the blocks, in the order of the archive.                *)

Reading == pc = "read" /\ fi <= Len(entries)
HasBlock == ~Entry.dir /\ blk < Entry.nb

PassEntryKeepsBlk ==  \* mutant: the block counter is not reset
  /\ Reading /\ ~HasBlock
  /\ fi' = fi + 1 /\ blk' = blk
  /\ UNCHANGED <<call, pc, crypto, buffer, err, disk, stamp>>
PassEntry ==
  /\ Reading /\ ~HasBlock
  /\ fi' = fi + 1 /\ blk' = 0
  /\ UNCHANGED <<call, pc, crypto, buffer, err, disk, stamp>>

\* setup_decryptor and verify_hmac run once for each entry, at its first block.
NewEntryAlways == TRUE    \* mutant: at every block
NewEntryOnce == buffer = << >>  \* mutant: only at the first block of the group
NewEntryIfWanted == blk = 0 /\ Entry.wanted  \* mutant: only for what was asked for
NewEntry == blk = 0

RefuseKey ==
  /\ Reading /\ HasBlock /\ NewEntry
  /\ Entry.key = "bad"
  /\ Fail("key") /\ UNCHANGED disk

RefuseTag ==
  /\ Reading /\ HasBlock /\ NewEntry
  /\ Entry.key = "good" /\ ~Entry.tag
  /\ Fail("tag") /\ UNCHANGED disk

Accepted == Entry.key = "none" \/ (Entry.key = "good" /\ Entry.tag)

Decryptor ==
  IF ~NewEntry THEN crypto
  ELSE IF Entry.key = "none" THEN NoCrypto ELSE [file |-> fi, used |-> 0]

ReadBlock ==
  /\ Reading /\ HasBlock
  /\ NewEntry => Accepted
  /\ buffer' = Append(buffer, [file |-> fi, blk |-> blk,
                               key |-> Decryptor.file, at |-> Decryptor.used])
  /\ crypto' = IF Decryptor = NoCrypto THEN NoCrypto
               ELSE [Decryptor EXCEPT !.used = @ + Entry.csize[blk]]
  /\ blk' = blk + 1
  /\ UNCHANGED <<call, pc, fi, err, disk, stamp>>

\* The archive ends in the block, or cannot be read; verify_hmac reads too.
ReadFails ==
  /\ Reading /\ HasBlock
  /\ Fail("io") /\ UNCHANGED disk

AllRead ==
  /\ pc = "read" /\ fi > Len(entries)
  /\ pc' = "sink"
  /\ UNCHANGED <<call, fi, blk, crypto, buffer, err, disk, stamp>>

-----------------------------------------------------------------------------
(* The sink, as Delivery promises it.                                       *)

LastOn(p) == {i \in 1..Len(entries) :
                /\ Wanted(i) /\ entries[i].path = p
                /\ \A j \in 1..Len(entries) :
                     Wanted(j) /\ entries[j].path = p => j <= i}
After(p) ==
  IF pipe \/ LastOn(p) = {} THEN disk[p] ELSE Whole(CHOOSE i \in LastOn(p) : TRUE)

\* The paths the sink may open: not those that are directories.
Touched == IF pipe THEN {}
           ELSE {p \in Paths : disk[p] # Dir /\ LastOn(p) # {}}

SinkDelivers ==
  /\ pc = "sink" /\ sound
  /\ \A p \in Paths : ~pipe /\ LastOn(p) # {} => disk[p] # Dir
  /\ disk' = [p \in Paths |-> After(p)]
  /\ pc' = "times"
  /\ UNCHANGED <<call, fi, blk, crypto, buffer, err, stamp>>

SinkFails ==
  /\ pc = "sink"
  /\ \E gone \in SUBSET Touched :
       disk' = [p \in Paths |-> IF p \in gone THEN Absent ELSE disk[p]]
  /\ Fail("sink")

-----------------------------------------------------------------------------
(* The branch of a group without any block; fi counts again.                *)

LostBlocks == \E i \in 1..Len(entries) : ~entries[i].dir /\ entries[i].size # 0

RefuseLost ==
  /\ pc = "bare" /\ fi = 1 /\ LostBlocks
  /\ Fail("corrupted") /\ UNCHANGED disk

Creating == pc = "bare" /\ ~LostBlocks /\ fi <= Len(entries)

CreateEmpty ==
  /\ Creating
  /\ Wanted(fi) => disk[Entry.path] # Dir
  /\ disk' = IF Wanted(fi) THEN [disk EXCEPT ![Entry.path] = Empty] ELSE disk
  /\ fi' = fi + 1
  /\ UNCHANGED <<call, pc, blk, crypto, buffer, err, stamp>>

CreateFails ==
  /\ Creating /\ Wanted(fi)
  /\ Fail("io") /\ UNCHANGED disk

AllCreated ==
  /\ pc = "bare" /\ ~LostBlocks /\ fi > Len(entries)
  /\ pc' = "times"
  /\ UNCHANGED <<call, fi, blk, crypto, buffer, err, disk, stamp>>

-----------------------------------------------------------------------------
(* File times, in archive order: the last one that is there stays.          *)

Timed(p) == {i \in 1..Len(entries) :
               Wanted(i) /\ entries[i].path = p /\ entries[i].time}

LastTimed(p) == CHOOSE i \in Timed(p) : \A j \in Timed(p) : j <= i

ApplyTimes ==
  /\ pc = "times"
  /\ stamp' = [p \in Paths |-> IF pipe \/ Timed(p) = {} THEN 0 ELSE LastTimed(p)]
  /\ pc' = "ok"
  /\ UNCHANGED <<call, fi, blk, crypto, buffer, err, disk>>

Next ==
  \/ PlanDir \/ PlanDirFails \/ PlanFile \/ RefuseName \/ Planned
  \/ PassEntry \/ RefuseKey \/ RefuseTag \/ ReadBlock \/ ReadFails \/ AllRead
  \/ SinkDelivers \/ SinkFails
  \/ RefuseLost \/ CreateEmpty \/ CreateFails \/ AllCreated
  \/ ApplyTimes

Done == pc \in {"ok", "failed"} /\ UNCHANGED vars

Spec == Init /\ [][Next \/ Done]_vars

-----------------------------------------------------------------------------
(* Properties.                                                              *)

Chunks == [file : 1..Len(entries), blk : Nat, key : 0..Len(entries), at : Nat]
Contents == {Absent, Old, Dir} \cup [of : 0..Len(entries)]

TypeOK ==
  /\ entries \in Groups /\ pipe \in BOOLEAN /\ sound \in BOOLEAN
  /\ before \in Trees
  /\ pc \in {"plan", "read", "sink", "bare", "times", "ok", "failed"}
  /\ fi \in 1..Len(entries) + 1 /\ blk \in Nat
  /\ crypto \in [file : 0..Len(entries), used : Nat]
  /\ buffer \in Seq(Chunks)
  /\ disk \in [Paths -> Contents]
  /\ stamp \in [Paths -> 0..Len(entries)]

\* b is the block of its entry behind c.
FollowsInEntry(b, c) == b.file = c.file /\ b.blk = c.blk + 1

\* Every block is decrypted with its own entry's key, at the place of the key
\* stream where the entry's block before it ended; an entry that is not
\* encrypted is not decrypted.
DecryptedInPlace ==
  \A k \in 1..Len(buffer) :
    LET c == buffer[k]
    IN  IF entries[c.file].key = "none" THEN c.key = 0
        ELSE /\ c.key = c.file
             /\ IF c.blk = 0 THEN c.at = 0
                ELSE /\ k > 1 /\ FollowsInEntry(c, buffer[k - 1])
                     /\ c.at = buffer[k - 1].at + entries[c.file].csize[c.blk - 1]

\* The stream that is decoded holds every block of the group once, in archive
\* order: the order of the CRC spans.
BufferInOrder ==
  pc = "sink" =>
    /\ \A j, k \in 1..Len(buffer) :
         j < k => \/ buffer[j].file < buffer[k].file
                  \/ /\ buffer[j].file = buffer[k].file
                     /\ buffer[j].blk < buffer[k].blk
    /\ \A i \in 1..Len(entries) : \A b \in 0..entries[i].nb - 1 :
         ~entries[i].dir =>
           \E k \in 1..Len(buffer) : buffer[k].file = i /\ buffer[k].blk = b

\* The decoder is given the group as it was compressed: each block once, in its
\* place, and decrypted as it was encrypted.
DecodesTheGroup == DecryptedInPlace /\ BufferInOrder

\* Whatever goes wrong before the decoder runs (a name, a password, a tampered
\* entry, a short archive, lost blocks) no file has been touched: only
\* directories are new.  In a group without blocks, the files that were created
\* before one could not be stay; but they are whole.
NothingBeforeDecoding ==
  pc = "failed" /\ err # "sink" =>
    \A p \in Paths :
      \/ disk[p] = before[p] \/ (before[p] = Absent /\ disk[p] = Dir)
      \/ ~AnyBlock /\ err = "io" /\ disk[p] = Empty /\ LastOn(p) # {}

\* A success delivers every wanted file whole, with the time of its entry when
\* that has one, and only if every entry of the group was accepted, the ones
\* that were not asked for included.
SuccessIsWhole ==
  pc = "ok" =>
    /\ \A i \in 1..Len(entries) :
         ~entries[i].dir /\ entries[i].nb > 0 =>
           entries[i].key # "bad" /\ (entries[i].key = "good" => entries[i].tag)
    /\ ~pipe => \A i \in 1..Len(entries) :
         i \in LastOn(entries[i].path) =>
           /\ disk[entries[i].path] = (IF AnyBlock THEN Whole(i) ELSE Empty)
           /\ entries[i].time => stamp[entries[i].path] = i

\* What the comment on a group without blocks says: a declared size that is
\* not zero means the blocks were lost.
LostBlocksRefused == pc = "ok" /\ ~AnyBlock => ~LostBlocks
=============================================================================

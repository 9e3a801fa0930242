---------------------------- MODULE EntryExtract ----------------------------
(***************************************************************************)
(* extract_all and extract_files of src/src/extract.rs for an archive that  *)
(* is not solid, with extract_entry, decompress_block and LimitWriter       *)
(* (src/src/decompress/mod.rs): one entry after the other, one block after  *)
(* the other, each block with a limit on its output and a CRC.              *)
(*                                                                          *)
(* Byte j of what the blocks of entry i decode to is <<i, j>>.  The decoder *)
(* of a block hands over any number of bytes at a time, may fail at any     *)
(* point, and has b.len bytes to give, whatever the header declares.        *)
(* remove_file is taken to succeed on the file that was just written.       *)
(***************************************************************************)
EXTENDS Integers, Sequences

CONSTANTS
  Paths,     \* destination paths
  Archives,  \* sequences of entries, in archive order
  Trees,     \* contents of the paths before the call
  Absent,    \* content of a path that holds nothing
  Old,       \* content of a file that was there before
  Dir        \* content of a directory

VARIABLES
  entries, pipe, unmatched, before,  \* the call: they never change
  pc,       \* "entry", "block", "cleanup", "ok", "failed"
  idx,      \* the entry at work
  blk,      \* its block, from 0
  out,      \* bytes of the block that were hashed and taken from the limit
  err,      \* why the extraction failed, "none" if it did not
  disk,     \* content of every path
  stdout    \* bytes on the standard output

call == <<entries, pipe, unmatched, before>>
vars == <<call, pc, idx, blk, out, err, disk, stdout>>

IsEntry(e) ==
  /\ e.path \in Paths       \* safe_join(dest_dir, file_name)
  /\ e.safe \in BOOLEAN     \* ... which accepts the name
  /\ e.wanted \in BOOLEAN   \* should_extract
  /\ e.dir \in BOOLEAN      \* is_directory
  /\ e.size \in Nat         \* the size the entry declares
  /\ e.nb \in Nat           \* its blocks; block b decodes to the bytes
  /\ e.cut \in [0..e.nb -> Nat]  \* cut[b] .. cut[b+1]-1 of the entry
  /\ e.cut[0] = 0
  /\ \A a, b \in 0..e.nb : a <= b => e.cut[a] <= e.cut[b]
  /\ e.limit \in [0..e.nb - 1 -> Nat]  \* the size the block declares
  /\ e.bad \subseteq 0..e.nb - 1       \* blocks that fail their CRC
  /\ e.key \in BOOLEAN      \* setup_decryptor accepts the password
  /\ e.tag \in {"none", "good", "bad"} \* the authentication footer
  /\ e.time \in BOOLEAN     \* there is a file time

ASSUME ArchivesAssumption ==
  \A a \in Archives : /\ a \in Seq({a[i] : i \in DOMAIN a})
                      /\ \A i \in 1..Len(a) : IsEntry(a[i])

ASSUME TreesAssumption == Trees \subseteq [Paths -> {Absent, Old, Dir}]

None == 0
File(data, time) == [data |-> data, time |-> time]
Empty == File(<< >>, None)

ByteIds == Nat \X Nat
Files == [data : Seq(ByteIds), time : Nat]

\* The bytes a .. a+n-1 of entry i.
Bytes(i, a, n) == [k \in 1..n |-> <<i, a + k - 1>>]

Init ==
  /\ entries \in Archives
  /\ pipe \in BOOLEAN /\ unmatched \in BOOLEAN
  /\ before \in Trees
  /\ pc = "entry" /\ idx = 1 /\ blk = 0 /\ out = 0 /\ err = "none"
  /\ disk = before /\ stdout = << >>

Entry == entries[idx]

Fail(e) == pc' = "failed" /\ err' = e
NextEntry == idx' = idx + 1 /\ pc' = "entry"

\* The file system may refuse any of these, and always refuses the wrong kind.
CreatesFile == pipe \/ disk[Entry.path] # Dir
CreatesDir  == pipe \/ disk[Entry.path] \in {Absent, Dir}
Put(content) == IF pipe THEN disk ELSE [disk EXCEPT ![Entry.path] = content]

-----------------------------------------------------------------------------
(* extract_entry up to its first block                                      *)

AtEntry == pc = "entry" /\ idx <= Len(entries)

SkipEntry ==
  /\ AtEntry /\ ~Entry.wanted
  /\ NextEntry
  /\ UNCHANGED <<call, blk, out, err, disk, stdout>>

StartsUnasked == AtEntry /\ Entry.safe  \* mutant: the filter is not asked
Starts == AtEntry /\ Entry.wanted /\ Entry.safe
HasBlocks == Starts /\ ~Entry.dir /\ Entry.nb > 0
NoBlocks  == Starts /\ ~Entry.dir /\ Entry.nb = 0

RefuseName ==
  /\ AtEntry /\ Entry.wanted /\ ~Entry.safe
  /\ Fail("name")
  /\ UNCHANGED <<call, idx, blk, out, disk, stdout>>

MakeDir ==
  /\ Starts /\ Entry.dir
  /\ CreatesDir
  /\ disk' = Put(Dir)
  /\ NextEntry
  /\ UNCHANGED <<call, blk, out, err, stdout>>

\* The branch of an entry without blocks.
EmptyFile ==
  /\ NoBlocks
  /\ Entry.size = 0 /\ CreatesFile
  /\ disk' = Put(Empty)
  /\ NextEntry
  /\ UNCHANGED <<call, blk, out, err, stdout>>

LostBlocksAfterCreate ==  \* mutant: the file is created before the check
  /\ NoBlocks
  /\ Entry.size # 0
  /\ disk' = Put(Empty)
  /\ Fail("corrupted")
  /\ UNCHANGED <<call, idx, blk, out, stdout>>
LostBlocks ==
  /\ NoBlocks
  /\ Entry.size # 0
  /\ Fail("corrupted")
  /\ UNCHANGED <<call, idx, blk, out, disk, stdout>>

\* create_dir_all or File::create fails, for a directory or for a file.
CreateFails ==
  /\ Starts /\ ~pipe
  /\ HasBlocks => Entry.key /\ Entry.tag # "bad"
  /\ NoBlocks => Entry.size = 0
  /\ Fail("io")
  /\ UNCHANGED <<call, idx, blk, out, disk, stdout>>

RefuseKey ==
  /\ HasBlocks /\ ~Entry.key
  /\ Fail("key")
  /\ UNCHANGED <<call, idx, blk, out, disk, stdout>>

\* verify_hmac reads all of the blocks and may meet an I/O error.
RefuseTag ==
  /\ HasBlocks /\ Entry.key /\ Entry.tag # "none"
  /\ \/ Fail("io")
     \/ Entry.tag = "bad" /\ Fail("tag")
  /\ UNCHANGED <<call, idx, blk, out, disk, stdout>>

OpenFileUnverified ==  \* mutant: the footer is not checked before the output
  /\ HasBlocks /\ Entry.key
  /\ CreatesFile
  /\ disk' = Put(Empty)
  /\ pc' = "block" /\ blk' = 0 /\ out' = 0
  /\ UNCHANGED <<call, idx, err, stdout>>
OpenFile ==
  /\ HasBlocks /\ Entry.key /\ Entry.tag # "bad"
  /\ CreatesFile
  /\ disk' = Put(Empty)
  /\ pc' = "block" /\ blk' = 0 /\ out' = 0
  /\ UNCHANGED <<call, idx, err, stdout>>

-----------------------------------------------------------------------------
(* The blocks of the entry                                                  *)

InBlock == pc = "block" /\ blk < Entry.nb

FailInBlock(e) == pc' = "cleanup" /\ err' = e

BlockLen == Entry.cut[blk + 1] - Entry.cut[blk]

Data(k) == Bytes(idx, Entry.cut[blk] + out, k)

\* k more bytes reach the file or the standard output.
Output(k) ==
  IF pipe THEN stdout' = stdout \o Data(k) /\ disk' = disk
          ELSE /\ disk' = [disk EXCEPT ![Entry.path].data = @ \o Data(k)]
               /\ stdout' = stdout

DecoderHas(n) == InBlock /\ out + n <= BlockLen

OverLimitFromStart(n) == n > Entry.limit[blk]    \* mutant: remaining is not lowered
OverLimit(n) == n > Entry.limit[blk] - out

WriteChunk(n) ==
  /\ DecoderHas(n) /\ ~OverLimit(n)
  /\ Output(n)
  /\ out' = out + n
  /\ UNCHANGED <<call, pc, idx, blk, err>>

\* LimitWriter refuses the whole chunk.
ExceedsLimit(n) ==
  /\ DecoderHas(n) /\ OverLimit(n)
  /\ FailInBlock("limit")
  /\ UNCHANGED <<call, idx, blk, out, disk, stdout>>

\* write_all fails after k bytes of the chunk.
WriteFails(n, k) ==
  /\ DecoderHas(n) /\ ~OverLimit(n) /\ k < n
  /\ Output(k)
  /\ FailInBlock("io")
  /\ UNCHANGED <<call, idx, blk, out>>

\* The compressed data cannot be read, or cannot be decoded, or the method is
\* unknown.
DecoderFails ==
  /\ InBlock
  /\ FailInBlock("decoder")
  /\ UNCHANGED <<call, idx, blk, out, disk, stdout>>

CrcMatches == blk \notin Entry.bad

BlockDoneKeepsOut ==  \* mutant: the limit of the block before is kept
  /\ InBlock /\ out = BlockLen /\ CrcMatches
  /\ blk' = blk + 1
  /\ UNCHANGED <<call, pc, idx, out, err, disk, stdout>>
BlockDone ==
  /\ InBlock /\ out = BlockLen /\ CrcMatches
  /\ blk' = blk + 1 /\ out' = 0
  /\ UNCHANGED <<call, pc, idx, err, disk, stdout>>

BlockMismatch ==
  /\ InBlock /\ out = BlockLen /\ ~CrcMatches
  /\ FailInBlock("crc")
  /\ UNCHANGED <<call, idx, blk, out, disk, stdout>>

-----------------------------------------------------------------------------
(* The end of an entry and of the archive                                   *)

EntryDone ==
  /\ pc = "block" /\ blk = Entry.nb
  /\ disk' = IF pipe \/ ~Entry.time THEN disk
             ELSE [disk EXCEPT ![Entry.path].time = idx]
  /\ NextEntry
  /\ UNCHANGED <<call, blk, out, err, stdout>>

KeepPartial == pc = "cleanup" /\ pc' = "failed"  \* mutant: no remove_file
                 /\ UNCHANGED <<call, idx, blk, out, err, disk, stdout>>
RemovePartial ==
  /\ pc = "cleanup"
  /\ disk' = Put(Absent)
  /\ pc' = "failed"
  /\ UNCHANGED <<call, idx, blk, out, err, stdout>>

\* extract_files reports a name that matched no entry only now.
EndOfArchive ==
  /\ pc = "entry" /\ idx > Len(entries)
  /\ IF unmatched THEN Fail("unmatched") ELSE pc' = "ok" /\ err' = err
  /\ UNCHANGED <<call, idx, blk, out, disk, stdout>>

Decode ==
  /\ InBlock
  /\ \E n \in 1..BlockLen - out : \/ WriteChunk(n) \/ ExceedsLimit(n)
                                  \/ \E k \in 0..n - 1 : WriteFails(n, k)

Next ==
  \/ SkipEntry \/ RefuseName \/ MakeDir \/ EmptyFile \/ LostBlocks
  \/ CreateFails \/ RefuseKey \/ RefuseTag \/ OpenFile
  \/ Decode \/ DecoderFails \/ BlockDone \/ BlockMismatch
  \/ EntryDone \/ RemovePartial \/ EndOfArchive

Done == pc \in {"ok", "failed"} /\ UNCHANGED vars

Spec == Init /\ [][Next \/ Done]_vars

-----------------------------------------------------------------------------
(* Properties.                                                              *)

TypeOK ==
  /\ entries \in Archives
  /\ pipe \in BOOLEAN /\ unmatched \in BOOLEAN
  /\ before \in [Paths -> {Absent, Old, Dir}]
  /\ pc \in {"entry", "block", "cleanup", "ok", "failed"}
  /\ idx \in 1..Len(entries) + 1
  /\ blk \in Nat /\ out \in Nat
  /\ pc \in {"block", "cleanup"} =>
       /\ idx <= Len(entries) /\ blk <= Entry.nb
       /\ blk < Entry.nb => out <= BlockLen
  /\ disk \in [Paths -> {Absent, Old, Dir} \cup Files]
  /\ stdout \in Seq(ByteIds)

\* What path p holds when every entry before the one at work was delivered.
Content(i) ==
  IF entries[i].dir THEN Dir
  ELSE IF entries[i].nb = 0 THEN Empty
  ELSE File(Bytes(i, 0, entries[i].cut[entries[i].nb]),
            IF entries[i].time THEN i ELSE None)
Earlier(p) == {i \in 1..idx - 1 : entries[i].wanted /\ entries[i].path = p}
Latest(S) == CHOOSE i \in S : \A j \in S : j <= i
Held(p) == IF pipe \/ Earlier(p) = {} THEN before[p] ELSE Content(Latest(Earlier(p)))

\* A name, a password, a footer or a header that is refused costs nothing: the
\* file of that name, a user's own included, is still what it was.
RefusedUntouched ==
  pc = "failed" /\ err \in {"name", "key", "tag", "corrupted"} =>
    \A p \in Paths : disk[p] = Held(p)

\* Byte j of entry i reached a file or the standard output.
Emitted(i, j) ==
  \/ \E k \in 1..Len(stdout) : stdout[k] = <<i, j>>
  \/ \E p \in Paths : /\ disk[p] \notin {Absent, Old, Dir}
                      /\ \E k \in 1..Len(disk[p].data) : disk[p].data[k] = <<i, j>>

DataOf(i) == 0..entries[i].cut[entries[i].nb] - 1

\* No byte of an entry leaves the program before its password and its footer
\* were accepted, nor a byte of an entry that was not asked for.
NothingUnverified ==
  \A i \in 1..Len(entries) : \A j \in DataOf(i) :
    Emitted(i, j) => /\ entries[i].wanted /\ entries[i].safe
                     /\ entries[i].key /\ entries[i].tag # "bad"

\* Bomb guard: a block never puts out more bytes than its header declares,
\* however the decoder cuts them, and nothing follows a block with a bad CRC.
NothingBeyondBlock ==
  \A i \in 1..Len(entries) : \A b \in 0..entries[i].nb - 1 :
    \A j \in DataOf(i) :
      Emitted(i, j) =>
        /\ j \in entries[i].cut[b]..entries[i].cut[b + 1] - 1 =>
             j - entries[i].cut[b] < entries[i].limit[b]
        /\ b \in entries[i].bad => j < entries[i].cut[b + 1]

\* Nothing that was not accepted reaches the disk or the standard output: no
\* byte of a refused entry, of a block that is wrong, or beyond what it declares.
NothingUnaccepted == RefusedUntouched /\ NothingUnverified /\ NothingBeyondBlock

\* In pipe mode the bytes of the wanted entries so far, and only they, are on
\* the standard output, each once and in archive order.
Progress == IF pc = "block" /\ blk < Entry.nb THEN Entry.cut[blk] + out
            ELSE IF pc = "block" THEN Entry.cut[blk] ELSE 0
Sent == UNION {{<<i, j>> : j \in IF i < idx THEN DataOf(i) ELSE 0..Progress - 1} :
                i \in {i \in 1..Len(entries) : /\ i <= idx
                                               /\ entries[i].wanted /\ ~entries[i].dir}}
Before(x, y) == x[1] < y[1] \/ (x[1] = y[1] /\ x[2] < y[2])
PipedInOrder ==
  pipe /\ pc \in {"entry", "block", "ok"} =>
    /\ \A j, k \in 1..Len(stdout) : j < k => Before(stdout[j], stdout[k])
    /\ {stdout[k] : k \in 1..Len(stdout)} = Sent

\* What the comment on entries without blocks is after: a loss of block headers
\* does not go unnoticed.
DeclaredSizeDelivered ==
  pc = "ok" => \A i \in 1..Len(entries) :
    entries[i].wanted /\ ~entries[i].dir =>
      entries[i].cut[entries[i].nb] = entries[i].size

-----------------------------------------------------------------------------
(* The promise of Deliveries.                                               *)

Sound(e) ==
  e.wanted =>
    /\ e.safe
    /\ ~e.dir =>
         IF e.nb = 0 THEN e.size = 0
         ELSE /\ e.key /\ e.tag # "bad" /\ e.bad = {}
              /\ \A b \in 0..e.nb - 1 : e.cut[b + 1] - e.cut[b] <= e.limit[b]

Plan ==
  [i \in 1..Len(entries) |->
     [path |-> entries[i].path, content |-> Content(i),
      wanted |-> entries[i].wanted /\ ~pipe, sound |-> Sound(entries[i])]]

\* While an entry is being written its path counts as holding what it held.
Tree == IF pc \in {"block", "cleanup"}
          THEN [disk EXCEPT ![Entry.path] = Held(Entry.path)] ELSE disk
Status == IF pc \in {"ok", "failed"} THEN pc ELSE "running"

Promise == INSTANCE Deliveries
             WITH plan <- Plan, whole <- ~unmatched, done <- idx - 1,
                  tree <- Tree, status <- Status

\* Entries arrive whole and in order, and a failure leaves no partial file.
DeliversInOrder == Promise!Spec
=============================================================================

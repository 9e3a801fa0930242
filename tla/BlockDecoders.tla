---------------------------- MODULE BlockDecoders ----------------------------
(***************************************************************************)
(* The blocks of one encrypted entry, one decryptor for all of them, and     *)
(* the decoders that are not DeflateLoop: store.rs, bzip2.rs, lzma.rs and    *)
(* azo.rs of src/src/decompress, with LimitWriter and the two adapters       *)
(* DecryptingReader and HashingWriter.                                       *)
(*                                                                           *)
(* An encrypted byte is its position in the entry; once decrypted it is the  *)
(* pair of that and of the key stream position that was used.  A decoded     *)
(* byte is its position in its block.  The codecs are external: they take    *)
(* any part of their input at a time, need coded bytes of it, and give out   *)
(* len bytes in any pieces, the last one not before they have had it all.    *)
(***************************************************************************)
EXTENDS Integers, Sequences

CONSTANTS
  Entries,    \* sequences of blocks
  BufSize,    \* BUF_SIZE
  HeaderSize  \* 9, the LZMA header

VARIABLES
  blocks,     \* never changes
  pc,         \* "start", "body", "decode", "write", "done", "failed"
  blk,
  start,      \* where the block begins in what the archiver encrypted
  read,       \* bytes of the block that were read
  key,        \* bytes the decryptor was given
  input,      \* decrypted bytes, as the decoders saw them
  given,      \* decoded bytes that were handed over
  buf,        \* those of them that write_all has not written yet
  remaining,  \* of LimitWriter
  hashed, written  \* decoded bytes of the block

vars == <<blocks, pc, blk, start, read, key, input, given, buf, remaining, hashed, written>>

Methods == {"store", "bzip2", "lzma", "azo"}

IsBlock(b) ==
  /\ b.method \in Methods
  /\ {b.size, b.have, b.coded, b.len, b.limit} \subseteq Nat
  /\ b.have <= b.size       \* compressed_size, and what the file has of it
  /\ b.coded <= b.size      \* where the codec's stream ends in it
  /\ b.method = "store" => b.len = b.size /\ b.coded = b.size
  /\ b.good \in BOOLEAN     \* the CRC in the header is right

DecodersConstants ==
  /\ BufSize \in Nat \ {0} /\ HeaderSize \in Nat \ {0}
  /\ \A e \in Entries : Len(e) \in Nat /\ \A i \in 1..Len(e) : IsBlock(e[i])

Init ==
  /\ blocks \in Entries /\ pc = "start" /\ blk = 1 /\ start = 0
  /\ read = 0 /\ key = 0 /\ input = << >> /\ given = 0 /\ buf = << >>
  /\ remaining = 0 /\ hashed = << >> /\ written = << >>

Block == blocks[blk]

NewBlock ==
  /\ blk' = blk + 1 /\ start' = start + Block.size /\ read' = 0 /\ given' = 0 /\ buf' = << >>
  /\ hashed' = << >> /\ written' = << >>

Streaming == Block.method \in {"bzip2", "azo"}
HashesOnWrite == Block.method \in {"lzma", "azo"}

Smaller(a, b) == IF a <= b THEN a ELSE b

\* n bytes are read and decrypted.
TakeAfresh(n) ==  \* mutant: a decryptor of its own for each block
  /\ read + n <= Block.have
  /\ read' = read + n /\ key' = key + n
  /\ input' = input \o [k \in 1..n |-> <<start + read + k - 1, read + k - 1>>]
Take(n) ==
  /\ read + n <= Block.have
  /\ read' = read + n /\ key' = key + n
  /\ input' = input \o [k \in 1..n |-> <<start + read + k - 1, key + k - 1>>]

\* n decoded bytes are handed to write_all.
Give(n) ==
  /\ given' = given + n
  /\ buf' = [k \in 1..n |-> given + k - 1]
  /\ hashed' = IF HashesOnWrite THEN hashed ELSE hashed \o buf'
  /\ pc' = "write"

Fail == pc' = "failed"

-----------------------------------------------------------------------------
(* decompress_block and the start of a decoder                              *)

LimitOfEntry == IF blk = 1 THEN Block.limit ELSE remaining  \* mutant: one limit for all blocks
Limit == Block.limit

StartBlock ==
  /\ pc = "start" /\ blk <= Len(blocks)
  /\ remaining' = Limit
  /\ IF Block.method # "lzma" THEN pc' = "decode" /\ UNCHANGED <<read, key, input>>
     ELSE IF Block.size < HeaderSize \/ Block.have < HeaderSize
     THEN Fail /\ UNCHANGED <<read, key, input>>
     ELSE Take(HeaderSize) /\ pc' = "body"
  /\ UNCHANGED <<blocks, blk, start, given, buf, hashed, written>>

\* extract_lzma reads the rest of the block at once and refuses less.
LzmaBodyShort ==  \* mutant: what is there will do
  /\ pc = "body"
  /\ Take(Block.have - read) /\ pc' = "decode"
  /\ UNCHANGED <<blocks, blk, start, given, buf, remaining, hashed, written>>
LzmaBody ==
  /\ pc = "body"
  /\ IF Block.have = Block.size THEN Take(Block.size - read) /\ pc' = "decode"
                                ELSE Fail /\ UNCHANGED <<read, key, input>>
  /\ UNCHANGED <<blocks, blk, start, given, buf, remaining, hashed, written>>

-----------------------------------------------------------------------------
(* The loops of the decoders                                                *)

\* read_exact, then hash and write what was read.
StoreTurn ==
  /\ pc = "decode" /\ Block.method = "store" /\ read < Block.size
  /\ LET n == Smaller(Block.size - read, BufSize) IN
       IF read + n > Block.have THEN Fail /\ UNCHANGED <<read, key, input, given, buf, hashed>>
                                ELSE Take(n) /\ Give(n)
  /\ UNCHANGED <<blocks, blk, start, remaining, written>>

\* DecryptingReader::read for bzip2, the callback for AZO.
Pull(n) ==
  /\ pc = "decode" /\ Streaming /\ read < Block.coded
  /\ Take(n)
  /\ UNCHANGED <<blocks, pc, blk, start, given, buf, remaining, hashed, written>>

Decode(n) ==
  /\ pc = "decode" /\ Block.method # "store"
  /\ given + n <= Block.len
  /\ read > 0 /\ (given + n = Block.len => read >= Block.coded)
  /\ Give(n)
  /\ UNCHANGED <<blocks, blk, start, read, key, input, remaining, written>>

\* A broken stream, one that is cut off, or an I/O error.
DecoderFails ==
  /\ pc = "decode" /\ Fail
  /\ UNCHANGED <<blocks, blk, start, read, key, input, given, buf, remaining, hashed, written>>

FitsAlways == TRUE  \* mutant: no limit
Fits == Len(buf) <= remaining

HashesOffer(k) == buf  \* mutant: all that was offered is hashed
Hashes(k) == SubSeq(buf, 1, k)

\* One call of LimitWriter::write, of which the file may take a part.
WriteSome(k) ==
  /\ pc = "write" /\ buf # << >> /\ Fits
  /\ written' = written \o SubSeq(buf, 1, k)
  /\ hashed' = IF HashesOnWrite THEN hashed \o Hashes(k) ELSE hashed
  /\ remaining' = remaining - k /\ buf' = SubSeq(buf, k + 1, Len(buf))
  /\ UNCHANGED <<blocks, pc, blk, start, read, key, input, given>>

\* The limit, or an I/O error.
WriteFails ==
  /\ pc = "write" /\ buf # << >> /\ Fail
  /\ UNCHANGED <<blocks, blk, start, read, key, input, given, buf, remaining, hashed, written>>

Written ==
  /\ pc = "write" /\ buf = << >> /\ pc' = "decode"
  /\ UNCHANGED <<blocks, blk, start, read, key, input, given, buf, remaining, hashed, written>>

-----------------------------------------------------------------------------
(* The end of a block                                                       *)

Decoded == [k \in 1..Block.len |-> k - 1]
CrcMatches == Block.good /\ hashed = Decoded

EndBlock ==
  /\ pc = "decode" /\ given = Block.len /\ read >= Block.coded
  /\ IF CrcMatches THEN pc' = "start" /\ NewBlock
     ELSE Fail /\ UNCHANGED <<blk, start, read, given, buf, hashed, written>>
  /\ UNCHANGED <<blocks, key, input, remaining>>

EndEntry ==
  /\ pc = "start" /\ blk > Len(blocks) /\ pc' = "done"
  /\ UNCHANGED <<blocks, blk, start, read, key, input, given, buf, remaining, hashed, written>>

Next ==
  \/ StartBlock \/ LzmaBody \/ StoreTurn \/ DecoderFails
  \/ WriteFails \/ Written \/ EndBlock \/ EndEntry
  \/ pc = "decode" /\ \E n \in 1..Block.size - read : Pull(n)
  \/ pc = "decode" /\ \E n \in 1..Smaller(BufSize, Block.len - given) : Decode(n)
  \/ \E k \in 1..Len(buf) : WriteSome(k)

Done == pc \in {"done", "failed"} /\ UNCHANGED vars

Spec == Init /\ [][Next \/ Done]_vars

-----------------------------------------------------------------------------

TypeOK ==
  /\ blocks \in Entries
  /\ pc \in {"start", "body", "decode", "write", "done", "failed"}
  /\ blk \in 1..Len(blocks) + 1
  /\ {start, read, key, given, remaining} \subseteq Nat
  /\ input \in Seq(Nat \X Nat) /\ {buf, hashed, written} \subseteq Seq(Nat)
  /\ blk <= Len(blocks) => read <= Block.have /\ given <= Block.len

\* The one decryptor is at the place of the entry that the decoder reads, in
\* every block and for every mix of methods, as long as the streams of the
\* blocks before end where the blocks do.
DecryptedInPlace ==
  (\A i \in 1..blk - 1 : blocks[i].coded = blocks[i].size) =>
    input = [k \in 1..key |-> <<k - 1, k - 1>>]

\* The CRC is that of the bytes that reached the file, each once and in order,
\* however the writes are cut: between the calls of write_all for all methods.
CrcOfWhatIsWritten ==
  /\ pc \in {"decode", "done"} => hashed = written
  /\ Len(written) <= given
  /\ \A k \in 1..Len(written) : written[k] = k - 1

\* The limit is the declared size of each block by itself.
NothingBeyondLimit == blk <= Len(blocks) => Len(written) <= Block.limit

\* An entry is extracted only from blocks that are there, right and not longer
\* than they declare; an LZMA block must be there to its last byte.
Sound(b) ==
  /\ b.good /\ b.len <= b.limit /\ b.coded <= b.have
  /\ b.method = "lzma" => b.have = b.size
SuccessIsSound == \A i \in 1..blk - 1 : Sound(blocks[i])
=============================================================================

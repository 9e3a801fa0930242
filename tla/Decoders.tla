----------------------------- MODULE Decoders -----------------------------
(***************************************************************************)
(* The data path of a block that the program calls whole: DeflateLoop,      *)
(* BlockDecoders, the two counter modes and ZipCrypto, of which a behaviour *)
(* runs one.  They share no state: each decoder calls a decryptor only as   *)
(* "the next n bytes", which is what CtrStream and ZipCrypto are shown to    *)
(* answer for any n.                                                         *)
(***************************************************************************)
EXTENDS DeflateLoop, Sequences

CONSTANTS
  Entries, BufSize, HeaderSize,        \* of BlockDecoders
  Radix, Width, BlockLen, Calls, MaxPos,  \* of CtrStream
  Keys, Bytes, StartKey, KeyStep, KeyByte, Xor,
  Passwords, Plains, HeaderLen         \* of ZipCrypto

VARIABLES
  blocks, b_pc, blk, start, read, b_key, input, given, buf, b_remaining, hashed, b_written,
  mode, counter, keystream, ks_offset, rest, pos, used,
  plain, password, z_given, writer, reader, cipher, out, verdict

B == INSTANCE BlockDecoders WITH
       pc <- b_pc, key <- b_key, remaining <- b_remaining, written <- b_written
C == INSTANCE CtrStream WITH Limit <- MaxPos
Z == INSTANCE ZipCrypto WITH given <- z_given

ASSUME PartsAssumption == B!DecodersConstants /\ C!CtrConstants /\ Z!ZipConstants

-----------------------------------------------------------------------------

\* The decoders of all methods take the bytes of an entry from one key stream,
\* each at its own place, from block to block.
OneKeyStream == B!DecryptedInPlace

\* A block counts as extracted only if all of it was there, the CRC is that of
\* the bytes that reached the file, and these are no more than it declares.
BlocksChecked ==
  B!TypeOK /\ B!CrcOfWhatIsWritten /\ B!NothingBeyondLimit /\ B!SuccessIsSound

\* Every byte is decrypted with its own byte of the counter mode's key stream,
\* however the calls are cut.
CountsBlocks == C!TypeOK /\ C!DecryptedInPlace

\* The right password gives back what ZipCrypto has encrypted.
RestoresPlain == Z!TypeOK /\ Z!RoundTrip
=============================================================================

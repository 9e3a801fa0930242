----------------------------- MODULE MCDecoders -----------------------------
(***************************************************************************)
(* Small instances of the parts of Decoders, and of the cipher Lea.          *)
(***************************************************************************)
EXTENDS Decoders, TLC

CONSTANTS
  MaxLen, MaxOut,  \* bytes of a deflate stream, coded and decoded
  MaxBlocks        \* of an entry

VARIABLES
  part,
  vector, l_pc, round, t, round_keys, x

bVars == <<blocks, b_pc, blk, start, read, b_key, input, given, buf, b_remaining, hashed, b_written>>
cVars == <<mode, counter, keystream, ks_offset, rest, pos, used>>
zVars == <<plain, password, z_given, writer, reader, cipher, out, verdict>>
lVars == <<vector, l_pc, round, t, round_keys, x>>
allVars == <<part, vars, bVars, cVars, zVars, lVars>>

-----------------------------------------------------------------------------
(* Values: streams that are whole, cut short or followed by other bytes     *)

MCStreams == [len : 0..MaxLen, need : 1..MaxLen, out : 0..MaxOut]

\* Entries of up to MaxBlocks blocks of every method.
Whole(m, size, len) ==
  [method |-> m, size |-> size, have |-> size, coded |-> size, len |-> len,
   limit |-> len, good |-> TRUE]

Kinds ==
  {Whole("store", 3, 3), Whole("store", 0, 0), Whole("bzip2", 3, 3), Whole("bzip2", 2, 0),
   Whole("azo", 2, 3), Whole("lzma", 3, 3), Whole("lzma", 0, 1),
   [Whole("store", 3, 3) EXCEPT !.have = 1],
   [Whole("bzip2", 3, 2) EXCEPT !.coded = 2],   \* bytes behind the stream
   [Whole("lzma", 3, 2) EXCEPT !.coded = 2, !.have = 2],
   [Whole("azo", 2, 2) EXCEPT !.have = 1],
   [Whole("lzma", 3, 2) EXCEPT !.limit = 1],    \* longer than declared
   [Whole("bzip2", 2, 1) EXCEPT !.limit = 3],   \* ... and shorter
   [Whole("azo", 1, 2) EXCEPT !.good = FALSE]}

MCEntries == UNION {[1..n -> Kinds] : n \in 0..MaxBlocks}

\* What decrypt of a counter mode is called with.
MCCalls == {0, 1, 2, 3, 5, 8}

\* ZipCrypto with bytes of two bits and seven keys, which depend on every byte.
MCKeys == 0..6
MCBytes == 0..3
MCKeyStep == [kb \in MCKeys \X MCBytes |-> (3 * kb[1] + kb[2] * kb[2] + 1) % 7]
MCKeyByte == [k \in MCKeys |-> (k * k + k) % 4]
MCXor == [ab \in MCBytes \X MCBytes |->
            2 * (((ab[1] \div 2) + (ab[2] \div 2)) % 2) + ((ab[1] + ab[2]) % 2)]
MCPasswords == {<<0>>, <<1>>, <<2, 3>>, << >>}
MCPlains == UNION {[1..n -> MCBytes] : n \in 2..4}

\* The keys and blocks of the tests of lea.rs, and the first of a key stream.
Key128 == <<15, 30, 45, 60, 75, 90, 105, 120, 135, 150, 165, 180, 195, 210, 225, 240>>
Key192 == Key128 \o <<240, 225, 210, 195, 180, 165, 150, 135>>
Key256 == Key192 \o <<120, 105, 90, 75, 60, 45, 30, 15>>

From(n) == [k \in 1..16 |-> n + k - 1]
Counter(n) == [k \in 1..16 |-> IF k = 16 THEN n ELSE 0]

Published ==
  {[key |-> Key128, plain |-> From(16), cipher |->
      <<159, 200, 78, 53, 40, 198, 198, 24, 85, 50, 199, 167, 4, 100, 139, 253>>],
   [key |-> Key192, plain |-> From(32), cipher |->
      <<111, 185, 94, 50, 90, 173, 27, 135, 140, 220, 245, 53, 118, 116, 198, 242>>],
   [key |-> Key256, plain |-> From(48), cipher |->
      <<214, 81, 175, 246, 71, 177, 137, 193, 58, 137, 0, 202, 39, 249, 225, 151>>]}

MCVectors ==
  Published \cup [key : {Key128, Key256}, plain : {Counter(0), Counter(1), From(240)},
                  cipher : {<< >>}]

-----------------------------------------------------------------------------
(* The parts                                                                *)

L == INSTANCE Lea WITH Vectors <- MCVectors, pc <- l_pc, i <- round

ASSUME LeaAssumption == L!LeaConstants

\* A part that does not run stays at one of its initial states.
Inputs(p, set) == IF part = p THEN set ELSE {CHOOSE s \in set : TRUE}

AllInit ==
  /\ part \in {"deflate", "blocks", "ctr", "zip", "lea"}
  /\ stream \in Inputs("deflate", MCStreams) /\ Init
  /\ blocks \in Inputs("blocks", Entries) /\ B!Init
  /\ mode \in Inputs("ctr", {"aes", "lea"}) /\ C!Init
  /\ plain \in Inputs("zip", Plains) /\ password \in Inputs("zip", Passwords)
  /\ z_given \in Inputs("zip", Passwords) /\ Z!Init
  /\ vector \in Inputs("lea", MCVectors) /\ L!Init

Deflate == part = "deflate" /\ Next /\ UNCHANGED <<part, bVars, cVars, zVars, lVars>>
Blocks  == part = "blocks" /\ B!Next /\ UNCHANGED <<part, vars, cVars, zVars, lVars>>
Ctr     == part = "ctr" /\ C!Next /\ UNCHANGED <<part, vars, bVars, zVars, lVars>>
Zip     == part = "zip" /\ Z!Next /\ UNCHANGED <<part, vars, bVars, cVars, lVars>>
Cipher  == part = "lea" /\ L!Next /\ UNCHANGED <<part, vars, bVars, cVars, zVars>>

\* The key streams have no end of their own.
Ended ==
  /\ CASE part = "deflate" -> Done
       [] part = "blocks"  -> B!Done
       [] part = "lea"     -> L!Done
       [] OTHER            -> TRUE
  /\ UNCHANGED allVars

AllNext == Deflate \/ Blocks \/ Ctr \/ Zip \/ Cipher \/ Ended

\* A loop without waiting.
AllSpec == AllInit /\ [][AllNext]_allVars /\ WF_allVars(Deflate)

-----------------------------------------------------------------------------

\* extract_deflate ends, on truncated data and with bytes behind the stream too.
LoopEnds == part = "deflate" => Terminates

\* The ciphers give back what was encrypted: each byte of a counter mode with
\* its own byte of the key stream and ZipCrypto from its own output, however
\* the calls are cut, and LEA as it is published, no two blocks to one.
Decrypts ==
  /\ CountsBlocks /\ RestoresPlain
  /\ L!TypeOK /\ L!EncryptsAsPublished /\ L!RoundsCanBeUndone
=============================================================================

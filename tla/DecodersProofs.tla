--------------------------- MODULE DecodersProofs ---------------------------
(***************************************************************************)
(* extract_deflate, for every stream and every size of its two buffers: it   *)
(* feeds the decoder in order, decrypts every byte once, and reports success *)
(* early only on a block that is too short.  The other decoders, for every   *)
(* entry and mix of methods: a block counts only when it is all there and    *)
(* right, and all of them take one key stream.  ZipCrypto, for any           *)
(* arithmetic of its keys: the right password restores what was encrypted.   *)
(***************************************************************************)
EXTENDS Decoders, TLAPS

\* What the last call to the decoder says about the output: a call that left
\* room in the output buffer has put out all there was.  OutputComplete rests
\* on this, for the loop stops on produced = 0.
LastCall ==
  /\ written = made
  /\ pc = "check" /\ produced < OutSize /\ fed = stream.need => made = stream.out
  /\ pc = "check" /\ ended => made = stream.out

Inv ==
  /\ TypeOK /\ InputInOrder /\ OutputComplete
  /\ key = stream.len - remaining
  /\ LastCall

\* The loop starts with an empty buffer and nothing decrypted.
LEMMA InitInv == Init => Inv
<1> SUFFICES ASSUME Init PROVE Inv
  OBVIOUS
<1>1. IsStream(stream) /\ stream.len \in Nat /\ stream.need \in Nat
      /\ stream.out \in Nat
  BY StreamsAssumption DEF Init, IsStream
<1>2. InSize \in Nat /\ OutSize \in Nat
  BY SizesAssumption
<1>3. in_buf \in [Slots -> Int \X Int]
  <2>1. Stale \in Int \X Int
    BY DEF Stale
  <2> QED BY <2>1 DEF Init
<1>4. TypeOK
  <2>1. /\ pc = "fill" /\ remaining = stream.len /\ in_avail = 0 /\ key = 0
        /\ fed = 0 /\ made = 0 /\ ended = FALSE /\ produced = 0 /\ written = 0
    BY DEF Init
  <2>2. /\ remaining \in 0..stream.len /\ in_avail \in 0..InSize
        /\ fed \in 0..stream.need /\ made \in 0..stream.out
        /\ produced \in 0..OutSize
    BY <1>1, <1>2, <2>1
  <2> QED BY <1>1, <1>3, <2>1, <2>2 DEF TypeOK
<1>5. InputInOrder
  BY <1>1 DEF Init, InputInOrder
<1>6. key = stream.len - remaining
  BY <1>1 DEF Init
<1>7. LastCall /\ OutputComplete
  BY DEF Init, LastCall, OutputComplete
<1> QED BY <1>4, <1>5, <1>6, <1>7 DEF Inv

\* Reading and decrypting more input into the empty buffer.
LEMMA FillInv == Inv /\ Fill => Inv'
<1> SUFFICES ASSUME Inv, Fill PROVE Inv'
  OBVIOUS
<1>1. /\ IsStream(stream) /\ stream.len \in Nat /\ remaining \in 0..stream.len
      /\ in_avail = 0 /\ remaining > 0 /\ fed + in_avail + remaining = stream.len
      /\ fed \in Nat /\ key = stream.len - remaining /\ key \in Nat
      /\ in_buf \in [Slots -> Int \X Int]
  BY DEF Inv, TypeOK, InputInOrder, Fill, Fills, IsStream
<1>2. InSize \in Nat /\ InSize > 0
  BY SizesAssumption
<1>3. /\ ToRead \in 1..InSize /\ ToRead <= remaining
  BY <1>1, <1>2 DEF ToRead, Smaller
<1>4. /\ remaining' = remaining - ToRead /\ in_avail' = ToRead
      /\ key' = key + ToRead /\ stream' = stream /\ fed' = fed /\ pc' = "call"
      /\ made' = made /\ ended' = ended /\ produced' = produced
      /\ written' = written
      /\ in_buf' = [i \in Slots |-> IF i <= ToRead
                      THEN <<ReadPos + i - 1, key + i - 1>> ELSE in_buf[i]]
  BY DEF Fill
<1>5. ReadPos = fed /\ key = fed
  BY <1>1 DEF ReadPos
<1>6. in_buf' \in [Slots -> Int \X Int]
  <2>1. \A i \in Slots : i \in Int
    BY <1>2 DEF Slots
  <2> QED BY <1>1, <1>4, <1>5, <2>1
<1>7. TypeOK'
  BY <1>1, <1>3, <1>4, <1>6 DEF Inv, TypeOK
<1>8. \A i \in 1..in_avail' : in_buf'[i] = <<fed' + i - 1, fed' + i - 1>>
  <2> SUFFICES ASSUME NEW i \in 1..ToRead
               PROVE  in_buf'[i] = <<fed + i - 1, fed + i - 1>>
    BY <1>4
  <2>1. i \in Slots /\ i <= ToRead
    BY <1>2, <1>3 DEF Slots
  <2> QED BY <1>4, <1>5, <2>1
<1>9. fed' + in_avail' + remaining' = stream'.len
  BY <1>1, <1>3, <1>4
<1>10. key' = stream'.len - remaining'
  BY <1>1, <1>3, <1>4
<1>11. LastCall' /\ OutputComplete'
  BY <1>4 DEF Inv, LastCall, OutputComplete
<1> QED BY <1>7, <1>8, <1>9, <1>10, <1>11 DEF Inv, InputInOrder

\* A call to the decoder.
LEMMA CallInv ==
  ASSUME Inv, NEW c \in 0..in_avail, NEW p \in 0..OutSize, Call(c, p)
  PROVE  Inv'
<1>1. /\ stream.len \in Nat /\ stream.need \in Nat /\ stream.out \in Nat
      /\ in_avail \in 0..InSize /\ remaining \in Nat
      /\ fed \in 0..stream.need /\ made \in 0..stream.out
      /\ fed + in_avail + remaining = stream.len /\ written = made
      /\ \A i \in 1..in_avail : in_buf[i] = <<fed + i - 1, fed + i - 1>>
      /\ in_buf \in [Slots -> Int \X Int]
  BY DEF Inv, TypeOK, InputInOrder, LastCall, IsStream
<1>2. InSize \in Nat /\ OutSize \in Nat /\ OutSize > 0
  BY SizesAssumption
<1>3. /\ c \in Nat /\ c <= in_avail /\ c <= stream.need - fed
      /\ p \in Nat /\ p <= OutSize /\ p <= stream.out - made
      /\ p < OutSize => (fed + c = stream.need => made + p = stream.out)
  BY <1>1, <1>2 DEF Call, CanTakeGive, Smaller
<1>4. /\ stream' = stream /\ remaining' = remaining /\ key' = key
      /\ fed' = fed + c /\ made' = made + p /\ in_avail' = in_avail - c
      /\ produced' = p /\ written' = written + p /\ pc' = "check"
      /\ in_buf' = [i \in Slots |-> IF i <= in_avail - c THEN in_buf[i + c]
                                    ELSE in_buf[i]]
      /\ ended' \in BOOLEAN
      /\ ended' => made + p = stream.out
  BY DEF Call, Moved
<1>5. \A i \in Slots : i <= in_avail - c => i + c \in Slots
  BY <1>1, <1>2, <1>3 DEF Slots
<1>6. in_buf' \in [Slots -> Int \X Int]
  BY <1>1, <1>4, <1>5
<1>7. TypeOK'
  BY <1>1, <1>2, <1>3, <1>4, <1>6 DEF Inv, TypeOK
<1>8. \A i \in 1..in_avail' : in_buf'[i] = <<fed' + i - 1, fed' + i - 1>>
  <2> SUFFICES ASSUME NEW i \in 1..in_avail - c
               PROVE  in_buf'[i] = <<fed + c + i - 1, fed + c + i - 1>>
    BY <1>1, <1>3, <1>4
  <2>1. i \in Slots /\ i <= in_avail - c /\ i + c \in 1..in_avail
    BY <1>1, <1>2, <1>3 DEF Slots
  <2>2. in_buf'[i] = in_buf[i + c]
    BY <1>4, <2>1
  <2>3. fed + (i + c) - 1 = fed + c + i - 1
    BY <1>1, <1>3
  <2> QED BY <1>1, <2>1, <2>2, <2>3
<1>9. fed' + in_avail' + remaining' = stream'.len
  BY <1>1, <1>3, <1>4
<1>10. InputInOrder'
  BY <1>8, <1>9 DEF InputInOrder
<1>11. LastCall'
  BY <1>1, <1>3, <1>4 DEF LastCall
<1>12. OutputComplete'
  BY <1>4 DEF OutputComplete
<1> QED BY <1>4, <1>7, <1>10, <1>11, <1>12 DEF Inv

\* The decision after the call.
LEMMA CheckInv == Inv /\ Check => Inv'
<1> SUFFICES ASSUME Inv, Check PROVE Inv'
  OBVIOUS
<1>1. UNCHANGED <<stream, remaining, in_avail, in_buf, key, fed, made, ended,
                  produced, written>>
  BY DEF Check
<1>2. pc = "check" /\ pc' \in {"done", "fill"} /\ (pc' = "done" => Stops)
  BY DEF Check
<1>3. TypeOK'
  BY <1>1, <1>2 DEF Inv, TypeOK
<1>4. InputInOrder'
  BY <1>1 DEF Inv, InputInOrder
<1>5. LastCall'
  BY <1>1, <1>2 DEF Inv, LastCall
<1>6. ASSUME Stops, stream.len >= stream.need PROVE made = stream.out
  <2>1. CASE ended
    BY <1>2, <2>1 DEF Inv, LastCall
  <2>2. CASE in_avail = 0 /\ remaining = 0 /\ produced = 0
    <3>1. fed = stream.need
      BY <1>6, <2>2 DEF Inv, InputInOrder, TypeOK, IsStream
    <3>2. produced < OutSize
      BY <2>2, SizesAssumption
    <3> QED BY <1>2, <3>1, <3>2 DEF Inv, LastCall
  <2> QED BY <1>6, <2>1, <2>2 DEF Stops
<1>7. OutputComplete'
  BY <1>1, <1>2, <1>6 DEF Inv, LastCall, OutputComplete
<1> QED BY <1>1, <1>3, <1>4, <1>5, <1>7 DEF Inv

\* The other steps only move pc, and not to "check" or "done".
LEMMA ControlInv ==
  ASSUME Inv, pc' = pc \/ pc' \in {"call", "failed"},
         UNCHANGED <<stream, remaining, in_avail, in_buf, key, fed, made, ended,
                     produced, written>>
  PROVE  Inv'
<1>1. TypeOK'
  BY DEF Inv, TypeOK
<1>2. InputInOrder'
  BY DEF Inv, InputInOrder
<1>3. LastCall' /\ OutputComplete'
  BY DEF Inv, LastCall, OutputComplete
<1> QED BY <1>1, <1>2, <1>3 DEF Inv

\* Every step of the loop keeps the invariant.
LEMMA NextInv == Inv /\ [Next \/ Done]_vars => Inv'
<1> SUFFICES ASSUME Inv, [Next \/ Done]_vars PROVE Inv'
  OBVIOUS
<1>1. CASE Fill
  BY <1>1, FillInv
<1>2. CASE NoFill
  BY <1>2, ControlInv DEF NoFill
<1>3. CASE ReadFails
  BY <1>3, ControlInv DEF ReadFails
<1>4. CASE \E c \in 0..in_avail, p \in 0..OutSize : Call(c, p)
  BY <1>4, CallInv
<1>5. CASE CallFails
  BY <1>5, ControlInv DEF CallFails
<1>6. CASE Check
  BY <1>6, CheckInv
<1>7. CASE Done \/ UNCHANGED vars
  BY <1>7, ControlInv DEF Done, vars
<1> QED BY <1>1, <1>2, <1>3, <1>4, <1>5, <1>6, <1>7 DEF Next

\* The inductive invariant of the loop holds in every reachable state.
THEOREM DeflateInvariant == Spec => []Inv
  BY InitInv, NextInv, PTL DEF Spec

\* The counters of the loop stay in their ranges: in_avail and remaining are
\* unsigned and only ever lowered by what was really there (deflate.rs 23-50).
THEOREM DeflateTypeOK == Spec => []TypeOK
<1>1. Inv => TypeOK
  BY DEF Inv
<1> QED BY <1>1, DeflateInvariant, PTL

\* Refilling, decrypting and moving the rest to the front of the buffer never
\* drop, repeat or reorder a byte, for any size of the buffer.
THEOREM DeflateInputInOrder == Spec => []InputInOrder
<1>1. Inv => InputInOrder
  BY DEF Inv
<1> QED BY <1>1, DeflateInvariant, PTL

\* The three counters that decide when to stop (deflate.rs 57-63) decide right:
\* no output is lost of a stream whose compressed bytes are all there.
THEOREM DeflateOutputComplete == Spec => []OutputComplete
<1>1. Inv => OutputComplete
  BY DEF Inv
<1> QED BY <1>1, DeflateInvariant, PTL

-----------------------------------------------------------------------------
(* The decoders of BlockDecoders                                             *)

\* The decoded bytes of the block at work: those that were written and those
\* that write_all still has are what was handed over, in order; the CRC has had
\* the ones or the others, by the method.
Pieces ==
  /\ Len(b_written) + Len(buf) = given
  /\ \A k \in 1..Len(b_written) : b_written[k] = k - 1
  /\ \A k \in 1..Len(buf) : buf[k] = Len(b_written) + k - 1
  /\ b_pc \notin {"write", "failed"} => Len(buf) = 0
  /\ Len(hashed) = IF B!HashesOnWrite THEN Len(b_written) ELSE given
  /\ \A k \in 1..Len(hashed) : hashed[k] = k - 1

\* Between two blocks nothing is left of the one before; what is read of a
\* stored block is handed over at once.
Between ==
  /\ b_pc \in {"start", "done"} => read = 0 /\ given = 0
  /\ b_pc \in {"body", "decode", "write"} => blk <= Len(blocks)
  /\ b_pc = "body" => given = 0 /\ B!Block.method = "lzma"
  /\ b_pc \in {"decode", "write"} /\ B!Block.method = "store" => given = read

\* What LimitWriter has left, and what the LZMA decoder has read before it runs.
Limits ==
  blk <= Len(blocks) =>
    /\ b_pc # "start" => Len(b_written) + b_remaining = B!Block.limit
    /\ b_pc \in {"decode", "write"} /\ B!Block.method = "lzma" => B!Block.have = B!Block.size

\* The decryptor is where the reader is, as long as all blocks were used up.
KeyInStep ==
  (\A i \in 1..blk - 1 : blocks[i].coded = blocks[i].size) =>
    /\ b_key = start + read
    /\ input = [k \in 1..b_key |-> <<k - 1, k - 1>>]

BInv == B!TypeOK /\ Pieces /\ Between /\ Limits /\ KeyInStep /\ B!SuccessIsSound

LEMMA TypeFacts ==
  ASSUME B!TypeOK
  PROVE  /\ Len(blocks) \in Nat /\ blk \in 1..Len(blocks) + 1 /\ blk \in Nat
         /\ read \in Nat /\ b_key \in Nat /\ start \in Nat /\ given \in Nat
         /\ b_remaining \in Nat
         /\ input \in Seq(Nat \X Nat) /\ buf \in Seq(Nat) /\ hashed \in Seq(Nat)
         /\ b_written \in Seq(Nat)
         /\ Len(buf) \in Nat /\ Len(hashed) \in Nat /\ Len(b_written) \in Nat
<1>1. blocks \in Entries /\ Len(blocks) \in Nat
  BY PartsAssumption DEF B!TypeOK, B!DecodersConstants
<1> QED
  BY <1>1 DEF B!TypeOK

LEMMA BlockFacts ==
  ASSUME B!TypeOK, blk <= Len(blocks)
  PROVE  /\ blk \in 1..Len(blocks) /\ B!IsBlock(B!Block)
         /\ B!Block.size \in Nat /\ B!Block.have \in Nat /\ B!Block.coded \in Nat
         /\ B!Block.len \in Nat /\ B!Block.limit \in Nat
         /\ B!Block.have <= B!Block.size /\ B!Block.coded <= B!Block.size
         /\ read <= B!Block.have /\ given <= B!Block.len
<1>1. blk \in 1..Len(blocks)
  BY TypeFacts
<1>2. B!IsBlock(B!Block)
  BY <1>1, PartsAssumption DEF B!TypeOK, B!DecodersConstants, B!Block
<1> QED
  BY <1>1, <1>2 DEF B!IsBlock, B!TypeOK

LEMMA ConcatFacts ==
  ASSUME NEW T, NEW s \in Seq(T), NEW u \in Seq(T)
  PROVE  /\ s \o u \in Seq(T) /\ Len(s \o u) = Len(s) + Len(u)
         /\ \A k \in 1..Len(s) : (s \o u)[k] = s[k]
         /\ \A k \in 1..Len(s \o u) :
              k > Len(s) => /\ k - Len(s) \in 1..Len(u)
                            /\ (s \o u)[k] = u[k - Len(s)]
OBVIOUS

\* A sequence is known by its elements.
LEMMA SameSeq ==
  ASSUME NEW T, NEW s \in Seq(T), NEW u \in Seq(T), Len(s) = Len(u),
         \A k \in 1..Len(s) : s[k] = u[k]
  PROVE  s = u
OBVIOUS

\* Bytes that are read are decrypted at their place.
LEMMA TakeFacts ==
  ASSUME B!TypeOK, KeyInStep, blk <= Len(blocks), NEW n \in Nat, B!Take(n),
         UNCHANGED <<blocks, blk, start>>
  PROVE  /\ read' \in Nat /\ read' <= B!Block.have /\ b_key' \in Nat
         /\ input' \in Seq(Nat \X Nat) /\ KeyInStep'
<1> DEFINE more == [k \in 1..n |-> <<start + read + k - 1, b_key + k - 1>>]
<1>1. /\ read \in Nat /\ b_key \in Nat /\ start \in Nat /\ input \in Seq(Nat \X Nat)
  BY TypeFacts
<1>2. /\ read' = read + n /\ b_key' = b_key + n /\ input' = input \o more
      /\ read + n <= B!Block.have
  BY DEF B!Take
<1>3. more \in Seq(Nat \X Nat) /\ Len(more) = n
  <2>1. ASSUME NEW k \in 1..n PROVE <<start + read + k - 1, b_key + k - 1>> \in Nat \X Nat
    BY <1>1
  <2> QED
    BY <2>1
<1>4. input' \in Seq(Nat \X Nat)
  BY <1>1, <1>2, <1>3
<1>5. ASSUME \A i \in 1..blk' - 1 : blocks'[i].coded = blocks'[i].size
      PROVE  /\ b_key' = start' + read'
             /\ input' = [k \in 1..b_key' |-> <<k - 1, k - 1>>]
  <2>1. b_key = start + read /\ input = [k \in 1..b_key |-> <<k - 1, k - 1>>]
    BY <1>5 DEF KeyInStep
  <2>2. b_key' = start' + read'
    BY <1>1, <1>2, <2>1
  <2>3. Len(input) = b_key /\ Len(input') = b_key'
    BY <1>1, <1>2, <1>3, <2>1
  <2>4. ASSUME NEW k \in 1..b_key' PROVE input'[k] = <<k - 1, k - 1>>
    <3>1. CASE k <= b_key
      <4>1. k \in 1..b_key
        BY <1>1, <3>1
      <4>2. input'[k] = input[k]
        BY <1>1, <1>2, <1>3, <2>3, <4>1, ConcatFacts
      <4> QED
        BY <2>1, <4>1, <4>2
    <3>2. CASE ~(k <= b_key)
      <4>1. k \in 1..Len(input \o more) /\ k > Len(input)
        BY <1>1, <1>2, <2>3, <3>2
      <4>2. input'[k] = more[k - b_key] /\ k - b_key \in 1..n
        <5>1. /\ k - Len(input) \in 1..Len(more)
              /\ (input \o more)[k] = more[k - Len(input)]
          <6> HIDE DEF more
          <6> QED
            BY <1>1, <1>3, <4>1, ConcatFacts
        <5> QED
          BY <1>2, <1>3, <2>3, <5>1
      <4>3. start + read + (k - b_key) - 1 = k - 1 /\ b_key + (k - b_key) - 1 = k - 1
        BY <1>1, <2>1
      <4> QED
        BY <4>2, <4>3
    <3> QED
      BY <3>1, <3>2
  <2>5. b_key' \in Nat
    BY <1>1, <1>2
  <2>6. input' = [k \in 1..b_key' |-> <<k - 1, k - 1>>]
    <3> DEFINE u == [k \in 1..b_key' |-> <<k - 1, k - 1>>]
    <3>1. ASSUME NEW k \in 1..b_key' PROVE <<k - 1, k - 1>> \in Nat \X Nat
      BY <2>5
    <3>2. u \in Seq(Nat \X Nat) /\ Len(u) = b_key' /\ \A k \in 1..b_key' : u[k] = <<k - 1, k - 1>>
      BY <2>5, <3>1
    <3> HIDE DEF u
    <3>3. input' = u
      BY <1>4, <2>3, <2>4, <3>2, SameSeq
    <3> QED
      BY <3>3 DEF u
  <2> QED
    BY <2>2, <2>6
<1>6. KeyInStep'
  BY <1>5, Zenon DEF KeyInStep
<1> QED
  BY <1>1, <1>2, <1>4, <1>6

\* What is handed to write_all is the next decoded bytes.
LEMMA GiveFacts ==
  ASSUME B!TypeOK, Pieces, b_pc = "decode", NEW n \in Nat, B!Give(n),
         UNCHANGED <<blocks, blk, b_written>>
  PROVE  /\ given' = given + n /\ given' \in Nat /\ b_pc' = "write"
         /\ buf' \in Seq(Nat) /\ hashed' \in Seq(Nat) /\ Pieces'
<1>1. /\ given \in Nat /\ buf \in Seq(Nat) /\ hashed \in Seq(Nat) /\ b_written \in Seq(Nat)
      /\ Len(b_written) \in Nat
  BY TypeFacts
<1>2. Len(b_written) = given
  BY <1>1 DEF Pieces
<1>3. /\ given' = given + n /\ b_pc' = "write" /\ buf' = [k \in 1..n |-> given + k - 1]
      /\ hashed' = IF B!HashesOnWrite THEN hashed ELSE hashed \o buf'
  BY DEF B!Give
<1>4. /\ buf' \in Seq(Nat) /\ Len(buf') = n
      /\ \A k \in 1..n : buf'[k] = given + k - 1
  BY <1>1, <1>3
<1>5. /\ Len(b_written') + Len(buf') = given'
      /\ \A k \in 1..Len(b_written') : b_written'[k] = k - 1
      /\ \A k \in 1..Len(buf') : buf'[k] = Len(b_written') + k - 1
  BY <1>2, <1>3, <1>4 DEF Pieces
<1>6. B!HashesOnWrite' <=> B!HashesOnWrite
  BY DEF B!HashesOnWrite, B!Block
<1>7. CASE B!HashesOnWrite
  <2>1. hashed' = hashed /\ Len(hashed) = Len(b_written)
    BY <1>3, <1>7 DEF Pieces
  <2>2. Pieces'
    BY <1>3, <1>5, <1>6, <1>7, <2>1 DEF Pieces
  <2> QED
    BY <1>1, <1>3, <1>4, <2>1, <2>2
<1>8. CASE ~B!HashesOnWrite
  <2>1. hashed' = hashed \o buf' /\ Len(hashed) = given /\ \A k \in 1..given : hashed[k] = k - 1
    BY <1>3, <1>8 DEF Pieces
  <2>2. hashed' \in Seq(Nat) /\ Len(hashed') = given'
    <3>1. hashed' \in Seq(Nat) /\ Len(hashed') = Len(hashed) + Len(buf')
      BY <1>1, <1>4, <2>1, ConcatFacts
    <3>2. Len(hashed) + Len(buf') = given'
      BY <1>3, <1>4, <2>1
    <3> QED
      BY <3>1, <3>2
  <2>3. ASSUME NEW k \in 1..Len(hashed') PROVE hashed'[k] = k - 1
    <3>1. CASE k <= given
      <4>1. k \in 1..Len(hashed)
        BY <1>1, <2>1, <3>1
      <4> QED
        BY <1>1, <1>4, <2>1, <4>1, ConcatFacts
    <3>2. CASE ~(k <= given)
      <4>1. k > Len(hashed) /\ k - given \in 1..n
        BY <1>1, <1>3, <2>1, <2>2, <3>2
      <4>2. hashed'[k] = buf'[k - given]
        BY <1>1, <1>4, <2>1, <4>1, ConcatFacts
      <4>3. buf'[k - given] = given + (k - given) - 1
        BY <1>4, <4>1
      <4> QED
        BY <1>1, <4>2, <4>3
    <3> QED
      BY <3>1, <3>2
  <2>4. Pieces'
    BY <1>3, <1>5, <1>6, <1>8, <2>2, <2>3 DEF Pieces
  <2> QED
    BY <1>1, <1>3, <1>4, <2>2, <2>4
<1> QED
  BY <1>7, <1>8

LEMMA SubSeqFacts ==
  ASSUME NEW T, NEW s \in Seq(T), NEW m \in 0..Len(s)
  PROVE  /\ SubSeq(s, 1, m) \in Seq(T) /\ Len(SubSeq(s, 1, m)) = m
         /\ \A k \in 1..m : SubSeq(s, 1, m)[k] = s[k]
         /\ SubSeq(s, m + 1, Len(s)) \in Seq(T) /\ Len(SubSeq(s, m + 1, Len(s))) = Len(s) - m
         /\ \A k \in 1..Len(s) - m : SubSeq(s, m + 1, Len(s))[k] = s[m + k]
OBVIOUS

\* A call that writes a part of them leaves the rest, and LimitWriter's count
\* and the CRC follow.
LEMMA WriteFacts ==
  ASSUME B!TypeOK, Pieces, NEW m \in 1..Len(buf), B!WriteSome(m)
  PROVE  /\ b_written' \in Seq(Nat) /\ buf' \in Seq(Nat) /\ hashed' \in Seq(Nat)
         /\ Len(b_written') = Len(b_written) + m /\ Pieces'
<1> DEFINE part == SubSeq(buf, 1, m)
           left == SubSeq(buf, m + 1, Len(buf))
           w == Len(b_written)
<1>1. /\ given \in Nat /\ buf \in Seq(Nat) /\ hashed \in Seq(Nat) /\ b_written \in Seq(Nat)
      /\ w \in Nat /\ Len(buf) \in Nat /\ m \in Nat /\ m \in 0..Len(buf)
  BY TypeFacts
<1>2. /\ b_written' = b_written \o part /\ buf' = left
      /\ hashed' = IF B!HashesOnWrite THEN hashed \o part ELSE hashed
      /\ UNCHANGED <<blocks, blk, given>> /\ b_pc = "write" /\ b_pc' = "write"
  BY DEF B!WriteSome, B!Hashes
<1>3. /\ part \in Seq(Nat) /\ Len(part) = m /\ left \in Seq(Nat) /\ Len(left) = Len(buf) - m
      /\ \A k \in 1..m : part[k] = buf[k]
      /\ \A k \in 1..Len(buf) - m : left[k] = buf[m + k]
  <2>1. buf \in Seq(Nat) /\ m \in 0..Len(buf)
    BY <1>1
  <2> QED
    BY <2>1, SubSeqFacts
<1>4. /\ w + Len(buf) = given /\ \A k \in 1..w : b_written[k] = k - 1
      /\ \A k \in 1..Len(buf) : buf[k] = w + k - 1
  BY DEF Pieces
<1> HIDE DEF part, left
<1>5. \A k \in 1..m : part[k] = w + k - 1
  <2>1. ASSUME NEW k \in 1..m PROVE k \in 1..Len(buf)
    BY <1>1
  <2> QED
    BY <1>3, <1>4, <2>1
<1>6. \A s \in Seq(Nat) : Len(s) = w /\ (\A k \in 1..w : s[k] = k - 1) =>
        /\ s \o part \in Seq(Nat) /\ Len(s \o part) = w + m
        /\ \A k \in 1..w + m : (s \o part)[k] = k - 1
  <2> SUFFICES ASSUME NEW s \in Seq(Nat), Len(s) = w, \A k \in 1..w : s[k] = k - 1
               PROVE  /\ s \o part \in Seq(Nat) /\ Len(s \o part) = w + m
                      /\ \A k \in 1..w + m : (s \o part)[k] = k - 1
    OBVIOUS
  <2>1. s \o part \in Seq(Nat) /\ Len(s \o part) = w + m
    <3>1. s \o part \in Seq(Nat) /\ Len(s \o part) = Len(s) + Len(part)
      BY <1>3, ConcatFacts
    <3> QED
      BY <1>3, <3>1
  <2>2. ASSUME NEW k \in 1..w + m PROVE (s \o part)[k] = k - 1
    <3>1. CASE k <= w
      <4>1. k \in 1..w
        BY <1>1, <3>1
      <4> QED
        BY <1>3, <4>1, ConcatFacts
    <3>2. CASE ~(k <= w)
      <4>1. k > w /\ k - w \in 1..m /\ k \in 1..Len(s \o part)
        BY <1>1, <2>1, <3>2
      <4>2. (s \o part)[k] = part[k - w]
        <5>1. part \in Seq(Nat) /\ k > Len(s)
          BY <1>3, <4>1
        <5> QED
          BY <4>1, <5>1, ConcatFacts
      <4>3. part[k - w] = w + (k - w) - 1
        BY <1>5, <4>1
      <4> QED
        BY <1>1, <4>2, <4>3
    <3> QED
      BY <3>1, <3>2
  <2> QED
    BY <2>1, <2>2
<1>7. b_written' \in Seq(Nat) /\ Len(b_written') = w + m
      /\ \A k \in 1..w + m : b_written'[k] = k - 1
  BY <1>1, <1>2, <1>4, <1>6
<1>8. Len(b_written') + Len(buf') = given'
  <2>1. Len(b_written') = w + m /\ Len(buf') = Len(buf) - m /\ given' = w + Len(buf)
    BY <1>2, <1>3, <1>4, <1>7
  <2> QED
    BY <1>1, <2>1
<1>9. ASSUME NEW k \in 1..Len(buf') PROVE buf'[k] = Len(b_written') + k - 1
  <2>1. k \in 1..Len(buf) - m /\ m + k \in 1..Len(buf)
    BY <1>1, <1>2, <1>3
  <2>2. buf'[k] = buf[m + k] /\ buf[m + k] = w + (m + k) - 1
    BY <1>2, <1>3, <1>4, <2>1
  <2> QED
    BY <1>1, <1>7, <2>1, <2>2
<1>10. B!HashesOnWrite' <=> B!HashesOnWrite
  BY <1>2 DEF B!HashesOnWrite, B!Block
<1>11. /\ hashed' \in Seq(Nat)
       /\ Len(hashed') = IF B!HashesOnWrite THEN Len(b_written') ELSE given'
       /\ \A k \in 1..Len(hashed') : hashed'[k] = k - 1
  <2>1. CASE B!HashesOnWrite
    <3>1. Len(hashed) = w /\ \A k \in 1..w : hashed[k] = k - 1
      BY <2>1 DEF Pieces
    <3>2. hashed' = hashed \o part
      BY <1>2, <2>1
    <3> QED
      BY <1>1, <1>6, <1>7, <2>1, <3>1, <3>2
  <2>2. CASE ~B!HashesOnWrite
    BY <1>1, <1>2, <2>2 DEF Pieces
  <2> QED
    BY <2>1, <2>2
<1>12. Pieces'
  <2>1. \A k \in 1..Len(b_written') : b_written'[k] = k - 1
    BY <1>7
  <2> QED
    BY <1>2, <1>8, <1>9, <1>10, <1>11, <2>1 DEF Pieces
<1>13. buf' \in Seq(Nat)
  BY <1>2, <1>3
<1> QED
  BY <1>7, <1>11, <1>12, <1>13

LEMMA KeepPieces ==
  ASSUME Pieces, UNCHANGED <<blocks, blk, given, buf, hashed, b_written>>,
         b_pc' \notin {"write", "failed"} => Len(buf) = 0
  PROVE  Pieces'
<1>1. B!HashesOnWrite' <=> B!HashesOnWrite
  BY DEF B!HashesOnWrite, B!Block
<1> QED
  BY <1>1 DEF Pieces

LEMMA KeepKey ==
  ASSUME KeyInStep, UNCHANGED <<blocks, blk, start, read, b_key, input>>
  PROVE  KeyInStep'
BY Zenon DEF KeyInStep

LEMMA BInit ==
  ASSUME B!Init
  PROVE  BInv
<1>1. /\ blocks \in Entries /\ b_pc = "start" /\ blk = 1 /\ start = 0 /\ read = 0 /\ b_key = 0
      /\ input = << >> /\ given = 0 /\ buf = << >> /\ b_remaining = 0
      /\ hashed = << >> /\ b_written = << >>
  BY DEF B!Init
<1>2. /\ Len(blocks) \in Nat
      /\ \A i \in 1..Len(blocks) : B!IsBlock(blocks[i])
  BY <1>1, PartsAssumption DEF B!DecodersConstants
<1>3. B!TypeOK
  <2>1. blk <= Len(blocks) => read <= B!Block.have /\ given <= B!Block.len
    BY <1>1, <1>2 DEF B!Block, B!IsBlock
  <2> QED
    BY <1>1, <1>2, <2>1 DEF B!TypeOK
<1>4. Pieces /\ Between /\ Limits /\ B!SuccessIsSound
  BY <1>1 DEF Pieces, Between, Limits, B!SuccessIsSound
<1>5. KeyInStep
  BY <1>1 DEF KeyInStep
<1> QED
  BY <1>3, <1>4, <1>5 DEF BInv

\* Steps that only move pc.
LEMMA ControlKeeps ==
  ASSUME BInv,
         UNCHANGED <<blocks, blk, start, read, b_key, input, given, buf, b_remaining, hashed,
                     b_written>>,
         \/ b_pc' = b_pc
         \/ b_pc \in {"decode", "write"} /\ b_pc' = "failed"
         \/ b_pc = "write" /\ buf = << >> /\ b_pc' = "decode"
         \/ b_pc = "start" /\ b_pc' = "done" /\ blk > Len(blocks)
  PROVE  BInv'
<1> USE DEF BInv
<1>1. B!TypeOK'
  BY DEF B!TypeOK, B!Block
<1>2. Pieces'
  <2>1. b_pc' \notin {"write", "failed"} => Len(buf) = 0
    BY DEF Pieces
  <2> QED
    BY <2>1, KeepPieces
<1>3. Between'
  BY DEF Between, B!Block
<1>4. Limits'
  BY TypeFacts DEF Limits, B!Block
<1>5. KeyInStep' /\ B!SuccessIsSound'
  BY KeepKey DEF B!SuccessIsSound
<1> QED
  BY <1>1, <1>2, <1>3, <1>4, <1>5

LEMMA StartKeeps ==
  ASSUME BInv, B!StartBlock
  PROVE  BInv'
<1>1. /\ b_pc = "start" /\ blk <= Len(blocks) /\ b_remaining' = B!Block.limit
      /\ UNCHANGED <<blocks, blk, start, given, buf, hashed, b_written>>
  BY DEF B!StartBlock, B!Limit
<1>2. /\ B!TypeOK /\ Pieces /\ KeyInStep /\ read = 0 /\ given = 0
  BY <1>1 DEF BInv, Between
<1>3. \/ /\ B!Block.method # "lzma" /\ b_pc' = "decode" /\ UNCHANGED <<read, b_key, input>>
      \/ b_pc' = "failed" /\ UNCHANGED <<read, b_key, input>>
      \/ B!Block.method = "lzma" /\ b_pc' = "body" /\ B!Take(HeaderSize)
  BY DEF B!StartBlock, B!Fail
<1>4. HeaderSize \in Nat
  BY PartsAssumption DEF B!DecodersConstants
<1>5. /\ read' \in Nat /\ read' <= B!Block.have /\ b_key' \in Nat
      /\ input' \in Seq(Nat \X Nat) /\ KeyInStep'
  <2>1. CASE UNCHANGED <<read, b_key, input>>
    BY <1>1, <1>2, <2>1, TypeFacts, BlockFacts, KeepKey
  <2>2. CASE B!Take(HeaderSize)
    BY <1>1, <1>2, <1>4, <2>2, TakeFacts
  <2> QED
    BY <1>3, <2>1, <2>2
<1>6. B!Block' = B!Block
  BY <1>1 DEF B!Block
<1>7. B!Block.limit \in Nat /\ blk \in 1..Len(blocks) /\ given <= B!Block.len
  BY <1>1, <1>2, BlockFacts
<1>8. B!TypeOK'
  BY <1>1, <1>2, <1>3, <1>5, <1>6, <1>7 DEF B!TypeOK
<1>9. Len(buf) = 0 /\ Len(b_written) = 0
  BY <1>1, <1>2, TypeFacts DEF Pieces
<1>10. Pieces'
  BY <1>1, <1>2, <1>9, KeepPieces
<1>11. Between' /\ Limits'
  BY <1>1, <1>2, <1>3, <1>6, <1>7, <1>9 DEF Between, Limits
<1>12. B!SuccessIsSound'
  BY <1>1 DEF BInv, B!SuccessIsSound
<1> QED
  BY <1>5, <1>8, <1>10, <1>11, <1>12 DEF BInv

LEMMA ReadKeeps ==
  ASSUME BInv, B!LzmaBody \/ (b_pc = "decode" /\ \E n \in 1..B!Block.size - read : B!Pull(n))
  PROVE  BInv'
<1>1. /\ b_pc \in {"body", "decode"} /\ blk <= Len(blocks)
      /\ UNCHANGED <<blocks, blk, start, given, buf, b_remaining, hashed, b_written>>
  BY DEF BInv, Between, B!LzmaBody, B!Pull
<1>2. /\ B!TypeOK /\ Pieces /\ KeyInStep /\ Between /\ Limits
  BY DEF BInv
<1>3. /\ read \in Nat /\ B!Block.size \in Nat /\ B!Block.have \in Nat
      /\ blk \in 1..Len(blocks) /\ given <= B!Block.len /\ read <= B!Block.have
  BY <1>1, <1>2, TypeFacts, BlockFacts
<1>4. \/ /\ b_pc = "body" /\ B!Block.have = B!Block.size /\ b_pc' = "decode"
         /\ B!Take(B!Block.size - read)
      \/ b_pc = "body" /\ b_pc' = "failed" /\ UNCHANGED <<read, b_key, input>>
      \/ /\ b_pc = "decode" /\ b_pc' = "decode" /\ B!Block.method \in {"bzip2", "azo"}
         /\ \E n \in Nat : B!Take(n)
  BY <1>3 DEF B!LzmaBody, B!Pull, B!Fail, B!Streaming
<1>5. /\ read' \in Nat /\ read' <= B!Block.have /\ b_key' \in Nat
      /\ input' \in Seq(Nat \X Nat) /\ KeyInStep'
  <2>1. CASE UNCHANGED <<read, b_key, input>>
    BY <1>1, <1>2, <1>3, <2>1, TypeFacts, KeepKey
  <2>2. CASE \E n \in Nat : B!Take(n)
    BY <1>1, <1>2, <2>2, TakeFacts
  <2>3. b_pc = "body" /\ B!Block.have = B!Block.size => B!Block.size - read \in Nat
    BY <1>3
  <2> QED
    BY <1>4, <2>1, <2>2, <2>3
<1>6. B!Block' = B!Block
  BY <1>1 DEF B!Block
<1>7. B!TypeOK'
  BY <1>1, <1>2, <1>3, <1>4, <1>5, <1>6 DEF B!TypeOK
<1>8. Len(buf) = 0
  BY <1>1, <1>2 DEF Pieces
<1>9. Pieces'
  BY <1>1, <1>2, <1>8, KeepPieces
<1>10. Between'
  BY <1>1, <1>2, <1>4, <1>6 DEF Between
<1>11. Limits'
  BY <1>1, <1>2, <1>4, <1>6 DEF Limits
<1>12. B!SuccessIsSound'
  BY <1>1 DEF BInv, B!SuccessIsSound
<1> QED
  BY <1>5, <1>7, <1>9, <1>10, <1>11, <1>12 DEF BInv

LEMMA StoreKeeps ==
  ASSUME BInv, B!StoreTurn
  PROVE  BInv'
<1>1. /\ b_pc = "decode" /\ blk <= Len(blocks) /\ B!Block.method = "store"
      /\ UNCHANGED <<blocks, blk, start, b_remaining, b_written>>
  BY DEF BInv, Between, B!StoreTurn
<1>2. /\ B!TypeOK /\ Pieces /\ KeyInStep /\ Between /\ Limits
  BY DEF BInv
<1>3. /\ read \in Nat /\ B!Block.size \in Nat /\ B!Block.have \in Nat
      /\ blk \in 1..Len(blocks) /\ read <= B!Block.have /\ B!Block.have <= B!Block.size
      /\ B!Block.len = B!Block.size /\ given = read
  BY <1>1, <1>2, TypeFacts, BlockFacts DEF B!IsBlock, Between
<1> DEFINE n == B!Smaller(B!Block.size - read, BufSize)
<1>4. n \in Nat
  BY <1>3, PartsAssumption DEF B!Smaller, B!DecodersConstants
<1>5. CASE b_pc' = "failed" /\ UNCHANGED <<read, b_key, input, given, buf, hashed>>
  BY <1>1, <1>5, ControlKeeps
<1>6. CASE B!Take(n) /\ B!Give(n)
  <2>1. /\ read' \in Nat /\ read' <= B!Block.have /\ b_key' \in Nat
        /\ input' \in Seq(Nat \X Nat) /\ KeyInStep'
    BY <1>1, <1>2, <1>4, <1>6, TakeFacts
  <2>2. /\ given' = given + n /\ given' \in Nat /\ b_pc' = "write"
        /\ buf' \in Seq(Nat) /\ hashed' \in Seq(Nat) /\ Pieces'
    BY <1>1, <1>2, <1>4, <1>6, GiveFacts
  <2>3. read' = read + n
    BY <1>6 DEF B!Take
  <2>4. given' = read' /\ given' <= B!Block.len
    BY <1>3, <2>1, <2>2, <2>3
  <2>5. B!Block' = B!Block
    BY <1>1 DEF B!Block
  <2>6. B!TypeOK'
    BY <1>1, <1>2, <2>1, <2>2, <2>4, <2>5 DEF B!TypeOK
  <2>7. Between' /\ Limits'
    BY <1>1, <1>2, <2>2, <2>4, <2>5 DEF Between, Limits
  <2>8. B!SuccessIsSound'
    BY <1>1 DEF BInv, B!SuccessIsSound
  <2> QED
    BY <2>1, <2>2, <2>6, <2>7, <2>8 DEF BInv
<1> QED
  BY <1>5, <1>6 DEF B!StoreTurn, B!Fail

LEMMA DecodeKeeps ==
  ASSUME BInv, b_pc = "decode", NEW n \in Nat, B!Decode(n)
  PROVE  BInv'
<1>1. /\ blk <= Len(blocks) /\ B!Block.method # "store" /\ given + n <= B!Block.len /\ B!Give(n)
      /\ UNCHANGED <<blocks, blk, start, read, b_key, input, b_remaining, b_written>>
  BY DEF BInv, Between, B!Decode
<1>2. /\ B!TypeOK /\ Pieces /\ KeyInStep /\ Between /\ Limits
  BY DEF BInv
<1>3. /\ given' = given + n /\ given' \in Nat /\ b_pc' = "write"
      /\ buf' \in Seq(Nat) /\ hashed' \in Seq(Nat) /\ Pieces'
  BY <1>1, <1>2, GiveFacts
<1>4. B!Block' = B!Block
  BY <1>1 DEF B!Block
<1>5. B!TypeOK'
  BY <1>1, <1>2, <1>3, <1>4 DEF B!TypeOK
<1>6. Between' /\ Limits'
  BY <1>1, <1>2, <1>3, <1>4 DEF Between, Limits
<1>7. KeyInStep' /\ B!SuccessIsSound'
  BY <1>1, KeepKey DEF BInv, B!SuccessIsSound
<1> QED
  BY <1>3, <1>5, <1>6, <1>7 DEF BInv

LEMMA WriteKeeps ==
  ASSUME BInv, NEW m \in 1..Len(buf), B!WriteSome(m)
  PROVE  BInv'
<1>1. /\ b_pc = "write" /\ blk <= Len(blocks) /\ Len(buf) <= b_remaining
      /\ b_remaining' = b_remaining - m
      /\ UNCHANGED <<blocks, b_pc, blk, start, read, b_key, input, given>>
  BY DEF BInv, Between, B!WriteSome, B!Fits
<1>2. /\ B!TypeOK /\ Pieces /\ KeyInStep /\ Between /\ Limits
  BY DEF BInv
<1>3. /\ b_written' \in Seq(Nat) /\ buf' \in Seq(Nat) /\ hashed' \in Seq(Nat)
      /\ Len(b_written') = Len(b_written) + m /\ Pieces'
  BY <1>2, WriteFacts
<1>4. /\ Len(buf) \in Nat /\ b_remaining \in Nat /\ Len(b_written) \in Nat
      /\ B!Block.limit \in Nat
  BY <1>1, <1>2, TypeFacts, BlockFacts
<1>5. b_remaining' \in Nat
  BY <1>1, <1>4
<1>6. B!Block' = B!Block
  BY <1>1 DEF B!Block
<1>7. B!TypeOK'
  BY <1>1, <1>2, <1>3, <1>5, <1>6 DEF B!TypeOK
<1>8. Between'
  BY <1>1, <1>2, <1>6 DEF Between
<1>9. Limits'
  <2>1. Len(b_written') + b_remaining' = B!Block.limit
    BY <1>1, <1>2, <1>3, <1>4 DEF Limits
  <2> QED
    BY <1>1, <1>2, <1>6, <2>1 DEF Limits
<1>10. KeyInStep' /\ B!SuccessIsSound'
  BY <1>1, KeepKey DEF BInv, B!SuccessIsSound
<1> QED
  BY <1>3, <1>7, <1>8, <1>9, <1>10 DEF BInv

\* A block counts when all of it was read, handed over and written, and is right.
LEMMA EndBlockKeeps ==
  ASSUME BInv, B!EndBlock
  PROVE  BInv'
<1>1. /\ b_pc = "decode" /\ blk <= Len(blocks) /\ given = B!Block.len /\ read >= B!Block.coded
      /\ UNCHANGED <<blocks, b_key, input, b_remaining>>
  BY DEF BInv, Between, B!EndBlock
<1>2. /\ B!TypeOK /\ Pieces /\ KeyInStep /\ Between /\ Limits /\ B!SuccessIsSound
  BY DEF BInv
<1>3. CASE b_pc' = "failed" /\ UNCHANGED <<blk, start, read, given, buf, hashed, b_written>>
  BY <1>1, <1>3, ControlKeeps
<1>4. CASE B!CrcMatches /\ b_pc' = "start" /\ B!NewBlock
  <2>1. /\ blk' = blk + 1 /\ start' = start + B!Block.size /\ read' = 0 /\ given' = 0
        /\ buf' = << >> /\ hashed' = << >> /\ b_written' = << >> /\ B!Block.good
    BY <1>4 DEF B!NewBlock, B!CrcMatches
  <2>2. /\ blk \in 1..Len(blocks) /\ blk \in Nat /\ Len(blocks) \in Nat
        /\ read \in Nat /\ start \in Nat /\ b_key \in Nat
        /\ B!Block.size \in Nat /\ B!Block.have \in Nat /\ B!Block.coded \in Nat
        /\ B!Block.len \in Nat /\ B!Block.limit \in Nat
        /\ B!Block.have <= B!Block.size /\ read <= B!Block.have
        /\ Len(b_written) \in Nat /\ b_remaining \in Nat
    BY <1>1, <1>2, TypeFacts, BlockFacts
  <2>3. Len(b_written) = given /\ Len(b_written) + b_remaining = B!Block.limit
    BY <1>1, <1>2, <2>2 DEF Pieces, Limits
  <2>4. B!Sound(B!Block)
    <3>1. B!Block.method = "lzma" => B!Block.have = B!Block.size
      BY <1>1, <1>2 DEF Limits
    <3>2. B!Block.len <= B!Block.limit /\ B!Block.coded <= B!Block.have
      BY <1>1, <2>2, <2>3
    <3> QED
      BY <2>1, <3>1, <3>2 DEF B!Sound
  <2>5. B!SuccessIsSound'
    <3>1. ASSUME NEW i \in 1..blk' - 1 PROVE B!Sound(blocks'[i])
      <4>1. i \in 1..blk - 1 \/ i = blk
        BY <2>1, <2>2
      <4>2. blocks' = blocks
        BY <1>1
      <4> QED
        BY <1>2, <2>4, <4>1, <4>2 DEF B!SuccessIsSound, B!Block
    <3> QED
      BY <3>1 DEF B!SuccessIsSound, B!Sound
  <2>6. B!TypeOK'
    <3>1. blk' \in 1..Len(blocks) + 1
      BY <2>1, <2>2
    <3>2. blk' <= Len(blocks) => 0 <= B!Block'.have /\ 0 <= B!Block'.len
      <4>1. ASSUME blk' <= Len(blocks) PROVE blk' \in 1..Len(blocks)
        BY <3>1, <4>1, <2>2
      <4>2. \A i \in 1..Len(blocks) : B!IsBlock(blocks[i])
        BY <1>2, PartsAssumption DEF B!TypeOK, B!DecodersConstants
      <4> QED
        BY <1>1, <4>1, <4>2 DEF B!Block, B!IsBlock
    <3>3. start' \in Nat
      BY <2>1, <2>2
    <3> QED
      BY <1>1, <1>2, <1>4, <2>1, <3>1, <3>2, <3>3 DEF B!TypeOK
  <2>7. Pieces' /\ Between' /\ Limits'
    BY <1>4, <2>1 DEF Pieces, Between, Limits
  <2>8. KeyInStep'
    <3>1. ASSUME \A i \in 1..blk' - 1 : blocks'[i].coded = blocks'[i].size
          PROVE  /\ b_key' = start' + read'
                 /\ input' = [k \in 1..b_key' |-> <<k - 1, k - 1>>]
      <4>1. \A i \in 1..blk - 1 : blocks[i].coded = blocks[i].size
        BY <1>1, <2>1, <2>2, <3>1
      <4>2. b_key = start + read /\ input = [k \in 1..b_key |-> <<k - 1, k - 1>>]
        BY <4>1, <1>2, Zenon DEF KeyInStep
      <4>3. B!Block.coded = B!Block.size
        BY <1>1, <2>1, <2>2, <3>1 DEF B!Block
      <4>4. b_key' = start' + read'
        <5>1. ASSUME NEW coded \in Nat, NEW have \in Nat, NEW size \in Nat,
                     coded = size, have <= size, read <= have, read >= coded
              PROVE  read = size
          BY <2>2, <5>1
        <5>2. read = B!Block.size
          BY <1>1, <2>2, <4>3, <5>1
        <5> QED
          BY <1>1, <2>1, <2>2, <4>2, <5>2
      <4> QED
        BY <1>1, <4>2, <4>4, Zenon
    <3> QED
      BY <3>1, Zenon DEF KeyInStep
  <2> QED
    BY <2>5, <2>6, <2>7, <2>8 DEF BInv
<1> QED
  BY <1>3, <1>4 DEF B!EndBlock, B!Fail

LEMMA BNext ==
  ASSUME BInv, [B!Next \/ B!Done]_(B!vars)
  PROVE  BInv'
<1>1. CASE B!StartBlock
  BY <1>1, StartKeeps
<1>2. CASE B!LzmaBody \/ (b_pc = "decode" /\ \E n \in 1..B!Block.size - read : B!Pull(n))
  BY <1>2, ReadKeeps
<1>3. CASE B!StoreTurn
  BY <1>3, StoreKeeps
<1>4. CASE b_pc = "decode" /\ \E n \in 1..B!Smaller(BufSize, B!Block.len - given) : B!Decode(n)
  <2>1. PICK n \in 1..B!Smaller(BufSize, B!Block.len - given) : B!Decode(n)
    BY <1>4
  <2>2. n \in Nat
    <3>1. blk <= Len(blocks)
      BY <1>4 DEF BInv, Between
    <3>2. B!Block.len \in Nat /\ given \in Nat /\ BufSize \in Nat
      BY <3>1, TypeFacts, BlockFacts, PartsAssumption DEF BInv, B!DecodersConstants
    <3>3. B!Smaller(BufSize, B!Block.len - given) \in Int
      BY <3>2 DEF B!Smaller
    <3> QED
      BY <3>3
  <2> QED
    BY <1>4, <2>1, <2>2, DecodeKeeps
<1>5. CASE \E m \in 1..Len(buf) : B!WriteSome(m)
  BY <1>5, WriteKeeps
<1>6. CASE B!EndBlock
  BY <1>6, EndBlockKeeps
<1>7. CASE B!DecoderFails \/ B!WriteFails \/ B!Written
  BY <1>7, ControlKeeps DEF B!DecoderFails, B!WriteFails, B!Written, B!Fail
<1>8. CASE B!EndEntry
  BY <1>8, ControlKeeps DEF B!EndEntry
<1>9. CASE B!Done \/ UNCHANGED B!vars
  BY <1>9, ControlKeeps DEF B!Done, B!vars
<1> QED
  BY <1>1, <1>2, <1>3, <1>4, <1>5, <1>6, <1>7, <1>8, <1>9 DEF B!Next

LEMMA BInvariant == B!Spec => []BInv
BY BInit, BNext, PTL DEF B!Spec

\* The CRC that decompress_block compares is that of the bytes that reached the
\* file, however write_all cuts them, no block writes more than it declares, and
\* an entry goes on to its next block only from one that is all there and right:
\* for every entry, buffer and mix of methods.
THEOREM BlocksCheckedAlways == B!Spec => []BlocksChecked
<1>1. ASSUME BInv PROVE BlocksChecked
  <2>1. /\ B!TypeOK /\ Pieces /\ Limits /\ B!SuccessIsSound
        /\ given \in Nat /\ hashed \in Seq(Nat) /\ b_written \in Seq(Nat)
        /\ Len(buf) \in Nat /\ Len(b_written) \in Nat /\ b_remaining \in Nat
    BY <1>1, TypeFacts DEF BInv
  <2>2. Len(b_written) <= given /\ \A k \in 1..Len(b_written) : b_written[k] = k - 1
    BY <2>1 DEF Pieces
  <2>3. ASSUME b_pc \in {"decode", "done"} PROVE hashed = b_written
    <3>1. Len(buf) = 0 /\ Len(b_written) = given
      BY <2>1, <2>3 DEF Pieces
    <3>2. Len(hashed) = Len(b_written) /\ \A k \in 1..Len(hashed) : hashed[k] = b_written[k]
      BY <2>1, <2>2, <3>1 DEF Pieces
    <3> QED
      BY <2>1, <3>2, SameSeq
  <2>4. B!NothingBeyondLimit
    <3>1. ASSUME blk <= Len(blocks) PROVE Len(b_written) <= B!Block.limit
      <4>1. CASE b_pc = "start"
        BY <2>1, <3>1, <4>1, <1>1, BlockFacts DEF BInv, Between, Pieces
      <4>2. CASE b_pc # "start"
        <5>1. Len(b_written) + b_remaining = B!Block.limit
          BY <2>1, <3>1, <4>2 DEF Limits
        <5> QED
          BY <2>1, <5>1
      <4> QED
        BY <4>1, <4>2
    <3> QED
      BY <3>1 DEF B!NothingBeyondLimit
  <2> QED
    BY <2>1, <2>2, <2>3, <2>4 DEF BlocksChecked, B!CrcOfWhatIsWritten
<1> QED
  BY <1>1, BInvariant, PTL

\* The decoders of all methods take an entry's bytes from one key stream, each
\* byte with its own byte of it, from block to block.
THEOREM KeyStreamInStep == B!Spec => []OneKeyStream
<1>1. ASSUME BInv PROVE OneKeyStream
  BY <1>1, Zenon DEF BInv, KeyInStep, OneKeyStream, B!DecryptedInPlace
<1> QED
  BY <1>1, BInvariant, PTL

-----------------------------------------------------------------------------
(* ZipCrypto                                                                 *)

\* The keys that h gives for each number of bytes are those of the writer, and
\* with the right password those of the reader, who follows behind.
KeysOf(h) ==
  /\ h[0] = Z!NewKeys(password) /\ writer = h[Len(cipher)]
  /\ \A n \in 1..Len(cipher) :
       h[n] = KeyStep[h[n - 1], plain[n]] /\ cipher[n] = Xor[plain[n], KeyByte[h[n - 1]]]
  /\ Z!NewKeys(z_given) = Z!NewKeys(password) =>
       /\ reader = h[Len(out)] /\ verdict # "wrong"
       /\ \A n \in 1..Len(out) : out[n] = plain[n]

ZInv == Z!TypeOK /\ \E h \in [0..Len(cipher) -> Keys] : KeysOf(h)

LEMMA ZipTypeFacts ==
  ASSUME Z!TypeOK
  PROVE  /\ plain \in Seq(Bytes) /\ cipher \in Seq(Bytes) /\ out \in Seq(Bytes)
         /\ Len(plain) \in Nat /\ Len(cipher) \in Nat /\ Len(out) \in Nat
         /\ Len(out) <= Len(cipher) /\ Len(cipher) <= Len(plain)
         /\ \A n \in 1..Len(plain) : plain[n] \in Bytes
         /\ \A n \in 1..Len(cipher) : cipher[n] \in Bytes
         /\ writer \in Keys /\ reader \in Keys /\ HeaderLen \in Nat /\ HeaderLen <= Len(plain)
<1>1. plain \in Seq(Bytes) /\ HeaderLen \in Nat /\ Len(plain) >= HeaderLen
  BY PartsAssumption DEF Z!TypeOK, Z!ZipConstants
<1> QED
  BY <1>1 DEF Z!TypeOK

\* The arithmetic of the keys, by what the module assumes of it.
LEMMA KeyFacts ==
  /\ \A g \in Keys : KeyByte[g] \in Bytes
  /\ \A g \in Keys, b \in Bytes : KeyStep[g, b] \in Keys
  /\ \A a, b \in Bytes : Xor[a, b] \in Bytes /\ Xor[Xor[a, b], b] = a
BY PartsAssumption DEF Z!ZipConstants

LEMMA AppendFacts ==
  ASSUME NEW T, NEW s \in Seq(T), NEW e \in T
  PROVE  /\ Append(s, e) \in Seq(T) /\ Len(Append(s, e)) = Len(s) + 1
         /\ \A n \in 1..Len(s) : Append(s, e)[n] = s[n]
         /\ Append(s, e)[Len(s) + 1] = e
OBVIOUS

LEMMA ZInit ==
  ASSUME Z!Init
  PROVE  ZInv
<1>1. /\ plain \in Plains /\ password \in Passwords /\ z_given \in Passwords
      /\ writer = Z!NewKeys(password) /\ reader = Z!NewKeys(z_given)
      /\ cipher = << >> /\ out = << >> /\ verdict = "none"
  BY DEF Z!Init
<1>2. writer \in Keys /\ reader \in Keys /\ plain \in Seq(Bytes)
  BY <1>1, PartsAssumption DEF Z!ZipConstants
<1>3. Len(cipher) = 0 /\ Len(out) = 0 /\ cipher \in Seq(Bytes) /\ out \in Seq(Bytes)
  BY <1>1
<1>4. Z!TypeOK
  BY <1>1, <1>2, <1>3 DEF Z!TypeOK
<1> DEFINE h == [n \in 0..0 |-> writer]
<1>5. h \in [0..Len(cipher) -> Keys] /\ h[0] = writer
  BY <1>2, <1>3
<1>6. KeysOf(h)
  BY <1>1, <1>3, <1>5 DEF KeysOf
<1> QED
  BY <1>4, <1>5, <1>6 DEF ZInv

LEMMA EncryptKeeps ==
  ASSUME ZInv, Z!Encrypt
  PROVE  ZInv'
<1> DEFINE c == Len(cipher)
           b == plain[c + 1]
           e == Xor[b, KeyByte[writer]]
<1>0. c < Len(plain)
  BY DEF Z!Encrypt
<1>1. /\ cipher' = Append(cipher, e) /\ writer' = KeyStep[writer, b]
      /\ UNCHANGED <<plain, password, z_given, reader, out, verdict>>
  BY DEF Z!Encrypt, Z!Cover
<1>2. Z!TypeOK
  BY DEF ZInv
<1>3. PICK h \in [0..c -> Keys] : KeysOf(h)
  BY DEF ZInv
<1>4. c \in Nat /\ c + 1 \in 1..Len(plain) /\ b \in Bytes /\ writer \in Keys
  <2>1. /\ c \in Nat /\ Len(plain) \in Nat /\ writer \in Keys
        /\ \A n \in 1..Len(plain) : plain[n] \in Bytes
    BY <1>2, ZipTypeFacts
  <2>2. c + 1 \in 1..Len(plain)
    BY <1>0, <2>1
  <2> QED
    BY <2>1, <2>2
<1>5. e \in Bytes /\ writer' \in Keys
  BY <1>1, <1>4, KeyFacts
<1> HIDE DEF e
<1>6. /\ cipher' \in Seq(Bytes) /\ Len(cipher') = c + 1 /\ cipher'[c + 1] = e
      /\ \A n \in 1..c : cipher'[n] = cipher[n]
  <2>1. cipher \in Seq(Bytes)
    BY <1>2, ZipTypeFacts
  <2>2. /\ Append(cipher, e) \in Seq(Bytes) /\ Len(Append(cipher, e)) = c + 1
        /\ \A n \in 1..c : Append(cipher, e)[n] = cipher[n]
        /\ Append(cipher, e)[c + 1] = e
    BY <1>5, <2>1, AppendFacts
  <2> QED
    BY <1>1, <2>2, Zenon
<1>7. PICK g \in [0..Len(cipher') -> Keys] :
        g[c + 1] = writer' /\ \A n \in 0..c : g[n] = h[n]
  <2> DEFINE g == [n \in 0..c + 1 |-> IF n <= c THEN h[n] ELSE writer']
  <2>1. /\ g \in [0..Len(cipher') -> Keys] /\ g[c + 1] = writer'
        /\ \A n \in 0..c : g[n] = h[n]
    BY <1>3, <1>4, <1>5, <1>6
  <2> QED
    BY <2>1
<1>8. Z!TypeOK'
  <2>1. Len(out) <= c + 1 /\ c + 1 <= Len(plain)
    <3>1. c \in Nat /\ Len(plain) \in Nat /\ Len(out) \in Nat /\ Len(out) <= c
      BY <1>2, ZipTypeFacts
    <3> QED
      BY <1>0, <3>1
  <2> QED
    BY <1>1, <1>2, <1>5, <1>6, <2>1 DEF Z!TypeOK
<1>9. /\ h[0] = Z!NewKeys(password) /\ writer = h[c]
      /\ \A n \in 1..c : h[n] = KeyStep[h[n - 1], plain[n]]
                         /\ cipher[n] = Xor[plain[n], KeyByte[h[n - 1]]]
      /\ Z!NewKeys(z_given) = Z!NewKeys(password) =>
           /\ reader = h[Len(out)] /\ verdict # "wrong"
           /\ \A n \in 1..Len(out) : out[n] = plain[n]
  BY <1>3 DEF KeysOf
<1>10. g[0] = Z!NewKeys(password) /\ g[c] = writer /\ g[Len(out)] = h[Len(out)]
  <2>1. 0 \in 0..c /\ c \in 0..c /\ Len(out) \in 0..c
    BY <1>2, <1>4, ZipTypeFacts
  <2> QED
    BY <1>7, <1>9, <2>1
<1>11. ASSUME NEW n \in 1..c + 1
       PROVE  g[n] = KeyStep[g[n - 1], plain[n]] /\ cipher'[n] = Xor[plain[n], KeyByte[g[n - 1]]]
  <2>1. CASE n \in 1..c
    <3>1. n \in 0..c /\ n - 1 \in 0..c
      BY <1>4, <2>1
    <3>2. g[n] = h[n] /\ g[n - 1] = h[n - 1]
      BY <1>7, <3>1
    <3> QED
      BY <1>6, <1>9, <2>1, <3>2
  <2>2. CASE n = c + 1
    <3>1. n - 1 = c
      BY <1>4, <2>2
    <3> QED
      BY <1>1, <1>6, <1>7, <1>10, <2>2, <3>1 DEF e
  <2>3. c \in Nat
    BY <1>4
  <2>4. n \in 1..c \/ n = c + 1
    BY <2>3
  <2> QED
    BY <2>1, <2>2, <2>4
<1>12. KeysOf(g)'
  <2>1. g[0] = Z!NewKeys(password)' /\ writer' = g[Len(cipher')]
    BY <1>1, <1>6, <1>7, <1>10
  <2>2. ASSUME NEW n \in 1..Len(cipher')
        PROVE  /\ g[n] = KeyStep[g[n - 1], plain'[n]]
               /\ cipher'[n] = Xor[plain'[n], KeyByte[g[n - 1]]]
    BY <1>1, <1>6, <1>11
  <2>3. Z!NewKeys(z_given)' = Z!NewKeys(password)' =>
          /\ reader' = g[Len(out')] /\ verdict' # "wrong"
          /\ \A n \in 1..Len(out') : out'[n] = plain'[n]
    BY <1>1, <1>9, <1>10
  <2> QED
    BY <2>1, <2>2, <2>3, Zenon DEF KeysOf
<1> QED
  BY <1>7, <1>8, <1>12 DEF ZInv

\* With the right password the next byte is the next plain byte, and the keys
\* follow as the writer's did.
LEMMA TakeKeeps ==
  ASSUME ZInv, Z!Take, UNCHANGED <<plain, password, z_given, writer, cipher>>,
         verdict' \in {"none", "right", "wrong"},
         verdict' = "wrong" =>
           verdict = "wrong" \/ (Len(out) + 1 = HeaderLen /\ ~Z!Matches)
  PROVE  ZInv'
<1> DEFINE o == Len(out)
           d == Xor[cipher[o + 1], KeyByte[reader]]
<1>0. o < Len(cipher)
  BY DEF Z!Take
<1>1. out' = Append(out, d) /\ reader' = KeyStep[reader, d]
  BY DEF Z!Take, Z!Decrypted
<1>2. Z!TypeOK
  BY DEF ZInv
<1>3. PICK h \in [0..Len(cipher) -> Keys] : KeysOf(h)
  BY DEF ZInv
<1>4. /\ o \in Nat /\ o + 1 \in 1..Len(cipher) /\ o + 1 \in 1..Len(plain)
      /\ cipher[o + 1] \in Bytes /\ plain[o + 1] \in Bytes /\ reader \in Keys
      /\ Len(cipher) \in Nat /\ o \in 0..Len(cipher)
  <2>1. /\ o \in Nat /\ Len(cipher) \in Nat /\ Len(plain) \in Nat /\ reader \in Keys
        /\ Len(cipher) <= Len(plain)
        /\ \A n \in 1..Len(plain) : plain[n] \in Bytes
        /\ \A n \in 1..Len(cipher) : cipher[n] \in Bytes
    BY <1>2, ZipTypeFacts
  <2>2. o + 1 \in 1..Len(cipher) /\ o + 1 \in 1..Len(plain) /\ o \in 0..Len(cipher)
    BY <1>0, <2>1
  <2> QED
    BY <2>1, <2>2
<1>5. d \in Bytes /\ reader' \in Keys
  BY <1>1, <1>4, KeyFacts
<1>6. Z!Matches <=> d = plain[HeaderLen]
  BY DEF Z!Matches, Z!Decrypted
<1>7. Z!NewKeys(z_given) = Z!NewKeys(password) =>
        d = plain[o + 1] /\ reader' = h[o + 1] /\ verdict # "wrong"
  <2>1. SUFFICES ASSUME Z!NewKeys(z_given) = Z!NewKeys(password)
                 PROVE  d = plain[o + 1] /\ reader' = h[o + 1] /\ verdict # "wrong"
    OBVIOUS
  <2>2. reader = h[o] /\ verdict # "wrong"
    BY <1>3, <2>1 DEF KeysOf
  <2>3. /\ h[o + 1] = KeyStep[h[o], plain[o + 1]]
        /\ cipher[o + 1] = Xor[plain[o + 1], KeyByte[h[o]]]
    <3>1. \A n \in 1..Len(cipher) : /\ h[n] = KeyStep[h[n - 1], plain[n]]
                                    /\ cipher[n] = Xor[plain[n], KeyByte[h[n - 1]]]
      BY <1>3 DEF KeysOf
    <3>2. PICK n \in 1..Len(cipher) : n = o + 1 /\ n - 1 = o
      BY <1>4
    <3>3. h[n] = KeyStep[h[n - 1], plain[n]] /\ cipher[n] = Xor[plain[n], KeyByte[h[n - 1]]]
      BY <3>1
    <3> QED
      BY <3>2, <3>3
  <2>4. d = plain[o + 1]
    <3>1. d = Xor[Xor[plain[o + 1], KeyByte[reader]], KeyByte[reader]]
      BY <2>2, <2>3
    <3> QED
      BY <1>4, <3>1, KeyFacts
  <2> QED
    BY <1>1, <2>2, <2>3, <2>4
<1> HIDE DEF d
<1>8. /\ out' \in Seq(Bytes) /\ Len(out') = o + 1 /\ out'[o + 1] = d
      /\ \A n \in 1..o : out'[n] = out[n]
  <2>1. out \in Seq(Bytes)
    BY <1>2, ZipTypeFacts
  <2>2. /\ Append(out, d) \in Seq(Bytes) /\ Len(Append(out, d)) = o + 1
        /\ \A n \in 1..o : Append(out, d)[n] = out[n]
        /\ Append(out, d)[o + 1] = d
    BY <1>5, <2>1, AppendFacts
  <2> QED
    BY <1>1, <2>2, Zenon
<1>9. Z!TypeOK'
  BY <1>2, <1>4, <1>5, <1>8 DEF Z!TypeOK
<1>10. Z!NewKeys(z_given) = Z!NewKeys(password) =>
         /\ reader' = h[Len(out')] /\ verdict' # "wrong"
         /\ \A n \in 1..Len(out') : out'[n] = plain[n]
  <2>1. SUFFICES ASSUME Z!NewKeys(z_given) = Z!NewKeys(password)
                 PROVE  /\ reader' = h[Len(out')] /\ verdict' # "wrong"
                        /\ \A n \in 1..Len(out') : out'[n] = plain[n]
    OBVIOUS
  <2>2. \A n \in 1..o : out[n] = plain[n]
    BY <1>3, <2>1 DEF KeysOf
  <2>3. ASSUME NEW n \in 1..o + 1 PROVE out'[n] = plain[n]
    <3>1. n \in 1..o \/ n = o + 1
      BY <1>4
    <3> QED
      BY <1>7, <1>8, <2>1, <2>2, <3>1
  <2> QED
    BY <1>6, <1>7, <1>8, <2>1, <2>3
<1>11. KeysOf(h)'
  BY <1>3, <1>10 DEF KeysOf
<1> QED
  BY <1>3, <1>9, <1>11 DEF ZInv

\* The password with which the bytes were encrypted, or one with the same keys,
\* passes the check of the header and gives back the plain bytes, each turn of
\* decrypt following from its own output, for any arithmetic of the keys.
THEOREM RightPasswordRestores == Z!Spec => []RestoresPlain
<1>1. ASSUME ZInv, [Z!Next]_(Z!vars) PROVE ZInv'
  <2>1. CASE Z!Encrypt
    BY <1>1, <2>1, EncryptKeeps
  <2>2. CASE Z!CheckHeader
    <3>1. /\ Z!Take /\ UNCHANGED <<plain, password, z_given, writer, cipher>>
          /\ Len(out) < HeaderLen
          /\ verdict' = IF Len(out) + 1 < HeaderLen THEN "none"
                        ELSE IF Z!Matches THEN "right" ELSE "wrong"
      BY <2>2 DEF Z!CheckHeader
    <3>2. Len(out) \in Nat /\ HeaderLen \in Nat
      BY <1>1, ZipTypeFacts DEF ZInv
    <3>3. Len(out) + 1 < HeaderLen \/ Len(out) + 1 = HeaderLen
      BY <3>1, <3>2
    <3> QED
      BY <1>1, <3>1, <3>3, TakeKeeps
  <2>3. CASE Z!Decrypt
    BY <1>1, <2>3, TakeKeeps DEF Z!Decrypt
  <2>4. CASE UNCHANGED Z!vars
    BY <1>1, <2>4 DEF Z!vars, ZInv, Z!TypeOK, KeysOf
  <2> QED
    BY <1>1, <2>1, <2>2, <2>3, <2>4 DEF Z!Next
<1>2. ASSUME ZInv PROVE RestoresPlain
  <2>1. Z!TypeOK
    BY <1>2 DEF ZInv
  <2>2. PICK h \in [0..Len(cipher) -> Keys] : KeysOf(h)
    BY <1>2 DEF ZInv
  <2>3. ASSUME Z!NewKeys(z_given) = Z!NewKeys(password)
        PROVE  /\ out = SubSeq(plain, 1, Len(out)) /\ verdict # "wrong"
               /\ Len(out) = Len(cipher) => reader = writer
    <3>1. /\ reader = h[Len(out)] /\ writer = h[Len(cipher)] /\ verdict # "wrong"
          /\ \A n \in 1..Len(out) : out[n] = plain[n]
      BY <2>2, <2>3 DEF KeysOf
    <3>2. out \in Seq(Bytes) /\ plain \in Seq(Bytes) /\ Len(out) \in 0..Len(plain)
      BY <2>1, ZipTypeFacts
    <3>3. /\ SubSeq(plain, 1, Len(out)) \in Seq(Bytes)
          /\ Len(SubSeq(plain, 1, Len(out))) = Len(out)
          /\ \A n \in 1..Len(out) : SubSeq(plain, 1, Len(out))[n] = plain[n]
      BY <3>2, SubSeqFacts
    <3>4. out = SubSeq(plain, 1, Len(out))
      BY <3>1, <3>2, <3>3, SameSeq
    <3> QED
      BY <3>1, <3>4
  <2> QED
    BY <2>1, <2>3 DEF RestoresPlain, Z!RoundTrip
<1> QED
  BY <1>1, <1>2, ZInit, PTL DEF Z!Spec
=============================================================================

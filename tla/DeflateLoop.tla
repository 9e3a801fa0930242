---------------------------- MODULE DeflateLoop ----------------------------
(***************************************************************************)
(* extract_deflate of src/src/decompress/deflate.rs: the loop that refills  *)
(* a small buffer of compressed input, decrypts it, feeds an incremental     *)
(* decoder, and decides after every call whether the stream is over.         *)
(*                                                                          *)
(* A compressed byte is its position; in the buffer it is the pair of its   *)
(* position and the key stream position it was decrypted with.  The decoder *)
(* (flate2) is external: a stream takes need compressed bytes and gives out *)
(* bytes.  A call works until the output buffer is full, the input is used  *)
(* up or the stream is over, and then says so; with a full output buffer it *)
(* may need one more call to notice the end.                                *)
(***************************************************************************)
EXTENDS Integers

CONSTANTS
  InSize,   \* IN_BUF_SIZE
  OutSize,  \* OUT_BUF_SIZE
  Streams   \* [len, need, out] : compressed bytes that are there, bytes the
            \* deflate stream takes, bytes it decodes to

VARIABLES
  stream,     \* never changes
  pc,         \* "fill", "call", "check", "done", "failed"
  remaining, in_avail, in_buf,
  key,        \* bytes decrypted
  fed, made,  \* the decoder's total_in and total_out
  ended,      \* the last status was StreamEnd
  produced,   \* bytes the last call put out
  written     \* bytes hashed and written

vars == <<stream, pc, remaining, in_avail, in_buf, key, fed, made, ended,
          produced, written>>

IsStream(s) ==
  /\ s.len \in Nat
  /\ s.need \in Nat \ {0}  \* an empty deflate stream still has a final block
  /\ s.out \in Nat

ASSUME SizesAssumption == InSize \in Nat \ {0} /\ OutSize \in Nat \ {0}
ASSUME StreamsAssumption == \A s \in Streams : IsStream(s)

Smaller(a, b) == IF a <= b THEN a ELSE b

Stale == <<-1, -1>>
Slots == 1..InSize

Init ==
  /\ stream \in Streams
  /\ pc = "fill" /\ remaining = stream.len
  /\ in_avail = 0 /\ in_buf = [i \in Slots |-> Stale]
  /\ key = 0 /\ fed = 0 /\ made = 0
  /\ ended = FALSE /\ produced = 0 /\ written = 0

-----------------------------------------------------------------------------

\* Position of the next byte that read_exact gives.
ReadPos == stream.len - remaining

Fills == in_avail = 0 /\ remaining > 0
ToReadAll == remaining  \* mutant: not limited by the buffer
ToRead == Smaller(remaining, InSize)

Fill ==
  /\ pc = "fill" /\ Fills
  /\ in_buf' = [i \in Slots |-> IF i <= ToRead THEN <<ReadPos + i - 1, key + i - 1>>
                                ELSE in_buf[i]]
  /\ key' = key + ToRead
  /\ remaining' = remaining - ToRead
  /\ in_avail' = ToRead
  /\ pc' = "call"
  /\ UNCHANGED <<stream, fed, made, ended, produced, written>>

NoFill ==
  /\ pc = "fill" /\ ~Fills
  /\ pc' = "call"
  /\ UNCHANGED <<stream, remaining, in_avail, in_buf, key, fed, made, ended,
                 produced, written>>

\* The archive ends inside the block.
ReadFails ==
  /\ pc = "fill" /\ Fills
  /\ pc' = "failed"
  /\ UNCHANGED <<stream, remaining, in_avail, in_buf, key, fed, made, ended,
                 produced, written>>

\* The decoder, on the first in_avail bytes of the buffer.
CanTakeGive(c, p) ==
  /\ c <= Smaller(in_avail, stream.need - fed)
  /\ p <= Smaller(OutSize, stream.out - made)
  /\ p < OutSize => /\ c = Smaller(in_avail, stream.need - fed)
                    /\ fed + c = stream.need => made + p = stream.out

\* The unconsumed bytes move to the front of the buffer.
NotMoved(c) == in_buf        \* mutant
Moved(c) == [i \in Slots |-> IF i <= in_avail - c THEN in_buf[i + c] ELSE in_buf[i]]

Call(c, p) ==
  /\ pc = "call"
  /\ CanTakeGive(c, p)
  /\ fed' = fed + c /\ made' = made + p
  /\ \/ ended' = (fed' = stream.need /\ made' = stream.out)
     \/ p = OutSize /\ ended' = FALSE
  /\ in_buf' = Moved(c)
  /\ in_avail' = in_avail - c
  /\ produced' = p /\ written' = written + p
  /\ pc' = "check"
  /\ UNCHANGED <<stream, remaining, key>>

\* The decoder rejects the data, or the output (LimitWriter, SolidSink or the
\* file) rejects what came out of it.
CallFails ==
  /\ pc = "call"
  /\ pc' = "failed"
  /\ UNCHANGED <<stream, remaining, in_avail, in_buf, key, fed, made, ended,
                 produced, written>>

StopsWithoutInput == ended \/ (in_avail = 0 /\ remaining = 0)           \* mutant
NeverStops == ended \/ (in_avail = 0 /\ remaining = 0 /\ made = stream.out) \* mutant
Stops == ended \/ (in_avail = 0 /\ remaining = 0 /\ produced = 0)

Check ==
  /\ pc = "check"
  /\ pc' = IF Stops THEN "done" ELSE "fill"
  /\ UNCHANGED <<stream, remaining, in_avail, in_buf, key, fed, made, ended,
                 produced, written>>

Next ==
  \/ Fill \/ NoFill \/ ReadFails
  \/ \E c \in 0..in_avail, p \in 0..OutSize : Call(c, p)
  \/ CallFails \/ Check

Done == pc \in {"done", "failed"} /\ UNCHANGED vars

Spec == Init /\ [][Next \/ Done]_vars

\* A loop without waiting.
FairSpec == Spec /\ WF_vars(Next)

-----------------------------------------------------------------------------
(* Properties.                                                              *)

TypeOK ==
  /\ IsStream(stream)
  /\ pc \in {"fill", "call", "check", "done", "failed"}
  /\ remaining \in 0..stream.len /\ in_avail \in 0..InSize
  /\ in_buf \in [Slots -> Int \X Int]
  /\ key \in Nat
  /\ fed \in 0..stream.need /\ made \in 0..stream.out
  /\ ended \in BOOLEAN /\ produced \in 0..OutSize /\ written \in Nat

\* The decoder always sees the very next bytes of the stream, each decrypted
\* once and with its own place of the key stream, whatever it left over in
\* earlier calls; no byte is lost between the file, the buffer and the decoder.
InputInOrder ==
  /\ fed + in_avail + remaining = stream.len
  /\ \A i \in 1..in_avail : in_buf[i] = <<fed + i - 1, fed + i - 1>>

\* The loop reports success before the end of the stream only when the block
\* has too few compressed bytes: output that the decoder still holds when the
\* input is used up is not lost.
OutputComplete ==
  pc = "done" => /\ written = made
                 /\ stream.len >= stream.need => made = stream.out

\* The loop ends, on truncated data and with bytes behind the stream as well.
Terminates == <>(pc \in {"done", "failed"})
=============================================================================

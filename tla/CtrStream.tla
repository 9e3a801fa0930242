------------------------------ MODULE CtrStream ------------------------------
(***************************************************************************)
(* The counter modes of src/src/aes_ctr.rs and src/src/lea.rs: decrypt is    *)
(* called with any number of bytes at a time, and takes each byte of the key *)
(* stream once.  The block cipher is injective, so a block of the key stream *)
(* is known by the counter it was made from.                                 *)
(***************************************************************************)
EXTENDS Integers

CONSTANTS
  Radix,      \* values of a byte of the counter (256)
  Width,      \* bytes of the counter (16)
  BlockLen,   \* bytes of a block of the key stream (16)
  Calls,      \* how many bytes decrypt may be called with
  Limit       \* bytes after which the instance stops

CtrConstants ==
  /\ {Radix, Width, BlockLen} \subseteq Nat \ {0} /\ Radix > 1
  /\ Calls \subseteq Nat /\ Limit \in Nat

VARIABLES
  mode,       \* "aes" or "lea"
  counter, keystream, ks_offset,
  rest,       \* bytes of the call that are still to be decrypted
  pos,        \* bytes decrypted so far, in all calls
  used        \* what the last of them was decrypted with

vars == <<mode, counter, keystream, ks_offset, rest, pos, used>>

Index == 1..Width
Counters == [Index -> 0..Radix - 1]

Zero == [i \in Index |-> 0]
FirstCounter == [aes |-> [Zero EXCEPT ![1] = 1], lea |-> Zero]

\* The bytes that are incremented before byte i is.
LittleEndian(i) == 1..i - 1
BigEndian(i) == i + 1..Width
Lower(i) == IF mode = "aes" THEN LittleEndian(i) ELSE BigEndian(i)

\* A byte is incremented when all bytes below it have wrapped to zero.
IncNoWrap(c) ==  \* mutant: the byte does not wrap
  [i \in Index |-> IF \A j \in Lower(i) : c[j] = Radix - 1 THEN c[i] + 1 ELSE c[i]]
Inc(c) ==
  [i \in Index |-> IF \A j \in Lower(i) : c[j] = Radix - 1 THEN (c[i] + 1) % Radix ELSE c[i]]

Nothing == [counter |-> Zero, offset |-> BlockLen]

Init ==
  /\ mode \in {"aes", "lea"}
  /\ counter = FirstCounter[mode]
  /\ keystream = Zero /\ ks_offset = BlockLen
  /\ rest = 0 /\ pos = 0 /\ used = Nothing

Call(n) ==
  /\ rest = 0
  /\ pos + n <= Limit
  /\ rest' = n
  /\ UNCHANGED <<mode, counter, keystream, ks_offset, pos, used>>

NextKeystreamBlock ==
  /\ rest > 0 /\ ks_offset >= BlockLen
  /\ keystream' = counter
  /\ counter' = Inc(counter)
  /\ ks_offset' = 0
  /\ UNCHANGED <<mode, rest, pos, used>>

XorByteAfresh ==  \* mutant: each call starts with a block of its own
  /\ rest > 0 /\ ks_offset < BlockLen
  /\ used' = [counter |-> keystream, offset |-> ks_offset]
  /\ ks_offset' = IF rest = 1 THEN BlockLen ELSE ks_offset + 1
  /\ rest' = rest - 1 /\ pos' = pos + 1
  /\ UNCHANGED <<mode, counter, keystream>>
XorByte ==
  /\ rest > 0 /\ ks_offset < BlockLen
  /\ used' = [counter |-> keystream, offset |-> ks_offset]
  /\ ks_offset' = ks_offset + 1
  /\ rest' = rest - 1 /\ pos' = pos + 1
  /\ UNCHANGED <<mode, counter, keystream>>

Next == (\E n \in Calls : Call(n)) \/ NextKeystreamBlock \/ XorByte

Spec == Init /\ [][Next]_vars

-----------------------------------------------------------------------------

TypeOK ==
  /\ mode \in {"aes", "lea"}
  /\ counter \in Counters /\ keystream \in Counters
  /\ ks_offset \in 0..BlockLen
  /\ rest \in Nat /\ pos \in 0..Limit
  /\ used \in [counter : Counters, offset : 0..BlockLen]

\* The n-th counter as a number: the lowest byte first or last.
FirstValue == IF mode = "aes" THEN 1 ELSE 0
CounterOf(n) ==
  [i \in Index |->
     LET place == IF mode = "aes" THEN i - 1 ELSE Width - i
     IN  ((FirstValue + n) \div Radix ^ place) % Radix]

\* However the bytes of an entry are cut into calls, byte k is decrypted with
\* byte k of the one key stream that the mode defines: a counter that starts at
\* one or zero, carries over all of its bytes, and is not used for more than
\* one block before it has taken all of its values.
DecryptedInPlace ==
  pos > 0 =>
    used = [counter |-> CounterOf((pos - 1) \div BlockLen), offset |-> (pos - 1) % BlockLen]
=============================================================================

--------------------------------- MODULE Lea ---------------------------------
(***************************************************************************)
(* The block cipher of src/src/lea.rs: the key schedules for keys of four,  *)
(* six and eight words, one round key a step, and encrypt_block, one round  *)
(* a step.  A word of 32 bits is its lower and its upper half.              *)
(***************************************************************************)
EXTENDS Integers, Sequences, SequencesExt, Bitwise

CONSTANTS
  Vectors   \* [key, plain, cipher]: bytes; an unknown cipher text is empty

VARIABLES vector, pc, i, t, round_keys, x

vars == <<vector, pc, i, t, round_keys, x>>

Byte == 0..255

LeaConstants ==
  \A v \in Vectors : /\ Len(v.key) \in {16, 24, 32} /\ Len(v.plain) = 16
                     /\ Range(v.key) \cup Range(v.plain) \subseteq Byte

-----------------------------------------------------------------------------
(* Words                                                                    *)

HalfSize == 2 ^ 16
Word == (0..HalfSize - 1) \X (0..HalfSize - 1)

\* The word of four bytes, the lowest one first, and its byte n.
FromLe(bytes) == <<bytes[1] + 256 * bytes[2], bytes[3] + 256 * bytes[4]>>
ByteOf(w, n) == (w[n \div 2 + 1] \div 256 ^ (n % 2)) % 256

\* Rotations, by any number of bits.
Shifted(lo, hi, n) == ((lo * 2 ^ n) % HalfSize) + (hi \div 2 ^ (16 - n))
rol(w, n) ==
  LET m == n % 16 IN
    IF n % 32 < 16 THEN <<Shifted(w[1], w[2], m), Shifted(w[2], w[1], m)>>
                   ELSE <<Shifted(w[2], w[1], m), Shifted(w[1], w[2], m)>>
ror(w, n) == rol(w, 32 - n)

XorWord(a, b) == <<a[1] ^^ b[1], a[2] ^^ b[2]>>

AddUnwrapped(a, b) == <<(a[1] + b[1]) % HalfSize, a[2] + b[2] + (a[1] + b[1]) \div HalfSize>> \* mutant
Add(a, b) ==
  <<(a[1] + b[1]) % HalfSize, (a[2] + b[2] + (a[1] + b[1]) \div HalfSize) % HalfSize>>

-----------------------------------------------------------------------------
(* The key schedule                                                         *)

DELTA ==
  << FromLe(<<219, 233, 239, 195>>), FromLe(<<2, 107, 98, 68>>),
     FromLe(<<138, 124, 226, 121>>), FromLe(<<236, 48, 223, 120>>),
     FromLe(<<158, 164, 94, 113>>), FromLe(<<10, 218, 133, 199>>),
     FromLe(<<42, 242, 78, 224>>), FromLe(<<87, 9, 196, 229>>) >>

Words == Len(vector.key) \div 4
Rounds == [w \in {4, 6, 8} |-> 16 + 2 * w][Words]

Load(bytes) == [k \in 0..Len(bytes) \div 4 - 1 |-> FromLe(SubSeq(bytes, 4 * k + 1, 4 * k + 4))]

Init ==
  /\ vector \in Vectors
  /\ pc = "schedule" /\ i = 0
  /\ t = Load(vector.key) /\ round_keys = << >>
  /\ x = Load(vector.plain)

Amount == <<1, 3, 6, 11, 13, 17>>
Steps == 0..(IF Words = 4 THEN 3 ELSE 5)

\* Which word of t step j works on: six of the eight words of a long key, and
\* the next round goes on behind them.
SlotFromZero(j) == j  \* mutant: every round takes the first six
Slot(j) == IF Words = 8 THEN (6 * i + j) % 8 ELSE j

Scheduled ==
  [k \in 0..Words - 1 |->
     IF \E j \in Steps : Slot(j) = k
       THEN LET j == CHOOSE j \in Steps : Slot(j) = k IN
              rol(Add(t[k], rol(DELTA[(i % Words) + 1], i + j)), Amount[j + 1])
       ELSE t[k]]

Order == IF Words = 4 THEN <<0, 1, 2, 1, 3, 1>> ELSE <<0, 1, 2, 3, 4, 5>>

Schedule ==
  /\ pc = "schedule" /\ i < Rounds
  /\ t' = Scheduled
  /\ round_keys' = Append(round_keys, [k \in 1..6 |-> t'[Slot(Order[k])]])
  /\ i' = i + 1
  /\ UNCHANGED <<vector, pc, x>>

StartRounds ==
  /\ pc = "schedule" /\ i = Rounds
  /\ pc' = "rounds" /\ i' = 0
  /\ UNCHANGED <<vector, t, round_keys, x>>

-----------------------------------------------------------------------------
(* encrypt_block                                                            *)

Mixed(a, ka, b, kb) == Add(XorWord(a, ka), XorWord(b, kb))

EncryptedWrongWord(rk) ==  \* mutant: the second word is carried over
  << rol(Mixed(x[0], rk[1], x[1], rk[2]), 9), ror(Mixed(x[1], rk[3], x[2], rk[4]), 5),
     ror(Mixed(x[2], rk[5], x[3], rk[6]), 3), x[1] >>
Encrypted(rk) ==
  << rol(Mixed(x[0], rk[1], x[1], rk[2]), 9), ror(Mixed(x[1], rk[3], x[2], rk[4]), 5),
     ror(Mixed(x[2], rk[5], x[3], rk[6]), 3), x[0] >>

Round ==
  /\ pc = "rounds" /\ i < Rounds
  /\ x' = [k \in 0..3 |-> Encrypted(round_keys[i + 1])[k + 1]]
  /\ i' = i + 1
  /\ UNCHANGED <<vector, pc, t, round_keys>>

Finish ==
  /\ pc = "rounds" /\ i = Rounds
  /\ pc' = "done"
  /\ UNCHANGED <<vector, i, t, round_keys, x>>

Next == Schedule \/ StartRounds \/ Round \/ Finish

Done == pc = "done" /\ UNCHANGED vars

Spec == Init /\ [][Next \/ Done]_vars

-----------------------------------------------------------------------------

TypeOK ==
  /\ pc \in {"schedule", "rounds", "done"} /\ i \in 0..Rounds
  /\ t \in [0..Words - 1 -> Word] /\ x \in [0..3 -> Word]
  /\ Len(round_keys) = IF pc = "schedule" THEN i ELSE Rounds

Stored == [k \in 1..16 |-> ByteOf(x[(k - 1) \div 4], (k - 1) % 4)]

\* The published vectors of KS X 3246, which the tests of lea.rs name.
EncryptsAsPublished ==
  pc = "done" /\ vector.cipher # << >> => Stored = vector.cipher

\* A round can be undone, word by word and with its key alone: two blocks are
\* never encrypted to one, so that no block of a key stream comes twice before
\* the counter does.
Negative(a) == Add(<<HalfSize - 1 - a[1], HalfSize - 1 - a[2]>>, <<1, 0>>)
Undone(y, rk) ==
  LET x0 == y[4]
      x1 == XorWord(Add(ror(y[1], 9), Negative(XorWord(x0, rk[1]))), rk[2])
      x2 == XorWord(Add(rol(y[2], 5), Negative(XorWord(x1, rk[3]))), rk[4])
      x3 == XorWord(Add(rol(y[3], 3), Negative(XorWord(x2, rk[5]))), rk[6])
  IN  <<x0, x1, x2, x3>>
RoundsCanBeUndone ==
  pc = "rounds" /\ i < Rounds =>
    Undone(Encrypted(round_keys[i + 1]), round_keys[i + 1]) = <<x[0], x[1], x[2], x[3]>>
=============================================================================

------------------------------ MODULE ZipCrypto ------------------------------
(***************************************************************************)
(* src/src/crypto.rs: ZipCrypto, whose keys depend on every plain byte that  *)
(* went before.  One instance encrypts a header and the data behind it, the  *)
(* other one checks a password against the header and decrypts the data.     *)
(* The arithmetic of the three keys is a constant: a step of the keys, and   *)
(* the byte they give.                                                       *)
(***************************************************************************)
EXTENDS Integers, Sequences

CONSTANTS
  Keys, Bytes,
  StartKey,       \* the three initial keys
  KeyStep,        \* update_keys: from keys and a plain byte to keys
  KeyByte,        \* decrypt_byte
  Xor,            \* exclusive or of two bytes
  Passwords, Plains,
  HeaderLen       \* 12

\* ZipCrypto::new takes in the password byte by byte.
NewKeys(pw) ==
  LET after[n \in 0..Len(pw)] ==
        IF n = 0 THEN StartKey ELSE KeyStep[after[n - 1], pw[n]]
  IN  after[Len(pw)]

ZipConstants ==
  /\ StartKey \in Keys /\ HeaderLen \in Nat \ {0}
  /\ KeyStep \in [Keys \X Bytes -> Keys] /\ KeyByte \in [Keys -> Bytes]
  /\ Xor \in [Bytes \X Bytes -> Bytes]
  /\ \A a, b \in Bytes : Xor[Xor[a, b], b] = a
  /\ Passwords \subseteq Seq(Bytes) /\ \A pw \in Passwords : NewKeys(pw) \in Keys
  /\ Plains \subseteq Seq(Bytes) /\ \A p \in Plains : Len(p) >= HeaderLen

VARIABLES
  plain,          \* header and data that are encrypted; never changes
  password,       \* the one they are encrypted with
  given,          \* the one they are decrypted with
  writer, reader, \* the keys of the two instances
  cipher,         \* bytes that were encrypted
  out,            \* bytes that were decrypted
  verdict         \* "none", "right" or "wrong": what check_password says

vars == <<plain, password, given, writer, reader, cipher, out, verdict>>

Init ==
  /\ plain \in Plains /\ password \in Passwords /\ given \in Passwords
  /\ writer = NewKeys(password) /\ reader = NewKeys(given)
  /\ cipher = << >> /\ out = << >> /\ verdict = "none"

CoverByAdding(b) == b + KeyByte[writer]  \* mutant: a sum instead of xor
Cover(b) == Xor[b, KeyByte[writer]]

\* One turn of encrypt's loop.  The header is complete before it is read.
Encrypt ==
  /\ Len(cipher) < Len(plain)
  /\ LET b == plain[Len(cipher) + 1] IN
       /\ cipher' = Append(cipher, Cover(b))
       /\ writer' = KeyStep[writer, b]
  /\ UNCHANGED <<plain, password, given, reader, out, verdict>>

DecryptedByCipher == [byte |-> Xor[cipher[Len(out) + 1], KeyByte[reader]],
                      keys |-> KeyStep[reader, cipher[Len(out) + 1]]]  \* mutant
Decrypted ==
  LET b == Xor[cipher[Len(out) + 1], KeyByte[reader]]
  IN  [byte |-> b, keys |-> KeyStep[reader, b]]

Take ==
  /\ Len(out) < Len(cipher)
  /\ out' = Append(out, Decrypted.byte)
  /\ reader' = Decrypted.keys

\* The last byte of the header is the high byte of the stored CRC.
Matches == Decrypted.byte = plain[HeaderLen]

\* check_password, the last turn of which compares.
CheckHeader ==
  /\ Len(out) < HeaderLen /\ verdict = "none"
  /\ Take
  /\ verdict' = IF Len(out) + 1 < HeaderLen THEN "none"
                ELSE IF Matches THEN "right" ELSE "wrong"
  /\ UNCHANGED <<plain, password, given, writer, cipher>>

\* One turn of decrypt's loop.
Decrypt ==
  /\ verdict = "right"
  /\ Take
  /\ UNCHANGED <<plain, password, given, writer, cipher, verdict>>

Next == Encrypt \/ CheckHeader \/ Decrypt

Spec == Init /\ [][Next]_vars

-----------------------------------------------------------------------------

TypeOK ==
  /\ plain \in Plains /\ {password, given} \subseteq Passwords
  /\ {writer, reader} \subseteq Keys
  /\ cipher \in Seq(Bytes) /\ out \in Seq(Bytes)
  /\ Len(out) <= Len(cipher) /\ Len(cipher) <= Len(plain)
  /\ verdict \in {"none", "right", "wrong"}

\* With the right password everything that is decrypted is what was encrypted,
\* although the keys of the reader follow from its own output only; the check
\* of the header leaves them where the data begin.
RoundTrip ==
  NewKeys(given) = NewKeys(password) =>
    /\ out = SubSeq(plain, 1, Len(out))
    /\ verdict # "wrong"
    /\ Len(out) = Len(cipher) => reader = writer
=============================================================================

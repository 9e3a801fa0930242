---------------------------- MODULE FlatReader ----------------------------
(***************************************************************************)
(* One plain file that is read and sought sequentially: what the parser and *)
(* the extraction take a MultiVolumeReader (src/src/volume.rs) for.  A byte *)
(* is its position in the file.                                             *)
(***************************************************************************)
EXTENDS Integers, Sequences

VARIABLES
  size,   \* bytes in the file
  pos,    \* the position of the next byte
  ready,  \* FALSE after an I/O error, until a seek succeeds
  reply   \* the answer to the last call

vars == <<size, pos, ready, reply>>

Init ==
  /\ size \in Nat /\ pos = 0 /\ ready = TRUE
  /\ reply = [op |-> "none"]

\* A read answers with the next bytes: at least one unless none was asked for
\* or none is left, and never more than asked for.
Read ==
  /\ ready
  /\ reply'.op = "read"
  /\ LET n == Len(reply'.got)
     IN  /\ n <= reply'.asked
         /\ n > 0 => pos + n <= size
         /\ n = 0 => reply'.asked = 0 \/ pos >= size
         /\ reply'.got = [i \in 1..n |-> pos + i - 1]
         /\ pos' = pos + n
  /\ UNCHANGED <<size, ready>>

\* A seek moves to any position, behind the end included ...
Seek ==
  /\ pos' \in Nat /\ ready' = TRUE
  /\ reply' = [op |-> "seek", at |-> pos']
  /\ UNCHANGED size

\* ... and a position before the start is refused.
Refuse == reply' = [op |-> "refused"] /\ UNCHANGED <<size, pos, ready>>

\* After an I/O error the position is lost.
Break ==
  /\ pos' \in Nat /\ ready' = FALSE
  /\ reply' = [op |-> "error"]
  /\ UNCHANGED size

Next == Read \/ Seek \/ Refuse \/ Break

Spec == Init /\ [][Next]_vars
=============================================================================

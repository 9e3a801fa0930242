---------------------------- MODULE VolumeReader ----------------------------
(***************************************************************************)
(* MultiVolumeReader of src/src/volume.rs as a Read + Seek: the volumes of  *)
(* a split archive, without the headers of the continuations, read as one   *)
(* stream.  The operating system keeps an offset for every open file; read  *)
(* relies on the one of the current volume and only ever sets it when it    *)
(* enters a volume, seek sets it for the volume it chooses.                  *)
(*                                                                          *)
(* A byte of a volume file is its logical position; Header stands for the   *)
(* bytes in front of a continuation's data.  The caller makes one call at a *)
(* time and, as archive.rs and extract.rs do, does not read on after an I/O *)
(* error without a successful seek.                                          *)
(***************************************************************************)
EXTENDS VolumeLayout, Sequences

CONSTANTS
  Layouts,   \* the opened volume sets
  Asks,      \* buffer lengths of read
  Deltas,    \* arguments of seek
  Beyond     \* a bound: how far behind the end the caller seeks

VARIABLES
  vols,         \* the segments; never change
  logical_pos, current,
  offset,       \* OS file offset of every volume
  asked,        \* length of the buffer of the read call in progress, or Idle
  ready,        \* the caller may read
  reply         \* the answer to the last call

vars == <<vols, logical_pos, current, offset, asked, ready, reply>>

Idle   == -1
Header == -2

ASSUME LayoutsAssumption == \A s \in Layouts : IsLayout(s)
ASSUME AsksAssumption == Asks \subseteq Nat
ASSUME DeltasAssumption == Deltas \subseteq Int
ASSUME BeyondAssumption == Beyond \in Nat

Volumes    == 0..vols.n - 1
SegEnd(v)  == vols.cut[v + 1]
SegSize(v) == vols.cut[v + 1] - vols.cut[v]
Total      == vols.cut[vols.n]
FileLen(v) == vols.start[v] + SegSize(v)

\* try_open leaves every continuation's offset somewhere in its header.
Init ==
  /\ vols \in Layouts
  /\ logical_pos = 0 /\ current = 0
  /\ offset \in [Volumes -> UNION {0..vols.start[v] : v \in Volumes}]
  /\ \A v \in Volumes : offset[v] <= vols.start[v]
  /\ asked = Idle /\ ready = TRUE
  /\ reply = [op |-> "none"]

-----------------------------------------------------------------------------
(* read                                                                     *)

StartRead ==
  /\ asked = Idle /\ ready
  /\ asked' \in Asks
  /\ UNCHANGED <<vols, logical_pos, current, offset, ready, reply>>

Reading == asked # Idle

AtSegEnd == logical_pos >= SegEnd(current)

Answer(got) ==
  /\ reply' = [op |-> "read", asked |-> asked, got |-> got]
  /\ asked' = Idle

Break ==
  /\ reply' = [op |-> "error"] /\ asked' = Idle /\ ready' = FALSE
  /\ UNCHANGED vols

\* Behind the last volume, or walking off its end.
ReadEnd ==
  /\ Reading
  /\ \/ current = vols.n /\ current' = current
     \/ current = vols.n - 1 /\ AtSegEnd /\ current' = vols.n
  /\ Answer(<< >>)
  /\ UNCHANGED <<vols, logical_pos, offset, ready>>

\* The offset given to the volume that is entered.
UnsetOffset(v) == offset                                  \* mutant
StartOffset(v) == [offset EXCEPT ![v] = vols.start[v]]

NextSegmentAgain ==  \* mutant: current is not moved on
  /\ Reading
  /\ current < vols.n - 1 /\ AtSegEnd
  /\ offset' = StartOffset(current + 1)
  /\ UNCHANGED <<vols, logical_pos, current, asked, ready, reply>>
NextSegmentEof ==  \* mutant: the call ends at the volume's end
  /\ Reading
  /\ current < vols.n - 1 /\ AtSegEnd
  /\ current' = current + 1
  /\ offset' = StartOffset(current + 1)
  /\ Answer(<< >>)
  /\ UNCHANGED <<vols, logical_pos, ready>>
NextSegment ==
  /\ Reading
  /\ current < vols.n - 1 /\ AtSegEnd
  /\ current' = current + 1
  /\ offset' = StartOffset(current + 1)
  /\ UNCHANGED <<vols, logical_pos, asked, ready, reply>>

NextSegmentFails ==
  /\ Reading
  /\ current < vols.n - 1 /\ AtSegEnd
  /\ current' = current + 1
  /\ Break
  /\ UNCHANGED <<logical_pos, offset>>

Inside == Reading /\ current < vols.n /\ ~AtSegEnd

Smaller(a, b) == IF a <= b THEN a ELSE b
ToRead == Smaller(SegEnd(current) - logical_pos, asked)

\* The bytes o .. o+n-1 of the file of volume v.
FileBytes(v, o, n) ==
  [i \in 1..n |-> IF o + i - 1 < vols.start[v] THEN Header
                  ELSE vols.cut[v] + (o + i - 1 - vols.start[v])]

\* The OS gives up to ToRead bytes, and none only at the end of the file or
\* for an empty buffer.
ReadSome(n) ==
  /\ Inside
  /\ n <= ToRead
  /\ n > 0 => offset[current] + n <= FileLen(current)
  /\ n = 0 => ToRead = 0 \/ offset[current] >= FileLen(current)
  /\ Answer(FileBytes(current, offset[current], n))
  /\ logical_pos' = logical_pos + n
  /\ offset' = [offset EXCEPT ![current] = @ + n]
  /\ UNCHANGED <<vols, current, ready>>

ReadFails ==
  /\ Inside
  /\ Break
  /\ UNCHANGED <<logical_pos, current, offset>>

-----------------------------------------------------------------------------
(* seek                                                                     *)

Origins == {"start", "current", "end"}

Target(origin, d) ==
  CASE origin = "start"   -> d
    [] origin = "current" -> logical_pos + d
    [] origin = "end"     -> Total + d

\* The first volume that ends behind t, or the last one.
IsSegmentOf(v, t) ==
  \/ t < SegEnd(v) /\ \A w \in Volumes : w < v => SegEnd(w) <= t
  \/ v = vols.n - 1 /\ \A w \in Volumes : SegEnd(w) <= t

SubtractSaturating(a, b) == IF a >= b THEN a - b ELSE 0

SeekToAny(t, v) ==  \* mutant: no check for a negative target
  /\ asked = Idle
  /\ IsSegmentOf(v, t)
  /\ logical_pos' = t /\ current' = v
SeekTo(t, v) ==
  /\ asked = Idle
  /\ t >= 0 /\ IsSegmentOf(v, t)
  /\ logical_pos' = t /\ current' = v

SeekDone(t, v) ==
  /\ SeekTo(t, v)
  /\ offset' = [offset EXCEPT
                  ![v] = vols.start[v] + SubtractSaturating(t, vols.cut[v])]
  /\ reply' = [op |-> "seek", at |-> t] /\ ready' = TRUE
  /\ UNCHANGED <<vols, asked>>

SeekFails(t, v) ==
  /\ SeekTo(t, v)
  /\ Break
  /\ UNCHANGED offset

SeekRefused(t) ==
  /\ asked = Idle
  /\ t < 0
  /\ reply' = [op |-> "refused"]
  /\ UNCHANGED <<vols, logical_pos, current, offset, asked, ready>>

Seek ==
  \E origin \in Origins, d \in Deltas :
    /\ origin = "start" => d >= 0
    /\ Target(origin, d) <= Total + Beyond
    /\ \/ SeekRefused(Target(origin, d))
       \/ \E v \in Volumes : \/ SeekDone(Target(origin, d), v)
                             \/ SeekFails(Target(origin, d), v)

-----------------------------------------------------------------------------

Proceeds == ReadEnd \/ NextSegment \/ \E n \in 0..asked : ReadSome(n)

ReadStep == Proceeds \/ NextSegmentFails \/ ReadFails

Next == StartRead \/ ReadStep \/ Seek

Spec == Init /\ [][Next]_vars

\* A call of read runs on; that its system calls fail is nothing to rely on.
FairSpec == Spec /\ WF_vars(Proceeds)

-----------------------------------------------------------------------------
(* Properties.                                                              *)

TypeOK ==
  /\ IsLayout(vols)
  /\ logical_pos \in Nat
  /\ current \in 0..vols.n
  /\ offset \in [Volumes -> Nat]
  /\ asked \in Nat \cup {Idle}
  /\ ready \in BOOLEAN

\* The offset the OS keeps for the current volume is where the next byte of
\* the stream is: nothing else ties the two together, and the offsets of the
\* other volumes are stale.
Positioned ==
  ready /\ current < vols.n /\ ~AtSegEnd =>
    /\ vols.cut[current] <= logical_pos
    /\ offset[current] = vols.start[current] + (logical_pos - vols.cut[current])

\* Every read that is called returns, through any number of empty volumes.
ReadReturns == Reading ~> ~Reading

\* The volumes behave like one plain file with the same bytes: reads stop
\* short at a volume's end but give no early end of file, no header byte, and
\* no byte of the wrong volume, whatever sequence of seeks came before.
Flat == INSTANCE FlatReader WITH size <- Total, pos <- logical_pos
ReadsLikeOneFile == Flat!Spec
=============================================================================

---------------------------- MODULE VolumeChain ----------------------------
(***************************************************************************)
(* MultiVolumeReader::try_open of src/src/volume.rs: from the first volume  *)
(* of a split archive, follow the ids of the next volumes through the        *)
(* directory and lay their data end to end.                                  *)
(*                                                                          *)
(* A file of the directory is a record: its id (NotEgg for any other file), *)
(* whether its prefix section has a split record, the id of the next volume *)
(* in it, whether the prefix section can be read to its end marker, the      *)
(* offset behind that marker, and the length of the file.  The directory is  *)
(* listed in an order the operating system chooses, and more than one file  *)
(* may have an id.                                                           *)
(***************************************************************************)
EXTENDS VolumeLayout, Sequences, FiniteSets

CONSTANTS
  Firsts,      \* files the program is started with
  Others,      \* sets of files that are in the same directory
  MaxVolumes,  \* MAX_VOLUMES
  NotEgg       \* quick_header_id finds no id

VARIABLES
  dir, first,  \* the directory and the file that is opened; never change
  pc,          \* "first", "follow", "single", "ok", "failed"
  err,
  next,        \* id of the next volume, 0 for none
  seen,        \* ids that were asked for, and the first one's
  segments     \* opened files with phys_start, logical_start and data_size

vars == <<dir, first, pc, err, next, seen, segments>>

IsFile(f) ==
  /\ f.id \in (Nat \ {0}) \cup {NotEgg}
  /\ f.split \in BOOLEAN /\ f.next \in Nat
  /\ f.ends \in BOOLEAN
  /\ f.start \in Nat /\ f.len \in Nat /\ f.start <= f.len

ASSUME FilesAssumption == \A f \in Firsts \cup UNION Others : IsFile(f)
ASSUME MaxVolumesAssumption == MaxVolumes \in Nat \ {0}
ASSUME NotEggAssumption == NotEgg \notin Nat

Init ==
  /\ first \in Firsts
  /\ dir \in {{first} \cup o : o \in Others}
  /\ pc = "first" /\ err = "none"
  /\ next = 0 /\ seen = {} /\ segments = << >>

Fail(e) ==
  /\ pc' = "failed" /\ err' = e
  /\ UNCHANGED <<dir, first, next, segments>>

-----------------------------------------------------------------------------
(* The first volume.  read_split_info: no error in a file that is no EGG    *)
(* file, and a split record is found before the end of the section is.      *)

Unreadable(f) == f.id # NotEgg /\ ~f.split /\ ~f.ends
NextOfAny(f) == IF f.split THEN f.next ELSE 0  \* mutant: no look at the signature
NextOf(f) == IF f.id # NotEgg /\ f.split THEN f.next ELSE 0

OpenSingle ==
  /\ pc = "first"
  /\ ~Unreadable(first) /\ NextOf(first) = 0
  /\ pc' = "single"
  /\ UNCHANGED <<dir, first, err, next, seen, segments>>

\* The id is read in a second opening of the file, whose failure is ignored.
OpenFirst ==
  /\ pc = "first"
  /\ NextOf(first) # 0
  /\ pc' = "follow" /\ next' = NextOf(first)
  /\ seen' \in {{first.id}, {}}
  /\ segments' = <<[file |-> first, phys_start |-> 0, logical_start |-> 0,
                    data_size |-> first.len]>>
  /\ UNCHANGED <<dir, first, err>>

OpenFails == pc = "first" /\ Fail("io") /\ UNCHANGED seen

-----------------------------------------------------------------------------
(* The loop.                                                                *)

Following == pc = "follow" /\ next # 0

SeenIsFirstOnly == next = first.id    \* mutant: only a return to the start
Seen == next \in seen

LongerThan == Len(segments) > MaxVolumes       \* mutant
LongAlready == Len(segments) + 1 >= MaxVolumes  \* mutant
TooLong == Len(segments) >= MaxVolumes

RefuseCycle ==
  /\ Following /\ Seen
  /\ Fail("cycle") /\ UNCHANGED seen

RefuseLong ==
  /\ Following /\ ~Seen /\ TooLong
  /\ Fail("too long") /\ seen' = seen \cup {next}

Asking == Following /\ ~Seen /\ ~TooLong /\ seen' = seen \cup {next}

\* find_volume_by_id takes whichever file of that id is listed first.
Candidates == {f \in dir : f.id = next}

NotFound == Asking /\ Candidates = {} /\ Fail("missing")

\* The directory or the file cannot be read.
FollowFails == Asking /\ Fail("io")

\* skip_continuation_header does not find the end of the section.
BadHeader ==
  /\ Asking
  /\ \E f \in Candidates : ~f.ends
  /\ Fail("header")

LogicalEnd == LET s == segments[Len(segments)] IN s.logical_start + s.data_size
WholeFile(f) == f.len            \* mutant: the header is not taken off
DataSize(f) == f.len - f.start

Follow(f) ==
  /\ Asking
  /\ f.ends
  /\ next' = NextOf(f)
  /\ segments' = Append(segments,
                   [file |-> f, phys_start |-> f.start,
                    logical_start |-> LogicalEnd, data_size |-> DataSize(f)])
  /\ UNCHANGED <<dir, first, pc, err>>

Finish ==
  /\ pc = "follow" /\ next = 0
  /\ pc' = "ok"
  /\ UNCHANGED <<dir, first, err, next, seen, segments>>

Next ==
  \/ OpenSingle \/ OpenFirst \/ OpenFails
  \/ RefuseCycle \/ RefuseLong \/ NotFound \/ FollowFails \/ BadHeader
  \/ \E f \in Candidates : Follow(f)
  \/ Finish

Done == pc \in {"single", "ok", "failed"} /\ UNCHANGED vars

Spec == Init /\ [][Next \/ Done]_vars

-----------------------------------------------------------------------------
(* Properties.                                                              *)

TypeOK ==
  /\ \A f \in dir : IsFile(f)
  /\ first \in dir
  /\ pc \in {"first", "follow", "single", "ok", "failed"}
  /\ next \in Nat
  /\ seen \subseteq Nat
  /\ segments \in Seq([file : dir, phys_start : Nat, logical_start : Nat,
                       data_size : Nat])

\* The number of files held open is bounded.
OpenFilesBounded == Len(segments) <= MaxVolumes

\* c is a whole split archive: it starts with the file that was opened, every
\* volume names the next one, no file and no id occurs twice, and the last
\* volume names none.
IsChain(c) ==
  /\ Len(c) > 0 /\ c[1] = first
  /\ \A k \in 1..Len(c) : /\ c[k] \in dir
                          /\ k < Len(c) => c[k + 1].id = NextOf(c[k])
                          /\ k > 1 => c[k].ends
  /\ NextOf(c[Len(c)]) = 0
  /\ \A j, k \in 1..Len(c) : j < k => /\ c[j] # c[k]
                                      /\ j > 1 => c[j].id # c[k].id

Files == [k \in 1..Len(segments) |-> segments[k].file]

\* What was opened is a whole chain: nothing missing at its end, and no volume
\* read twice, also when the id of the first one could not be read.
OpensWholeChain == pc = "ok" => IsChain(Files)

\* The guards of the loop do both: whatever the directory holds, the files that
\* are open stay bounded, and what was opened is a whole chain.
WholeWithinLimit == OpenFilesBounded /\ OpensWholeChain

Unambiguous == \A f, h \in dir : f.id = h.id /\ f.id # NotEgg => f = h

\* A complete set of volumes is opened, unless the system refuses to read it:
\* the guards against cycles and long chains refuse nothing else.
CompleteSetOpens ==
  Unambiguous /\ (\E n \in 1..MaxVolumes : \E c \in [1..n -> dir] : IsChain(c))
    => err \in {"none", "io"}

\* The segments that try_open returns, as the reader knows them.
Layout ==
  [n |-> Len(segments),
   start |-> [v \in 0..Len(segments) - 1 |-> segments[v + 1].phys_start],
   cut |-> [v \in 0..Len(segments) |->
              IF v < Len(segments) THEN segments[v + 1].logical_start
                                   ELSE LogicalEnd]]

\* The reader's assumption: the segments lie end to end without a gap, and each
\* covers its file from its first data byte to the end.
HandsOverLayout ==
  pc = "ok" =>
    /\ IsLayout(Layout)
    /\ \A v \in 0..Layout.n - 1 :
         Layout.start[v] + (Layout.cut[v + 1] - Layout.cut[v])
           = segments[v + 1].file.len
=============================================================================

----------------------------- MODULE Delivery -----------------------------
(***************************************************************************)
(* What an extraction promises to whoever looks at the destination once it  *)
(* has ended: all of the wanted files with their true bytes, or an error    *)
(* and no partial file.  Nothing is said of how the bytes get there: the    *)
(* modules that model src/src/extract.rs are shown to implement this one.   *)
(*                                                                          *)
(* A byte of the decoded data is named by its position in it.  The standard *)
(* output cannot be taken back, so there a failure leaves a prefix.         *)
(***************************************************************************)
EXTENDS Naturals, Sequences

CONSTANT Absent  \* the content of a path that holds no file

VARIABLES
  job,      \* [before, after : contents of every path, touch : paths,
            \*  print : positions for the standard output, sound : BOOLEAN]
  tree,     \* the content of every path
  stdout,   \* the positions printed so far
  status    \* "running", "ok" or "failed"

vars == <<job, tree, stdout, status>>

\* s lists, in increasing order, the smallest members of S.
PrefixOf(s, S) ==
  /\ \A k \in 1..Len(s) : s[k] \in S
  /\ \A j, k \in 1..Len(s) : j < k => s[j] < s[k]
  /\ \A i \in S, k \in 1..Len(s) : i < s[k] => \E j \in 1..Len(s) : s[j] = i

\* ... and all of them.
AllOf(s, S) == PrefixOf(s, S) /\ \A i \in S : \E k \in 1..Len(s) : s[k] = i

Init ==
  /\ tree = job.before
  /\ stdout = << >>
  /\ status = "running"

\* More of the wanted bytes reach the standard output.
Emit ==
  /\ status = "running"
  /\ Len(stdout') > Len(stdout)
  /\ SubSeq(stdout', 1, Len(stdout)) = stdout
  /\ PrefixOf(stdout', job.print)
  /\ UNCHANGED <<job, tree, status>>

\* Everything arrived and every checksum was right.
Commit ==
  /\ status = "running"
  /\ job.sound
  /\ AllOf(stdout, job.print)
  /\ tree' = job.after
  /\ status' = "ok"
  /\ UNCHANGED <<job, stdout>>

\* An error: some of the paths the extraction may touch are now empty, the
\* others are as they were.
Rollback ==
  /\ status = "running"
  /\ \E gone \in SUBSET job.touch :
       tree' = [p \in DOMAIN tree |-> IF p \in gone THEN Absent ELSE tree[p]]
  /\ status' = "failed"
  /\ UNCHANGED <<job, stdout>>

Next == Emit \/ Commit \/ Rollback

Spec == Init /\ [][Next]_vars
=============================================================================

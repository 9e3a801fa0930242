---------------------------- MODULE Deliveries ----------------------------
(***************************************************************************)
(* What extracting an archive entry by entry promises: the wanted entries   *)
(* are delivered whole and in archive order until the first error, and an   *)
(* error leaves neither a partial file nor anything of a later entry.       *)
(* src/src/extract.rs is shown to implement it by EntryExtract.             *)
(***************************************************************************)
EXTENDS Naturals, Sequences

CONSTANT Absent  \* the content of a path that holds nothing

VARIABLES
  plan,    \* sequence of [path, content, wanted, sound]; never changes
  whole,   \* success may be reported at the end; never changes
  done,    \* items delivered
  tree,    \* the content of every path
  status   \* "running", "ok" or "failed"

vars == <<plan, whole, done, tree, status>>

Init == done = 0 /\ status = "running"

Deliver ==
  /\ status = "running" /\ done < Len(plan)
  /\ plan[done + 1].sound
  /\ tree' = IF plan[done + 1].wanted
               THEN [tree EXCEPT ![plan[done + 1].path] = plan[done + 1].content]
               ELSE tree
  /\ done' = done + 1
  /\ UNCHANGED <<plan, whole, status>>

\* The next item fails: its path is as it was, or holds nothing any more.
Abandon ==
  /\ status = "running" /\ done < Len(plan)
  /\ \/ tree' = tree
     \/ /\ plan[done + 1].wanted
        /\ tree' = [tree EXCEPT ![plan[done + 1].path] = Absent]
  /\ status' = "failed"
  /\ UNCHANGED <<plan, whole, done>>

Finish ==
  /\ status = "running" /\ done = Len(plan)
  /\ status' = IF whole THEN "ok" ELSE "failed"
  /\ UNCHANGED <<plan, whole, done, tree>>

Next == Deliver \/ Abandon \/ Finish

Spec == Init /\ [][Next]_vars
=============================================================================

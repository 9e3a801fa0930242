--------------------------- MODULE MCSolidExtract ---------------------------
(* Small groups for SolidExtract: every kind of entry, in every order.      *)
EXTENDS SolidExtract

CONSTANTS
  p1, p2,
  MaxEntries  \* entries of a group

MCPaths == {p1, p2}

\* An entry with n blocks of different compressed sizes.
Plain(n, path) ==
  [path |-> path, safe |-> TRUE, wanted |-> TRUE, dir |-> FALSE, size |-> n,
   nb |-> n, csize |-> [b \in 0..n - 1 |-> b + 1], key |-> "none", tag |-> TRUE,
   time |-> FALSE]

Kinds(p) ==
  LET plain == [Plain(2, p) EXCEPT !.time = TRUE]
      coded == [Plain(2, p) EXCEPT !.key = "good"]
      empty == Plain(0, p)
  IN  {plain, coded, empty,
       [plain EXCEPT !.wanted = FALSE],
       [plain EXCEPT !.safe = FALSE],
       [coded EXCEPT !.key = "bad"],
       [coded EXCEPT !.tag = FALSE],
       [coded EXCEPT !.key = "bad", !.wanted = FALSE],
       [coded EXCEPT !.tag = FALSE, !.wanted = FALSE],
       [empty EXCEPT !.size = 1],
       [empty EXCEPT !.dir = TRUE],
       [empty EXCEPT !.dir = TRUE, !.wanted = FALSE, !.safe = FALSE],
       [empty EXCEPT !.dir = TRUE, !.safe = FALSE]}

\* What the user had at p1; every kind of entry comes with p1 and with p2.
MCTrees == {[p \in MCPaths |-> IF p = p1 THEN c ELSE Absent] : c \in {Absent, Old, Dir}}

MCGroups == UNION {[1..n -> UNION {Kinds(p) : p \in MCPaths}] : n \in 1..MaxEntries}
=============================================================================

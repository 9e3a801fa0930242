--------------------------- MODULE MCEntryExtract ---------------------------
(* Small archives for EntryExtract: every kind of entry, in every order.    *)
EXTENDS EntryExtract

CONSTANTS
  p1, p2,
  MaxEntries  \* entries of an archive

MCPaths == {p1, p2}

\* An entry as the archiver writes it, with these blocks (decoded lengths).
Plain(nb, cut, size, path) ==
  [path |-> path, safe |-> TRUE, wanted |-> TRUE, dir |-> FALSE, size |-> size,
   nb |-> nb, cut |-> cut, limit |-> [b \in 0..nb - 1 |-> cut[b + 1] - cut[b]],
   bad |-> {}, key |-> TRUE, tag |-> "none", time |-> FALSE]

NoBlock(n)    == [b \in 0..0 |-> 0]
OneBlock(n)   == [b \in 0..1 |-> IF b = 0 THEN 0 ELSE n]
TwoBlocks(m, n) == [b \in 0..2 |-> CASE b = 0 -> 0 [] b = 1 -> m [] b = 2 -> m + n]

\* One entry of each kind the code tells apart.
Kinds(p) ==
  LET whole == [Plain(2, TwoBlocks(2, 1), 3, p) EXCEPT !.time = TRUE]
      one   == Plain(1, OneBlock(2), 2, p)
      empty == Plain(0, NoBlock(0), 0, p)
  IN  {whole, one, empty,
       [whole EXCEPT !.wanted = FALSE],
       [whole EXCEPT !.bad = {0}], [whole EXCEPT !.bad = {1}],
       [whole EXCEPT !.limit[0] = 1],         \* a block that decodes to more
       [one EXCEPT !.limit[0] = 3],           \* ... and one to less
       [one EXCEPT !.size = 3],               \* a block header is missing
       [one EXCEPT !.safe = FALSE],
       [one EXCEPT !.key = FALSE],
       [one EXCEPT !.tag = "good"], [one EXCEPT !.tag = "bad"],
       [empty EXCEPT !.size = 1],             \* all block headers are missing
       [empty EXCEPT !.dir = TRUE]}

\* What the user had at p1; every kind of entry comes with p1 and with p2.
MCTrees == {[p \in MCPaths |-> IF p = p1 THEN c ELSE Absent] : c \in {Absent, Old, Dir}}

MCArchives == UNION {[1..n -> UNION {Kinds(p) : p \in MCPaths}] : n \in 1..MaxEntries}
=============================================================================

---------------------------- MODULE MCSolidSink ----------------------------
(* Small solid groups for SolidSink: every pair of tilings, sizes 0 included. *)
EXTENDS SolidSink, FiniteSets, TLC

CONSTANTS
  p1, p2,
  MaxFiles,   \* file spans
  MaxBlocks,  \* block spans
  MaxTotal    \* bytes that either tiling declares

MCPaths == {p1, p2}

Cuts(n) == {c \in [0..n -> 0..MaxTotal] :
              c[0] = 0 /\ \A i \in 1..n : c[i - 1] <= c[i]}

\* The standard output has no paths; of the files, two share a path or all do.
Apart(n)    == [i \in 0..n - 1 |-> IF i % 2 = 0 THEN p1 ELSE p2]
Together(n) == [i \in 0..n - 1 |-> p1]
Modes(n)    == {<<TRUE, Apart(n)>>, <<FALSE, Apart(n)>>, <<FALSE, Together(n)>>}

\* Everything is wanted, or one entry is filtered out.
Filters(n) == {w \in SUBSET (0..n - 1) : Cardinality(w) >= n - 1}

\* Sound blocks and a stream cut short, exact, or run over by one byte; or one
\* bad block in a stream of the right length.
Streams(m, total) ==
  {<<{}, len>> : len \in {x \in total - 1 .. total + 1 : x >= 0}}
    \cup {<<{b}, total>> : b \in 0..m - 1}

\* Block tilings that declare at most one byte more or less than the files.
GroupsOf(n, m) ==
  UNION {UNION {
    {[nf |-> n, nb |-> m, fileCut |-> fc, crcCut |-> bc, path |-> mode[2],
      wanted |-> w, bad |-> st[1], pipe |-> mode[1], length |-> st[2],
      disk |-> (p1 :> Old @@ p2 :> Absent)] :
       mode \in Modes(n), w \in Filters(n), st \in Streams(m, fc[n])} :
    bc \in {c \in Cuts(m) : c[m] - fc[n] \in -1..1}} : fc \in Cuts(n)}

MCGroups == UNION {GroupsOf(n, m) : n \in 1..MaxFiles, m \in 1..MaxBlocks}
=============================================================================

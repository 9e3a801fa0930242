--------------------------- MODULE MCVolumeReader ---------------------------
(* Small volume sets for VolumeReader: 2 or 3 volumes, empty ones included. *)
EXTENDS VolumeReader

CONSTANTS
  MaxSize,    \* data bytes of a volume
  MaxHeader,  \* header bytes of a continuation
  MaxAsk,     \* bytes asked for in one call
  MaxDelta    \* distance of a seek

\* The layout of volumes with these data sizes (0 for none) and headers.
Layout(s0, s1, s2, h1, h2, n) ==
  [n |-> n,
   start |-> [v \in 0..n - 1 |-> CASE v = 0 -> 0 [] v = 1 -> h1 [] v = 2 -> h2],
   cut |-> [v \in 0..n |-> CASE v = 0 -> 0 [] v = 1 -> s0 [] v = 2 -> s0 + s1
                             [] v = 3 -> s0 + s1 + s2]]

MCLayouts ==
  {Layout(s0, s1, s2, h1, h2, 3) :
     s0 \in 1..MaxSize, s1, s2 \in 0..MaxSize, h1, h2 \in 1..MaxHeader}
    \cup
  {Layout(s0, s1, 0, h1, 1, 2) :
     s0 \in 1..MaxSize, s1 \in 0..MaxSize, h1 \in 1..MaxHeader}

MCAsks == 0..MaxAsk
MCDeltas == -MaxDelta..MaxDelta
=============================================================================

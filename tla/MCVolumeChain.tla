---------------------------- MODULE MCVolumeChain ----------------------------
(* Small directories for VolumeChain: the first volume and a few other files *)
(* with any ids and any links, broken ones and strangers included.           *)
EXTENDS VolumeChain

CONSTANT MaxId  \* ids 1..MaxId; the first volume has id 1

Egg(id, nxt) ==
  [id |-> id, split |-> TRUE, next |-> nxt, ends |-> TRUE, start |-> id, len |-> 2 * id]

MCFirsts ==
  {Egg(1, n) : n \in 0..MaxId}
    \cup {[Egg(1, 0) EXCEPT !.split = FALSE, !.ends = FALSE],
          [Egg(1, 2) EXCEPT !.id = NotEgg]}

Neighbours ==
  {Egg(i, n) : i \in 1..MaxId, n \in 0..MaxId}
    \cup {[Egg(2, 3) EXCEPT !.ends = FALSE], [Egg(3, 1) EXCEPT !.split = FALSE],
          [Egg(2, 3) EXCEPT !.id = NotEgg]}

\* The first volume is alone or with up to three other files.
MCOthers == {{}} \cup {{a, b, c} : a, b, c \in Neighbours}
=============================================================================

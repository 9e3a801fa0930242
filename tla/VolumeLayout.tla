---------------------------- MODULE VolumeLayout ----------------------------
(***************************************************************************)
(* The segments of src/src/volume.rs (struct Segment): what try_open hands  *)
(* to the reader.  Volume v holds the logical positions cut[v] ..            *)
(* cut[v+1]-1; its first data byte is byte start[v] of its file.             *)
(***************************************************************************)
EXTENDS Integers

IsLayout(s) ==
  /\ s.n \in Nat \ {0}
  /\ s.start \in [0..s.n - 1 -> Nat]       \* phys_start
  /\ s.cut \in [0..s.n -> Nat]             \* logical_start; cut[n] = total_size
  /\ s.start[0] = 0 /\ s.cut[0] = 0        \* the first volume counts whole
  /\ \A i, j \in 0..s.n : i <= j => s.cut[i] <= s.cut[j]
=============================================================================

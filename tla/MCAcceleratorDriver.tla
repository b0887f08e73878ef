------------------------ MODULE MCAcceleratorDriver -------------------------
EXTENDS AcceleratorDriver

Grids(r, c, p) ==
  [rows : {r}, cols : {c}, cells : [0 .. r * c - 1 -> {0, 1}], params : {p}]

(* Three shapes, both connectivities, for two runs one after the other. *)
MixedJobs == Grids(2, 2, 0) \cup Grids(1, 3, 8) \cup Grids(2, 1, 0)

(* Every 2x3 grid, for the runs in which the stack fills up. *)
WideJobs == Grids(2, 3, 0) \cup Grids(2, 3, 8)

(* Two grids that fill a stack of two. *)
FullJobs == [rows : {2}, cols : {2}, cells : {[a \in 0 .. 3 |-> 1]}, params : {0, 8}]
=============================================================================

-------------------------- MODULE MCPrimitivePath ---------------------------
(* Grids that fill the memory, that leave part of it, one that is empty,   *)
(* and two of the same shape.                                              *)
EXTENDS PrimitivePath

MCGrid(r, c, cs) == [rows |-> r, cols |-> c, cells |-> cs]

MCGrids == { MCGrid(2, 2, [a \in 0 .. 3 |-> 1]), MCGrid(2, 2, [a \in 0 .. 3 |-> a % 2]),
             MCGrid(1, 3, [a \in 0 .. 2 |-> a % 2]), MCGrid(3, 1, [a \in 0 .. 2 |-> 1]),
             MCGrid(0, 0, <<>>) }
=============================================================================

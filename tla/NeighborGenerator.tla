-------------------------- MODULE NeighborGenerator -------------------------
(***************************************************************************)
(* NeighborGenerator (src/model/modules/neighbor_generator.h): hands out   *)
(* the neighbours of a cell one per request, skipping those off the grid,  *)
(* and answers the request after the last one with done.                   *)
(***************************************************************************)
EXTENDS Integers

VARIABLES
  rst_n, valid_in, cur, rows, cols, connectivity,   (* input signals        *)
  active, next_dir, num_dirs, base,                 (* the scan             *)
  valid_out, done, nbr                              (* output signals       *)

(* kDx, kDy: left, right, up, down, then the diagonals. *)
Offset == << <<-1, 0>>, <<1, 0>>, <<0, -1>>, <<0, 1>>,
             <<-1, -1>>, <<-1, 1>>, <<1, -1>>, <<1, 1>> >>

Step(c, dir) == <<c[1] + Offset[dir + 1][1], c[2] + Offset[dir + 1][2]>>

OnGridUnsigned(c) ==      \* mutant: nx < 0 and ny < 0 are not tested
  c[1] < cols /\ c[2] < rows

OnGrid(c) == c[1] >= 0 /\ c[2] >= 0 /\ c[1] < cols /\ c[2] < rows

(* The directions of a scan of n from c, k onwards, that stay on the grid. *)
Dirs(c, k, n) == {d \in k .. n - 1 : OnGrid(Step(c, d))}

Reset ==
  /\ ~rst_n
  /\ active' = FALSE /\ next_dir' = 0 /\ num_dirs' = 4
  /\ valid_out' = FALSE /\ done' = FALSE /\ nbr' = <<0, 0>>
  /\ UNCHANGED base

NoRequest ==
  /\ rst_n /\ ~valid_in
  /\ valid_out' = FALSE
  /\ UNCHANGED <<active, next_dir, num_dirs, base, done, nbr>>

(* The scan the request continues, or the one it starts. *)
Base == IF active THEN base ELSE cur
From == IF active THEN next_dir ELSE 0
Num  == IF active THEN num_dirs ELSE IF connectivity = 8 THEN 8 ELSE 4

Emit ==
  /\ rst_n /\ valid_in
  /\ \E d \in Dirs(Base, From, Num) :
       /\ \A e \in Dirs(Base, From, Num) : d <= e
       /\ next_dir' = d + 1
       /\ nbr' = Step(Base, d)
  /\ base' = Base /\ num_dirs' = Num
  /\ active' = TRUE
  /\ valid_out' = TRUE /\ done' = FALSE

ExhaustedStaysActive ==   \* mutant: the next node resumes the finished scan
  /\ rst_n /\ valid_in
  /\ Dirs(Base, From, Num) = {}
  /\ next_dir' = Num
  /\ base' = Base /\ num_dirs' = Num
  /\ active' = TRUE
  /\ valid_out' = FALSE /\ done' = TRUE
  /\ UNCHANGED nbr

Exhausted ==
  /\ rst_n /\ valid_in
  /\ Dirs(Base, From, Num) = {}
  /\ next_dir' = Num
  /\ base' = Base /\ num_dirs' = Num
  /\ active' = FALSE
  /\ valid_out' = FALSE /\ done' = TRUE
  /\ UNCHANGED nbr

Generate == Reset \/ NoRequest \/ Emit \/ Exhausted
=============================================================================

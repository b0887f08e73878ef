------------------------------ MODULE HlsEngine -----------------------------
(***************************************************************************)
(* The static Engine of the HLS kernel (src/hls/dfs_accel.cpp) and its     *)
(* member functions, as operators from one engine record e to the next.    *)
(* A Coord is its index row * cols + col.  stack[0 .. sp) and              *)
(* frames[0 .. fp) are sequences: what lies above sp and fp is written     *)
(* before it is read again.                                                *)
(***************************************************************************)
EXTENDS Integers, Sequences, FiniteSets, SequencesExt

CONSTANTS
  MaxRows, MaxCols,   (* kMaxRows, kMaxCols *)
  MaxWords            (* kMaxWords          *)

ASSUME MaxSizesAssumption == MaxRows \in Nat /\ MaxCols \in Nat /\ MaxWords \in Nat

MaxCells == MaxRows * MaxCols

(* The engine before the first call. *)
Blank ==
  [rows |-> 0, cols |-> 0, degree |-> 4, words |-> <<>>,
   grid      |-> [c \in 0 .. MaxCells - 1 |-> 0],
   visited   |-> [c \in 0 .. MaxCells - 1 |-> FALSE],
   reachable |-> [c \in 0 .. MaxCells - 1 |-> FALSE],
   memo      |-> [c \in 0 .. MaxCells - 1 |-> 0],
   word_found |-> {},
   stack |-> <<>>, frames |-> <<>>,
   expanded_nodes |-> 0, visited_cells |-> 0, peak_stack_depth |-> 0]

Cells(e) == 0 .. e.rows * e.cols - 1

Delta == << <<-1, 0>>, <<1, 0>>, <<0, -1>>, <<0, 1>>,
            <<-1, -1>>, <<-1, 1>>, <<1, -1>>, <<1, 1>> >>

HasNeighbor(e, c, i) ==
  /\ (c \div e.cols) + Delta[i + 1][1] \in 0 .. e.rows - 1
  /\ (c % e.cols) + Delta[i + 1][2] \in 0 .. e.cols - 1

Neighbor(e, c, i) == c + Delta[i + 1][1] * e.cols + Delta[i + 1][2]

(* The numbers of S as a loop that counts up meets them. *)
InOrder(S) ==
  [k \in 1 .. Cardinality(S) |-> CHOOSE x \in S : Cardinality({y \in S : y < x}) = k - 1]

(* The neighbours of c in the directions dirs. *)
Toward(e, c, dirs) ==
  LET order == InOrder(dirs)
  IN  [k \in DOMAIN order |-> Neighbor(e, c, order[k])]

mark_visited(e, c) ==
  IF e.visited[c] THEN e ELSE [e EXCEPT !.visited[c] = TRUE, !.visited_cells = @ + 1]

unmark_visited(e, c) == [e EXCEPT !.visited[c] = FALSE]

ClearAllButLast(e) ==     \* mutant: the loop over the cells ends one short
  [e EXCEPT !.visited = [c \in DOMAIN e.visited |-> c + 1 \notin Cells(e) /\ e.visited[c]]]

clear_visited(e) ==
  [e EXCEPT !.visited = [c \in DOMAIN e.visited |-> c \notin Cells(e) /\ e.visited[c]]]

note_depth(e, depth) ==
  IF depth > e.peak_stack_depth THEN [e EXCEPT !.peak_stack_depth = depth] ELSE e

push(e, c) == note_depth([e EXCEPT !.stack = Append(@, c)], Len(e.stack) + 1)

(* mark_visited and push of each of the cells, none of them visited.       *)
visit_all(e, cells) ==
  note_depth([e EXCEPT !.visited = [c \in DOMAIN @ |-> @[c] \/ c \in Range(cells)],
                       !.visited_cells = @ + Len(cells), !.stack = @ \o cells],
             Len(e.stack) + Len(cells))

Frame(c) ==
  [cur |-> c, next |-> 0, char_index |-> 0, node |-> <<>>, best |-> 1, walked |-> 0]

push_frame(e, f) ==
  note_depth([e EXCEPT !.frames = Append(@, f), !.expanded_nodes = @ + 1],
             Len(e.frames) + 1)

pop_frame(e) == [e EXCEPT !.frames = Front(@)]

Top(e) == Last(e.frames)

AdvanceOnGrid(e) ==       \* mutant: a direction off the grid is not counted
  IF HasNeighbor(e, Top(e).cur, Top(e).next)
  THEN [e EXCEPT !.frames[Len(e.frames)].next = @ + 1] ELSE e

(* f.next++ on the innermost frame. *)
advance(e) == [e EXCEPT !.frames[Len(e.frames)].next = @ + 1]
=============================================================================

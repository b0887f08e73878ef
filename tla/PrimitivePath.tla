---------------------------- MODULE PrimitivePath ---------------------------
(***************************************************************************)
(* The cross-check of integration_main.cpp.  One algorithm runs twice, on  *)
(* the software accelerator of the harness (off) and on TlmAccelerator     *)
(* (on), which sends every primitive to the bridge and its memories.       *)
(*                                                                         *)
(* The algorithm is any sequence of calls.  It sees nothing of the         *)
(* accelerator but their answers, so as long as these agree the two runs   *)
(* make the same calls, and are modelled side by side.  The bridge's calls *)
(* take no simulated time: no clock edge falls between them.               *)
(***************************************************************************)
EXTENDS Integers, Sequences

CONSTANTS
  MaxCells,   (* config::kMaxCells *)
  Grids       (* the data sets' grids: [rows, cols, cells], cells by index *)

Area(g) == 0 .. g.rows * g.cols - 1

ASSUME MaxCellsAssumption == MaxCells \in Nat

ASSUME GridsAssumption ==
  /\ Grids # {}
  /\ \A g \in Grids : /\ g.rows \in Nat /\ g.cols \in Nat
                      /\ g.rows * g.cols <= MaxCells
                      /\ g.cells \in [Area(g) -> Int]

VARIABLES
  pc,                     (* "new", "configured", "ready"                  *)
  grid, conn,             (* grid_ and connectivity_ of both accelerators  *)
  marks,                  (* off: visited_ of the software accelerator     *)
  bridge_grid, bridge_conn,   (* on: grid_ and conn_ of the bridge         *)
  cells, visited,         (* on: Grid Memory and Visited Memory            *)
  answer                  (* [off, on]: what the last call returned        *)

vars == <<pc, grid, conn, marks, bridge_grid, bridge_conn, cells, visited, answer>>
host   == <<pc, grid, conn>>
loaded == <<bridge_grid, bridge_conn, cells>>

Vis == INSTANCE VisitedMemory WITH clear <- FALSE, we <- FALSE, addr <- 0, rdata <- FALSE

Nothing == [off |-> "none", on |-> "none"]

index(g, c) == c[1] * g.cols + c[2]
in_bounds(g, c) == c[1] \in 0 .. g.rows - 1 /\ c[2] \in 0 .. g.cols - 1

(* The coordinates an algorithm asks about: those of its grid. *)
Coords(g) == (0 .. g.rows - 1) \X (0 .. g.cols - 1)

(* kDr and kDc, of the software accelerator and of the bridge. *)
SoftwareDelta == << <<-1, 0>>, <<1, 0>>, <<0, -1>>, <<0, 1>>,
                    <<-1, -1>>, <<-1, 1>>, <<1, -1>>, <<1, 1>> >>

DeltaRowFirst ==          \* mutant: the bridge counts left and right first
  << <<0, -1>>, <<0, 1>>, <<-1, 0>>, <<1, 0>>, <<-1, -1>>, <<-1, 1>>, <<1, -1>>, <<1, 1>> >>

BridgeDelta == << <<-1, 0>>, <<1, 0>>, <<0, -1>>, <<0, 1>>,
                  <<-1, -1>>, <<-1, 1>>, <<1, -1>>, <<1, 1>> >>

Around(delta, g, connectivity, c) ==
  SelectSeq([k \in 1 .. connectivity |-> <<c[1] + delta[k][1], c[2] + delta[k][2]>>],
            LAMBDA n : in_bounds(g, n))

(* The register path ran first, so the memories hold anything. *)
Init ==
  /\ pc = "new" /\ conn = 4 /\ answer = Nothing
  /\ grid \in Grids /\ marks = [a \in {} |-> FALSE]
  /\ bridge_grid = grid /\ bridge_conn = 4
  /\ cells \in [0 .. MaxCells - 1 -> UNION {{g.cells[a] : a \in Area(g)} : g \in Grids} \cup {0}]
  /\ visited \in [0 .. MaxCells - 1 -> BOOLEAN]

(* run_with: a fresh pair of accelerators is configured, then loaded. *)
set_connectivity(c) ==
  /\ pc = "new" /\ pc' = "configured"
  /\ conn' = c
  /\ UNCHANGED <<grid, marks, loaded, visited, answer>>

LoadLeavesMarks(g) ==     \* mutant: the bridge does not clear the marks
  /\ pc = "configured" /\ pc' = "ready"
  /\ grid' = g /\ marks' = [a \in Area(g) |-> FALSE]
  /\ bridge_grid' = g /\ bridge_conn' = conn
  /\ cells' = [a \in 0 .. MaxCells - 1 |-> IF a \in Area(g) THEN g.cells[a] ELSE cells[a]]
  /\ UNCHANGED <<conn, visited, answer>>

(* The bridge's loop of load_cell, then clear_all. *)
load_grid(g) ==
  /\ pc = "configured" /\ pc' = "ready"
  /\ grid' = g /\ marks' = [a \in Area(g) |-> FALSE]
  /\ bridge_grid' = g /\ bridge_conn' = conn
  /\ cells' = [a \in 0 .. MaxCells - 1 |-> IF a \in Area(g) THEN g.cells[a] ELSE cells[a]]
  /\ Vis!clear_all
  /\ UNCHANGED <<conn, answer>>

reset_visited ==
  /\ pc = "ready"
  /\ marks' = [a \in DOMAIN marks |-> FALSE]
  /\ Vis!clear_all
  /\ UNCHANGED <<host, loaded, answer>>

is_visited(c) ==
  /\ pc = "ready"
  /\ answer' = [off |-> marks[index(grid, c)],
                on  |-> Vis!peek(index(bridge_grid, c))]
  /\ UNCHANGED <<host, marks, loaded, visited>>

(* The answer is whether visited_cells grows. *)
mark_visited(c) ==
  /\ pc = "ready"
  /\ answer' = [off |-> ~marks[index(grid, c)],
                on  |-> ~Vis!peek(index(bridge_grid, c))]
  /\ marks' = [marks EXCEPT ![index(grid, c)] = TRUE]
  /\ Vis!poke(index(bridge_grid, c), TRUE)
  /\ UNCHANGED <<host, loaded>>

unmark_visited(c) ==
  /\ pc = "ready"
  /\ marks' = [marks EXCEPT ![index(grid, c)] = FALSE]
  /\ Vis!poke(index(bridge_grid, c), FALSE)
  /\ UNCHANGED <<host, loaded, answer>>

neighbors(c) ==
  /\ pc = "ready"
  /\ answer' = [off |-> Around(SoftwareDelta, grid, conn, c),
                on  |-> Around(BridgeDelta, bridge_grid, bridge_conn, c)]
  /\ UNCHANGED <<host, marks, loaded, visited>>

(* The algorithm has returned; the next case gets accelerators of its own. *)
NextCase ==
  /\ pc = "ready" /\ pc' = "new"
  /\ conn' = 4 /\ marks' = [a \in {} |-> FALSE] /\ answer' = Nothing
  /\ UNCHANGED <<grid, loaded, visited>>

Next ==
  \/ \E c \in {4, 8} : set_connectivity(c)
  \/ \E g \in Grids : load_grid(g)
  \/ reset_visited
  \/ \E c \in Coords(grid) : is_visited(c) \/ mark_visited(c) \/ unmark_visited(c) \/ neighbors(c)
  \/ NextCase

Spec == Init /\ [][Next]_vars

-----------------------------------------------------------------------------
(* Every call returns the same on both paths, whatever was called before:  *)
(* for every algorithm, baseline and accelerator results agree, the order  *)
(* of the cells it visits and its count of visited cells included.         *)
AnswersAgree == answer.off = answer.on

(* While an algorithm runs, the accelerator's memories hold its grid and   *)
(* exactly its marks, and none beyond the grid.                            *)
MemoriesMirror ==
  pc = "ready" =>
    /\ \A a \in Area(grid) : visited[a] = marks[a] /\ cells[a] = grid.cells[a]
    /\ \A a \in 0 .. MaxCells - 1 : visited[a] => a \in Area(grid)
=============================================================================

---------------------------- MODULE DfsAccelerator --------------------------
(***************************************************************************)
(* DfsAccelerator (src/model/modules/dfs_accelerator.h): the register file *)
(* the host sees, the start handshake, and the six modules wired together. *)
(*                                                                         *)
(* Tick is one rising clock edge with the deltas that follow it: every     *)
(* clocked method reads the signals as they were and the combinational     *)
(* previews settle on the new ones.  Register accesses (b_transport) run   *)
(* in the host's process between edges.  sc_signal keeps only the last     *)
(* value written before a delta, so the grid port settles (Settle) when    *)
(* the host yields, and in any case by the next edge.                      *)
(*                                                                         *)
(* Each sub-module keeps its own definitions; a signal they share is one   *)
(* variable here.  start_x and start_y, which nothing reads, are left out. *)
(***************************************************************************)
EXTENDS Integers

CONSTANTS
  MaxCells,     (* config::kMaxCells                        *)
  StackDepth    (* config::kStackDepth                      *)

ASSUME MaxCellsAssumption == MaxCells \in Nat \ {0}
ASSUME StackDepthAssumption == StackDepth \in Nat \ {0}

VARIABLES
  rst_n,
  (* host-visible configuration *)
  enabled, rows, cols, params,
  (* start handshake *)
  start_requested, run_pending, start_pulse,
  (* DfsController *)
  busy, done, stk_push, stk_pop, stk_in, ngen_valid_in, ngen_cur, vis_we, vis_addr,
  visited_count, island_count, overflow,
  state, cur_node, nbr_latch, scan, ngen_wait, is_new_island_start,
  (* StackManager *)
  storage, sp, peak, stk_out,
  (* NeighborGenerator *)
  active, next_dir, num_dirs, base, ngen_valid_out, ngen_done, ngen_nbr,
  (* VisitedMemory *)
  visited, vis_is_visited,
  (* GridMemory *)
  grid_we, grid_waddr, grid_wdata, cells, grid_value, grid_seen,
  (* ResultInterface *)
  result, result_valid

Coord == Nat \X Nat

Ctl == INSTANCE DfsController WITH start <- start_pulse

Stk == INSTANCE StackManager WITH
         Origin <- <<0, 0>>, clear <- start_pulse,
         push_en <- stk_push, pop_en <- stk_pop, in_xy <- stk_in

Ngen == INSTANCE NeighborGenerator WITH
         valid_in <- ngen_valid_in, cur <- ngen_cur, connectivity <- params,
         valid_out <- ngen_valid_out, done <- ngen_done, nbr <- ngen_nbr

Vis == INSTANCE VisitedMemory WITH
         clear <- start_pulse, we <- vis_we, addr <- vis_addr, rdata <- vis_is_visited

Grid == INSTANCE GridMemory WITH
         we <- grid_we, waddr <- grid_waddr, wdata <- grid_wdata, raddr <- vis_addr,
         rdata <- grid_value, seen <- grid_seen

Res == INSTANCE ResultInterface WITH
         result_value <- island_count, visited_cells <- visited_count,
         peak_stack_depth <- stk_out.peak_depth

config     == <<enabled, rows, cols, params>>
handshake  == <<start_requested, run_pending, start_pulse>>
controller == <<busy, done, stk_push, stk_pop, stk_in, ngen_valid_in, ngen_cur, vis_we,
                vis_addr, visited_count, island_count, overflow, state, cur_node,
                nbr_latch, scan, ngen_wait, is_new_island_start>>
stack      == <<storage, sp, peak, stk_out>>
generator  == <<active, next_dir, num_dirs, base, ngen_valid_out, ngen_done, ngen_nbr>>
marks      == <<visited, vis_is_visited>>
port       == <<grid_we, grid_waddr, grid_wdata>>
gridmem    == <<cells, grid_value, grid_seen>>
results    == <<result, result_valid>>
vars == <<rst_n, config, handshake, controller, stack, generator, marks, port, gridmem,
          results>>

(* Idle, with reset at this level and this configuration in the registers. *)
InitWith(level, r, c, p, grid) ==
  /\ rst_n = level
  /\ enabled = FALSE /\ rows = r /\ cols = c /\ params = p
  /\ start_requested = FALSE /\ run_pending = FALSE /\ start_pulse = FALSE
  /\ Ctl!Init
  /\ storage = [i \in 0 .. StackDepth - 1 |-> <<0, 0>>]
  /\ sp = 0 /\ peak = 0 /\ stk_out = Stk!Shown
  /\ active = FALSE /\ next_dir = 0 /\ num_dirs = 4 /\ base = <<0, 0>>
  /\ ngen_valid_out = FALSE /\ ngen_done = FALSE /\ ngen_nbr = <<0, 0>>
  /\ visited = [a \in 0 .. MaxCells - 1 |-> FALSE] /\ vis_is_visited = FALSE
  /\ grid_we = FALSE /\ grid_waddr = 0 /\ grid_wdata = grid[0]
  /\ cells = grid /\ grid_value = grid[0] /\ grid_seen = Grid!inputs
  /\ result = Res!NoResult /\ result_valid = FALSE

Init == InitWith(FALSE, 0, 0, 0, [a \in 0 .. MaxCells - 1 |-> 0])

(***************************************************************************)
(* The clock.                                                              *)
(***************************************************************************)
PulseUnlessBusy ==        \* mutant: run_pending_ is lowered with the pulse
  /\ start_pulse' = start_requested
  /\ start_requested' = FALSE
  /\ run_pending' = FALSE

PulseSticks ==            \* mutant: start_requested_ is not consumed
  /\ start_pulse' = start_requested
  /\ UNCHANGED start_requested
  /\ run_pending' = (run_pending /\ ~busy)

drive_start_pulse ==
  /\ start_pulse' = start_requested
  /\ start_requested' = FALSE
  /\ run_pending' = (run_pending /\ ~busy)

Tick ==
  /\ UNCHANGED <<rst_n, config, port>>
  /\ drive_start_pulse
  /\ Ctl!run_fsm
  /\ Stk!Commit /\ Stk!Preview
  /\ Ngen!Generate
  /\ Vis!Commit /\ Vis!Preview
  /\ Grid!Commit /\ Grid!Preview
  /\ Res!Latch

(***************************************************************************)
(* The host's accesses.  Every write lowers grid_we first.                 *)
(***************************************************************************)
NotTheGrid == /\ grid_we' = FALSE
              /\ UNCHANGED <<grid_waddr, grid_wdata, gridmem>>

Inner == <<rst_n, start_pulse, controller, stack, generator, marks, results>>

WriteControl(enable, start) ==
  /\ enabled' = enable
  /\ start_requested' = (start_requested \/ start)
  /\ run_pending' = (run_pending \/ start)
  /\ NotTheGrid
  /\ UNCHANGED <<rows, cols, params, Inner>>

WriteRows(value) ==
  rows' = value /\ NotTheGrid /\ UNCHANGED <<enabled, cols, params, handshake, Inner>>

WriteCols(value) ==
  cols' = value /\ NotTheGrid /\ UNCHANGED <<enabled, rows, params, handshake, Inner>>

WriteParams(value) ==
  params' = value /\ NotTheGrid /\ UNCHANGED <<enabled, rows, cols, handshake, Inner>>

(* start_x, start_y, and every address that is refused. *)
WriteUnused == NotTheGrid /\ UNCHANGED <<config, handshake, Inner>>

WriteCell(index, value) ==
  /\ index \in 0 .. MaxCells - 1
  /\ grid_we' = TRUE /\ grid_waddr' = index /\ grid_wdata' = value
  /\ Grid!load_cell(index, value)
  /\ UNCHANGED <<grid_value, grid_seen, config, handshake, Inner>>

(* The delta after the host's writes: the grid preview sees the port. *)
Settle ==
  /\ Grid!inputs # grid_seen
  /\ UNCHANGED <<config, handshake, port, cells, Inner>>
  /\ Grid!Preview

ControlReg == [enable |-> enabled, start |-> start_requested]

Status == [busy |-> busy, done |-> result_valid /\ ~run_pending, overflow |-> overflow]

(* Driven by the testbench, not by the host's registers. *)
SetReset(level) ==
  /\ rst_n' = level
  /\ UNCHANGED <<config, handshake, controller, storage, sp, peak, generator, marks,
                 port, gridmem, results>>
  /\ Stk!Preview

-----------------------------------------------------------------------------
(* The values registers and signals take. *)
TypeOK ==
  /\ rst_n \in BOOLEAN /\ enabled \in BOOLEAN
  /\ rows \in Nat /\ cols \in Nat /\ params \in Nat
  /\ start_requested \in BOOLEAN /\ run_pending \in BOOLEAN /\ start_pulse \in BOOLEAN
  /\ busy \in BOOLEAN /\ done \in BOOLEAN
  /\ stk_push \in BOOLEAN /\ stk_pop \in BOOLEAN /\ stk_in \in Coord
  /\ ngen_valid_in \in BOOLEAN /\ ngen_cur \in Coord
  /\ vis_we \in BOOLEAN /\ vis_addr \in Nat
  /\ visited_count \in Nat /\ island_count \in Nat /\ overflow \in BOOLEAN
  /\ state \in Ctl!States
  /\ cur_node \in Coord /\ nbr_latch \in Coord /\ scan \in Coord
  /\ ngen_wait \in BOOLEAN /\ is_new_island_start \in BOOLEAN
  /\ storage \in [0 .. StackDepth - 1 -> Coord]
  /\ sp \in 0 .. StackDepth /\ peak \in 0 .. StackDepth
  /\ stk_out \in [top : Coord, empty : BOOLEAN, full : BOOLEAN, peak_depth : 0 .. StackDepth]
  /\ active \in BOOLEAN /\ next_dir \in 0 .. 8 /\ num_dirs \in {4, 8} /\ base \in Coord
  /\ ngen_valid_out \in BOOLEAN /\ ngen_done \in BOOLEAN /\ ngen_nbr \in Coord
  /\ visited \in [0 .. MaxCells - 1 -> BOOLEAN] /\ vis_is_visited \in BOOLEAN
  /\ grid_we \in BOOLEAN /\ grid_waddr \in 0 .. MaxCells - 1 /\ grid_wdata \in Int
  /\ cells \in [0 .. MaxCells - 1 -> Int] /\ grid_value \in Int
  /\ result \in [value : Nat, visited_cells : Nat, peak_stack_depth : Nat]
  /\ result_valid \in BOOLEAN

(* The previews are not sensitive to the registers they show, yet at every *)
(* edge the FSM finds on its wires what the stack and the memories hold    *)
(* with the present request applied (dfs_controller.h:15-28).              *)
PreviewsFresh ==
  /\ stk_out = Stk!Shown
  /\ vis_is_visited = Vis!Shown
  /\ grid_seen = Grid!inputs => grid_value = Grid!Shown

(* The FSM asks for a push only when the Stack Manager will take it: every *)
(* entry dropped for want of room is one overflow_ has been set for, none  *)
(* is dropped by commit() (stack_manager.h:60-65).                         *)
NoPushLost == stk_push /\ rst_n /\ ~start_pulse => sp < StackDepth

(* A host that reads Done reads this run's result: the FSM has finished,   *)
(* no Start is on its way, and the result register holds the counters the  *)
(* FSM stopped with (dfs_accelerator.h:232-237).                           *)
DoneIsThisRun ==
  Status.done => /\ state = "Done" /\ ~start_requested /\ ~start_pulse
                 /\ result = Res!Counters
=============================================================================

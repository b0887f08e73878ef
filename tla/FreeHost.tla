------------------------------ MODULE FreeHost ------------------------------
(***************************************************************************)
(* The accelerator under a host that respects no protocol: it may write    *)
(* any register, Start included, and the testbench may pull reset, at any  *)
(* time, also in the middle of a run.                                      *)
(***************************************************************************)
EXTENDS DfsAccelerator

CONSTANTS
  Sizes,    (* what the host writes to Rows and Cols        *)
  Values,   (* what it writes to cells                      *)
  Budget,   (* bound: accesses and reset edges in all       *)
  Yields,   (* the host yields after every access, so that  *)
            (* its writes settle one by one (tlm_bus.h);    *)
            (* the Stimulus of the unit tests does not      *)
  MidRun    (* it also writes while a run is going on       *)

ASSUME SizesAssumption == Sizes \subseteq Nat
ASSUME ValuesAssumption == Values \subseteq Int
ASSUME BudgetAssumption == Budget \in Nat
ASSUME YieldsAssumption == Yields \in BOOLEAN /\ MidRun \in BOOLEAN

VARIABLE accesses

allvars == <<vars, accesses>>

FreeInit ==
  /\ \E r, c \in Sizes, p \in {4, 8}, grid \in [0 .. MaxCells - 1 -> Values] :
       InitWith(TRUE, r, c, p, grid)
  /\ accesses = 0

Spend == accesses < Budget /\ accesses' = accesses + 1

FreeWrite ==
  \/ \E enable, start \in BOOLEAN : WriteControl(enable, start)
  \/ \E n \in Sizes : WriteRows(n) \/ WriteCols(n)
  \/ \E n \in {4, 8} : WriteParams(n)
  \/ \E i \in 0 .. MaxCells - 1, v \in Values : WriteCell(i, v)

Clock == Tick /\ UNCHANGED accesses
Delta == Settle /\ UNCHANGED accesses
Settled == Grid!inputs = grid_seen
Between == state \in {"Idle", "Done"} /\ ~run_pending

Write     == (Yields => Settled) /\ (MidRun \/ Between) /\ FreeWrite /\ Spend
PullReset == (Yields => Settled) /\ MidRun /\ SetReset(~rst_n) /\ Spend

Next == Clock \/ Delta \/ Write \/ PullReset

Spec == FreeInit /\ [][Next]_allvars

(* The clock never stops. *)
FairSpec == Spec /\ WF_allvars(Clock)

-----------------------------------------------------------------------------
(* Whatever the host does, the FSM comes back to a state in which it takes *)
(* a Start: no write order leaves it waiting for a neighbour or a pop that *)
(* never comes.                                                            *)
NeverHangs == []<>(state \in {"Idle", "Done"})

(* Status never shows Busy and Done together. *)
BusyOrDone == ~(Status.busy /\ Status.done)

(* VisitedMemory/GridMemory: "addr asserted this cycle, data back next     *)
(* cycle" (dfs_controller.h:26): what Visit tests is the cell it visits.   *)
VisitReadsItsCell ==
  state = "Visit" /\ vis_addr < MaxCells /\ Settled => grid_value = cells[vis_addr]

(* "A host Start also begins a fresh traversal, so it clears Visited       *)
(* Memory" (dfs_accelerator.h:110): the edge that forgets the marks also   *)
(* forgets how many there were.                                            *)
StartBeginsTraversal ==
  [][Clock /\ start_pulse /\ rst_n => visited_count' = 0]_allvars
=============================================================================

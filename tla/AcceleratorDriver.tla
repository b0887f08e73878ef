-------------------------- MODULE AcceleratorDriver -------------------------
(***************************************************************************)
(* The accelerator under its driver (src/program/driver,                   *)
(* accelerator_driver.h): AcceleratorDriver::run, one bus access per       *)
(* action, for up to MaxRuns grids one after the other on one accelerator. *)
(*                                                                         *)
(* BusWaits: after each access TlmBus (tlm_bus.h) waits for the transport  *)
(* delay, one clock period.  The unit tests' Stimulus does not wait; then  *)
(* any number of accesses may fall between two edges.  In both cases any   *)
(* number of edges may pass between two accesses.                          *)
(***************************************************************************)
EXTENDS ScanMapping, FiniteSets

CONSTANTS
  Jobs,       (* grids: [rows, cols, cells, params], cells a function   *)
  MaxRuns,    (* bound: runs on one accelerator                         *)
  BusWaits

ASSUME JobsAssumption ==  \* a grid has cells, and fits in the accelerator
  /\ Jobs # {}
  /\ \A j \in Jobs :
       /\ j.rows \in Nat \ {0} /\ j.cols \in Nat \ {0} /\ j.rows * j.cols <= MaxCells
       /\ j.cells \in [0 .. j.rows * j.cols - 1 -> Int] /\ j.params \in Nat
ASSUME MaxRunsAssumption == MaxRuns \in Nat
ASSUME BusWaitsAssumption == BusWaits \in BOOLEAN

VARIABLES
  pc,         (* the access the driver makes next                       *)
  job,        (* the grid handed to run                                 *)
  index,      (* load_grid's loop variable                              *)
  ctrl,       (* the Control value of a read-modify-write               *)
  runs,       (* runs begun                                             *)
  waiting,    (* inside TlmBus's wait                                   *)
  report      (* what run returned, with the two counters beside it     *)

driver  == <<pc, job, index, ctrl, runs, waiting, report>>
allvars == <<vars, driver>>

Steps == {"reset", "rows", "cols", "origin", "params", "cells", "enable_read",
          "enable_write", "start_read", "start_write", "wait_done", "result", "idle"}

DriverInit ==
  /\ Init
  /\ pc = "reset" /\ job = (CHOOSE j \in Jobs : TRUE) /\ index = 0
  /\ ctrl = ControlReg /\ runs = 0 /\ waiting = FALSE /\ report = Res!NoResult

(* One access of step "from", after which the driver is at step "to". *)
Access(from, to) ==
  /\ pc = from /\ ~waiting
  /\ pc' = to /\ waiting' = BusWaits

ReleaseReset ==
  /\ pc = "reset" /\ pc' = "idle"
  /\ SetReset(TRUE)
  /\ UNCHANGED <<job, index, ctrl, runs, waiting, report>>

BeginRun(j) ==
  /\ pc = "idle" /\ runs < MaxRuns
  /\ pc' = "rows" /\ job' = j /\ index' = 0 /\ runs' = runs + 1
  /\ UNCHANGED <<vars, ctrl, waiting, report>>

Kept == UNCHANGED <<job, index, ctrl, runs, report>>

LoadRows   == Access("rows", "cols") /\ WriteRows(job.rows) /\ Kept
LoadCols   == Access("cols", "origin") /\ WriteCols(job.cols) /\ Kept
LoadOrigin == Access("origin", "params") /\ WriteUnused /\ Kept
LoadParams == Access("params", "cells") /\ WriteParams(job.params) /\ Kept

LoadCell ==
  /\ index \in DOMAIN job.cells
  /\ Access("cells", IF index + 1 \in DOMAIN job.cells THEN "cells" ELSE "enable_read")
  /\ WriteCell(index, job.cells[index])
  /\ index' = index + 1
  /\ UNCHANGED <<job, ctrl, runs, report>>

ReadControl(from, to) ==
  /\ Access(from, to)
  /\ ctrl' = ControlReg
  /\ UNCHANGED <<vars, job, index, runs, report>>

EnableRead  == ReadControl("enable_read", "enable_write")
EnableWrite == Access("enable_write", "start_read") /\ WriteControl(TRUE, ctrl.start) /\ Kept
StartRead   == ReadControl("start_read", "start_write")

StartWrite  == Access("start_write", "wait_done") /\ WriteControl(ctrl.enable, TRUE) /\ Kept

Poll ==
  /\ Access("wait_done", IF Status.done THEN "result" ELSE "wait_done")
  /\ UNCHANGED vars /\ Kept

ReadResult ==
  /\ Access("result", "idle")
  /\ report' = result
  /\ UNCHANGED <<vars, job, index, ctrl, runs>>

run ==
  \/ ReleaseReset
  \/ \E j \in Jobs : BeginRun(j)
  \/ LoadRows \/ LoadCols \/ LoadOrigin \/ LoadParams \/ LoadCell
  \/ EnableRead \/ EnableWrite \/ StartRead \/ StartWrite
  \/ Poll \/ ReadResult

Clock == Tick /\ waiting' = FALSE /\ UNCHANGED <<pc, job, index, ctrl, runs, report>>

Delta == Settle /\ UNCHANGED driver

Next == run \/ Clock \/ Delta

Spec == DriverInit /\ [][Next]_allvars

(* The simulation kernel keeps the clock running and resumes the driver's  *)
(* thread when its wait is over.                                           *)
FairSpec == Spec /\ WF_allvars(Clock) /\ WF_allvars(run)

-----------------------------------------------------------------------------
(***************************************************************************)
(* What the driver's caller is owed, from the grid alone.                  *)
(***************************************************************************)
Passable == {a \in DOMAIN job.cells : job.cells[a] # 0}

Adjacent(a, b) ==
  LET dx == (a % job.cols) - (b % job.cols)
      dy == (a \div job.cols) - (b \div job.cols)
  IN  /\ a # b
      /\ dx * dx <= 1 /\ dy * dy <= 1
      /\ job.params = 8 \/ dx * dx + dy * dy = 1

(* The region of a: the smallest set with a in it that has no edge out.    *)
Closed(S) == \A a \in S, b \in Passable : Adjacent(a, b) => b \in S
Region(a) == {b \in Passable : \A S \in SUBSET Passable : a \in S /\ Closed(S) => b \in S}
Islands == {Region(a) : a \in Passable}

Reported == pc = "idle" /\ runs > 0

(* Each run returns the islands of the grid it was given and counts every  *)
(* passable cell once, whatever ran before it on the same accelerator      *)
(* (with a stack that never fills up).                                     *)
ReportExact ==
  Reported => /\ report.value = Cardinality(Islands)
              /\ report.visited_cells = Cardinality(Passable)

(* A run whose stack filled up still visits every passable cell, finds at  *)
(* least the islands there are, and has raised overflow if it found more.  *)
OverflowReport ==
  Reported => /\ report.visited_cells = Cardinality(Passable)
              /\ report.value >= Cardinality(Islands)
              /\ report.value > Cardinality(Islands) => overflow

(* Every access and every wire of a run is a step of the flood fill or     *)
(* leaves it where it is.                                                  *)
ImplementsIslandScan == Abs!Spec

(* run() returns: wait_done, a loop without a timeout, ends. *)
RunReturns == pc = "wait_done" ~> pc = "idle"

-----------------------------------------------------------------------------
(* "A push was dropped this run ... result under-counts" (memory_map.h:32, *)
(* and dfs_controller.h:35): the island count of an overflowed run is at   *)
(* most the true one.                                                      *)
OverflowUnderCounts ==
  Reported /\ overflow => report.value <= Cardinality(Islands)

(* "Overflow needs no such masking -- it's cleared before that window"     *)
(* (dfs_accelerator.h:236-237): from a Start until the FSM is busy the     *)
(* host reads no overflow of the previous run.                             *)
OverflowClearedBeforeWindow == run_pending => ~Status.overflow
=============================================================================

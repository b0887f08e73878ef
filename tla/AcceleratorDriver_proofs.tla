----------------------- MODULE AcceleratorDriver_proofs -----------------------
(***************************************************************************)
(* Proofs about the accelerator under its driver, for every set of grids,  *)
(* every stack depth and every number of runs, in five parts: the start    *)
(* handshake (IInv), what a traversal keeps besides (Fill), the refinement *)
(* of IslandScan step by step, what follows from the flood fill's own      *)
(* invariant for the counters a run reports (CInv), and how few passable   *)
(* cells a grid has to have for its run to lose no push (Roomy).           *)
(***************************************************************************)
EXTENDS AcceleratorDriver, DfsAccelerator_proofs, FiniteSetTheorems

USE MaxCellsAssumption, StackDepthAssumption, JobsAssumption

DriverTypes ==
  /\ pc \in Steps /\ job \in Jobs /\ index \in Nat /\ waiting \in BOOLEAN
  /\ ctrl.enable \in BOOLEAN /\ ctrl.start \in BOOLEAN

-----------------------------------------------------------------------------
(* The start handshake.                                                    *)

(* Between runs the FSM rests and no Start is on its way; what the driver  *)
(* writes back to Control holds no Start of its own.                       *)
Resting ==
  /\ pc # "wait_done" => state \in {"Idle", "Done"} /\ ~busy /\ ~run_pending
  /\ rst_n = (pc # "reset")
  /\ pc = "reset" => ~result_valid
  /\ ctrl.start = FALSE

(* A Start is in one place at a time: requested, on the pulse, or taken by *)
(* the FSM, which has not raised busy for long enough to be seen.          *)
Pending ==
  /\ start_requested => run_pending /\ ~start_pulse
  /\ start_pulse => run_pending
  /\ run_pending =>
       IF start_requested \/ start_pulse
       THEN state \in {"Idle", "Done"} /\ ~busy
       ELSE \/ state = "LoadStart" /\ ~busy
            \/ state = "ScanNext" /\ busy

(* Once no Start is pending, a valid result is the one the FSM stopped     *)
(* with.                                                                   *)
Latched ==
  result_valid /\ ~run_pending => state = "Done" /\ done /\ result = Res!Counters

Handshake == Resting /\ Pending /\ Latched

(* The bus waits out an edge after every access, so the port has settled   *)
(* before the next one.                                                    *)
PortFresh == BusWaits => GridFresh /\ (~waiting => grid_seen = Grid!inputs)

IInv == TypeOK /\ DriverTypes /\ WiresFresh /\ PortFresh /\ Handshake

-----------------------------------------------------------------------------
(* What a traversal keeps, besides.                                        *)

(* The registers hold the grid of the job, as far as it has been loaded.   *)
Loaded == \/ pc \in {"enable_read", "enable_write", "start_read", "start_write", "wait_done", "result"}
          \/ pc = "idle" /\ runs > 0

Configured ==
  /\ Loaded \/ pc \in {"cols", "origin", "params", "cells"} => rows = job.rows
  /\ Loaded \/ pc \in {"origin", "params", "cells"} => cols = job.cols
  /\ Loaded \/ pc = "cells" => params = job.params
  /\ Loaded => \A i \in DOMAIN job.cells : cells[i] = job.cells[i]
  /\ pc \in {"rows", "cols", "origin", "params", "cells"} =>
       \A i \in DOMAIN job.cells : i < index => cells[i] = job.cells[i]

(* The last value on the write port is in memory already.                  *)
PortWritten == grid_we => cells[grid_waddr] = grid_wdata

(* A run needs no settling: the port is written between runs only.         *)
RunSettled == state \notin {"Idle", "Done"} => grid_seen = Grid!inputs

(* The scan is inside the grid, or at the start of the row after the last. *)
ScanInGrid ==
  state \notin {"Idle", "Done", "LoadStart"} =>
    scan[1] < cols /\ (scan[2] < rows \/ (scan[2] = rows /\ scan[1] = 0))

StackEmpty == state \in {"Idle", "Done", "LoadStart", "ScanNext"} => Stk!EffSp = 0

(* Whatever waits to be visited is a cell of the grid. *)
ItemsOnGrid == \A i \in 1 .. Stk!EffSp : Ngen!OnGrid(Stk!EffItems[i])

OnGrid ==
  /\ ItemsOnGrid
  /\ state = "Visit" => Ngen!OnGrid(cur_node) /\ vis_addr = Index(cur_node)
  /\ state = "PushNeighbor" => Ngen!OnGrid(nbr_latch)
  /\ ngen_valid_out => Ngen!OnGrid(ngen_nbr)

(* The generator works for the node whose neighbours the FSM is asking     *)
(* for, and answers a request at the edge after it.                        *)
Asking ==
  CASE state = "GenNeighbors" /\ ngen_wait  -> ngen_valid_in /\ ~ngen_valid_out
    [] state = "GenNeighbors" /\ ~ngen_wait -> ~ngen_valid_in /\ (ngen_valid_out <=> active)
    [] state = "PushNeighbor" -> ~ngen_valid_in /\ ~ngen_valid_out /\ active
    [] OTHER                  -> ~ngen_valid_in /\ ~ngen_valid_out /\ ~active

RootMarked == state \in {"GenNeighbors", "PushNeighbor"} => ~is_new_island_start

(* A mark is set inside the memory. *)
MarkInMemory == vis_we => vis_addr \in 0 .. MaxCells - 1

(* The testbench holds reset until the first run. *)
Untouched ==
  pc = "reset" => /\ sp = 0 /\ runs = 0 /\ state = "Idle" /\ island_count = 0
                  /\ visited_count = 0 /\ overflow = FALSE /\ is_new_island_start = FALSE

Fill == /\ Configured /\ PortWritten /\ RunSettled /\ ScanInGrid /\ StackEmpty /\ OnGrid /\ Asking
        /\ RootMarked /\ MarkInMemory /\ Untouched

-----------------------------------------------------------------------------
(* What an access does to the accelerator.                                 *)
HostWrite ==
  \/ \E enable, start \in BOOLEAN : WriteControl(enable, start)
  \/ \E n \in Nat : WriteRows(n) \/ WriteCols(n) \/ WriteParams(n)
  \/ WriteUnused
  \/ \E n \in Nat, v \in Int : WriteCell(n, v)

(* An access leaves the engine alone, and the grid but for a cell write.   *)
LEMMA HostWriteFrame ==
  ASSUME HostWrite
  PROVE  /\ UNCHANGED Inner /\ UNCHANGED <<grid_value, grid_seen>>
         /\ NotTheGrid \/ \E n \in Nat, v \in Int : WriteCell(n, v)
BY DEF HostWrite, WriteControl, WriteRows, WriteCols, WriteParams, WriteUnused, WriteCell,
       NotTheGrid, gridmem

(* The parts of a job are of their types.                                  *)
LEMMA JobTypes ==
  ASSUME DriverTypes
  PROVE  /\ job.rows \in Nat /\ job.cols \in Nat /\ job.params \in Nat
         /\ \A i \in DOMAIN job.cells : i \in Nat /\ job.cells[i] \in Int
<1>1. job.rows \in Nat /\ job.cols \in Nat
  BY DEF DriverTypes
<1>2. job.rows * job.cols \in Nat
  BY <1>1
<1>3. QED BY <1>1, <1>2 DEF DriverTypes

(* A step of the driver releases reset, writes a register, or only reads.  *)
LEMMA RunIs ==
  ASSUME DriverTypes, run
  PROVE  ReleaseReset \/ UNCHANGED vars \/ (HostWrite /\ ~waiting /\ waiting' = BusWaits)
<1>1. CASE ReleaseReset
  BY <1>1
<1>2. CASE \E j \in Jobs : BeginRun(j)
  BY <1>2 DEF BeginRun
<1>3. CASE LoadRows \/ LoadCols \/ LoadOrigin \/ LoadParams
  BY <1>3, JobTypes DEF LoadRows, LoadCols, LoadOrigin, LoadParams, HostWrite, Access
<1>4. CASE LoadCell
  BY <1>4, JobTypes DEF LoadCell, HostWrite, Access
<1>5. CASE EnableRead \/ StartRead
  BY <1>5 DEF EnableRead, StartRead, ReadControl
<1>6. CASE EnableWrite
  BY <1>6 DEF EnableWrite, HostWrite, DriverTypes, Access
<1>7. CASE StartWrite
  BY <1>7 DEF StartWrite, HostWrite, DriverTypes, Access
<1>8. CASE Poll \/ ReadResult
  BY <1>8 DEF Poll, ReadResult
<1>9. QED BY <1>1, <1>2, <1>3, <1>4, <1>5, <1>6, <1>7, <1>8 DEF run

(* Every step keeps the types of the variables of the driver.              *)
LEMMA DriverTypesStep == ASSUME TypeOK, DriverTypes, [Next]_allvars PROVE DriverTypes'
<1> USE DEF DriverTypes, Steps
<1>1. CASE Clock
  BY <1>1 DEF Clock
<1>2. CASE Delta \/ UNCHANGED allvars
  BY <1>2 DEF Delta, driver, allvars
<1>3. CASE ReleaseReset
  BY <1>3 DEF ReleaseReset
<1>4. ASSUME NEW j \in Jobs, BeginRun(j) PROVE DriverTypes'
  BY <1>4 DEF BeginRun
<1>5. CASE LoadRows \/ LoadCols \/ LoadOrigin \/ LoadParams \/ EnableWrite \/ StartWrite
  BY <1>5, BusWaitsAssumption
  DEF LoadRows, LoadCols, LoadOrigin, LoadParams, EnableWrite, StartWrite, Access, Kept
<1>6. CASE LoadCell
  BY <1>6, BusWaitsAssumption DEF LoadCell, Access
<1>7. CASE EnableRead \/ StartRead
  <2>1. pc' \in Steps /\ waiting' \in BOOLEAN /\ UNCHANGED <<job, index>> /\ ctrl' = ControlReg
    BY <1>7, BusWaitsAssumption DEF EnableRead, StartRead, ReadControl, Access
  <2>2. ControlReg.enable \in BOOLEAN /\ ControlReg.start \in BOOLEAN
    BY DEF ControlReg, TypeOK
  <2>3. QED BY <2>1, <2>2
<1>8. CASE Poll \/ ReadResult
  BY <1>8, BusWaitsAssumption DEF Poll, ReadResult, Access, Kept
<1>9. QED BY <1>1, <1>2, <1>3, <1>4, <1>5, <1>6, <1>7, <1>8 DEF Next, run

-----------------------------------------------------------------------------
(* What an edge does with the FSM while it rests, and when it leaves.      *)
LEMMA FsmRests ==
  ASSUME Ctl!run_fsm
  PROVE  /\ ~rst_n => state' = "Idle" /\ ~busy' /\ ~done'
         /\ ~rst_n \/ state \in {"Idle", "Done"} =>
              ~stk_push' /\ ~stk_pop' /\ ~vis_we' /\ ~ngen_valid_in'
         /\ rst_n /\ state \in {"Idle", "Done"} /\ start_pulse =>
              state' = "LoadStart" /\ ~busy' /\ ~done'
         /\ rst_n /\ state \in {"Idle", "Done"} /\ ~start_pulse =>
              /\ ~busy' /\ (done' <=> state = "Done")
              /\ ~stk_push' /\ ~stk_pop' /\ ~vis_we' /\ ~ngen_valid_in'
              /\ UNCHANGED <<state, stk_in, vis_addr, visited_count, island_count, overflow,
                             is_new_island_start>>
         /\ rst_n /\ state = "LoadStart" => state' = "ScanNext" /\ busy'
         /\ rst_n /\ state \notin {"Idle", "Done", "LoadStart"} => busy'
<1> USE DEF Ctl!Raise
<1>1. CASE Ctl!Reset     BY <1>1 DEF Ctl!Reset
<1>2. CASE Ctl!Idle /\ rst_n
  BY <1>2 DEF Ctl!Idle, Ctl!NewRun, Ctl!counters
<1>3. CASE Ctl!LoadStart /\ rst_n BY <1>3 DEF Ctl!LoadStart
<1>4. CASE Ctl!ScanNext /\ rst_n  BY <1>4 DEF Ctl!ScanNext
<1>5. CASE Ctl!ScanEnd /\ rst_n   BY <1>5 DEF Ctl!ScanEnd
<1>6. CASE Ctl!PopEmpty /\ rst_n  BY <1>6 DEF Ctl!PopEmpty
<1>7. CASE Ctl!Pop /\ rst_n       BY <1>7 DEF Ctl!Pop
<1>8. CASE Ctl!VisitSkip /\ rst_n BY <1>8 DEF Ctl!VisitSkip
<1>9. CASE Ctl!Visit /\ rst_n     BY <1>9 DEF Ctl!Visit
<1>10. CASE Ctl!GenWait /\ rst_n  BY <1>10 DEF Ctl!GenWait
<1>11. CASE Ctl!GenLatch /\ rst_n BY <1>11 DEF Ctl!GenLatch
<1>12. CASE Ctl!GenIdle /\ rst_n  BY <1>12 DEF Ctl!GenIdle
<1>13. CASE Ctl!PushNeighbor /\ rst_n BY <1>13 DEF Ctl!PushNeighbor
<1>14. CASE Ctl!DoneHold /\ rst_n BY <1>14 DEF Ctl!DoneHold, Ctl!private, Ctl!counters
<1>15. CASE Ctl!DoneRestart /\ rst_n BY <1>15 DEF Ctl!DoneRestart, Ctl!NewRun
<1>16. QED BY <1>1, <1>2, <1>3, <1>4, <1>5, <1>6, <1>7, <1>8, <1>9, <1>10, <1>11, <1>12,
              <1>13, <1>14, <1>15 DEF Ctl!run_fsm

(* An edge of the accelerator keeps the handshake.                         *)
LEMMA HandshakeTick == ASSUME IInv, Clock PROVE Handshake'
<1>1. /\ UNCHANGED <<rst_n, pc, ctrl>>
      /\ start_pulse' = start_requested /\ start_requested' = FALSE
      /\ run_pending' = (run_pending /\ ~busy)
      /\ result_valid' = (rst_n /\ done)
  BY DEF Clock, Tick, drive_start_pulse, Res!Latch
<1>2. Ctl!run_fsm
  BY DEF Clock, Tick
<1>3. Resting /\ Pending /\ Latched /\ DoneKept
  BY DEF IInv, Handshake, WiresFresh
<1>4. Resting'
  BY <1>1, <1>2, <1>3, FsmRests DEF Resting, Pending
<1>5. Pending'
  BY <1>1, <1>2, <1>3, FsmRests DEF Resting, Pending
<1>6. Latched'
  <2>1. SUFFICES ASSUME rst_n, done, ~run_pending'
                 PROVE  state' = "Done" /\ done' /\ result' = Res!Counters'
    BY <1>1 DEF Latched
  <2>2. state = "Done" /\ ~run_pending /\ ~start_requested /\ ~start_pulse
    BY <1>1, <1>3, <2>1 DEF DoneKept, Pending
  <2>3. /\ state' = "Done" /\ done' /\ ~stk_push' /\ ~stk_pop'
        /\ UNCHANGED <<stk_in, visited_count, island_count>>
    BY <1>2, <2>1, <2>2, FsmRests
  <2>4. ~stk_push /\ ~stk_pop
    BY <2>2 DEF IInv, WiresFresh, Requests
  <2>5. start_pulse' = start_pulse
    BY <1>1, <2>2 DEF IInv, TypeOK
  <2>6. stk_push' = stk_push /\ stk_pop' = stk_pop
    BY <2>3, <2>4, TypeTick DEF IInv, TypeOK, Clock
  <2>7. Stk!inputs' = Stk!inputs
    BY <1>1, <2>3, <2>5, <2>6 DEF Stk!inputs
  <2>8. stk_out' = stk_out
    BY <2>7 DEF Clock, Tick, Stk!Preview
  <2>9. result' = Res!Counters
    BY <2>1 DEF Clock, Tick, Res!Latch
  <2>10. QED BY <2>3, <2>8, <2>9 DEF Res!Counters
<1>7. QED BY <1>4, <1>5, <1>6 DEF Handshake

(* The handshake seen by the host's side. *)
LEMMA HandshakeRun == ASSUME IInv, run PROVE Handshake'
<1>1. Resting /\ Pending /\ Latched
  BY DEF IInv, Handshake
<1>2. CASE ReleaseReset
  <2>1. /\ UNCHANGED <<state, busy, done, result, result_valid, ctrl>> /\ UNCHANGED handshake
        /\ rst_n' = TRUE /\ pc = "reset" /\ pc' = "idle"
    BY <1>2 DEF ReleaseReset, SetReset, controller, results
  <2>2. QED BY <1>1, <2>1 DEF Handshake, Resting, Pending, Latched, handshake
<1>3. ASSUME UNCHANGED Inner, UNCHANGED handshake, pc # "reset", pc' # "reset",
             ctrl'.start = FALSE, pc' = "wait_done" => pc = "wait_done",
             pc = "wait_done" => pc' = "wait_done" \/ Status.done
      PROVE  Handshake'
  <2>1. UNCHANGED <<rst_n, state, busy, done, result, result_valid, start_pulse, start_requested,
                    run_pending, island_count, visited_count, stk_out>>
    BY <1>3 DEF Inner, controller, results, stack, handshake
  <2>2. Resting'
    BY <1>1, <1>3, <2>1 DEF Resting, Latched, Status, IInv, WiresFresh, DoneKept
  <2>3. QED BY <1>1, <2>1, <2>2 DEF Handshake, Pending, Latched, Res!Counters
<1>4. UNCHANGED vars => UNCHANGED Inner /\ UNCHANGED handshake
  BY DEF vars, Inner, handshake
<1>5. ASSUME NEW j \in Jobs, BeginRun(j) PROVE Handshake'
  <2>1. UNCHANGED vars /\ ctrl' = ctrl /\ pc = "idle" /\ pc' = "rows"
    BY <1>5 DEF BeginRun
  <2>2. QED BY <1>1, <1>3, <1>4, <2>1 DEF Resting
<1>6. CASE LoadRows \/ LoadCols \/ LoadOrigin \/ LoadParams
  <2>1. /\ UNCHANGED Inner /\ UNCHANGED handshake /\ ctrl' = ctrl
        /\ pc \in {"rows", "cols", "origin", "params"}
        /\ pc' \in {"cols", "origin", "params", "cells"}
    BY <1>6 DEF LoadRows, LoadCols, LoadOrigin, LoadParams, WriteRows, WriteCols, WriteUnused,
                WriteParams, Access, Kept
  <2>2. QED BY <1>1, <1>3, <2>1 DEF Resting
<1>7. CASE LoadCell
  <2>1. /\ UNCHANGED Inner /\ UNCHANGED handshake /\ ctrl' = ctrl
        /\ pc = "cells" /\ pc' \in {"cells", "enable_read"}
    BY <1>7 DEF LoadCell, WriteCell, Access
  <2>2. QED BY <1>1, <1>3, <2>1 DEF Resting
<1>8. CASE EnableRead \/ StartRead
  <2>1. /\ UNCHANGED vars /\ ctrl' = ControlReg
        /\ pc \in {"enable_read", "start_read"} /\ pc' \in {"enable_write", "start_write"}
    BY <1>8 DEF EnableRead, StartRead, ReadControl, Access
  <2>2. ~start_requested
    BY <1>1, <2>1 DEF Resting, Pending
  <2>3. ctrl'.start = FALSE
    BY <2>1, <2>2 DEF ControlReg, IInv, TypeOK
  <2>4. QED BY <1>3, <1>4, <2>1, <2>3
<1>9. CASE EnableWrite
  <2>1. /\ UNCHANGED Inner /\ ctrl' = ctrl /\ pc = "enable_write" /\ pc' = "start_read"
        /\ start_requested' = (start_requested \/ ctrl.start)
        /\ run_pending' = (run_pending \/ ctrl.start) /\ start_pulse' = start_pulse
    BY <1>9 DEF EnableWrite, WriteControl, Access, Kept, Inner
  <2>2. start_requested' = start_requested /\ run_pending' = run_pending
    BY <1>1, <2>1 DEF Resting, IInv, TypeOK
  <2>3. QED BY <1>1, <1>3, <2>1, <2>2 DEF Resting, handshake
<1>10. CASE StartWrite
  <2>1. /\ UNCHANGED <<rst_n, state, busy, done, result, result_valid, start_pulse, ctrl>>
        /\ pc = "start_write" /\ pc' = "wait_done"
        /\ start_requested' = TRUE /\ run_pending' = TRUE
    BY <1>10 DEF StartWrite, WriteControl, Access, Kept, Inner, controller, results
  <2>2. state \in {"Idle", "Done"} /\ ~busy /\ ~start_pulse
    BY <1>1, <2>1 DEF Resting, Pending
  <2>3. QED BY <1>1, <2>1, <2>2 DEF Handshake, Resting, Pending, Latched
<1>11. CASE Poll \/ ReadResult
  <2>1. /\ UNCHANGED vars /\ ctrl' = ctrl /\ pc \in {"wait_done", "result"}
        /\ pc' = "wait_done" => pc = "wait_done"
        /\ pc' # "reset" /\ (pc = "wait_done" => pc' = "wait_done" \/ Status.done)
    BY <1>11 DEF Poll, ReadResult, Access, Kept
  <2>2. QED BY <1>1, <1>3, <1>4, <2>1 DEF Resting
<1>12. QED BY <1>2, <1>5, <1>6, <1>7, <1>8, <1>9, <1>10, <1>11 DEF run

-----------------------------------------------------------------------------
(* IInv is inductive.                                                      *)
LEMMA IInvStep == ASSUME IInv, [Next]_allvars PROVE IInv'
<1>1. DriverTypes'
  BY DriverTypesStep DEF IInv
<1>2. CASE Clock
  <2>1. TypeOK' /\ WiresFresh'
    BY <1>2, TypeTick, TickStep DEF Clock, IInv
  <2>2. PortFresh'
    BY <1>2, GridTick DEF Clock, Tick, IInv, PortFresh
  <2>3. QED BY <1>1, <1>2, <2>1, <2>2, HandshakeTick DEF IInv
<1>3. CASE Delta
  <2>1. TypeOK' /\ WiresFresh'
    BY <1>3, TypeAccess, HostStep DEF Delta, Settle, Inner, results, IInv
  <2>2. PortFresh'
    BY <1>3, GridSettle DEF Delta, IInv, PortFresh
  <2>3. UNCHANGED <<pc, ctrl>> /\ UNCHANGED handshake /\ UNCHANGED Inner
    BY <1>3 DEF Delta, Settle, driver
  <2>4. Handshake'
    BY <2>3 DEF IInv, Handshake, Resting, Pending, Latched, Res!Counters, handshake, Inner,
                controller, results, stack
  <2>5. QED BY <1>1, <2>1, <2>2, <2>4 DEF IInv
<1>4. CASE run
  <2>1. CASE ReleaseReset
    <3>1. SetReset(TRUE) /\ ~rst_n /\ UNCHANGED waiting
      BY <2>1 DEF ReleaseReset, IInv, Handshake, Resting
    <3>2. SetReset(~rst_n)
      BY <3>1 DEF IInv, TypeOK
    <3>3. TypeOK' /\ WiresFresh'
      BY <3>1, <3>2, TypeAccess, ResetStep DEF IInv
    <3>4. PortFresh'
      BY <3>1 DEF SetReset, IInv, PortFresh, GridFresh, Grid!inputs, Grid!Shown, port, gridmem,
                  controller
    <3>5. QED BY <1>1, <1>4, <3>3, <3>4, HandshakeRun DEF IInv
  <2>2. CASE UNCHANGED vars
    <3>1. TypeOK' /\ WiresFresh'
      BY <2>2, TypeAccess, HostStep DEF vars, handshake, results, IInv
    <3>2. BusWaits /\ ~waiting' => ~waiting
      BY <1>4, <2>2
      DEF run, ReleaseReset, BeginRun, LoadRows, LoadCols, LoadOrigin, LoadParams, LoadCell,
          EnableRead, StartRead, ReadControl, EnableWrite, StartWrite, Poll, ReadResult, Access
    <3>3. PortFresh'
      BY <2>2, <3>2 DEF vars, IInv, PortFresh, GridFresh, Grid!inputs, Grid!Shown, port, gridmem,
                    controller
    <3>4. QED BY <1>1, <1>4, <3>1, <3>3, HandshakeRun DEF IInv
  <2>3. CASE HostWrite /\ ~waiting /\ waiting' = BusWaits
    <3>1. UNCHANGED Inner
      BY <2>3, HostWriteFrame
    <3>2. TypeOK' /\ WiresFresh'
      BY <2>3, <3>1, TypeAccess, HostStep DEF HostWrite, Inner, results, IInv
    <3>3. PortFresh'
      <4>1. BusWaits => waiting'
        BY <2>3
      <4>2. QED BY <2>3, <3>1, <4>1, HostWriteFrame, GridAccess
            DEF IInv, PortFresh, Inner, controller
    <3>4. QED BY <1>1, <1>4, <3>2, <3>3, HandshakeRun DEF IInv
  <2>4. QED BY <1>4, <2>1, <2>2, <2>3, RunIs DEF IInv
<1>5. CASE UNCHANGED allvars
  <2>1. UNCHANGED vars /\ UNCHANGED <<pc, ctrl, waiting>>
    BY <1>5 DEF allvars, driver
  <2>2. TypeOK' /\ WiresFresh'
    BY <2>1, TypeAccess, HostStep DEF vars, handshake, results, IInv
  <2>3. PortFresh'
    BY <2>1 DEF vars, IInv, PortFresh, GridFresh, Grid!inputs, Grid!Shown, port, gridmem,
                controller
  <2>4. Handshake'
    BY <2>1 DEF IInv, Handshake, Resting, Pending, Latched, Res!Counters, handshake, vars,
                controller, results, stack
  <2>5. QED BY <1>1, <2>2, <2>3, <2>4 DEF IInv
<1>6. QED BY <1>2, <1>3, <1>4, <1>5 DEF Next

(* The handshake holds before reset is released.                           *)
LEMMA IInvInit == DriverInit => IInv
<1>1. SUFFICES ASSUME DriverInit PROVE IInv
  OBVIOUS
<1>2. InitWith(FALSE, 0, 0, 0, [a \in 0 .. MaxCells - 1 |-> 0])
  BY <1>1 DEF DriverInit, Init
<1>3. [a \in 0 .. MaxCells - 1 |-> 0] \in [0 .. MaxCells - 1 -> Int]
  OBVIOUS
<1>4. TypeOK
  BY <1>2, <1>3, TypeInit
<1>5. WiresFresh /\ GridFresh
  BY <1>2, FreshInit
<1>6. grid_seen = Grid!inputs /\ rst_n = FALSE /\ state = "Idle" /\ busy = FALSE /\ result_valid = FALSE
      /\ start_requested = FALSE /\ run_pending = FALSE /\ start_pulse = FALSE
  BY <1>2 DEF InitWith, Ctl!Init
<1>7. pc = "reset" /\ job \in Jobs /\ index = 0 /\ ctrl = ControlReg /\ waiting = FALSE
  BY <1>1 DEF DriverInit
<1>8. DriverTypes
  BY <1>4, <1>7 DEF DriverTypes, Steps, ControlReg, TypeOK
<1>9. Handshake
  BY <1>6, <1>7 DEF Handshake, Resting, Pending, Latched, ControlReg
<1>10. QED BY <1>4, <1>5, <1>6, <1>8, <1>9 DEF IInv, PortFresh

(* IInv is an invariant.                                                   *)
LEMMA Invariance == Spec => []IInv
BY IInvInit, IInvStep, PTL DEF Spec

-----------------------------------------------------------------------------
(* The driver's accesses leave every register and signal in its range.     *)
THEOREM TypesKept == Spec => []TypeOK
<1>1. IInv => TypeOK
  BY DEF IInv
<1>2. QED BY <1>1, Invariance, PTL

(* At every edge the FSM finds on its wires what the stack and the         *)
(* memories hold, under the driver and the bus of tlm_bus.h, which waits   *)
(* after every access.                                                     *)
THEOREM PreviewsAreFresh == ASSUME BusWaits PROVE Spec => []PreviewsFresh
<1>1. IInv => PreviewsFresh
  BY DEF IInv, PreviewsFresh, WiresFresh, StackFresh, MarksFresh, PortFresh, GridFresh
<1>2. QED BY <1>1, Invariance, PTL

(* A driver that reads Done reads the result of the run it started, never  *)
(* the one before (run_pending_, dfs_accelerator.h:232), whether its bus   *)
(* waits or not.                                                           *)
THEOREM DoneIsOwn == Spec => []DoneIsThisRun
<1>1. IInv => DoneIsThisRun
  BY DEF IInv, Handshake, Pending, Latched, DoneIsThisRun, Status
<1>2. QED BY <1>1, Invariance, PTL

-----------------------------------------------------------------------------
Running == state \notin {"Idle", "Done"}

(* Types, as the lemmas about the stack ask for them.                      *)
LEMMA TypeRegistered == TypeOK => Registered
BY TypeParts DEF Registered, StackTypes, ControllerTypes

(* An edge leaves the grid as it was loaded. *)
LEMMA GridKept ==
  ASSUME IInv, Fill, Clock
  PROVE  /\ UNCHANGED <<rst_n, rows, cols, params, cells, grid_we, grid_waddr, grid_wdata>>
         /\ UNCHANGED <<pc, job, index, runs>>
         /\ Registered /\ Registered'
<1>1. /\ UNCHANGED <<rst_n, rows, cols, params, grid_we, grid_waddr, grid_wdata>>
      /\ UNCHANGED <<pc, job, index, runs>>
  BY DEF Clock, Tick, config, port
<1>2. cells' = cells
  <2>1. cells \in [0 .. MaxCells - 1 -> Int] /\ (grid_we => cells[grid_waddr] = grid_wdata)
    BY TypeParts DEF IInv, MemoryTypes, Fill, PortWritten
  <2>2. QED BY <2>1 DEF Clock, Tick, Grid!Commit
<1>3. Registered
  BY TypeRegistered DEF IInv
<1>4. Registered'
  <2>1. (TypeOK => Registered)'
    BY TypeRegistered, PTL
  <2>2. QED BY <2>1, TypeTick DEF IInv, Clock
<1>5. QED BY <1>1, <1>2, <1>3, <1>4

(* What an edge does, by component.                                        *)
LEMMA TickParts ==
  ASSUME Clock
  PROVE  Ctl!run_fsm /\ Stk!Commit /\ Stk!Preview /\ Ngen!Generate /\ Vis!Commit /\ Vis!Preview
BY DEF Clock, Tick

(* What holds at an edge while a run goes on. *)
LEMMA RunFacts ==
  ASSUME IInv, Fill, Clock, Running
  PROVE  /\ pc = "wait_done" /\ rst_n = TRUE /\ start_pulse = FALSE /\ start_pulse' = FALSE
         /\ ~Stk!Held /\ ~Stk!Held'
         /\ rows = job.rows /\ cols = job.cols /\ params = job.params
         /\ rows \in Nat \ {0} /\ cols \in Nat \ {0} /\ Fits
<1>1. pc = "wait_done" /\ rst_n
  BY DEF Running, IInv, Handshake, Resting
<1>2. ~start_requested /\ ~start_pulse
  BY DEF Running, IInv, Handshake, Pending
<1>3. start_pulse \in BOOLEAN /\ start_requested \in BOOLEAN /\ rst_n \in BOOLEAN
  BY TypeParts DEF IInv, ConfigTypes
<1>4. rst_n = TRUE /\ start_pulse = FALSE /\ start_pulse' = FALSE
  BY <1>1, <1>2, <1>3 DEF Clock, Tick, drive_start_pulse
<1>5. rst_n' = TRUE
  BY <1>4, GridKept
<1>6. rows = job.rows /\ cols = job.cols /\ params = job.params
  BY <1>1 DEF Fill, Configured, Loaded
<1>7. rows \in Nat \ {0} /\ cols \in Nat \ {0} /\ Fits
  BY <1>6 DEF IInv, DriverTypes, Fits
<1>8. QED BY <1>1, <1>4, <1>5, <1>6, <1>7 DEF Stk!Held

(* An edge leaves the grid as it was loaded.                               *)
LEMMA FillGrid == ASSUME IInv, Fill, Clock PROVE Configured' /\ PortWritten' /\ RunSettled'
<1>1. Configured'
  BY GridKept DEF Fill, Configured, Loaded
<1>2. PortWritten'
  BY GridKept DEF Fill, PortWritten
<1>3. RunSettled'
  BY DEF RunSettled, Clock, Tick, Grid!Preview
<1>4. QED BY <1>1, <1>2, <1>3

(* The generator over an edge of a run. *)
LEMMA GeneratorRuns ==
  ASSUME TypeOK, Ngen!Generate, rst_n = TRUE, UNCHANGED <<rows, cols>>
  PROVE  /\ ~ngen_valid_in =>
              ~ngen_valid_out' /\ UNCHANGED <<active, next_dir, num_dirs, base, ngen_nbr>>
         /\ ngen_valid_in => (ngen_valid_out' <=> active')
         /\ ngen_valid_in /\ ngen_valid_out' => (Ngen!OnGrid(ngen_nbr))'
<1>1. CASE Ngen!NoRequest
  BY <1>1 DEF Ngen!NoRequest
<1>2. CASE Ngen!Emit
  <2>1. active' = TRUE /\ ngen_valid_out' = TRUE /\ ngen_valid_in
    BY <1>2 DEF Ngen!Emit
  <2>2. Ngen!OnGrid(ngen_nbr')
    BY <1>2 DEF Ngen!Emit, Ngen!Dirs
  <2>3. (Ngen!OnGrid(ngen_nbr))'
    BY <2>2 DEF Ngen!OnGrid
  <2>4. QED BY <2>1, <2>3
<1>3. CASE Ngen!Exhausted
  BY <1>3 DEF Ngen!Exhausted
<1>4. QED BY <1>1, <1>2, <1>3 DEF Ngen!Generate, Ngen!Reset

(* Fill over an edge at which no run goes on. *)
LEMMA FillRests == ASSUME IInv, Fill, Clock, ~Running PROVE Fill'
<1>1. Ctl!run_fsm /\ Ngen!Generate /\ Stk!Commit
  BY DEF Clock, Tick
<1>2. /\ ~stk_push' /\ ~stk_pop' /\ ~vis_we' /\ ~ngen_valid_in'
      /\ state' \in {"Idle", "Done", "LoadStart"}
  BY <1>1, FsmRests DEF Running
<1>3. Stk!EffSp = 0 /\ ~active /\ ~ngen_valid_in
  BY DEF Running, Fill, StackEmpty, Asking
<1>4. Stk!EffSp' = 0
  <2>1. CASE Stk!Held'
    <3>1. (Registered => EffSpCases)'
      BY EffSpIs, PTL
    <3>2. QED BY <2>1, <3>1, GridKept DEF EffSpCases
  <2>2. CASE ~Stk!Held'
    BY <1>1, <1>2, <1>3, <2>2, ItemsTick, GridKept
  <2>3. QED BY <2>1, <2>2
<1>5. ~ngen_valid_out' /\ ~active'
  BY <1>1, <1>3 DEF Ngen!Generate, Ngen!Reset, Ngen!NoRequest, Ngen!Emit, Ngen!Exhausted
<1>6. OnGrid'
  BY <1>2, <1>4, <1>5 DEF OnGrid, ItemsOnGrid
<1>7. Asking'
  BY <1>2, <1>5 DEF Asking
<1>8. ScanInGrid' /\ StackEmpty' /\ RootMarked' /\ MarkInMemory'
  BY <1>2, <1>4 DEF ScanInGrid, StackEmpty, RootMarked, MarkInMemory
<1>9. sp' = 0
  BY <1>1, <1>3, ItemsCommitted, GridKept
<1>10. Untouched'
  <2>1. SUFFICES ASSUME pc' = "reset" PROVE Untouched'
    BY DEF Untouched
  <2>2. pc = "reset" /\ runs = 0 /\ ~rst_n /\ runs' = 0
    BY <2>1, GridKept DEF Fill, Untouched, IInv, Handshake, Resting
  <2>3. Ctl!Reset
    BY <1>1, <2>2 DEF Ctl!run_fsm
  <2>4. QED BY <1>9, <2>2, <2>3 DEF Untouched, Ctl!Reset
<1>11. QED BY <1>6, <1>7, <1>8, <1>9, <1>10, FillGrid DEF Fill

(* What the stack shows the FSM in a run. *)
LEMMA ShownToFsm ==
  ASSUME IInv, Fill, Clock, Running
  PROVE  /\ stk_out.full <=> Stk!EffSp >= StackDepth
         /\ stk_out.empty <=> Stk!EffSp = 0
         /\ Stk!EffSp \in 0 .. StackDepth
         /\ Stk!EffSp # 0 => stk_out.top = Stk!EffItems[Stk!EffSp]
<1>1. stk_out = Stk!Shown /\ ~Stk!Held
  BY RunFacts DEF IInv, WiresFresh, StackFresh
<1>2. Stk!EffSp \in 0 .. StackDepth
  BY GridKept, EffSpIs DEF EffSpCases
<1>3. Stk!EffSp # 0 => stk_out.top = Stk!EffItems[Stk!EffSp]
  <2>1. SUFFICES ASSUME Stk!EffSp # 0 PROVE stk_out.top = Stk!EffItems[Stk!EffSp]
    OBVIOUS
  <2>2. Stk!EffSp \in 1 .. Stk!EffSp
    BY <1>2, <2>1
  <2>3. QED BY <1>1, <2>1, <2>2 DEF Stk!Shown, Stk!EffItems
<1>4. QED BY <1>1, <1>2, <1>3 DEF Stk!Shown

(* A state that asks nothing of the stack leaves it as it is. *)
LEMMA QuietItems ==
  ASSUME IInv, Fill, Clock, Running, ~stk_push', ~stk_pop'
  PROVE  Stk!EffSp' = Stk!EffSp /\ ItemsOnGrid'
<1>1. /\ Stk!EffSp' = Stk!EffSp
      /\ \A i \in 1 .. Stk!EffSp : Stk!EffItems'[i] = Stk!EffItems[i]
  BY GridKept, RunFacts, ItemsTick, TickParts
<1>2. UNCHANGED <<rows, cols>>
  BY GridKept
<1>3. QED BY <1>1, <1>2 DEF Fill, OnGrid, ItemsOnGrid, Ngen!OnGrid

(* One lemma for every state of the FSM: Fill after its edge. *)
RestOfFill == ScanInGrid /\ StackEmpty /\ OnGrid /\ Asking /\ RootMarked

(* A step of the scan keeps the rest of Fill.                              *)
LEMMA FillScan ==
  ASSUME IInv, Fill, Clock, Running,
         Ctl!LoadStart \/ Ctl!ScanNext \/ Ctl!ScanEnd \/ Ctl!PopEmpty
  PROVE  RestOfFill'
<1>1. /\ UNCHANGED <<rows, cols>> /\ ~active' /\ ~ngen_valid_out' /\ ~ngen_valid_in'
  <2>1. ~active /\ ~ngen_valid_in
    BY DEF Ctl!LoadStart, Ctl!ScanNext, Ctl!ScanEnd, Ctl!PopEmpty, Fill, Asking
  <2>2. ~active' /\ ~ngen_valid_out'
    BY <2>1, GridKept, RunFacts, GeneratorRuns, TickParts DEF IInv
  <2>3. ~ngen_valid_in'
    BY DEF Ctl!LoadStart, Ctl!ScanNext, Ctl!ScanEnd, Ctl!PopEmpty, Ctl!Raise
  <2>4. QED BY <2>2, <2>3, GridKept
<1>2. rows \in Nat \ {0} /\ cols \in Nat \ {0} /\ scan \in Coord
  BY RunFacts, TypeParts DEF IInv, ControllerTypes
<1>3. CASE Ctl!LoadStart \/ Ctl!ScanEnd \/ Ctl!PopEmpty
  <2>1. ~stk_push' /\ ~stk_pop'
    <3>1. Ctl!Raise({})
      BY <1>3 DEF Ctl!LoadStart, Ctl!ScanEnd, Ctl!PopEmpty
    <3>2. QED BY <3>1 DEF Ctl!Raise
  <2>2. Stk!EffSp = 0
    BY <1>3, ShownToFsm DEF Ctl!LoadStart, Ctl!ScanEnd, Ctl!PopEmpty, Fill, StackEmpty
  <2>3. Stk!EffSp' = 0 /\ ItemsOnGrid'
    BY <2>1, <2>2, QuietItems
  <2>4. state' \in {"ScanNext", "Done"}
    BY <1>3 DEF Ctl!LoadStart, Ctl!ScanEnd, Ctl!PopEmpty
  <2>5. ScanInGrid'
    <3>1. CASE Ctl!LoadStart
      BY <1>1, <1>2, <3>1 DEF Ctl!LoadStart, ScanInGrid
    <3>2. CASE Ctl!ScanEnd \/ Ctl!PopEmpty
      BY <1>1, <3>2 DEF Ctl!ScanEnd, Ctl!PopEmpty, ScanInGrid, Fill
    <3>3. QED BY <1>3, <3>1, <3>2
  <2>6. QED BY <1>1, <2>3, <2>4, <2>5 DEF RestOfFill, StackEmpty, OnGrid, Asking, RootMarked
<1>4. CASE Ctl!ScanNext
  <2>1. Stk!EffSp = 0 /\ ~stk_out.full
    BY <1>4, ShownToFsm DEF Ctl!ScanNext, Fill, StackEmpty
  <2>2. /\ stk_push' /\ stk_in' = scan /\ state' = "Pop" /\ scan' = Ctl!NextScan
        /\ state = "ScanNext" /\ scan[2] < rows
    BY <1>4, <2>1 DEF Ctl!ScanNext, Ctl!Full, Ctl!Raise
  <2>3. Stk!EffSp' = 1 /\ Stk!EffItems'[1] = scan
    BY <2>1, <2>2, GridKept, RunFacts, ItemsTick, TickParts
  <2>4. scan[1] < cols /\ scan[1] \in Nat /\ scan[2] \in Nat
    BY <1>2, <2>2 DEF Fill, ScanInGrid, Coord
  <2>5. ItemsOnGrid'
    BY <1>1, <2>2, <2>3, <2>4 DEF ItemsOnGrid, Ngen!OnGrid
  <2>6. ScanInGrid'
    BY <1>1, <1>2, <2>2, <2>4 DEF ScanInGrid, Ctl!NextScan
  <2>7. QED BY <1>1, <2>2, <2>5, <2>6 DEF RestOfFill, StackEmpty, OnGrid, Asking, RootMarked
<1>5. QED BY <1>3, <1>4

(* A step that pops or visits a cell keeps the rest of Fill.               *)
LEMMA FillPop ==
  ASSUME IInv, Fill, Clock, Running, Ctl!Pop \/ Ctl!VisitSkip \/ Ctl!Visit
  PROVE  RestOfFill'
<1>1. /\ UNCHANGED <<rows, cols, scan>> /\ ~active' /\ ~ngen_valid_out'
  <2>1. ~active /\ ~ngen_valid_in
    BY DEF Ctl!Pop, Ctl!VisitSkip, Ctl!Visit, Fill, Asking
  <2>2. ~active' /\ ~ngen_valid_out'
    BY <2>1, GridKept, RunFacts, GeneratorRuns, TickParts DEF IInv
  <2>3. QED BY <2>2, GridKept DEF Ctl!Pop, Ctl!VisitSkip, Ctl!Visit
<1>2. ScanInGrid'
  BY <1>1 DEF Fill, ScanInGrid, Ctl!Pop, Ctl!VisitSkip, Ctl!Visit
<1>3. CASE Ctl!Pop
  <2>1. Stk!EffSp # 0 /\ Stk!EffSp \in 0 .. StackDepth
    BY <1>3, ShownToFsm DEF Ctl!Pop
  <2>2. /\ ~stk_push' /\ stk_pop' /\ ~ngen_valid_in' /\ state' = "Visit"
        /\ cur_node' = stk_out.top /\ vis_addr' = Ctl!cell_index(stk_out.top)
    BY <1>3 DEF Ctl!Pop, Ctl!Raise
  <2>3. /\ Stk!EffSp' = Stk!EffSp - 1
        /\ \A i \in 1 .. Stk!EffSp - 1 : Stk!EffItems'[i] = Stk!EffItems[i]
    BY <2>1, <2>2, GridKept, RunFacts, ItemsTick, TickParts
  <2>4. ItemsOnGrid'
    BY <1>1, <2>1, <2>3 DEF Fill, OnGrid, ItemsOnGrid, Ngen!OnGrid
  <2>5. cur_node' = Stk!EffItems[Stk!EffSp] /\ Stk!EffSp \in 1 .. Stk!EffSp
    BY <2>1, <2>2, ShownToFsm
  <2>6. (Ngen!OnGrid(cur_node) /\ vis_addr = Index(cur_node))'
    BY <1>1, <2>2, <2>5 DEF Fill, OnGrid, ItemsOnGrid, Ngen!OnGrid, Index, Ctl!cell_index
  <2>7. OnGrid'
    BY <1>1, <2>2, <2>4, <2>6 DEF OnGrid
  <2>8. QED BY <1>1, <1>2, <2>2, <2>7 DEF RestOfFill, StackEmpty, Asking, RootMarked
<1>4. CASE Ctl!VisitSkip
  <2>1. ~stk_push' /\ ~stk_pop' /\ ~ngen_valid_in' /\ state' = "Pop"
    BY <1>4 DEF Ctl!VisitSkip, Ctl!Raise
  <2>2. ItemsOnGrid'
    BY <2>1, QuietItems
  <2>3. QED BY <1>1, <1>2, <2>1, <2>2 DEF RestOfFill, StackEmpty, OnGrid, Asking, RootMarked
<1>5. CASE Ctl!Visit
  <2>1. ~stk_push' /\ ~stk_pop' /\ ngen_valid_in' /\ state' = "GenNeighbors" /\ ngen_wait'
        /\ ~is_new_island_start'
    BY <1>5 DEF Ctl!Visit, Ctl!Raise
  <2>2. ItemsOnGrid'
    BY <2>1, QuietItems
  <2>3. QED BY <1>1, <1>2, <2>1, <2>2 DEF RestOfFill, StackEmpty, OnGrid, Asking, RootMarked
<1>6. QED BY <1>3, <1>4, <1>5

(* A step that asks for neighbours or pushes one keeps the rest of Fill.   *)
LEMMA FillNeighbors ==
  ASSUME IInv, Fill, Clock, Running,
         Ctl!GenWait \/ Ctl!GenLatch \/ Ctl!GenIdle \/ Ctl!PushNeighbor
  PROVE  RestOfFill'
<1>1. UNCHANGED <<rows, cols, scan, is_new_island_start>> /\ ~stk_pop'
  <2>1. UNCHANGED <<rows, cols, scan, is_new_island_start>>
    BY GridKept DEF Ctl!GenWait, Ctl!GenLatch, Ctl!GenIdle, Ctl!PushNeighbor
  <2>2. Ctl!Raise({}) \/ Ctl!Raise(Ctl!Asked)
    BY DEF Ctl!GenWait, Ctl!GenLatch, Ctl!GenIdle, Ctl!PushNeighbor
  <2>3. CASE Ctl!Raise({})
    BY <2>1, <2>3 DEF Ctl!Raise
  <2>4. CASE Ctl!Raise(Ctl!Asked)
    <3>1. stk_pop' = ("pop" \in Ctl!Asked)
      BY <2>4 DEF Ctl!Raise
    <3>2. QED BY <2>1, <3>1 DEF Ctl!Asked
  <2>5. QED BY <2>2, <2>3, <2>4
<1>2. ScanInGrid'
  BY <1>1 DEF Fill, ScanInGrid, Ctl!GenWait, Ctl!GenLatch, Ctl!GenIdle, Ctl!PushNeighbor
<1>3. /\ ~ngen_valid_in => ~ngen_valid_out' /\ active' = active
      /\ ngen_valid_in => (ngen_valid_out' <=> active')
      /\ ngen_valid_in /\ ngen_valid_out' => (Ngen!OnGrid(ngen_nbr))'
  BY GridKept, RunFacts, GeneratorRuns, TickParts DEF IInv
<1>4. CASE Ctl!GenWait
  <2>1. /\ ~stk_push' /\ ~ngen_valid_in' /\ state' = "GenNeighbors" /\ ~ngen_wait'
        /\ state = "GenNeighbors" /\ ngen_wait
    BY <1>4 DEF Ctl!GenWait, Ctl!Raise
  <2>2. ngen_valid_in
    BY <2>1 DEF Fill, Asking
  <2>3. ItemsOnGrid'
    BY <1>1, <2>1, QuietItems
  <2>4. QED BY <1>1, <1>2, <1>3, <2>1, <2>2, <2>3
            DEF RestOfFill, StackEmpty, OnGrid, Asking, RootMarked, Fill
<1>5. CASE Ctl!GenLatch
  <2>1. /\ ~stk_push' /\ ~ngen_valid_in' /\ state' = "PushNeighbor" /\ nbr_latch' = ngen_nbr
        /\ state = "GenNeighbors" /\ ~ngen_wait /\ ngen_valid_out
    BY <1>5 DEF Ctl!GenLatch, Ctl!Raise
  <2>2. ~ngen_valid_in /\ active
    BY <2>1 DEF Fill, Asking
  <2>3. ItemsOnGrid'
    BY <1>1, <2>1, QuietItems
  <2>4. (Ngen!OnGrid(nbr_latch))'
    BY <1>1, <2>1 DEF Fill, OnGrid, Ngen!OnGrid
  <2>5. QED BY <1>1, <1>2, <1>3, <2>1, <2>2, <2>3, <2>4
            DEF RestOfFill, StackEmpty, OnGrid, Asking, RootMarked, Fill
<1>6. CASE Ctl!GenIdle
  <2>1. /\ ~stk_push' /\ ~ngen_valid_in' /\ state' \in {"Pop", "GenNeighbors"}
        /\ ngen_wait' = ngen_wait
        /\ state = "GenNeighbors" /\ ~ngen_wait /\ ~ngen_valid_out
    BY <1>6 DEF Ctl!GenIdle, Ctl!Raise
  <2>2. ~ngen_valid_in /\ ~active
    BY <2>1 DEF Fill, Asking
  <2>3. ItemsOnGrid'
    BY <1>1, <2>1, QuietItems
  <2>4. QED BY <1>1, <1>2, <1>3, <2>1, <2>2, <2>3
            DEF RestOfFill, StackEmpty, OnGrid, Asking, RootMarked, Fill
<1>7. CASE Ctl!PushNeighbor
  <2>1. ngen_valid_in' /\ state' = "GenNeighbors" /\ ngen_wait' /\ state = "PushNeighbor"
    BY <1>7 DEF Ctl!PushNeighbor, Ctl!Raise, Ctl!Asked
  <2>2. ~ngen_valid_in /\ active
    BY <2>1 DEF Fill, Asking
  <2>3. ItemsOnGrid'
    <3>1. CASE stk_out.full
      <4>1. ~stk_push'
        BY <1>7, <3>1 DEF Ctl!PushNeighbor, Ctl!Raise, Ctl!Asked, Ctl!Full
      <4>2. QED BY <1>1, <4>1, QuietItems
    <3>2. CASE ~stk_out.full
      <4>1. stk_push' /\ stk_in' = nbr_latch
        BY <1>7, <3>2 DEF Ctl!PushNeighbor, Ctl!Raise, Ctl!Asked, Ctl!Full
      <4>2. Stk!EffSp < StackDepth /\ Stk!EffSp \in 0 .. StackDepth
        BY <3>2, ShownToFsm
      <4>3. /\ Stk!EffSp' = Stk!EffSp + 1
            /\ Stk!EffItems'[Stk!EffSp + 1] = nbr_latch
            /\ \A i \in 1 .. Stk!EffSp : Stk!EffItems'[i] = Stk!EffItems[i]
        BY <4>1, <4>2, GridKept, RunFacts, ItemsTick, TickParts
      <4>4. \A i \in 1 .. Stk!EffSp' : i = Stk!EffSp + 1 \/ i \in 1 .. Stk!EffSp
        BY <4>2, <4>3
      <4>5. Ngen!OnGrid(nbr_latch) /\ \A i \in 1 .. Stk!EffSp : Ngen!OnGrid(Stk!EffItems[i])
        BY <2>1 DEF Fill, OnGrid, ItemsOnGrid
      <4>6. \A i \in 1 .. Stk!EffSp' : Ngen!OnGrid(Stk!EffItems'[i])
        BY <4>3, <4>4, <4>5
      <4>7. QED BY <1>1, <4>6 DEF ItemsOnGrid, Ngen!OnGrid
    <3>3. QED BY <3>1, <3>2
  <2>4. QED BY <1>1, <1>2, <1>3, <2>1, <2>2, <2>3
            DEF RestOfFill, StackEmpty, OnGrid, Asking, RootMarked, Fill
<1>8. QED BY <1>4, <1>5, <1>6, <1>7

(* Fill is kept by every edge. *)
LEMMA FillTick == ASSUME IInv, Fill, Clock PROVE Fill'
<1>1. CASE ~Running
  BY <1>1, FillRests
<1>2. CASE Running
  <2>1. Ctl!run_fsm /\ rst_n
    BY <1>2, RunFacts DEF Clock, Tick
  <2>2. \/ Ctl!LoadStart \/ Ctl!ScanNext \/ Ctl!ScanEnd \/ Ctl!PopEmpty
        \/ Ctl!Pop \/ Ctl!VisitSkip \/ Ctl!Visit
        \/ Ctl!GenWait \/ Ctl!GenLatch \/ Ctl!GenIdle \/ Ctl!PushNeighbor
    BY <1>2, <2>1 DEF Running, Ctl!run_fsm, Ctl!Reset, Ctl!Idle, Ctl!DoneHold, Ctl!DoneRestart
  <2>3. RestOfFill'
    BY <1>2, <2>2, FillScan, FillPop, FillNeighbors
  <2>4. pc' # "reset"
    BY <1>2, RunFacts, GridKept
  <2>5. MarkInMemory'
    <3>1. SUFFICES ASSUME vis_we' PROVE vis_addr' \in 0 .. MaxCells - 1
      BY DEF MarkInMemory
    <3>2. state = "Visit" /\ vis_addr' = Index(cur_node)
      BY <2>1, <2>2, <3>1, FsmRequests
      DEF Index, Ctl!LoadStart, Ctl!ScanNext, Ctl!ScanEnd, Ctl!PopEmpty, Ctl!Pop, Ctl!VisitSkip,
          Ctl!Visit, Ctl!GenWait, Ctl!GenLatch, Ctl!GenIdle, Ctl!PushNeighbor
    <3>3. cur_node \in Coord /\ Ngen!OnGrid(cur_node)
      BY <3>2, TypeParts DEF IInv, ControllerTypes, Fill, OnGrid
    <3>4. QED BY <1>2, <3>2, <3>3, RunFacts, AddressOf
  <2>6. QED BY <2>3, <2>4, <2>5, FillGrid DEF Fill, RestOfFill, Untouched
<1>3. QED BY <1>1, <1>2

-----------------------------------------------------------------------------
(* Nothing the driver does touches what the FSM is doing. *)
LEMMA FillOf ==
  ASSUME Fill, UNCHANGED Inner, Configured', PortWritten',
         pc' = "reset" => pc = "reset" /\ runs' = runs,
         Running => UNCHANGED <<rows, cols, port>>,
         UNCHANGED grid_seen \/ grid_seen' = Grid!inputs'
  PROVE  Fill'
<1>1. /\ UNCHANGED <<rst_n, visited_count, island_count, overflow, start_pulse, state, scan, cur_node, nbr_latch, ngen_wait, ngen_valid_in,
                     is_new_island_start, vis_addr, vis_we, stk_push, stk_pop, stk_in,
                     storage, sp, peak, active, ngen_valid_out, ngen_nbr>>
  BY DEF Inner, controller, stack, generator
<1>2. /\ Stk!EffSp' = Stk!EffSp
      /\ Stk!EffItems' = Stk!EffItems
  BY <1>1 DEF Stk!EffSp, Stk!EffItems, Stk!DoPush, Stk!DoPop, Stk!Held
<1>3. StackEmpty' /\ Asking' /\ RootMarked' /\ MarkInMemory'
  BY <1>1, <1>2 DEF Fill, StackEmpty, Asking, RootMarked, MarkInMemory
<1>4. RunSettled'
  BY <1>1 DEF Fill, RunSettled, Running, Grid!inputs, port
<1>5. ScanInGrid'
  BY <1>1 DEF Fill, ScanInGrid, Running
<1>6. OnGrid'
  <2>1. CASE Running
    BY <1>1, <1>2, <2>1
    DEF Fill, OnGrid, ItemsOnGrid, Ngen!OnGrid, Index, Ctl!cell_index
  <2>2. CASE ~Running
    <3>1. Stk!EffSp' = 0 /\ state' \in {"Idle", "Done"} /\ ~ngen_valid_out'
      BY <1>1, <1>2, <2>2 DEF Running, Fill, StackEmpty, Asking
    <3>2. QED BY <3>1 DEF OnGrid, ItemsOnGrid
  <2>3. QED BY <2>1, <2>2
<1>7. Untouched'
  BY <1>1 DEF Fill, Untouched
<1>8. QED BY <1>3, <1>4, <1>5, <1>6, <1>7 DEF Fill

(* The driver loads the grid step by step, and leaves it alone from then   *)
(* on.                                                                     *)
LEMMA FillRun == ASSUME IInv, Fill, run PROVE Fill'
<1>1. Configured /\ PortWritten /\ DriverTypes
  BY DEF Fill, IInv
<1>2. Running => pc = "wait_done"
  BY DEF Running, IInv, Handshake, Resting
<1>3. CASE ReleaseReset
  <2>1. /\ pc = "reset" /\ pc' = "idle" /\ UNCHANGED <<job, index, runs>>
        /\ UNCHANGED <<start_pulse, rows, cols, params, cells, grid_we, grid_waddr, grid_wdata>>
        /\ UNCHANGED <<state, scan, ngen_wait, ngen_valid_in, ngen_valid_out, active, stk_push,
                       stk_pop, sp, is_new_island_start, vis_we, vis_addr>>
    BY <1>3 DEF ReleaseReset, SetReset, config, controller, generator, port, gridmem, handshake
  <2>2. state \in {"Idle", "Done"} /\ ~stk_push /\ ~stk_pop /\ sp = 0
    BY <2>1 DEF IInv, Handshake, Resting, WiresFresh, Requests, Fill, Untouched
  <2>3. Stk!EffSp' = 0
    <3>1. ~Stk!DoPush' /\ ~Stk!DoPop' /\ sp' = 0
      BY <2>1, <2>2 DEF Stk!DoPush, Stk!DoPop
    <3>2. QED BY <3>1 DEF Stk!EffSp
  <2>4. runs = 0
    BY <2>1 DEF Fill, Untouched
  <2>5. Configured' /\ PortWritten'
    BY <1>1, <2>1, <2>4 DEF Configured, Loaded, PortWritten
  <2>6. StackEmpty' /\ OnGrid' /\ Asking' /\ RootMarked' /\ ScanInGrid' /\ RunSettled'
        /\ MarkInMemory'
    BY <2>1, <2>2, <2>3
    DEF Fill, MarkInMemory, StackEmpty, OnGrid, ItemsOnGrid, Asking, RootMarked, ScanInGrid, RunSettled
  <2>7. QED BY <2>1, <2>5, <2>6 DEF Fill, Untouched
<1>4. ASSUME NEW j \in Jobs, BeginRun(j) PROVE Fill'
  <2>1. UNCHANGED vars /\ pc = "idle" /\ pc' = "rows" /\ job' = j /\ index' = 0
    BY <1>4 DEF BeginRun
  <2>2. Configured'
    BY <2>1, JobTypes DEF Configured, Loaded
  <2>3. PortWritten'
    BY <1>1, <2>1 DEF PortWritten, vars, port, gridmem
  <2>4. QED BY <2>1, <2>2, <2>3, FillOf DEF vars, Inner, handshake, config, gridmem
<1>5. ASSUME UNCHANGED Inner, UNCHANGED grid_seen, Configured', pc' # "reset", pc # "wait_done",
             UNCHANGED cells, grid_we' = FALSE
      PROVE  Fill'
  BY <1>2, <1>5, FillOf DEF PortWritten
<1>6. CASE LoadRows \/ LoadCols \/ LoadOrigin \/ LoadParams
  <2>1. UNCHANGED Inner /\ NotTheGrid /\ UNCHANGED <<job, index, runs>>
    BY <1>6 DEF LoadRows, WriteRows, LoadCols, WriteCols, LoadOrigin, WriteUnused, LoadParams,
                WriteParams, Kept
  <2>2. \/ pc = "rows" /\ pc' = "cols" /\ rows' = job.rows
        \/ pc = "cols" /\ pc' = "origin" /\ cols' = job.cols /\ rows' = rows
        \/ pc = "origin" /\ pc' = "params" /\ UNCHANGED <<rows, cols>>
        \/ pc = "params" /\ pc' = "cells" /\ params' = job.params /\ UNCHANGED <<rows, cols>>
    BY <1>6 DEF LoadRows, WriteRows, LoadCols, WriteCols, LoadOrigin, WriteUnused, LoadParams,
                WriteParams, Access, config
  <2>3. Configured'
    BY <1>1, <2>1, <2>2 DEF Configured, Loaded, NotTheGrid, gridmem
  <2>4. QED BY <1>5, <2>1, <2>2, <2>3 DEF NotTheGrid, gridmem
<1>7. CASE LoadCell
  <2>1. /\ UNCHANGED Inner /\ UNCHANGED <<job, runs, rows, cols, params, grid_seen>>
        /\ pc = "cells" /\ index \in DOMAIN job.cells /\ index' = index + 1
        /\ pc' = IF index + 1 \in DOMAIN job.cells THEN "cells" ELSE "enable_read"
        /\ index \in 0 .. MaxCells - 1
        /\ grid_we' = TRUE /\ grid_waddr' = index /\ grid_wdata' = job.cells[index]
        /\ Grid!load_cell(index, job.cells[index])
    BY <1>7 DEF LoadCell, WriteCell, Access, config
  <2>2. cells \in [0 .. MaxCells - 1 -> Int]
    BY TypeParts DEF IInv, MemoryTypes
  <2>3. cells' = [cells EXCEPT ![index] = job.cells[index]]
    BY <2>1 DEF Grid!load_cell, Grid!Addresses
  <2>4. PortWritten'
    BY <2>1, <2>2, <2>3 DEF PortWritten
  <2>5. PICK n \in Nat : n <= MaxCells /\ DOMAIN job.cells = 0 .. n - 1
    <3>1. job.rows * job.cols \in Nat
      BY <1>1, JobTypes
    <3>2. QED BY <1>1, <3>1 DEF DriverTypes
  <2>6. \A i \in DOMAIN job.cells : i < index + 1 => cells'[i] = job.cells[i]
    <3>1. SUFFICES ASSUME NEW i \in DOMAIN job.cells, i < index + 1
                   PROVE  cells'[i] = job.cells[i]
      OBVIOUS
    <3>2. i \in 0 .. MaxCells - 1
      BY <2>5
    <3>3. CASE i = index
      BY <2>2, <2>3, <3>2, <3>3
    <3>4. CASE i # index
      <4>1. i < index
        BY <2>1, <2>5, <3>1, <3>4
      <4>2. QED BY <1>1, <2>1, <2>2, <2>3, <3>2, <3>4, <4>1 DEF Configured
    <3>5. QED BY <3>3, <3>4
  <2>7. pc' = "enable_read" => \A i \in DOMAIN job.cells : i < index + 1
    BY <2>1, <2>5
  <2>8. Configured'
    BY <1>1, <2>1, <2>6, <2>7 DEF Configured, Loaded
  <2>9. QED BY <1>2, <2>1, <2>4, <2>8, FillOf
<1>8. CASE EnableRead \/ StartRead \/ Poll \/ ReadResult
  <2>1. UNCHANGED vars /\ UNCHANGED <<job, index, runs>>
        /\ pc \in {"enable_read", "start_read", "wait_done", "result"}
        /\ pc' \in {"enable_write", "start_write", "wait_done", "result", "idle"}
    BY <1>8 DEF EnableRead, StartRead, ReadControl, Poll, ReadResult, Access, Kept
  <2>2. Configured' /\ PortWritten'
    BY <1>1, <2>1 DEF Configured, PortWritten, Loaded, vars, config, port, gridmem
  <2>3. QED BY <2>1, <2>2, FillOf DEF vars, Inner, handshake, config, gridmem
<1>9. CASE EnableWrite \/ StartWrite
  <2>1. UNCHANGED Inner /\ NotTheGrid /\ UNCHANGED <<job, index, runs, rows, cols, params>>
        /\ pc \in {"enable_write", "start_write"} /\ pc' \in {"start_read", "wait_done"}
    BY <1>9 DEF EnableWrite, StartWrite, WriteControl, Access, Kept
  <2>2. Configured'
    BY <1>1, <2>1 DEF Configured, Loaded, NotTheGrid, gridmem
  <2>3. QED BY <1>5, <2>1, <2>2 DEF NotTheGrid, gridmem
<1>10. QED BY <1>3, <1>4, <1>6, <1>7, <1>8, <1>9 DEF run

(* Fill is inductive, with IInv. *)
LEMMA FillStep == ASSUME IInv, Fill, [Next]_allvars PROVE Fill'
<1>1. CASE Delta
  <2>1. UNCHANGED <<config, port, cells>> /\ UNCHANGED Inner /\ UNCHANGED <<pc, job, index, runs>>
    BY <1>1 DEF Delta, Settle, driver
  <2>2. Configured' /\ PortWritten'
    BY <2>1 DEF Fill, Configured, PortWritten, Loaded, config, port
  <2>3. grid_seen' = Grid!inputs'
    BY <1>1 DEF Delta, Settle, Grid!Preview
  <2>4. QED BY <2>1, <2>2, <2>3, FillOf DEF config
<1>2. CASE UNCHANGED allvars
  <2>1. UNCHANGED vars /\ UNCHANGED <<pc, job, index, runs>>
    BY <1>2 DEF allvars, driver
  <2>2. Configured' /\ PortWritten'
    BY <2>1 DEF Fill, Configured, PortWritten, Loaded, vars, config, port, gridmem
  <2>3. QED BY <2>1, <2>2, FillOf DEF vars, Inner, handshake, config, gridmem
<1>3. QED BY <1>1, <1>2, FillRun, FillTick DEF Next

(* Fill holds before reset is released.                                    *)
LEMMA FillInit == DriverInit => Fill
<1>1. SUFFICES ASSUME DriverInit PROVE Fill
  OBVIOUS
<1>2. /\ visited_count = 0 /\ island_count = 0 /\ overflow = FALSE /\ is_new_island_start = FALSE
      /\ state = "Idle" /\ rst_n = FALSE /\ sp = 0 /\ grid_we = FALSE /\ ngen_valid_in = FALSE /\ vis_we = FALSE
      /\ ngen_valid_out = FALSE /\ active = FALSE /\ pc = "reset" /\ runs = 0
  BY <1>1 DEF DriverInit, Init, InitWith, Ctl!Init
<1>3. Stk!EffSp = 0
  BY <1>2 DEF Stk!EffSp, Stk!Held
<1>4. Configured /\ PortWritten /\ RunSettled /\ ScanInGrid
  BY <1>2 DEF Configured, Loaded, PortWritten, RunSettled, ScanInGrid
<1>5. StackEmpty /\ OnGrid /\ Asking /\ RootMarked /\ MarkInMemory
  BY <1>2, <1>3 DEF MarkInMemory, StackEmpty, OnGrid, ItemsOnGrid, Asking, RootMarked
<1>6. QED BY <1>2, <1>4, <1>5 DEF Fill, Untouched

(* Fill is an invariant.                                                   *)
LEMMA FillInvariance == Spec => []Fill
<1>1. IInv /\ Fill /\ [Next]_allvars => Fill'
  BY FillStep
<1>2. QED BY <1>1, FillInit, Invariance, PTL DEF Spec

-----------------------------------------------------------------------------
(* The wires as a flood fill.                                              *)
Waiting == OnStack \cup InFlight

(* The frontier holds the addresses of the cells that wait.                *)
LEMMA FrontierIs == Frontier = {Index(c) : c \in Waiting} BY DEF Frontier, Waiting

(* While the registers of the grid are the same, so is the grid they show. *)
LEMMA GridSame ==
  ASSUME UNCHANGED <<rows, cols, params, cells>>
  PROVE  UNCHANGED <<Area, Land, Near, Abs!grid>> /\ \A c : (Index(c))' = Index(c)
<1>1. Area' = Area
  BY DEF Area
<1>2. Land' = Land
  BY <1>1 DEF Land
<1>3. Near' = Near
  BY <1>1 DEF Near, Degree, At, Index, Ctl!cell_index, Ngen!Dirs, Ngen!OnGrid
<1>4. \A c : (Index(c))' = Index(c)
  BY DEF Index, Ctl!cell_index
<1>5. QED BY <1>1, <1>2, <1>3, <1>4 DEF Abs!grid

(* The accelerator as the flood fill sees it when no run goes on. *)
LEMMA RestIs ==
  ASSUME state \in {"Idle", "Done"}, Stk!EffSp = 0, ~vis_we
  PROVE  /\ Phase # "running" /\ Todo = {} /\ Frontier = {}
         /\ Marked = {a \in DOMAIN visited : visited[a]}
<1>1. OnStack = {}
  BY DEF OnStack
<1>2. InFlight = {}
  BY DEF InFlight
<1>3. QED BY <1>1, <1>2 DEF Phase, Todo, Frontier, Marked

(* Between runs nothing waits on the stack or on its way to a mark.        *)
LEMMA Rested ==
  ASSUME IInv, Fill, ~Running
  PROVE  state \in {"Idle", "Done"} /\ Stk!EffSp = 0 /\ ~vis_we
BY DEF Running, Fill, StackEmpty, IInv, WiresFresh, Requests

(* A step between runs may only load another grid. *)
LEMMA RestStep ==
  ASSUME IInv, Fill, IInv', Fill', ~Running,
         UNCHANGED <<state, visited, island_count, overflow, is_new_island_start>>
  PROVE  Abs!Next
<1>1. state \in {"Idle", "Done"} /\ Stk!EffSp = 0 /\ ~vis_we
  BY Rested
<1>2. state' \in {"Idle", "Done"} /\ Stk!EffSp' = 0 /\ ~vis_we'
  BY <1>1 DEF Fill, StackEmpty, IInv, WiresFresh, Requests
<1>3. /\ Phase # "running" /\ Todo = {} /\ Frontier = {}
      /\ Marked = {a \in DOMAIN visited : visited[a]}
  BY <1>1, RestIs
<1>4. /\ Todo' = {} /\ Frontier' = {}
      /\ Marked' = {a \in DOMAIN visited' : visited'[a]}
  <2>1. OnStack' = {} /\ InFlight' = {}
    BY <1>2 DEF OnStack, InFlight
  <2>2. QED BY <1>2, <2>1 DEF Todo, Frontier, Marked
<1>5. Phase' = Phase
  BY DEF Phase
<1>6. Abs!IsGrid'
  <2>1. (TypeOK => Abs!IsGrid)'
    BY GridOk, PTL
  <2>2. QED BY <2>1 DEF IInv
<1>7. UNCHANGED Abs!run
  BY <1>3, <1>4, <1>5 DEF Abs!run
<1>8. QED BY <1>3, <1>6, <1>7 DEF Abs!Next, Abs!Configure, Abs!IsGrid

(* The stack over an edge, as a set. *)
LEMMA OnStackTick ==
  ASSUME IInv, Fill, Clock, Running
  PROVE  /\ ~stk_push' /\ ~stk_pop' => OnStack' = OnStack
         /\ stk_push' /\ Stk!EffSp < StackDepth => OnStack' = OnStack \cup {stk_in'}
         /\ ~stk_push' /\ stk_pop' /\ Stk!EffSp > 0 => OnStack = OnStack' \cup {stk_out.top}
<1>1. Stk!EffSp \in 0 .. StackDepth /\ ~Stk!Held'
  BY ShownToFsm, RunFacts
<1>2. CASE ~stk_push' /\ ~stk_pop'
  BY <1>2, GridKept, RunFacts, ItemsTick, TickParts DEF OnStack
<1>3. CASE stk_push' /\ Stk!EffSp < StackDepth
  <2>1. /\ Stk!EffSp' = Stk!EffSp + 1 /\ Stk!EffItems'[Stk!EffSp + 1] = stk_in'
        /\ \A i \in 1 .. Stk!EffSp : Stk!EffItems'[i] = Stk!EffItems[i]
    BY <1>3, GridKept, RunFacts, ItemsTick, TickParts
  <2>2. 1 .. Stk!EffSp + 1 = (1 .. Stk!EffSp) \cup {Stk!EffSp + 1}
    BY <1>1
  <2> DEFINE n == Stk!EffSp
             f == Stk!EffItems
             g == Stk!EffItems'
  <2>3. OnStack = {f[i] : i \in 1 .. n}
    BY DEF OnStack
  <2>4. OnStack' = {g[i] : i \in 1 .. n + 1}
    BY <2>1 DEF OnStack
  <2>5. (\A i \in 1 .. n : g[i] = f[i]) /\ g[n + 1] = stk_in' /\ 1 .. n + 1 = (1 .. n) \cup {n + 1}
    BY <2>1, <2>2
  <2> HIDE DEF n, f, g
  <2>6. OnStack' = OnStack \cup {stk_in'}
    <3>1. OnStack' = {g[i] : i \in 1 .. n} \cup {g[n + 1]}
      BY <2>4, <2>5
    <3>2. {g[i] : i \in 1 .. n} = {f[i] : i \in 1 .. n}
      BY <2>5
    <3>3. QED BY <2>3, <2>5, <3>1, <3>2
  <2>7. QED BY <1>3, <2>6
<1>4. CASE ~stk_push' /\ stk_pop' /\ Stk!EffSp > 0
  <2>1. /\ Stk!EffSp' = Stk!EffSp - 1
        /\ \A i \in 1 .. Stk!EffSp - 1 : Stk!EffItems'[i] = Stk!EffItems[i]
    BY <1>4, GridKept, RunFacts, ItemsTick, TickParts
  <2>2. 1 .. Stk!EffSp = (1 .. Stk!EffSp - 1) \cup {Stk!EffSp}
    BY <1>1, <1>4
  <2>3. stk_out.top = Stk!EffItems[Stk!EffSp]
    BY <1>4, <1>1, ShownToFsm
  <2> DEFINE n == Stk!EffSp
             f == Stk!EffItems
             g == Stk!EffItems'
  <2>4. OnStack = {f[i] : i \in 1 .. n}
    BY DEF OnStack
  <2>5. OnStack' = {g[i] : i \in 1 .. n - 1}
    BY <2>1 DEF OnStack
  <2>6. (\A i \in 1 .. n - 1 : g[i] = f[i]) /\ f[n] = stk_out.top /\ 1 .. n = (1 .. n - 1) \cup {n}
    BY <2>1, <2>2, <2>3
  <2> HIDE DEF n, f, g
  <2>7. OnStack = OnStack' \cup {stk_out.top}
    <3>1. OnStack = {f[i] : i \in 1 .. n - 1} \cup {f[n]}
      BY <2>4, <2>6
    <3>2. {f[i] : i \in 1 .. n - 1} = {g[i] : i \in 1 .. n - 1}
      BY <2>6
    <3>3. QED BY <2>5, <2>6, <3>1, <3>2
  <2>8. QED BY <1>4, <2>7
<1>5. QED BY <1>2, <1>3, <1>4

(* The generator over an edge, as a set of neighbours to come. *)
LEMMA UntriedTick ==
  ASSUME IInv, Fill, Clock, Running
  PROVE  /\ ~ngen_valid_in /\ (active \/ ~ngen_valid_in') => Untried' = Untried
         /\ ~ngen_valid_in /\ ~active /\ ngen_valid_in' =>
              Untried' = {Ngen!Step(ngen_cur', d) : d \in Ngen!Dirs(ngen_cur', 0, Degree)}
         /\ ngen_valid_in /\ ~ngen_valid_in' =>
              Untried = Untried' \cup {n \in {ngen_nbr'} : ngen_valid_out'}
<1>1. UNCHANGED <<rows, cols, params>> /\ rst_n
  BY GridKept, RunFacts
<1>2. Ngen!Generate /\ GeneratorTypes /\ ngen_cur \in Coord
  BY TickParts, TypeParts DEF IInv, ControllerTypes
<1>3. \A c, k, n : (Ngen!Dirs(c, k, n))' = Ngen!Dirs(c, k, n)
  BY <1>1 DEF Ngen!Dirs, Ngen!OnGrid
<1>4. ~ngen_valid_in => UNCHANGED <<active, next_dir, num_dirs, base>>
  BY <1>1, <1>2 DEF Ngen!Generate, Ngen!Reset, Ngen!NoRequest, Ngen!Emit, Ngen!Exhausted
<1>5. CASE ~ngen_valid_in /\ (active \/ ~ngen_valid_in')
  <2>1. CASE active
    <3>1. /\ Ngen!Base' = Ngen!Base /\ Ngen!From' = Ngen!From /\ Ngen!Num' = Ngen!Num
      BY <1>4, <1>5, <2>1 DEF Ngen!Base, Ngen!From, Ngen!Num
    <3>2. (Ngen!Dirs(Ngen!Base, Ngen!From, Ngen!Num))' = Ngen!Dirs(Ngen!Base, Ngen!From, Ngen!Num)
      BY <1>1, <3>1 DEF Ngen!Dirs, Ngen!OnGrid
    <3>3. QED BY <1>4, <1>5, <2>1, <3>1, <3>2 DEF Untried
  <2>2. CASE ~active
    BY <1>4, <1>5, <2>2 DEF Untried
  <2>3. QED BY <2>1, <2>2
<1>6. CASE ~ngen_valid_in /\ ~active /\ ngen_valid_in'
  <2>1. ~active'
    BY <1>4, <1>6
  <2>2. Ngen!Base' = ngen_cur' /\ Ngen!From' = 0 /\ Ngen!Num' = Degree
    BY <1>1, <2>1 DEF Ngen!Base, Ngen!From, Ngen!Num, Degree
  <2>3. (Ngen!Dirs(Ngen!Base, Ngen!From, Ngen!Num))' = Ngen!Dirs(ngen_cur', 0, Degree)
    BY <1>1, <2>2 DEF Ngen!Dirs, Ngen!OnGrid
  <2>4. QED BY <1>6, <2>2, <2>3 DEF Untried
<1>7. CASE ngen_valid_in /\ ~ngen_valid_in'
  <2> DEFINE B == Ngen!Base
             F == Ngen!From
             N == Ngen!Num
  <2>1. Untried = {Ngen!Step(B, d) : d \in Ngen!Dirs(B, F, N)}
    BY <1>7 DEF Untried
  <2>2. F \in 0 .. 8 /\ N \in {4, 8}
    BY <1>2 DEF Ngen!From, Ngen!Num, GeneratorTypes
  <2>3. CASE Ngen!Emit
    <3>1. PICK d \in Ngen!Dirs(B, F, N) : /\ \A e \in Ngen!Dirs(B, F, N) : d <= e
                                           /\ next_dir' = d + 1 /\ ngen_nbr' = Ngen!Step(B, d)
      BY <2>3 DEF Ngen!Emit
    <3>2. base' = B /\ num_dirs' = N /\ active' = TRUE /\ ngen_valid_out' = TRUE
      BY <2>3 DEF Ngen!Emit
    <3> HIDE DEF B, F, N
    <3>3. d \in F .. N - 1 /\ Ngen!Dirs(B, d + 1, N) \subseteq F .. N - 1
      BY <2>2, <3>1 DEF Ngen!Dirs
    <3>4. Ngen!Dirs(B, F, N) = {d} \cup Ngen!Dirs(B, d + 1, N)
      <4>1. ASSUME NEW e \in Ngen!Dirs(B, F, N), e # d
            PROVE  e \in Ngen!Dirs(B, d + 1, N)
        <5>1. e \in F .. N - 1 /\ Ngen!OnGrid(Ngen!Step(B, e)) /\ d <= e
          BY <3>1, <4>1 DEF Ngen!Dirs
        <5>2. e \in d + 1 .. N - 1
          BY <2>2, <3>3, <4>1, <5>1
        <5>3. QED BY <5>1, <5>2 DEF Ngen!Dirs
      <4>2. Ngen!Dirs(B, d + 1, N) \subseteq Ngen!Dirs(B, F, N)
        BY <3>3 DEF Ngen!Dirs
      <4>3. QED BY <3>1, <4>1, <4>2
    <3>5. Ngen!Base' = B /\ Ngen!From' = d + 1 /\ Ngen!Num' = N
      BY <3>1, <3>2 DEF Ngen!Base, Ngen!From, Ngen!Num
    <3>6. (Ngen!Dirs(Ngen!Base, Ngen!From, Ngen!Num))' = Ngen!Dirs(B, d + 1, N)
      BY <1>1, <3>5 DEF Ngen!Dirs, Ngen!OnGrid
    <3>7. Untried' = {Ngen!Step(B, e) : e \in Ngen!Dirs(B, d + 1, N)}
      BY <3>2, <3>5, <3>6 DEF Untried
    <3>8. {n \in {ngen_nbr'} : ngen_valid_out'} = {Ngen!Step(B, d)}
      BY <3>1, <3>2
    <3>9. QED BY <1>7, <2>1, <3>4, <3>7, <3>8
  <2>4. CASE Ngen!Exhausted
    <3>1. Untried = {} /\ active' = FALSE /\ ngen_valid_out' = FALSE
      BY <2>1, <2>4 DEF Ngen!Exhausted
    <3>2. Untried' = {}
      BY <1>7, <3>1 DEF Untried
    <3>3. QED BY <1>7, <3>1, <3>2
  <2>5. QED BY <1>1, <1>2, <1>7, <2>3, <2>4 DEF Ngen!Generate, Ngen!Reset, Ngen!NoRequest
<1>8. QED BY <1>5, <1>6, <1>7

-----------------------------------------------------------------------------
(* What an edge of a run leaves alone of the flood fill's state, and how   *)
(* the rest is read off the registers.                                     *)
LEMMA RunFrame ==
  ASSUME IInv, Fill, Clock, Running
  PROVE  /\ UNCHANGED <<Area, Land, Near, Abs!grid>>
         /\ \A c : (Index(c))' = Index(c)
         /\ Frontier = {Index(c) : c \in Waiting}
         /\ Frontier' = {Index(c) : c \in Waiting'}
         /\ Phase = "running"
         /\ Marked' = Marked \cup {a \in {vis_addr'} : vis_we'}
<1>1. UNCHANGED <<Area, Land, Near, Abs!grid>> /\ \A c : (Index(c))' = Index(c)
  BY GridKept, GridSame
<1>2. Frontier = {Index(c) : c \in Waiting}
  BY FrontierIs
<1>3. Frontier' = {Index(c) : c \in Waiting'}
  BY <1>1 DEF Frontier, Waiting
<1>4. Phase = "running"
  BY DEF Running, Phase
<1>5. {a \in DOMAIN visited' : visited'[a]} = Marked
  <2>1. visited \in [0 .. MaxCells - 1 -> BOOLEAN] /\ (vis_we => vis_addr \in 0 .. MaxCells - 1)
    BY TypeParts DEF IInv, MemoryTypes, Fill, MarkInMemory
  <2>2. visited' = IF vis_we THEN [visited EXCEPT ![vis_addr] = TRUE] ELSE visited
    BY <2>1, RunFacts, TickParts DEF Vis!Commit, Vis!Addresses
  <2>3. CASE vis_we
    <3>1. visited' = [visited EXCEPT ![vis_addr] = TRUE] /\ vis_addr \in 0 .. MaxCells - 1
      BY <2>1, <2>2, <2>3
    <3>2. QED BY <2>1, <2>3, <3>1 DEF Marked
  <2>4. CASE ~vis_we
    BY <2>2, <2>4 DEF Marked
  <2>5. QED BY <2>3, <2>4
<1>6. Marked' = {a \in DOMAIN visited' : visited'[a]} \cup {a \in {vis_addr'} : vis_we'}
  BY DEF Marked
<1>7. QED BY <1>1, <1>2, <1>3, <1>4, <1>5, <1>6

(* An edge at which the flood fill stays where it is. *)
LEMMA Stays ==
  ASSUME IInv, Fill, Clock, Running, Phase' = "running", Todo' = Todo, Frontier' = Frontier,
         ~vis_we', UNCHANGED <<island_count, overflow, is_new_island_start>>
  PROVE  UNCHANGED Abs!vars
<1>1. Marked' = Marked
  BY RunFrame
<1>2. QED BY <1>1, RunFrame DEF Abs!vars, Abs!run

(* Between two seeds: the scan starts, ends, or takes up its next cell. *)
LEMMA ScanSteps ==
  ASSUME IInv, Fill, Clock, Running,
         Ctl!LoadStart \/ Ctl!ScanNext \/ Ctl!ScanEnd \/ Ctl!PopEmpty
  PROVE  [Abs!Next]_(Abs!vars)
<1>1. rows \in Nat \ {0} /\ cols \in Nat \ {0} /\ scan \in Coord /\ Fits
  BY RunFacts, TypeParts DEF IInv, ControllerTypes
<1>2. ~vis_we' /\ ~stk_pop' /\ Stk!EffSp = 0 /\ Stk!EffSp \in 0 .. StackDepth
  BY FsmRequests, TickParts, ShownToFsm
  DEF Ctl!LoadStart, Ctl!ScanNext, Ctl!ScanEnd, Ctl!PopEmpty, Fill, StackEmpty
<1>3. OnStack = {} /\ InFlight = {} /\ InFlight' = {}
  BY <1>2 DEF OnStack, InFlight, Ctl!LoadStart, Ctl!ScanNext, Ctl!ScanEnd, Ctl!PopEmpty
<1>4. Frontier = {}
  BY <1>3 DEF Frontier
<1>5. CASE Ctl!LoadStart \/ Ctl!ScanEnd \/ Ctl!PopEmpty
  <2>1. ~stk_push' /\ UNCHANGED <<island_count, overflow, is_new_island_start>>
    <3>1. Ctl!Raise({}) /\ UNCHANGED Ctl!counters /\ UNCHANGED is_new_island_start
      BY <1>5 DEF Ctl!LoadStart, Ctl!ScanEnd, Ctl!PopEmpty
    <3>2. QED BY <3>1 DEF Ctl!Raise, Ctl!counters
  <2>2. Frontier' = {}
    BY <1>2, <1>3, <2>1, OnStackTick DEF Frontier
  <2>3. CASE Ctl!LoadStart
    <3>1. state = "LoadStart" /\ state' = "ScanNext" /\ scan' = <<0, 0>>
      BY <2>3 DEF Ctl!LoadStart
    <3>2. Index(<<0, 0>>) = 0
      BY <1>1 DEF Index, Ctl!cell_index
    <3>3. Todo' = {a \in Area : a >= 0}
      BY <3>1, <3>2, RunFrame DEF Todo
    <3>4. \A a \in Area : a >= 0
      BY <1>1, CoordOf
    <3>5. Todo' = Todo
      BY <3>1, <3>3, <3>4 DEF Todo
    <3>6. QED BY <1>2, <1>4, <2>1, <2>2, <3>1, <3>5, Stays DEF Phase
  <2>4. CASE Ctl!PopEmpty
    <3>1. state = "Pop" /\ state' = "ScanNext" /\ scan' = scan
      BY <2>4 DEF Ctl!PopEmpty
    <3>2. Todo' = Todo
      BY <3>1, RunFrame DEF Todo
    <3>3. QED BY <1>2, <1>4, <2>1, <2>2, <3>1, <3>2, Stays DEF Phase
  <2>5. CASE Ctl!ScanEnd
    <3>1. state = "ScanNext" /\ state' = "Done" /\ scan[2] = rows /\ scan[1] = 0
      BY <1>1, <2>5 DEF Ctl!ScanEnd, Fill, ScanInGrid, Coord
    <3>2. Index(scan) = rows * cols /\ rows * cols \in Nat
      BY <1>1, <3>1 DEF Index, Ctl!cell_index
    <3>3. \A a \in Area : a < rows * cols
      BY <1>1, <3>2 DEF Area
    <3>4. Todo = {a \in Area : a >= rows * cols}
      BY <3>1, <3>2 DEF Todo
    <3>5. \A a \in Area : a \in Nat
      BY <1>1, CoordOf
    <3>6. Todo = {} /\ Todo' = {} /\ Phase' = "finished"
      BY <3>1, <3>2, <3>3, <3>4, <3>5 DEF Todo, Phase
    <3>7. Abs!Finish
      BY <1>2, <1>4, <2>1, <2>2, <3>6, RunFrame DEF Abs!Finish
    <3>8. QED BY <3>7 DEF Abs!Next
  <2>6. QED BY <1>5, <2>3, <2>4, <2>5
<1>6. CASE Ctl!ScanNext
  <2>1. ~stk_out.full /\ Stk!EffSp < StackDepth
    BY <1>2, ShownToFsm
  <2>2. /\ stk_push' /\ stk_in' = scan /\ state' = "Pop" /\ scan' = Ctl!NextScan
        /\ state = "ScanNext" /\ scan[2] < rows /\ is_new_island_start' = TRUE
        /\ UNCHANGED <<island_count, overflow>>
    BY <1>6, <2>1 DEF Ctl!ScanNext, Ctl!Full, Ctl!Raise
  <2>3. scan[1] < cols /\ scan[1] \in Nat /\ scan[2] \in Nat
    BY <1>1, <2>2 DEF Fill, ScanInGrid, Coord
  <2> DEFINE c == Index(scan)
  <2>4. c \in Area /\ c \in 0 .. MaxCells - 1
    BY <1>1, <2>2, <2>3, AddressOf DEF Ngen!OnGrid
  <2>5. Index(Ctl!NextScan) = c + 1
    <3>1. CASE scan[1] + 1 >= cols
      <4>1. scan[1] + 1 = cols /\ Ctl!NextScan = <<0, scan[2] + 1>>
        BY <1>1, <2>3, <3>1 DEF Ctl!NextScan
      <4>2. (scan[2] + 1) * cols = scan[2] * cols + cols
        BY <1>1, <2>3
      <4>3. QED BY <1>1, <2>3, <4>1, <4>2 DEF Index, Ctl!cell_index
    <3>2. CASE ~(scan[1] + 1 >= cols)
      <4>1. Ctl!NextScan = <<scan[1] + 1, scan[2]>>
        BY <3>2 DEF Ctl!NextScan
      <4>2. scan[2] * cols \in Nat
        BY <1>1, <2>3
      <4>3. QED BY <2>3, <4>1, <4>2 DEF Index, Ctl!cell_index
    <3>3. QED BY <3>1, <3>2
  <2>6. Todo = {a \in Area : a >= c}
    BY <2>2 DEF Todo
  <2>7. Todo' = {a \in Area : a >= c + 1}
    BY <2>2, <2>5, RunFrame DEF Todo
  <2>8. \A a \in Area : a \in Nat
    BY <1>1, CoordOf
  <2>9. OnStack' = {scan}
    BY <1>3, <2>1, <2>2, OnStackTick
  <2>10. Frontier' = {c}
    BY <1>3, <2>9, RunFrame DEF Waiting
  <2> HIDE DEF c
  <2>11. c \in Todo /\ Todo' = Todo \ {c}
    <3>1. c \in Nat /\ \A a \in Area : a >= c + 1 <=> a >= c /\ a # c
      BY <2>4, <2>8
    <3>2. c \in Todo
      BY <2>4, <2>6, <3>1
    <3>3. QED BY <2>6, <2>7, <3>1, <3>2, Zenon
  <2>12. Phase' = "running"
    BY <2>2 DEF Phase
  <2>13. Marked' = Marked
    BY <1>2, RunFrame
  <2>14. Abs!Seed(c)
    BY <1>4, <2>2, <2>10, <2>11, <2>12, <2>13, RunFrame DEF Abs!Seed
  <2>15. QED BY <2>4, <2>14 DEF Abs!Next
<1>7. QED BY <1>5, <1>6

(* What the FSM reads when it visits a cell. *)
LEMMA VisitFacts ==
  ASSUME IInv, Fill, Clock, Running, BusWaits, state = "Visit"
  PROVE  /\ cur_node \in Coord /\ Ngen!OnGrid(cur_node) /\ Fits
         /\ Index(cur_node) \in Area /\ Index(cur_node) \in 0 .. MaxCells - 1
         /\ Ctl!Skip <=> Index(cur_node) \in Marked \/ Index(cur_node) \notin Land
<1> DEFINE c == Index(cur_node)
<1>1. /\ cur_node \in Coord /\ Ngen!OnGrid(cur_node) /\ vis_addr = c /\ Fits /\ ~vis_we
      /\ ~start_pulse
  BY RunFacts, TypeParts DEF IInv, ControllerTypes, Fill, OnGrid, WiresFresh, Requests
<1>2. c \in Area /\ c \in 0 .. MaxCells - 1
  BY <1>1, AddressOf
<1>3. visited \in [0 .. MaxCells - 1 -> BOOLEAN] /\ cells \in [0 .. MaxCells - 1 -> Int]
  BY TypeParts DEF IInv, MemoryTypes
<1>4. vis_is_visited <=> visited[c]
  BY <1>1, <1>2 DEF IInv, WiresFresh, MarksFresh, Vis!Shown, Vis!Addresses
<1>5. grid_value = cells[c]
  <2>1. grid_value = Grid!Shown
    BY DEF Running, Fill, RunSettled, IInv, PortFresh, GridFresh
  <2>2. QED BY <1>1, <1>2, <2>1 DEF Grid!Shown, Grid!Addresses, Fill, PortWritten
<1>6. c \in Marked <=> visited[c]
  BY <1>1, <1>2, <1>3 DEF Marked
<1>7. c \in Land <=> cells[c] # 0
  BY <1>2, <1>3 DEF Land
<1>8. QED BY <1>1, <1>2, <1>4, <1>5, <1>6, <1>7 DEF Ctl!Skip

(* A cell leaves the stack, and is skipped or marked at the next edge. *)
LEMMA VisitSteps ==
  ASSUME IInv, Fill, Clock, Running, BusWaits, Ctl!Pop \/ Ctl!VisitSkip \/ Ctl!Visit
  PROVE  [Abs!Next]_(Abs!vars)
<1>1. Todo' = Todo /\ Phase' = "running"
  <2>1. scan' = scan /\ state \in {"Pop", "Visit"} /\ state' \in {"Visit", "Pop", "GenNeighbors"}
    BY DEF Ctl!Pop, Ctl!VisitSkip, Ctl!Visit
  <2>2. QED BY <2>1, RunFrame DEF Todo, Phase
<1>2. ~active /\ ~ngen_valid_in
  BY DEF Ctl!Pop, Ctl!VisitSkip, Ctl!Visit, Fill, Asking
<1>3. CASE Ctl!Pop
  <2>1. Ctl!Raise({"pop"}) /\ UNCHANGED Ctl!counters /\ UNCHANGED is_new_island_start
    BY <1>3 DEF Ctl!Pop
  <2>2. /\ ~stk_push' /\ stk_pop' /\ ~vis_we' /\ UNCHANGED <<island_count, overflow, is_new_island_start>>
    BY <2>1 DEF Ctl!Raise, Ctl!counters
  <2>3. state = "Pop" /\ state' = "Visit" /\ cur_node' = stk_out.top /\ ~stk_out.empty
    BY <1>3 DEF Ctl!Pop
  <2>4. OnStack = OnStack' \cup {stk_out.top}
    BY <2>2, <2>3, ShownToFsm, OnStackTick
  <2>5. InFlight = {} /\ InFlight' = {stk_out.top}
    BY <2>3 DEF InFlight
  <2>6. Frontier' = Frontier
    BY <2>4, <2>5, RunFrame DEF Waiting
  <2>7. QED BY <1>1, <2>2, <2>6, Stays
<1> DEFINE c == Index(cur_node)
<1>4. CASE Ctl!VisitSkip
  <2>1. Ctl!Raise({}) /\ UNCHANGED Ctl!counters /\ UNCHANGED is_new_island_start
    BY <1>4 DEF Ctl!VisitSkip
  <2>2. /\ ~stk_push' /\ ~stk_pop' /\ ~vis_we' /\ UNCHANGED <<island_count, overflow, is_new_island_start>>
    BY <2>1 DEF Ctl!Raise, Ctl!counters
  <2>3. state = "Visit" /\ state' = "Pop" /\ Ctl!Skip
    BY <1>4 DEF Ctl!VisitSkip
  <2>4. c \in 0 .. MaxCells - 1 /\ (c \in Marked \/ c \notin Land)
    BY <2>3, VisitFacts
  <2>5. OnStack' = OnStack /\ InFlight = {cur_node} /\ InFlight' = {}
    BY <2>2, <2>3, OnStackTick DEF InFlight
  <2>6. Frontier = Frontier' \cup {c}
    BY <2>5, RunFrame DEF Waiting
  <2> HIDE DEF c
  <2>7. CASE c \in Frontier'
    <3>1. Frontier' = Frontier
      BY <2>6, <2>7
    <3>2. QED BY <1>1, <2>2, <3>1, Stays
  <2>8. CASE c \notin Frontier'
    <3>1. c \in Frontier /\ Frontier' = Frontier \ {c}
      BY <2>6, <2>8
    <3>2. Marked' = Marked
      BY <2>2, RunFrame
    <3>3. Abs!Skip(c)
      BY <1>1, <2>2, <2>4, <3>1, <3>2, RunFrame DEF Abs!Skip
    <3>4. QED BY <2>4, <3>3 DEF Abs!Next
  <2>9. QED BY <2>7, <2>8
<1>5. CASE Ctl!Visit
  <2>1. Ctl!Raise({"mark", "neighbor"})
    BY <1>5 DEF Ctl!Visit
  <2>2. ~stk_push' /\ ~stk_pop' /\ vis_we' /\ ngen_valid_in'
    BY <2>1 DEF Ctl!Raise
  <2>3. /\ state = "Visit" /\ state' = "GenNeighbors" /\ ~Ctl!Skip
        /\ vis_addr' = c /\ ngen_cur' = cur_node
        /\ island_count' = (IF is_new_island_start THEN island_count + 1 ELSE island_count)
        /\ is_new_island_start' = FALSE /\ overflow' = overflow
    BY <1>5 DEF Ctl!Visit, Index
  <2>4. /\ cur_node \in Coord /\ Ngen!OnGrid(cur_node) /\ Fits
        /\ c \in Area /\ c \in 0 .. MaxCells - 1 /\ c \notin Marked /\ c \in Land
    BY <2>3, VisitFacts
  <2>5. At(c) = cur_node
    BY <2>4, AddressOf
  <2>6. Untried' = {Ngen!Step(cur_node, d) : d \in Ngen!Dirs(cur_node, 0, Degree)}
    <3>1. Untried' = {Ngen!Step(ngen_cur', d) : d \in Ngen!Dirs(ngen_cur', 0, Degree)}
      BY <1>2, <2>2, UntriedTick
    <3>2. QED BY <2>3, <3>1
  <2>7. Near[c] = {Index(n) : n \in Untried'}
    <3>1. Near[c] = {Index(Ngen!Step(cur_node, d)) : d \in Ngen!Dirs(cur_node, 0, Degree)}
      BY <2>4, <2>5 DEF Near
    <3>2. QED BY <2>6, <3>1
  <2>8. ~ngen_valid_out'
    BY <1>2, GridKept, RunFacts, GeneratorRuns, TickParts DEF IInv
  <2>9. OnStack' = OnStack /\ InFlight = {cur_node} /\ InFlight' = Untried'
    BY <2>2, <2>3, <2>8, OnStackTick DEF InFlight
  <2> DEFINE S == {Index(n) : n \in OnStack}
  <2>10. Frontier = S \cup {c} /\ Frontier' = S \cup Near[c]
    BY <2>7, <2>9, RunFrame DEF Waiting
  <2>11. Marked' = Marked \cup {c}
    BY <2>2, <2>3, RunFrame
  <2> HIDE DEF c, S
  <2>12. S \in {Frontier, Frontier \ {c}}
    BY <2>10
  <2>13. \E left \in {Frontier, Frontier \ {c}} : Frontier' = left \cup Near[c]
    BY <2>10, <2>12
  <2>14. c \in (Frontier \cap Land) \ Marked
    BY <2>4, <2>10
  <2>15. Abs!Mark(c)
    BY <1>1, <2>3, <2>11, <2>13, <2>14, RunFrame DEF Abs!Mark
  <2>16. QED BY <2>4, <2>15 DEF Abs!Next
<1>6. QED BY <1>3, <1>4, <1>5

(* The neighbours of a marked cell come from the generator one by one, and *)
(* go onto the stack while it has room.                                    *)
LEMMA NeighborSteps ==
  ASSUME IInv, Fill, Clock, Running,
         Ctl!GenWait \/ Ctl!GenLatch \/ Ctl!GenIdle \/ Ctl!PushNeighbor
  PROVE  [Abs!Next]_(Abs!vars)
<1>1. Todo' = Todo /\ Phase' = "running" /\ UNCHANGED <<island_count, is_new_island_start>>
  <2>1. /\ scan' = scan /\ state \in {"GenNeighbors", "PushNeighbor"}
        /\ state' \in {"Pop", "PushNeighbor", "GenNeighbors"}
        /\ UNCHANGED <<island_count, is_new_island_start>>
    BY DEF Ctl!GenWait, Ctl!GenLatch, Ctl!GenIdle, Ctl!PushNeighbor, Ctl!counters
  <2>2. QED BY <2>1, RunFrame DEF Todo, Phase
<1>2. ~vis_we'
  BY FsmRequests, TickParts DEF Ctl!GenWait, Ctl!GenLatch, Ctl!GenIdle, Ctl!PushNeighbor
<1>3. ~ngen_valid_in => ~ngen_valid_out' /\ UNCHANGED <<active, ngen_nbr>>
  BY GridKept, RunFacts, GeneratorRuns, TickParts DEF IInv
<1>4. CASE Ctl!GenWait \/ Ctl!GenLatch \/ Ctl!GenIdle
  <2>1. Ctl!Raise({}) /\ overflow' = overflow
    BY <1>4 DEF Ctl!GenWait, Ctl!GenLatch, Ctl!GenIdle, Ctl!counters
  <2>2. ~stk_push' /\ ~stk_pop' /\ ~ngen_valid_in'
    BY <2>1 DEF Ctl!Raise
  <2>3. OnStack' = OnStack
    BY <2>2, OnStackTick
  <2>4. InFlight' = InFlight
    <3>1. CASE Ctl!GenWait
      <4>1. state = "GenNeighbors" /\ ngen_wait /\ state' = "GenNeighbors"
        BY <3>1 DEF Ctl!GenWait
      <4>2. ngen_valid_in /\ ~ngen_valid_out
        BY <4>1 DEF Fill, Asking
      <4>3. Untried = Untried' \cup {n \in {ngen_nbr'} : ngen_valid_out'}
        BY <2>2, <4>2, UntriedTick
      <4>4. QED BY <4>1, <4>2, <4>3 DEF InFlight
    <3>2. CASE Ctl!GenLatch
      <4>1. /\ state = "GenNeighbors" /\ ~ngen_wait /\ ngen_valid_out
            /\ state' = "PushNeighbor" /\ nbr_latch' = ngen_nbr
        BY <3>2 DEF Ctl!GenLatch
      <4>2. ~ngen_valid_in /\ active
        BY <4>1 DEF Fill, Asking
      <4>3. Untried' = Untried
        BY <2>2, <4>2, UntriedTick
      <4>4. QED BY <4>1, <4>3 DEF InFlight
    <3>3. CASE Ctl!GenIdle
      <4>1. /\ state = "GenNeighbors" /\ ~ngen_wait /\ ~ngen_valid_out
            /\ state' \in {"Pop", "GenNeighbors"}
        BY <3>3 DEF Ctl!GenIdle
      <4>2. ~ngen_valid_in /\ ~active
        BY <4>1 DEF Fill, Asking
      <4>3. Untried = {} /\ Untried' = {} /\ ~ngen_valid_out'
        BY <1>3, <2>2, <4>2 DEF Untried
      <4>4. QED BY <4>1, <4>3 DEF InFlight
    <3>4. QED BY <1>4, <3>1, <3>2, <3>3
  <2>5. Frontier' = Frontier
    BY <2>3, <2>4, RunFrame DEF Waiting
  <2>6. QED BY <1>1, <1>2, <2>1, <2>5, Stays
<1>5. CASE Ctl!PushNeighbor
  <2>1. /\ state = "PushNeighbor" /\ state' = "GenNeighbors" /\ Ctl!Raise(Ctl!Asked)
        /\ stk_in' = (IF Ctl!Full THEN stk_in ELSE nbr_latch) /\ overflow' = Ctl!Dropped
    BY <1>5 DEF Ctl!PushNeighbor
  <2>2. ~ngen_valid_in /\ active /\ ~is_new_island_start /\ ~ngen_valid_out'
    BY <1>3, <2>1 DEF Fill, Asking, RootMarked
  <2>3. Untried' = Untried
    BY <2>2, UntriedTick
  <2>4. InFlight = {nbr_latch} \cup Untried /\ InFlight' = Untried
    BY <2>1, <2>2, <2>3 DEF InFlight
  <2>5. CASE ~Ctl!Full
    <3>1. stk_push' /\ stk_in' = nbr_latch /\ overflow' = (overflow \/ FALSE)
      BY <2>1, <2>5 DEF Ctl!Raise, Ctl!Asked, Ctl!Dropped
    <3>2. overflow' = overflow
      BY <3>1 DEF IInv, TypeOK
    <3>3. Stk!EffSp < StackDepth
      BY <2>5, ShownToFsm DEF Ctl!Full
    <3>4. OnStack' = OnStack \cup {nbr_latch}
      BY <3>1, <3>3, OnStackTick
    <3>5. Frontier' = Frontier
      BY <2>4, <3>4, RunFrame DEF Waiting
    <3>6. QED BY <1>1, <1>2, <3>2, <3>5, Stays
  <2>6. CASE Ctl!Full
    <3> DEFINE c == Index(nbr_latch)
    <3>1. ~stk_push' /\ ~stk_pop' /\ overflow' = (overflow \/ Ctl!Full)
      BY <2>1, <2>6 DEF Ctl!Raise, Ctl!Asked, Ctl!Dropped
    <3>2. overflow' = TRUE
      <4>1. overflow' \in BOOLEAN
        BY TypeTick DEF IInv, TypeOK, Clock
      <4>2. QED BY <2>6, <3>1, <4>1
    <3>3. OnStack' = OnStack
      BY <3>1, OnStackTick
    <3>4. Frontier = Frontier' \cup {c}
      BY <2>4, <3>3, RunFrame DEF Waiting
    <3>5. c \in 0 .. MaxCells - 1
      <4>1. nbr_latch \in Coord /\ Ngen!OnGrid(nbr_latch)
        BY <2>1, TypeParts DEF IInv, ControllerTypes, Fill, OnGrid
      <4>2. QED BY <4>1, RunFacts, AddressOf
    <3> HIDE DEF c
    <3>6. c \in Frontier /\ Frontier' \in {Frontier, Frontier \ {c}}
      BY <3>4
    <3>7. Marked' = Marked
      BY <1>2, RunFrame
    <3>8. Abs!Lose(c)
      BY <1>1, <2>2, <3>2, <3>6, <3>7, RunFrame DEF Abs!Lose
    <3>9. QED BY <3>5, <3>8 DEF Abs!Next
  <2>7. QED BY <2>5, <2>6
<1>6. QED BY <1>4, <1>5

-----------------------------------------------------------------------------
(* An edge between runs takes the Start pulse, or changes nothing.         *)
LEMMA RestTick ==
  ASSUME IInv, Fill, IInv', Fill', Clock, ~Running
  PROVE  [Abs!Next]_(Abs!vars)
<1>1. /\ state \in {"Idle", "Done"} /\ ~vis_we /\ Ctl!run_fsm
      /\ UNCHANGED <<rst_n, pc>> /\ rst_n \in BOOLEAN /\ start_pulse \in BOOLEAN
  BY Rested, TickParts, GridKept, TypeParts DEF IInv, ConfigTypes
<1>2. CASE rst_n /\ start_pulse
  <2>1. state' = "LoadStart" /\ (Ctl!Idle \/ Ctl!DoneRestart)
    BY <1>1, <1>2, FsmRests
    DEF Ctl!run_fsm, Ctl!Reset, Ctl!LoadStart, Ctl!ScanNext, Ctl!ScanEnd, Ctl!PopEmpty, Ctl!Pop,
        Ctl!VisitSkip, Ctl!Visit, Ctl!GenWait, Ctl!GenLatch, Ctl!GenIdle, Ctl!PushNeighbor,
        Ctl!DoneHold
  <2>2. island_count' = 0 /\ overflow' = FALSE /\ is_new_island_start' = is_new_island_start
        /\ ~vis_we'
    <3>1. Ctl!NewRun /\ is_new_island_start' = is_new_island_start
      BY <1>2, <2>1 DEF Ctl!Idle, Ctl!DoneRestart
    <3>2. ~vis_we'
      BY <1>1, <1>2, FsmRests
    <3>3. QED BY <3>1, <3>2 DEF Ctl!NewRun
  <2>3. visited' = [a \in 0 .. MaxCells - 1 |-> FALSE]
    BY <1>2, TickParts DEF Vis!Commit, Vis!Addresses
  <2>4. Marked' = {}
    BY <2>2, <2>3 DEF Marked
  <2>5. OnStack' = {} /\ InFlight' = {}
    <3>1. Stk!EffSp' = 0
      BY <2>1 DEF Fill, StackEmpty
    <3>2. QED BY <2>1, <3>1 DEF OnStack, InFlight
  <2>6. UNCHANGED <<Area, Abs!grid>>
    BY GridKept, GridSame
  <2>7. Todo' = Area /\ Frontier' = {} /\ Phase' = "running" /\ Phase # "running"
    BY <1>1, <2>1, <2>5, <2>6 DEF Todo, Frontier, Phase
  <2>8. Abs!Begin
    BY <2>2, <2>4, <2>6, <2>7 DEF Abs!Begin
  <2>9. QED BY <2>8 DEF Abs!Next
<1>3. CASE ~(rst_n /\ start_pulse)
  <2>1. UNCHANGED <<state, island_count, overflow, is_new_island_start>>
    <3>1. CASE rst_n
      BY <1>1, <1>3, <3>1, FsmRests
    <3>2. CASE ~rst_n
      <4>1. Ctl!Reset /\ pc = "reset"
        BY <1>1, <3>2 DEF Ctl!run_fsm, IInv, Handshake, Resting
      <4>2. QED BY <4>1 DEF Ctl!Reset, Fill, Untouched
    <3>3. QED BY <3>1, <3>2
  <2>2. ~start_pulse
    BY <1>1, <1>3 DEF IInv, Handshake, Resting, Pending
  <2>3. visited' = visited
    BY <1>1, <2>2, TickParts DEF Vis!Commit
  <2>4. QED BY <2>1, <2>3, RestStep
<1>4. QED BY <1>2, <1>3

(* Every edge is a step of the flood fill, or changes nothing of it.       *)
LEMMA ClockStep ==
  ASSUME IInv, Fill, IInv', Fill', Clock, BusWaits
  PROVE  [Abs!Next]_(Abs!vars)
<1>1. CASE ~Running
  BY <1>1, RestTick
<1>2. CASE Running
  <2>1. Ctl!run_fsm /\ rst_n
    BY <1>2, RunFacts, TickParts
  <2>2. \/ Ctl!LoadStart \/ Ctl!ScanNext \/ Ctl!ScanEnd \/ Ctl!PopEmpty
        \/ Ctl!Pop \/ Ctl!VisitSkip \/ Ctl!Visit
        \/ Ctl!GenWait \/ Ctl!GenLatch \/ Ctl!GenIdle \/ Ctl!PushNeighbor
    BY <1>2, <2>1 DEF Running, Ctl!run_fsm, Ctl!Reset, Ctl!Idle, Ctl!DoneHold, Ctl!DoneRestart
  <2>3. QED BY <1>2, <2>2, ScanSteps, VisitSteps, NeighborSteps
<1>3. QED BY <1>1, <1>2

(* What the flood fill's state is read from. *)
mapped == <<rows, cols, params, cells, controller, stack, generator, visited, start_pulse, rst_n>>

(* A step that leaves the mapped registers alone changes nothing of it.    *)
LEMMA Unmoved == ASSUME UNCHANGED mapped PROVE UNCHANGED Abs!vars
<1>1. UNCHANGED <<rows, cols, params, cells>>
  BY DEF mapped
<1>2. /\ UNCHANGED <<rst_n, start_pulse, state, scan, cur_node, nbr_latch, ngen_valid_in, ngen_cur,
                     is_new_island_start, vis_addr, vis_we, stk_push, stk_pop, stk_in, island_count,
                     overflow, storage, sp, active, next_dir, num_dirs, base, ngen_valid_out, ngen_nbr,
                     visited>>
  BY DEF mapped, controller, stack, generator
<1>3. UNCHANGED <<Area, Land, Near, Abs!grid>> /\ \A c : (Index(c))' = Index(c)
  BY <1>1, GridSame
<1>4. OnStack' = OnStack
  <2>1. Stk!EffSp' = Stk!EffSp /\ Stk!EffItems' = Stk!EffItems
    BY <1>2 DEF Stk!EffSp, Stk!EffItems, Stk!DoPush, Stk!DoPop, Stk!Held
  <2>2. QED BY <2>1 DEF OnStack
<1>5. Untried' = Untried
  <2>1. Ngen!Base' = Ngen!Base /\ Ngen!From' = Ngen!From /\ Ngen!Num' = Ngen!Num
    BY <1>1, <1>2 DEF Ngen!Base, Ngen!From, Ngen!Num
  <2>2. (Ngen!Dirs(Ngen!Base, Ngen!From, Ngen!Num))' = Ngen!Dirs(Ngen!Base, Ngen!From, Ngen!Num)
    BY <1>1, <2>1 DEF Ngen!Dirs, Ngen!OnGrid
  <2>3. QED BY <1>2, <2>1, <2>2 DEF Untried
<1>6. InFlight' = InFlight
  BY <1>2, <1>5 DEF InFlight
<1>7. Frontier' = Frontier
  BY <1>3, <1>4, <1>6 DEF Frontier
<1>8. Phase' = Phase /\ Todo' = Todo /\ Marked' = Marked
  BY <1>2, <1>3 DEF Phase, Todo, Marked
<1>9. QED BY <1>2, <1>3, <1>7, <1>8 DEF Abs!vars, Abs!run

(* The driver's accesses load grids between runs, and are not seen by a    *)
(* run.                                                                    *)
LEMMA HostSteps ==
  ASSUME IInv, Fill, IInv', Fill', run
  PROVE  [Abs!Next]_(Abs!vars)
<1>1. CASE UNCHANGED vars
  BY <1>1, Unmoved DEF mapped, vars, config, handshake, gridmem, marks
<1>2. CASE ReleaseReset
  <2>1. pc = "reset" /\ UNCHANGED controller /\ UNCHANGED marks
    BY <1>2 DEF ReleaseReset, SetReset
  <2>2. ~Running
    BY <2>1 DEF Fill, Untouched, Running
  <2>3. QED BY <2>1, <2>2, RestStep DEF controller, marks
<1>3. CASE HostWrite /\ ~UNCHANGED vars
  <2>1. UNCHANGED Inner
    BY <1>3, HostWriteFrame
  <2>2. pc # "wait_done"
    BY <1>3 DEF run, ReleaseReset, BeginRun, LoadRows, LoadCols, LoadOrigin, LoadParams, LoadCell,
                EnableRead, StartRead, ReadControl, EnableWrite, StartWrite, Poll, ReadResult, Access
  <2>3. ~Running
    BY <2>2 DEF Running, IInv, Handshake, Resting
  <2>4. QED BY <2>1, <2>3, RestStep DEF Inner, controller, marks
<1>4. QED BY <1>1, <1>2, <1>3, RunIs DEF IInv

(* Every step is a step of the flood fill, or changes nothing of it.       *)
LEMMA MappedStep ==
  BusWaits /\ IInv /\ Fill /\ IInv' /\ Fill' /\ [Next]_allvars => [Abs!Next]_(Abs!vars)
<1>1. SUFFICES ASSUME BusWaits, IInv, Fill, IInv', Fill', [Next]_allvars
               PROVE  [Abs!Next]_(Abs!vars)
  OBVIOUS
<1>2. CASE Delta
  BY <1>2, Unmoved DEF Delta, Settle, mapped, config, handshake, Inner, marks
<1>3. CASE UNCHANGED allvars
  BY <1>3, Unmoved DEF allvars, mapped, vars, config, handshake, gridmem, marks
<1>4. QED BY <1>1, <1>2, <1>3, ClockStep, HostSteps DEF Next

(* The first state is a first state of the flood fill.                     *)
LEMMA MappedInit == IInv /\ Fill /\ DriverInit => Abs!Init
<1>1. SUFFICES ASSUME IInv, Fill, DriverInit PROVE Abs!Init
  OBVIOUS
<1>2. /\ state = "Idle" /\ island_count = 0 /\ overflow = FALSE /\ is_new_island_start = FALSE
      /\ vis_we = FALSE /\ visited = [a \in 0 .. MaxCells - 1 |-> FALSE]
  BY <1>1 DEF DriverInit, Init, InitWith, Ctl!Init
<1>3. Stk!EffSp = 0
  BY <1>1, <1>2 DEF Fill, StackEmpty
<1>4. Phase = "idle"
  BY <1>2 DEF Phase
<1>5. Todo = {} /\ Frontier = {} /\ Marked = {}
  <2>1. Todo = {} /\ Frontier = {} /\ Marked = {a \in DOMAIN visited : visited[a]}
    BY <1>2, <1>3, RestIs
  <2>2. QED BY <1>2, <2>1
<1>6. Abs!IsGrid
  BY <1>1, GridOk DEF IInv
<1>7. QED BY <1>2, <1>4, <1>5, <1>6 DEF Abs!Init

(* Every access of the driver and every edge of the accelerator is a step  *)
(* of the flood fill, or leaves it where it is (accelerator_driver.h run   *)
(* over dfs_accelerator.h), when the bus waits after an access, as TlmBus  *)
(* does; a host that does not wait may leave the grid's preview at a cell  *)
(* it has since rewritten.                                                 *)
THEOREM Implements == ASSUME BusWaits PROVE Spec => ImplementsIslandScan
<1>1. DriverInit => Abs!Init
  BY IInvInit, FillInit, MappedInit
<1>2. BusWaits /\ IInv /\ Fill /\ IInv' /\ Fill' /\ [Next]_allvars => [Abs!Next]_(Abs!vars)
  BY MappedStep
<1>3. IInv /\ Fill /\ IInv' /\ Fill' /\ [Next]_allvars => [Abs!Next]_(Abs!vars)
  BY <1>2
<1>4. QED BY <1>1, <1>3, Invariance, FillInvariance, PTL DEF Spec, ImplementsIslandScan, Abs!Spec

-----------------------------------------------------------------------------
(* What is proved of the flood fill holds of a traversal.                  *)
Scan == INSTANCE IslandScan_proofs WITH
          Cell <- 0 .. MaxCells - 1, area <- Area, land <- Land, near <- Near,
          phase <- Phase, todo <- Todo, frontier <- Frontier, marked <- Marked,
          islands <- island_count, lost <- overflow, root <- is_new_island_start

(* Cardinality is the same through the instance.                           *)
LEMMA CardinalityIs == \A S : Scan!Cardinality(S) = Cardinality(S)
BY Zenon DEF Scan!Cardinality, Cardinality

(* The two instances of the flood fill are the same specification.         *)
LEMMA ScanIsAbs == (Abs!Init <=> Scan!Init) /\ (Abs!Next <=> Scan!Next) /\ Abs!vars = Scan!vars
<1>1. Abs!Init <=> Scan!Init
  BY DEF Abs!Init, Scan!Init, Abs!IsGrid, Scan!IsGrid, Abs!Symmetric, Scan!Symmetric
<1>2. Abs!Next <=> Scan!Next
  BY DEF Abs!Next, Scan!Next, Abs!Configure, Scan!Configure, Abs!Begin, Scan!Begin,
         Abs!Finish, Scan!Finish, Abs!Seed, Scan!Seed, Abs!Skip, Scan!Skip, Abs!Mark, Scan!Mark,
         Abs!Lose, Scan!Lose, Abs!grid, Scan!grid, Abs!run, Scan!run, Abs!Symmetric, Scan!Symmetric
<1>3. Abs!vars = Scan!vars
  BY DEF Abs!vars, Scan!vars, Abs!grid, Scan!grid, Abs!run, Scan!run
<1>4. QED BY <1>1, <1>2, <1>3

(* The invariant of the flood fill holds of the accelerator.               *)
LEMMA ScanInvariance == ASSUME BusWaits PROVE Spec => []Scan!IInv
<1>1. DriverInit => Scan!Init
  BY IInvInit, FillInit, MappedInit, ScanIsAbs
<1>2. IInv /\ Fill /\ IInv' /\ Fill' /\ [Next]_allvars => [Scan!Next]_(Scan!vars)
  <2>1. Abs!vars' = Scan!vars'
    BY DEF Abs!vars, Scan!vars, Abs!grid, Scan!grid, Abs!run, Scan!run
  <2>2. QED BY <2>1, MappedStep, ScanIsAbs
<1>3. QED BY <1>1, <1>2, Scan!Invariance, Invariance, FillInvariance, PTL DEF Spec, Scan!Spec

-----------------------------------------------------------------------------
(* The counters.                                                           *)

(* The run of the job the registers hold is over. *)
Over == state = "Done" /\ ~run_pending /\ (pc \in {"wait_done", "result"} \/ Reported)

Concluded ==
  Over => /\ Marked = Land
          /\ island_count >= Cardinality(Scan!Regions(Land))
          /\ ~overflow => island_count = Cardinality(Scan!Regions(Land))

(* Each cell is counted as it is marked. *)
Tallied == visited_count = Cardinality(Marked)

(* What the driver is about to read, or has read, are the counters.        *)
Collected ==
  /\ pc = "result" => result_valid
  /\ Reported => /\ state = "Done"
                 /\ report.value = island_count /\ report.visited_cells = visited_count

CInv == Concluded /\ Tallied /\ Collected

(* The marks are cells of the memory.                                      *)
LEMMA MarkedFinite == ASSUME IInv, Fill PROVE Marked \subseteq 0 .. MaxCells - 1 /\ IsFiniteSet(Marked)
<1>1. Marked \subseteq 0 .. MaxCells - 1
  BY TypeParts DEF IInv, MemoryTypes, Fill, MarkInMemory, Marked
<1>2. IsFiniteSet(0 .. MaxCells - 1)
  BY FS_Interval
<1>3. QED BY <1>1, <1>2, FS_Subset

(* A step that leaves the grid, the marks and the counters keeps Concluded.*)
LEMMA ConcludedKept ==
  ASSUME Concluded, Over' => Over, UNCHANGED <<rows, cols, params, cells>>, Marked' = Marked,
         UNCHANGED <<island_count, overflow>>
  PROVE  Concluded'
<1>1. Land' = Land /\ Near' = Near
  BY GridSame
<1>2. (Scan!Regions(Land))' = Scan!Regions(Land)
  BY <1>1 DEF Scan!Regions, Scan!Region, Scan!Closed
<1>3. QED BY <1>1, <1>2 DEF Concluded

(* Marks and counters at an edge between runs. *)
LEMMA RestCounts ==
  ASSUME IInv, Fill, Clock, ~Running
  PROVE  \/ state' = "LoadStart" /\ Marked' = {} /\ visited_count' = 0
         \/ /\ UNCHANGED <<state, visited_count, island_count, overflow, visited>>
            /\ Marked' = Marked
<1>1. /\ state \in {"Idle", "Done"} /\ ~vis_we /\ Ctl!run_fsm
      /\ UNCHANGED <<rst_n, pc>> /\ rst_n \in BOOLEAN /\ start_pulse \in BOOLEAN
  BY Rested, TickParts, GridKept, TypeParts DEF IInv, ConfigTypes
<1>2. ~vis_we'
  BY <1>1, FsmRests
<1>3. CASE rst_n /\ start_pulse
  <2>1. state' = "LoadStart" /\ (Ctl!Idle \/ Ctl!DoneRestart)
    BY <1>1, <1>3, FsmRests
    DEF Ctl!run_fsm, Ctl!Reset, Ctl!LoadStart, Ctl!ScanNext, Ctl!ScanEnd, Ctl!PopEmpty, Ctl!Pop,
        Ctl!VisitSkip, Ctl!Visit, Ctl!GenWait, Ctl!GenLatch, Ctl!GenIdle, Ctl!PushNeighbor,
        Ctl!DoneHold
  <2>2. visited_count' = 0
    BY <1>3, <2>1 DEF Ctl!Idle, Ctl!DoneRestart, Ctl!NewRun
  <2>3. visited' = [a \in 0 .. MaxCells - 1 |-> FALSE]
    BY <1>3, TickParts DEF Vis!Commit, Vis!Addresses
  <2>4. QED BY <1>2, <2>1, <2>2, <2>3 DEF Marked
<1>4. CASE ~(rst_n /\ start_pulse)
  <2>1. UNCHANGED <<state, visited_count, island_count, overflow>>
    <3>1. CASE rst_n
      BY <1>1, <1>4, <3>1, FsmRests
    <3>2. CASE ~rst_n
      <4>1. Ctl!Reset /\ pc = "reset"
        BY <1>1, <3>2 DEF Ctl!run_fsm, IInv, Handshake, Resting
      <4>2. QED BY <4>1 DEF Ctl!Reset, Fill, Untouched
    <3>3. QED BY <3>1, <3>2
  <2>2. ~start_pulse
    BY <1>1, <1>4 DEF IInv, Handshake, Resting, Pending
  <2>3. visited' = visited
    BY <1>1, <2>2, TickParts DEF Vis!Commit
  <2>4. QED BY <1>1, <1>2, <2>1, <2>3 DEF Marked
<1>5. QED BY <1>3, <1>4

(* So does an edge, the one that ends the run included.                    *)
LEMMA ConcludedTick ==
  ASSUME IInv, Fill, IInv', Fill', Scan!IInv, Concluded, Clock, BusWaits
  PROVE  Concluded'
<1>1. UNCHANGED <<rows, cols, params, cells, pc, runs>>
  BY GridKept
<1>2. CASE Running
  <2>1. SUFFICES ASSUME state' = "Done" PROVE Concluded'
    BY DEF Concluded, Over
  <2>2. Phase = "running" /\ Phase' = "finished"
    BY <1>2, <2>1 DEF Running, Phase
  <2>3. [Abs!Next]_(Abs!vars)
    BY ClockStep
  <2>4. Abs!Finish
    BY <2>2, <2>3 DEF Abs!Next, Abs!vars, Abs!run, Abs!Configure, Abs!Begin, Abs!Seed, Abs!Skip,
                      Abs!Mark, Abs!Lose
  <2>5. /\ Frontier = {} /\ Todo = {} /\ Marked' = Marked
        /\ UNCHANGED <<island_count, overflow, Land, Near>>
    BY <2>4 DEF Abs!Finish, Abs!grid
  <2>6. Marked = Land
    BY <2>2, <2>5 DEF Scan!IInv, Scan!Bounds, Scan!LandAccounted
  <2>7. /\ island_count >= Cardinality(Scan!Regions(Land))
        /\ ~overflow => island_count = Cardinality(Scan!Regions(Land))
    <3>1. /\ island_count >= Cardinality(Scan!Regions(Marked))
          /\ ~overflow => island_count = Cardinality(Scan!Regions(Marked))
      BY <2>2, CardinalityIs DEF Scan!IInv, Scan!Tally
    <3>2. QED BY <2>6, <3>1, Zenon
  <2>8. (Scan!Regions(Land))' = Scan!Regions(Land)
    BY <2>5 DEF Scan!Regions, Scan!Region, Scan!Closed
  <2>9. QED BY <2>5, <2>6, <2>7, <2>8 DEF Concluded
<1>3. CASE ~Running
  <2>1. CASE state' = "LoadStart"
    BY <2>1 DEF Concluded, Over
  <2>2. CASE state' # "LoadStart"
    <3>1. UNCHANGED <<state, island_count, overflow>> /\ Marked' = Marked
      BY <1>3, <2>2, RestCounts
    <3>2. Over' => Over
      <4>1. run_pending' = (run_pending /\ ~busy)
        BY DEF Clock, Tick, drive_start_pulse
      <4>2. run_pending => ~busy
        BY <1>3 DEF Running, IInv, Handshake, Pending
      <4>3. QED BY <1>1, <3>1, <4>1, <4>2 DEF Over, Reported
    <3>3. QED BY <1>1, <3>1, <3>2, ConcludedKept
  <2>3. QED BY <2>1, <2>2
<1>4. QED BY <1>2, <1>3

(* An edge keeps the count of visited cells the number of marks.           *)
LEMMA TalliedTick == ASSUME IInv, Fill, Tallied, Clock, BusWaits PROVE Tallied'
<1>1. CASE ~Running
  BY <1>1, RestCounts, FS_EmptySet DEF Tallied
<1>2. CASE Running
  <2>1. Marked' = Marked \cup {a \in {vis_addr'} : vis_we'}
    BY <1>2, RunFrame
  <2>2. Ctl!run_fsm /\ rst_n
    BY <1>2, RunFacts, TickParts
  <2>3. CASE Ctl!Visit
    <3>1. /\ state = "Visit" /\ ~Ctl!Skip /\ vis_we' /\ vis_addr' = Index(cur_node)
          /\ visited_count' = visited_count + 1
      BY <2>3 DEF Ctl!Visit, Ctl!Raise, Index
    <3>2. Index(cur_node) \notin Marked
      BY <1>2, <3>1, VisitFacts
    <3>3. Marked' = Marked \cup {Index(cur_node)}
      BY <2>1, <3>1
    <3>4. QED BY <3>1, <3>2, <3>3, MarkedFinite, FS_AddElement DEF Tallied
  <2>4. CASE ~Ctl!Visit
    <3>1. ~vis_we' /\ visited_count' = visited_count
      BY <1>2, <2>2, <2>4, FsmRequests
      DEF Running, Ctl!run_fsm, Ctl!Reset, Ctl!Idle, Ctl!LoadStart, Ctl!ScanNext, Ctl!ScanEnd,
          Ctl!PopEmpty, Ctl!Pop, Ctl!VisitSkip, Ctl!GenWait, Ctl!GenLatch, Ctl!GenIdle,
          Ctl!PushNeighbor, Ctl!DoneHold, Ctl!DoneRestart, Ctl!counters
    <3>2. QED BY <2>1, <3>1 DEF Tallied
  <2>5. QED BY <2>3, <2>4
<1>3. QED BY <1>1, <1>2

(* An edge keeps the latched result the counters of the run.               *)
LEMMA CollectedTick == ASSUME IInv, Fill, Collected, Clock PROVE Collected'
<1>1. UNCHANGED <<pc, runs, report>> /\ result_valid' = (rst_n /\ done)
  BY DEF Clock, Tick, Res!Latch
<1>2. ASSUME pc = "result" PROVE result_valid'
  <2>1. ~run_pending /\ rst_n /\ result_valid
    BY <1>2 DEF IInv, Handshake, Resting, Collected
  <2>2. QED BY <1>1, <2>1 DEF IInv, Handshake, Latched
<1>3. ASSUME Reported
      PROVE  UNCHANGED <<state, island_count, visited_count>>
  <2>1. pc = "idle" /\ state = "Done"
    BY <1>3 DEF Reported, Collected
  <2>2. rst_n /\ ~start_pulse
    BY <2>1 DEF IInv, Handshake, Resting, Pending
  <2>3. QED BY <2>1, <2>2, FsmRests, TickParts
<1>4. QED BY <1>1, <1>2, <1>3 DEF Collected, Reported

(* Nothing the driver does moves a counter or a mark, and a run that is    *)
(* over stays so until the next one is started.                            *)
LEMMA CInvRests ==
  ASSUME CInv, UNCHANGED controller, UNCHANGED <<visited, results>>,
         Over' => Over /\ UNCHANGED <<rows, cols, params, cells>>,
         pc' = "result" => result_valid,
         Reported' => \/ Reported /\ UNCHANGED report
                      \/ state = "Done" /\ report' = Res!Counters
  PROVE  CInv'
<1>1. /\ UNCHANGED <<state, visited_count, island_count, overflow, vis_we, vis_addr>>
      /\ UNCHANGED <<visited, result, result_valid>>
  BY DEF controller, results
<1>2. Marked' = Marked
  BY <1>1 DEF Marked
<1>3. Tallied'
  BY <1>1, <1>2 DEF CInv, Tallied
<1>4. Concluded'
  <2>1. CASE Over'
    BY <1>1, <1>2, <2>1, ConcludedKept DEF CInv
  <2>2. CASE ~Over'
    BY <2>2 DEF Concluded
  <2>3. QED BY <2>1, <2>2
<1>5. Collected'
  BY <1>1 DEF CInv, Collected, Res!Counters
<1>6. QED BY <1>3, <1>4, <1>5 DEF CInv

(* A step of the driver keeps all three.                                   *)
LEMMA CInvRun == ASSUME IInv, Fill, CInv, run PROVE CInv'
<1>1. /\ pc = "result" => result_valid /\ ~run_pending /\ state = "Done" /\ result = Res!Counters
      /\ pc = "result" => Over
  BY DEF CInv, Collected, IInv, Handshake, Resting, Latched, Over
<1>2. UNCHANGED vars => /\ UNCHANGED controller /\ UNCHANGED <<visited, results, run_pending>>
                        /\ UNCHANGED <<rows, cols, params, cells>>
  BY DEF vars, config, marks, gridmem, handshake
<1>3. CASE ReleaseReset
  <2>1. pc = "reset" /\ pc' = "idle" /\ UNCHANGED controller /\ UNCHANGED <<visited, results, runs>>
    BY <1>3 DEF ReleaseReset, SetReset, marks
  <2>2. ~Reported' /\ ~Over'
    BY <2>1 DEF Reported, Over, Fill, Untouched
  <2>3. QED BY <2>1, <2>2, CInvRests
<1>4. ASSUME NEW j \in Jobs, BeginRun(j) PROVE CInv'
  <2>1. UNCHANGED vars /\ pc' = "rows"
    BY <1>4 DEF BeginRun
  <2>2. QED BY <1>2, <2>1, CInvRests DEF Reported, Over
<1>5. CASE LoadRows \/ LoadCols \/ LoadOrigin \/ LoadParams \/ LoadCell \/ EnableWrite
  <2>1. UNCHANGED Inner /\ pc' \in {"cols", "origin", "params", "cells", "enable_read", "start_read"}
    BY <1>5 DEF LoadRows, WriteRows, LoadCols, WriteCols, LoadOrigin, WriteUnused, LoadParams,
                WriteParams, LoadCell, WriteCell, EnableWrite, WriteControl, Access
  <2>2. QED BY <2>1, CInvRests DEF Reported, Over, Inner, marks
<1>6. CASE EnableRead \/ StartRead
  <2>1. UNCHANGED vars /\ pc' \in {"enable_write", "start_write"}
    BY <1>6 DEF EnableRead, StartRead, ReadControl, Access
  <2>2. QED BY <1>2, <2>1, CInvRests DEF Reported, Over
<1>7. CASE StartWrite
  <2>1. UNCHANGED Inner /\ pc' = "wait_done" /\ run_pending' = TRUE
    BY <1>7 DEF StartWrite, WriteControl, Access
  <2>2. QED BY <2>1, CInvRests DEF Reported, Over, Inner, marks
<1>8. CASE Poll
  <2>1. /\ UNCHANGED vars /\ pc = "wait_done"
        /\ pc' = (IF Status.done THEN "result" ELSE "wait_done")
    BY <1>8 DEF Poll, Access
  <2>2. UNCHANGED <<state, run_pending>>
    BY <2>1, <1>2 DEF controller
  <2>3. Over' => Over
    BY <2>1, <2>2 DEF Over, Reported
  <2>4. pc' = "result" => result_valid
    BY <2>1 DEF Status
  <2>5. ~Reported'
    BY <2>1 DEF Reported
  <2>6. QED BY <1>2, <2>1, <2>3, <2>4, <2>5, CInvRests
<1>9. CASE ReadResult
  <2>1. UNCHANGED vars /\ pc = "result" /\ pc' = "idle" /\ report' = result
    BY <1>9 DEF ReadResult, Access
  <2>2. QED BY <1>1, <1>2, <2>1, CInvRests
<1>10. QED BY <1>3, <1>4, <1>5, <1>6, <1>7, <1>8, <1>9 DEF run

(* Every step keeps all three.                                             *)
LEMMA CInvStep ==
  BusWaits /\ IInv /\ Fill /\ Scan!IInv /\ CInv /\ IInv' /\ Fill' /\ [Next]_allvars => CInv'
<1>1. SUFFICES ASSUME BusWaits, IInv, Fill, Scan!IInv, CInv, IInv', Fill', [Next]_allvars
               PROVE  CInv'
  OBVIOUS
<1>2. CASE Clock
  BY <1>1, <1>2, ConcludedTick, TalliedTick, CollectedTick DEF CInv
<1>3. CASE run
  BY <1>1, <1>3, CInvRun
<1>4. CASE Delta \/ UNCHANGED allvars
  <2>1. /\ UNCHANGED controller /\ UNCHANGED <<visited, results, run_pending>>
        /\ UNCHANGED <<rows, cols, params, cells, pc, runs, report>>
    BY <1>4 DEF Delta, Settle, Inner, driver, allvars, vars, config, marks, gridmem, handshake
  <2>2. state' = state
    BY <2>1 DEF controller
  <2>3. (Over' => Over) /\ (Reported' => Reported)
    BY <2>1, <2>2 DEF Over, Reported
  <2>4. pc' = "result" => result_valid
    BY <1>1, <2>1 DEF CInv, Collected
  <2>5. QED BY <1>1, <2>1, <2>3, <2>4, CInvRests
<1>5. QED BY <1>1, <1>2, <1>3, <1>4 DEF Next

(* They hold before the first run.                                         *)
LEMMA CInvInit == IInv /\ Fill /\ DriverInit => CInv
<1>1. SUFFICES ASSUME IInv, Fill, DriverInit PROVE CInv
  OBVIOUS
<1>2. /\ state = "Idle" /\ visited_count = 0 /\ pc = "reset" /\ runs = 0
      /\ vis_we = FALSE /\ visited = [a \in 0 .. MaxCells - 1 |-> FALSE]
  BY <1>1 DEF DriverInit, Init, InitWith, Ctl!Init
<1>3. Marked = {}
  BY <1>2 DEF Marked
<1>4. Tallied
  BY <1>2, <1>3, FS_EmptySet DEF Tallied
<1>5. QED BY <1>2, <1>4 DEF CInv, Concluded, Over, Collected, Reported

(* CInv is an invariant.                                                   *)
LEMMA CInvariance == ASSUME BusWaits PROVE Spec => []CInv
<1>1. IInv /\ Fill /\ Scan!IInv /\ CInv /\ IInv' /\ Fill' /\ [Next]_allvars => CInv'
  BY CInvStep
<1>2. DriverInit => CInv
  BY IInvInit, FillInit, CInvInit
<1>3. QED BY <1>1, <1>2, Invariance, FillInvariance, ScanInvariance, PTL DEF Spec

-----------------------------------------------------------------------------
(* The grid in the registers is the job's.                                 *)
LEMMA Toward ==
  ASSUME NEW x \in {-1, 0, 1}, NEW y \in {-1, 0, 1}, x # 0 \/ y # 0
  PROVE  \E d \in 0 .. 7 : /\ Ngen!Offset[d + 1] = <<x, y>>
                           /\ x = 0 \/ y = 0 => d < 4
<1> USE DEF Ngen!Offset
<1>1. CASE x = -1 /\ y = 0  BY <1>1, 0 \in 0 .. 7
<1>2. CASE x = 1 /\ y = 0   BY <1>2, 1 \in 0 .. 7
<1>3. CASE x = 0 /\ y = -1  BY <1>3, 2 \in 0 .. 7
<1>4. CASE x = 0 /\ y = 1   BY <1>4, 3 \in 0 .. 7
<1>5. CASE x = -1 /\ y = -1 BY <1>5, 4 \in 0 .. 7
<1>6. CASE x = -1 /\ y = 1  BY <1>6, 5 \in 0 .. 7
<1>7. CASE x = 1 /\ y = -1  BY <1>7, 6 \in 0 .. 7
<1>8. CASE x = 1 /\ y = 1   BY <1>8, 7 \in 0 .. 7
<1>9. QED BY <1>1, <1>2, <1>3, <1>4, <1>5, <1>6, <1>7, <1>8

(* A direction changes a coordinate by one at most; the first four, one only.*)
LEMMA OffsetIs ==
  ASSUME NEW d \in 0 .. 7
  PROVE  /\ Ngen!Offset[d + 1][1] \in {-1, 0, 1} /\ Ngen!Offset[d + 1][2] \in {-1, 0, 1}
         /\ Ngen!Offset[d + 1][1] # 0 \/ Ngen!Offset[d + 1][2] # 0
         /\ d < 4 => Ngen!Offset[d + 1][1] = 0 \/ Ngen!Offset[d + 1][2] = 0
<1>1. d \in {0, 1, 2, 3, 4, 5, 6, 7}
  OBVIOUS
<1>2. QED BY <1>1 DEF Ngen!Offset

(* The integers whose square is at most one.                               *)
LEMMA SmallSquare == ASSUME NEW n \in Int PROVE n * n <= 1 <=> n \in {-1, 0, 1}
<1>1. CASE n >= 2
  <2>1. PICK k \in Nat : n = k + 2
    <3>1. n - 2 \in Nat /\ n = (n - 2) + 2
      BY <1>1
    <3>2. QED BY <3>1
  <2>2. n * n = (k * k) + 4 * k + 4 /\ k * k >= 0
    BY <2>1
  <2>3. QED BY <1>1, <2>2
<1>2. CASE n <= -2
  <2>1. PICK k \in Nat : n = -2 - k
    <3>1. -2 - n \in Nat /\ n = -2 - (-2 - n)
      BY <1>2
    <3>2. QED BY <3>1
  <2>2. n * n = (k * k) + 4 * k + 4 /\ k * k >= 0
    BY <2>1
  <2>3. QED BY <1>2, <2>2
<1>3. CASE n \in {-1, 0, 1}
  BY <1>3
<1>4. QED BY <1>1, <1>2, <1>3

(* Neighbours by the generator's table are the adjacent cells. *)
LEMMA NearIsAdjacent ==
  ASSUME Fits, rows = job.rows, cols = job.cols, params = job.params, NEW a \in Area, NEW b \in Area
  PROVE  b \in Near[a] <=> Adjacent(a, b)
<1> DEFINE p == At(a)
           q == At(b)
           x == q[1] - p[1]
           y == q[2] - p[2]
<1>1. /\ p \in Coord /\ q \in Coord /\ Index(p) = a /\ Index(q) = b /\ Ngen!OnGrid(q)
  BY CoordOf
<1>2. /\ p = <<a % job.cols, a \div job.cols>> /\ q = <<b % job.cols, b \div job.cols>>
  BY DEF At
<1>3. p[1] \in Int /\ p[2] \in Int /\ q[1] \in Int /\ q[2] \in Int
      /\ p = <<p[1], p[2]>> /\ q = <<q[1], q[2]>>
  BY <1>1 DEF Coord
<1>4. a = b <=> p = q
  BY <1>1
<1>5. x \in Int /\ y \in Int /\ (a = b <=> x = 0 /\ y = 0)
  <2>1. p = q <=> p[1] = q[1] /\ p[2] = q[2]
    BY <1>3
  <2>2. QED BY <1>3, <1>4, <2>1
<1>6. Adjacent(a, b) <=> /\ a # b
                         /\ (-x) * (-x) <= 1 /\ (-y) * (-y) <= 1
                         /\ job.params = 8 \/ (-x) * (-x) + (-y) * (-y) = 1
  <2>1. (a % job.cols) - (b % job.cols) = -x /\ (a \div job.cols) - (b \div job.cols) = -y
    BY <1>2, <1>3
  <2>2. QED BY <2>1 DEF Adjacent
<1>7. \A d \in 0 .. 7 : Ngen!Step(p, d) = q <=> Ngen!Offset[d + 1] = <<x, y>>
  <2>1. SUFFICES ASSUME NEW d \in 0 .. 7
                 PROVE  Ngen!Step(p, d) = q <=> Ngen!Offset[d + 1] = <<x, y>>
    OBVIOUS
  <2> DEFINE o == Ngen!Offset[d + 1]
  <2>2. o[1] \in Int /\ o[2] \in Int
    <3>1. o[1] \in {-1, 0, 1} /\ o[2] \in {-1, 0, 1}
      BY OffsetIs
    <3>2. QED BY <3>1
  <2>3. o = <<o[1], o[2]>>
    <3>1. d \in {0, 1, 2, 3, 4, 5, 6, 7}
      OBVIOUS
    <3>2. QED BY <3>1 DEF Ngen!Offset
  <2>4. Ngen!Step(p, d) = <<p[1] + o[1], p[2] + o[2]>>
    BY DEF Ngen!Step
  <2> HIDE DEF o, p, q
  <2>5. Ngen!Step(p, d) = q <=> p[1] + o[1] = q[1] /\ p[2] + o[2] = q[2]
    BY <1>3, <2>4
  <2>6. o = <<x, y>> <=> o[1] = x /\ o[2] = y
    BY <2>3
  <2>7. p[1] + o[1] = q[1] /\ p[2] + o[2] = q[2] <=> o[1] = x /\ o[2] = y
    <3>1. p[1] + o[1] = q[1] <=> o[1] = x
      BY <1>3, <2>2
    <3>2. p[2] + o[2] = q[2] <=> o[2] = y
      BY <1>3, <2>2
    <3>3. QED BY <3>1, <3>2
  <2>8. QED BY <2>5, <2>6, <2>7 DEF o
<1>8. b \in Near[a] <=> \E d \in 0 .. Degree - 1 : Ngen!Step(p, d) = q
  <2>1. Near[a] = {Index(Ngen!Step(p, d)) : d \in Ngen!Dirs(p, 0, Degree)}
    BY DEF Near
  <2>2. ASSUME NEW d \in Ngen!Dirs(p, 0, Degree), b = Index(Ngen!Step(p, d))
        PROVE  d \in 0 .. Degree - 1 /\ Ngen!Step(p, d) = q
    <3>1. d \in 0 .. Degree - 1 /\ d \in 0 .. 7 /\ Ngen!OnGrid(Ngen!Step(p, d))
      BY <2>2, DegreeIs DEF Ngen!Dirs
    <3>2. Ngen!Step(p, d) \in Coord
      BY <1>1, <3>1, StepOnGrid
    <3>3. QED BY <2>2, <3>1, <3>2, AddressOf
  <2>3. ASSUME NEW d \in 0 .. Degree - 1, Ngen!Step(p, d) = q
        PROVE  b \in Near[a]
    BY <1>1, <2>1, <2>3 DEF Ngen!Dirs
  <2>4. QED BY <2>1, <2>2, <2>3
<1>9. Degree = IF job.params = 8 THEN 8 ELSE 4
  BY DEF Degree
<1> HIDE DEF p, q, x, y
<1>10. ASSUME NEW d \in 0 .. Degree - 1, Ngen!Step(p, d) = q
       PROVE  Adjacent(a, b)
  <2>1. d \in 0 .. 7 /\ (job.params = 8 \/ d < 4)
    BY <1>9
  <2>2. x \in {-1, 0, 1} /\ y \in {-1, 0, 1} /\ (x # 0 \/ y # 0) /\ (d < 4 => x = 0 \/ y = 0)
    <3> DEFINE o == Ngen!Offset[d + 1]
    <3>1. o = <<x, y>>
      BY <1>7, <1>10, <2>1
    <3>2. o[1] \in {-1, 0, 1} /\ o[2] \in {-1, 0, 1} /\ (o[1] # 0 \/ o[2] # 0)
          /\ (d < 4 => o[1] = 0 \/ o[2] = 0)
      BY <2>1, OffsetIs
    <3> HIDE DEF o
    <3>3. QED BY <3>1, <3>2
  <2>3. x # 0 \/ y # 0 => a # b
    BY <1>5
  <2>4. job.params = 8 \/ x = 0 \/ y = 0
    BY <2>1, <2>2
  <2>5. /\ (-x) * (-x) <= 1 /\ (-y) * (-y) <= 1
        /\ (x # 0 \/ y # 0) /\ (x = 0 \/ y = 0) => (-x) * (-x) + (-y) * (-y) = 1
    <3>1. (-x) * (-x) = IF x = 0 THEN 0 ELSE 1
      BY <2>2
    <3>2. (-y) * (-y) = IF y = 0 THEN 0 ELSE 1
      BY <2>2
    <3>3. QED BY <3>1, <3>2
  <2>6. QED BY <1>6, <2>2, <2>3, <2>4, <2>5
<1>11. ASSUME Adjacent(a, b)
       PROVE  \E d \in 0 .. Degree - 1 : Ngen!Step(p, d) = q
  <2>1. -x \in {-1, 0, 1} /\ -y \in {-1, 0, 1}
    <3>1. -x \in Int /\ -y \in Int
      BY <1>5
    <3>2. QED BY <1>6, <1>11, <3>1, SmallSquare
  <2>2. x \in {-1, 0, 1} /\ y \in {-1, 0, 1} /\ (x # 0 \/ y # 0)
    BY <1>5, <1>6, <1>11, <2>1
  <2>3. job.params = 8 \/ x = 0 \/ y = 0
    BY <1>6, <1>11, <2>2
  <2>4. PICK d \in 0 .. 7 : Ngen!Offset[d + 1] = <<x, y>> /\ (x = 0 \/ y = 0 => d < 4)
    BY <2>2, Toward
  <2>5. d \in 0 .. Degree - 1
    BY <1>9, <2>3, <2>4
  <2>6. QED BY <1>7, <2>4, <2>5
<1>12. QED BY <1>8, <1>10, <1>11

(* A loaded grid has the passable cells and the islands of the job.        *)
LEMMA JobIsGrid ==
  ASSUME IInv, Fill, Loaded
  PROVE  Land = Passable /\ Scan!Regions(Land) = Islands
<1>1. /\ rows = job.rows /\ cols = job.cols /\ params = job.params
      /\ \A i \in DOMAIN job.cells : cells[i] = job.cells[i]
  BY DEF Fill, Configured
<1>2. Fits /\ DOMAIN job.cells = 0 .. job.rows * job.cols - 1
  BY <1>1 DEF IInv, DriverTypes, Fits
<1>3. Area = DOMAIN job.cells
  BY <1>1, <1>2 DEF Area, Fits
<1>4. DOMAIN cells = 0 .. MaxCells - 1
  BY TypeParts DEF IInv, MemoryTypes
<1>5. Area \subseteq DOMAIN cells
  BY <1>2, <1>4, CoordOf
<1>6. Land = Passable
  BY <1>1, <1>3, <1>5 DEF Land, Passable
<1>7. \A a, b \in Passable : b \in Near[a] <=> Adjacent(a, b)
  BY <1>1, <1>2, <1>3, NearIsAdjacent DEF Passable
<1>8. \A S \in SUBSET Passable : Scan!Closed(S) <=> Closed(S)
  BY <1>6, <1>7 DEF Scan!Closed, Closed
<1>9. \A a \in Passable : Scan!Region(a) = Region(a)
  BY <1>6, <1>8 DEF Scan!Region, Region
<1>10. QED BY <1>6, <1>9 DEF Scan!Regions, Islands

(* Whatever the depth of the stack, a run visits every passable cell once, *)
(* finds at least the islands there are, and raises overflow if it counted *)
(* one twice (dfs_controller.h, ScanNext and PushNeighbor).                *)
THEOREM ReportsIslands == ASSUME BusWaits PROVE Spec => []OverflowReport
<1>1. IInv /\ Fill /\ CInv => OverflowReport
  <2>1. SUFFICES ASSUME IInv, Fill, CInv, Reported PROVE OverflowReport
    BY DEF OverflowReport
  <2>2. Loaded /\ Over
    BY <2>1 DEF Loaded, Reported, Over, CInv, Collected, IInv, Handshake, Resting
  <2>3. Marked = Passable /\ Scan!Regions(Land) = Islands
    BY <2>1, <2>2, JobIsGrid DEF CInv, Concluded
  <2>4. /\ island_count >= Cardinality(Islands)
        /\ ~overflow => island_count = Cardinality(Islands)
    BY <2>1, <2>2, <2>3 DEF CInv, Concluded
  <2>5. report.value = island_count /\ report.visited_cells = Cardinality(Passable)
    BY <2>1, <2>3 DEF CInv, Collected, Tallied
  <2>6. report.value > Cardinality(Islands) => overflow
    <3>1. island_count \in Nat
      BY <2>1 DEF IInv, TypeOK
    <3>2. QED BY <2>4, <2>5, <3>1
  <2>7. QED BY <2>4, <2>5, <2>6 DEF OverflowReport
<1>2. QED BY <1>1, Invariance, FillInvariance, CInvariance, PTL

(* A run that lost no push returns what it should.                         *)
LEMMA ExactUnlessLost == IInv /\ Fill /\ CInv /\ ~overflow => ReportExact
<1>1. SUFFICES ASSUME IInv, Fill, CInv, ~overflow, Reported PROVE ReportExact
  BY DEF ReportExact
<1>2. Loaded /\ Over
  BY <1>1 DEF Loaded, Reported, Over, CInv, Collected, IInv, Handshake, Resting
<1>3. Marked = Passable /\ Scan!Regions(Land) = Islands
  BY <1>1, <1>2, JobIsGrid DEF CInv, Concluded
<1>4. island_count = Cardinality(Islands)
  BY <1>1, <1>2, <1>3 DEF CInv, Concluded
<1>5. report.value = island_count /\ report.visited_cells = Cardinality(Passable)
  BY <1>1, <1>3 DEF CInv, Collected, Tallied
<1>6. QED BY <1>4, <1>5 DEF ReportExact

(* Every run whose stack never fills up returns the number of islands of   *)
(* the grid it was given and of its passable cells, whatever ran before it *)
(* on the same accelerator (AcceleratorDriver::run, read_result).          *)
THEOREM ReportsExactly == ASSUME BusWaits PROVE Spec /\ []~overflow => []ReportExact
BY ExactUnlessLost, Invariance, FillInvariance, CInvariance, PTL

-----------------------------------------------------------------------------
(* How deep the stack gets in a run: every cell that is marked has been    *)
(* popped, and pushes one cell at most in each direction; pushed counts    *)
(* the directions the generator has used up for the present one.           *)
Within(pushed) == Stk!EffSp <= (Degree - 1) * (visited_count - 1) + pushed

Shallow ==
  /\ active => num_dirs = Degree /\ next_dir <= Degree
  /\ state = "Pop" => Within(Degree)
  /\ state = "Visit" => Within(Degree - 1)
  /\ state = "GenNeighbors" =>
       IF ngen_wait THEN Within(Ngen!From)
       ELSE IF ngen_valid_out THEN Within(next_dir - 1)
       ELSE Within(Degree)
  /\ state = "PushNeighbor" => Within(next_dir - 1)

(* The grid handed to run has few enough passable cells for the stack:     *)
(* with StackDepth = 65536 (kStackDepth, accelerator_config.h:12), 21845   *)
(* of them with four neighbours a cell, 9362 with eight.                   *)
SmallGrid ==
  ((IF job.params = 8 THEN 8 ELSE 4) - 1) * Cardinality(Passable) + 1 <= StackDepth

(* Its run drops no push. *)
Roomy == SmallGrid /\ (Running \/ Over) => Shallow /\ overflow = FALSE

(* The depth of the stack over an edge, by what the FSM asks of it.        *)
LEMMA SpTick ==
  ASSUME IInv, Fill, Clock, Running
  PROVE  /\ Stk!EffSp \in 0 .. StackDepth /\ visited_count \in Nat
         /\ next_dir \in 0 .. 8 /\ next_dir' \in 0 .. 8 /\ Ngen!From \in 0 .. 8
         /\ ~stk_push' /\ ~stk_pop' => Stk!EffSp' = Stk!EffSp
         /\ stk_push' /\ Stk!EffSp < StackDepth => Stk!EffSp' = Stk!EffSp + 1
         /\ ~stk_push' /\ stk_pop' /\ Stk!EffSp > 0 => Stk!EffSp' = Stk!EffSp - 1
<1>1. /\ ~stk_push' /\ ~stk_pop' => Stk!EffSp' = Stk!EffSp
      /\ stk_push' /\ Stk!EffSp < StackDepth => Stk!EffSp' = Stk!EffSp + 1
      /\ ~stk_push' /\ stk_pop' /\ Stk!EffSp > 0 => Stk!EffSp' = Stk!EffSp - 1
  BY GridKept, RunFacts, ItemsTick, TickParts
<1>2. Stk!EffSp \in 0 .. StackDepth
  BY ShownToFsm
<1>3. visited_count \in Nat /\ next_dir \in 0 .. 8
  BY TypeParts DEF IInv, ControllerTypes, GeneratorTypes
<1>4. next_dir' \in 0 .. 8
  BY TypeTick DEF IInv, TypeOK, Clock
<1>5. QED BY <1>1, <1>2, <1>3, <1>4 DEF Ngen!From

(* An answer uses up a direction of those a cell has.                      *)
LEMMA DirUsed ==
  ASSUME IInv, Fill, Clock, Running, Shallow
  PROVE  /\ Degree \in {4, 8} /\ Degree' = Degree /\ Ngen!From <= Degree
         /\ active' => num_dirs' = Degree /\ next_dir' <= Degree
         /\ ngen_valid_in /\ ngen_valid_out' => next_dir' >= Ngen!From + 1
         /\ ~ngen_valid_in => UNCHANGED <<active, next_dir>>
         /\ active' => Ngen!From' = next_dir'
         /\ ~active' => Ngen!From' = 0
<1>1. Ngen!Generate /\ rst_n /\ Ngen!From \in 0 .. 8
  BY RunFacts, TickParts, SpTick
<1>2. Degree \in {4, 8} /\ Degree' = Degree
  BY GridKept DEF Degree
<1>3. Ngen!Num = Degree /\ Ngen!From <= Degree
  BY <1>2 DEF Shallow, Ngen!Num, Ngen!From, Degree
<1>4. CASE Ngen!Emit
  <2>1. PICK d \in Ngen!Dirs(Ngen!Base, Ngen!From, Ngen!Num) : next_dir' = d + 1
    BY <1>4 DEF Ngen!Emit
  <2>2. d \in Ngen!From .. Degree - 1
    BY <1>3, <2>1 DEF Ngen!Dirs
  <2>3. num_dirs' = Degree /\ next_dir' >= Ngen!From + 1 /\ next_dir' <= Degree /\ ngen_valid_in
    BY <1>1, <1>2, <1>3, <1>4, <2>1, <2>2 DEF Ngen!Emit
  <2>4. QED BY <1>2, <1>3, <2>3 DEF Ngen!From
<1>5. CASE Ngen!NoRequest
  <2>1. ~ngen_valid_in /\ ~ngen_valid_out' /\ UNCHANGED <<active, next_dir, num_dirs>>
    BY <1>5 DEF Ngen!NoRequest
  <2>2. QED BY <1>2, <1>3, <2>1 DEF Shallow, Ngen!From
<1>6. CASE Ngen!Exhausted
  BY <1>2, <1>3, <1>6 DEF Ngen!Exhausted, Ngen!From
<1>7. QED BY <1>1, <1>4, <1>5, <1>6 DEF Ngen!Generate, Ngen!Reset

(* While a run goes on it has marked passable cells of its grid only, so   *)
(* that a small one has room for the pushes of all of them.                *)
LEMMA RoomLeft ==
  ASSUME IInv, Fill, Scan!IInv, CInv, SmallGrid, Clock, Running
  PROVE  (Degree - 1) * visited_count + 1 <= StackDepth
<1>1. Loaded /\ Degree = (IF job.params = 8 THEN 8 ELSE 4) /\ visited_count \in Nat
  BY RunFacts, SpTick DEF Loaded, Degree
<1>2. Marked \subseteq Passable
  <2>1. Phase = "running"
    BY DEF Running, Phase
  <2>2. Marked \subseteq Land
    BY <2>1 DEF Scan!IInv, Scan!Bounds
  <2>3. QED BY <1>1, <2>2, JobIsGrid
<1>3. Cardinality(Passable) \in Nat /\ visited_count <= Cardinality(Passable)
  <2>1. IsFiniteSet(Passable)
    <3>1. DOMAIN job.cells = 0 .. job.rows * job.cols - 1
      BY DEF IInv, DriverTypes
    <3>2. 0 \in Int /\ job.rows * job.cols - 1 \in Int
      BY JobTypes DEF IInv
    <3>3. IsFiniteSet(DOMAIN job.cells)
      BY <3>1, <3>2, FS_Interval
    <3>4. QED BY <3>3, FS_Subset DEF Passable
  <2>2. Cardinality(Marked) <= Cardinality(Passable) /\ Cardinality(Passable) \in Nat
    BY <1>2, <2>1, FS_Subset, FS_CardinalityType
  <2>3. QED BY <2>2 DEF CInv, Tallied
<1> DEFINE p == Cardinality(Passable)
<1>4. p \in Nat /\ visited_count <= p
  BY <1>3
<1>5. (IF job.params = 8 THEN 8 ELSE 4) = Degree /\ Degree \in {4, 8}
  BY <1>1
<1>6. (Degree - 1) * p + 1 <= StackDepth
  BY <1>5 DEF SmallGrid
<1> HIDE DEF p
<1>7. (Degree - 1) * visited_count <= (Degree - 1) * p
  <2>1. CASE Degree = 4
    BY <1>1, <1>4, <2>1
  <2>2. CASE Degree = 8
    BY <1>1, <1>4, <2>2
  <2>3. QED BY <1>5, <2>1, <2>2
<1>8. (Degree - 1) * visited_count \in Int /\ (Degree - 1) * p \in Int /\ StackDepth \in Int
  BY <1>1, <1>4, <1>5
<1>9. QED BY <1>6, <1>7, <1>8

(* A step of a run that leaves the stack alone leaves it as deep. *)
LEMMA WithinTick ==
  ASSUME IInv, Fill, Clock, Running, Shallow,
         ~stk_push', ~stk_pop', visited_count' = visited_count,
         NEW m \in Int, NEW n \in Int, Within(m), m <= n
  PROVE  Stk!EffSp' <= (Degree' - 1) * (visited_count' - 1) + n
<1>1. Stk!EffSp' = Stk!EffSp /\ Degree' = Degree
  BY SpTick, DirUsed
<1> DEFINE e == Stk!EffSp
           w == (Degree - 1) * (visited_count - 1)
<1>2. e \in Int /\ w \in Int
  <2>1. e \in Int /\ Degree \in Int /\ visited_count \in Int
    BY SpTick, DirUsed
  <2>2. QED BY <2>1
<1>3. e <= w + m /\ w' = w /\ e' = e
  BY <1>1 DEF Within
<1>4. e <= w + n
  <2> HIDE DEF e, w
  <2>1. QED BY <1>2, <1>3
<1>5. QED BY <1>1, <1>4

(* It is then within the directions of a cell, if it was within fewer.     *)
LEMMA WithinDegree ==
  ASSUME IInv, Fill, Clock, Running, Shallow,
         ~stk_push', ~stk_pop', visited_count' = visited_count,
         NEW m \in Int, Within(m), m <= Degree
  PROVE  Within(Degree)'
<1>1. Degree \in Int /\ Degree' = Degree
  BY DirUsed
<1>2. Stk!EffSp' <= (Degree' - 1) * (visited_count' - 1) + Degree
  BY <1>1, WithinTick
<1>3. QED BY <1>1, <1>2 DEF Within

(* A cell that is marked may push one cell in each direction; it was popped.*)
LEMMA MarkedPushes ==
  ASSUME NEW d \in {4, 8}, NEW v \in Nat, NEW e \in Int, e <= (d - 1) * (v - 1) + (d - 1)
  PROVE  e <= (d - 1) * ((v + 1) - 1) + 0
<1>1. CASE d = 4
  BY <1>1
<1>2. CASE d = 8
  BY <1>2
<1>3. QED BY <1>1, <1>2

(* There is room for a push that the bound allows for. *)
LEMMA RoomForPush ==
  ASSUME NEW d \in {4, 8}, NEW v \in Nat, NEW e \in Int, NEW n \in Int, NEW s \in Int,
         e <= (d - 1) * (v - 1) + (n - 1), n <= d, (d - 1) * v + 1 <= s
  PROVE  e < s /\ e + 1 <= (d - 1) * (v - 1) + n
<1>1. CASE d = 4
  BY <1>1
<1>2. CASE d = 8
  BY <1>2
<1>3. QED BY <1>1, <1>2

(* An edge of a run with room drops no push, and leaves room.              *)
LEMMA RoomyTick ==
  ASSUME IInv, Fill, Scan!IInv, CInv, SmallGrid, Shallow, overflow = FALSE, Clock, Running
  PROVE  Shallow' /\ overflow' = FALSE
<1>1. Ctl!run_fsm /\ rst_n
  BY RunFacts, TickParts
<1>2. /\ Stk!EffSp \in 0 .. StackDepth /\ visited_count \in Nat /\ next_dir \in 0 .. 8
      /\ next_dir' \in 0 .. 8 /\ Ngen!From \in 0 .. 8
      /\ Degree \in {4, 8} /\ Degree' = Degree /\ Ngen!From <= Degree
  BY SpTick, DirUsed
<1>3. active' => num_dirs' = Degree' /\ next_dir' <= Degree'
  BY <1>2, DirUsed
<1>4. CASE Ctl!LoadStart \/ Ctl!ScanEnd \/ Ctl!PopEmpty
  BY <1>3, <1>4 DEF Ctl!LoadStart, Ctl!ScanEnd, Ctl!PopEmpty, Ctl!counters, Shallow
<1>5. CASE Ctl!ScanNext
  <2>1. Stk!EffSp = 0 /\ ~stk_out.full
    BY <1>5, ShownToFsm DEF Ctl!ScanNext, Fill, StackEmpty
  <2>2. stk_push' /\ state' = "Pop" /\ UNCHANGED <<overflow, visited_count>>
    BY <1>5, <2>1 DEF Ctl!ScanNext, Ctl!Full, Ctl!Raise
  <2>3. Stk!EffSp' = 1
    BY <2>1, <2>2, SpTick
  <2>4. 1 <= (Degree - 1) * (visited_count - 1) + Degree
    <3>1. CASE Degree = 4
      BY <1>2, <3>1
    <3>2. CASE Degree = 8
      BY <1>2, <3>2
    <3>3. QED BY <1>2, <3>1, <3>2
  <2>5. Within(Degree)'
    BY <1>2, <2>2, <2>3, <2>4 DEF Within
  <2>6. QED BY <1>3, <2>2, <2>5 DEF Shallow
<1>6. CASE Ctl!Pop
  <2>1. /\ ~stk_push' /\ stk_pop' /\ state' = "Visit" /\ state = "Pop" /\ ~stk_out.empty
        /\ UNCHANGED <<overflow, visited_count>>
    <3>1. /\ Ctl!Raise({"pop"}) /\ UNCHANGED Ctl!counters
          /\ state = "Pop" /\ state' = "Visit" /\ ~stk_out.empty
      BY <1>6 DEF Ctl!Pop
    <3>2. ~stk_push' /\ stk_pop'
      BY <3>1 DEF Ctl!Raise
    <3>3. UNCHANGED <<overflow, visited_count>>
      BY <3>1 DEF Ctl!counters
    <3>4. QED BY <3>1, <3>2, <3>3
  <2>2. Stk!EffSp' = Stk!EffSp - 1 /\ Stk!EffSp <= (Degree - 1) * (visited_count - 1) + Degree
    BY <1>2, <2>1, SpTick, ShownToFsm DEF Shallow, Within
  <2>3. Within(Degree - 1)'
    <3> DEFINE e == Stk!EffSp
               w == (Degree - 1) * (visited_count - 1)
    <3>1. e \in Int /\ w \in Int /\ Degree \in Int /\ e <= w + Degree
      BY <1>2, <2>2
    <3>2. w' = w /\ e' = e - 1
      BY <1>2, <2>1, <2>2
    <3>3. e - 1 <= w + (Degree - 1)
      <4> HIDE DEF e, w
      <4>1. QED BY <3>1
    <3>4. QED BY <1>2, <3>2, <3>3 DEF Within
  <2>4. QED BY <1>3, <2>1, <2>3 DEF Shallow
<1>7. CASE Ctl!VisitSkip
  <2>1. ~stk_push' /\ ~stk_pop' /\ state' = "Pop" /\ state = "Visit"
        /\ UNCHANGED <<overflow, visited_count>>
    BY <1>7 DEF Ctl!VisitSkip, Ctl!Raise, Ctl!counters
  <2>2. Within(Degree - 1) /\ Degree - 1 \in Int /\ Degree - 1 <= Degree
    BY <1>2, <2>1 DEF Shallow
  <2>3. Within(Degree)'
    BY <2>1, <2>2, WithinDegree
  <2>4. QED BY <1>3, <2>1, <2>3 DEF Shallow
<1>8. CASE Ctl!Visit
  <2>1. ~stk_push' /\ ~stk_pop' /\ state' = "GenNeighbors" /\ state = "Visit" /\ ngen_wait' = TRUE
        /\ visited_count' = visited_count + 1 /\ overflow' = overflow
    BY <1>8 DEF Ctl!Visit, Ctl!Raise
  <2>2. Stk!EffSp' = Stk!EffSp /\ Stk!EffSp <= (Degree - 1) * (visited_count - 1) + (Degree - 1)
    BY <2>1, SpTick DEF Shallow, Within
  <2>3. ~active'
    BY <2>1, DirUsed DEF Fill, Asking
  <2>4. Ngen!From' = 0
    BY <2>3, DirUsed
  <2>5. Stk!EffSp <= (Degree - 1) * ((visited_count + 1) - 1) + 0
    BY <1>2, <2>2, MarkedPushes
  <2>6. Within(Ngen!From)'
    BY <1>2, <2>1, <2>2, <2>4, <2>5 DEF Within
  <2>7. QED BY <1>3, <2>1, <2>6 DEF Shallow
<1>9. CASE Ctl!GenWait
  <2>1. /\ ~stk_push' /\ ~stk_pop' /\ state = "GenNeighbors" /\ state' = "GenNeighbors"
        /\ ngen_wait = TRUE /\ ngen_wait' = FALSE /\ UNCHANGED <<overflow, visited_count>>
    <3>1. /\ Ctl!Raise({}) /\ UNCHANGED Ctl!counters /\ ngen_wait /\ ngen_wait' = FALSE
          /\ state = "GenNeighbors" /\ state' = state
      BY <1>9 DEF Ctl!GenWait
    <3>2. ~stk_push' /\ ~stk_pop' /\ UNCHANGED <<overflow, visited_count>>
      BY <3>1 DEF Ctl!Raise, Ctl!counters
    <3>3. QED BY <3>1, <3>2 DEF IInv, TypeOK
  <2>2. Within(Ngen!From) /\ (ngen_valid_out' => next_dir' >= Ngen!From + 1)
    BY <2>1, DirUsed DEF Shallow, Fill, Asking
  <2>3. CASE ngen_valid_out'
    <3> DEFINE f == Ngen!From
               d == next_dir'
    <3>1. f <= d - 1 /\ f \in Int /\ d - 1 \in Int
      <4>1. f \in Int /\ d \in Int /\ d >= f + 1
        BY <1>2, <2>2, <2>3
      <4> HIDE DEF f, d
      <4>2. QED BY <4>1
    <3>2. Within(next_dir - 1)'
      <4> DEFINE n == next_dir' - 1
      <4>1. Stk!EffSp' <= (Degree' - 1) * (visited_count' - 1) + n
        BY <2>1, <2>2, <3>1, WithinTick
      <4>2. QED BY <4>1 DEF Within
    <3>3. QED BY <1>3, <2>1, <2>3, <3>2 DEF Shallow
  <2>4. CASE ~ngen_valid_out'
    <3>1. Within(Degree)'
      BY <1>2, <2>1, <2>2, WithinDegree
    <3>2. QED BY <1>3, <2>1, <2>4, <3>1 DEF Shallow
  <2>5. QED BY <2>3, <2>4
<1>10. CASE Ctl!GenLatch
  <2>1. /\ ~stk_push' /\ ~stk_pop' /\ state = "GenNeighbors" /\ state' = "PushNeighbor"
        /\ ~ngen_wait /\ ngen_valid_out /\ UNCHANGED <<overflow, visited_count>>
    BY <1>10 DEF Ctl!GenLatch, Ctl!Raise, Ctl!counters
  <2>2. next_dir' = next_dir /\ Within(next_dir - 1)
    BY <2>1, DirUsed DEF Shallow, Fill, Asking
  <2>3. Stk!EffSp' <= (Degree' - 1) * (visited_count' - 1) + (next_dir - 1)
    <3>1. next_dir - 1 \in Int /\ next_dir - 1 <= next_dir - 1
      BY <1>2
    <3>2. QED BY <2>1, <2>2, <3>1, WithinTick
  <2>4. Within(next_dir - 1)'
    BY <2>2, <2>3 DEF Within
  <2>5. QED BY <1>3, <2>1, <2>4 DEF Shallow
<1>11. CASE Ctl!GenIdle
  <2>1. /\ ~stk_push' /\ ~stk_pop' /\ state = "GenNeighbors" /\ state' \in {"Pop", "GenNeighbors"}
        /\ ~ngen_wait /\ ~ngen_valid_out /\ ~ngen_wait' /\ UNCHANGED <<overflow, visited_count>>
    BY <1>11 DEF Ctl!GenIdle, Ctl!Raise, Ctl!counters
  <2>2. ~ngen_valid_out'
    BY <2>1, GridKept, RunFacts, GeneratorRuns, TickParts DEF IInv, Fill, Asking
  <2>3. Within(Degree)'
    <3>1. Within(Degree) /\ Degree \in Int /\ Degree <= Degree
      BY <1>2, <2>1 DEF Shallow
    <3>2. QED BY <2>1, <3>1, WithinDegree
  <2>4. QED BY <1>3, <2>1, <2>2, <2>3 DEF Shallow
<1>12. CASE Ctl!PushNeighbor
  <2>1. /\ state = "PushNeighbor" /\ state' = "GenNeighbors" /\ ngen_wait' = TRUE
        /\ Ctl!Raise(Ctl!Asked) /\ overflow' = Ctl!Dropped /\ visited_count' = visited_count
    BY <1>12 DEF Ctl!PushNeighbor
  <2>2. active /\ next_dir <= Degree /\ active' /\ next_dir' = next_dir /\ Ngen!From' = next_dir
    BY <2>1, DirUsed DEF Fill, Asking, Shallow
  <2>3. Stk!EffSp <= (Degree - 1) * (visited_count - 1) + (next_dir - 1)
    BY <2>1 DEF Shallow, Within
  <2>4. (Degree - 1) * visited_count + 1 <= StackDepth
    BY RoomLeft
  <2>5. /\ Stk!EffSp < StackDepth
        /\ Stk!EffSp + 1 <= (Degree - 1) * (visited_count - 1) + next_dir
    BY <1>2, <2>2, <2>3, <2>4, RoomForPush
  <2>6. ~Ctl!Full
    BY <1>2, <2>5, ShownToFsm DEF Ctl!Full
  <2>7. stk_push' /\ overflow' = (overflow \/ FALSE)
    BY <2>1, <2>6 DEF Ctl!Raise, Ctl!Asked, Ctl!Dropped
  <2>8. Stk!EffSp' = Stk!EffSp + 1
    BY <2>5, <2>7, SpTick
  <2>9. Within(Ngen!From)'
    BY <1>2, <2>1, <2>2, <2>5, <2>8 DEF Within
  <2>10. QED BY <1>3, <2>1, <2>7, <2>9 DEF Shallow
<1>13. QED BY <1>1, <1>4, <1>5, <1>6, <1>7, <1>8, <1>9, <1>10, <1>11, <1>12
           DEF Running, Ctl!run_fsm, Ctl!Reset, Ctl!Idle, Ctl!DoneHold, Ctl!DoneRestart

(* Nothing between the edges of a run touches what Roomy speaks of.        *)
LEMMA RoomyKept ==
  ASSUME Roomy, UNCHANGED <<Inner, job, params>>, Over' => Over
  PROVE  Roomy'
<1>1. UNCHANGED <<rst_n, start_pulse, state, ngen_wait, ngen_valid_out, next_dir, num_dirs, active,
                  visited_count, overflow, sp, stk_push, stk_pop>>
  BY DEF Inner, controller, stack, generator
<1>2. SmallGrid' <=> SmallGrid
  BY DEF SmallGrid, Passable
<1>3. Stk!EffSp' = Stk!EffSp /\ Ngen!From' = Ngen!From /\ Degree' = Degree
  BY <1>1 DEF Stk!EffSp, Stk!DoPush, Stk!DoPop, Stk!Held, Ngen!From, Degree
<1>4. Shallow => Shallow'
  BY <1>1, <1>3 DEF Shallow, Within
<1>5. QED BY <1>1, <1>2, <1>4 DEF Roomy, Running

(* At rest nothing is asked of the stack.                                  *)
LEMMA ShallowAtRest == ASSUME Fill, state \in {"Idle", "Done", "LoadStart"} PROVE Shallow
BY DEF Shallow, Fill, Asking

(* The driver leaves what Roomy speaks of alone while a run goes on, until *)
(* its result has been read.                                               *)
LEMMA RoomyRun == ASSUME IInv, Fill, CInv, Roomy, run PROVE Roomy'
<1>1. CASE Poll \/ ReadResult
  <2>1. UNCHANGED vars /\ job' = job /\ pc \in {"wait_done", "result"}
    BY <1>1 DEF Poll, ReadResult, Kept, Access
  <2>2. UNCHANGED <<Inner, params, state, run_pending>>
    BY <2>1 DEF vars, config, Inner, handshake, controller
  <2>3. Over' => Over
    BY <2>1, <2>2 DEF Over
  <2>4. QED BY <2>1, <2>2, <2>3, RoomyKept
<1>2. CASE ~(Poll \/ ReadResult)
  <2>1. pc # "wait_done" /\ UNCHANGED controller
    BY <1>2 DEF run, ReleaseReset, SetReset, BeginRun, LoadRows, LoadCols, LoadOrigin, LoadParams,
                LoadCell, EnableRead, StartRead, ReadControl, EnableWrite, StartWrite, Access,
                WriteRows, WriteCols, WriteUnused, WriteParams, WriteCell, WriteControl, Inner, vars
  <2>2. ~Running'
    BY <2>1 DEF Running, IInv, Handshake, Resting, controller
  <2>3. ~Over'
    <3>1. CASE ReleaseReset
      BY <2>1, <3>1 DEF ReleaseReset, Over, Fill, Untouched, controller
    <3>2. CASE StartWrite
      BY <3>2 DEF StartWrite, WriteControl, Access, Over, Reported
    <3>3. CASE \E j \in Jobs : BeginRun(j)
      BY <3>3 DEF BeginRun, Over, Reported
    <3>4. CASE LoadRows \/ LoadCols \/ LoadOrigin \/ LoadParams \/ LoadCell \/ EnableRead
               \/ EnableWrite \/ StartRead
      BY <3>4 DEF LoadRows, LoadCols, LoadOrigin, LoadParams, LoadCell, EnableRead, EnableWrite,
                  StartRead, ReadControl, Access, Over, Reported
    <3>5. QED BY <1>2, <3>1, <3>2, <3>3, <3>4 DEF run
  <2>4. QED BY <2>2, <2>3 DEF Roomy
<1>3. QED BY <1>1, <1>2

(* An edge between runs starts one with overflow cleared, or changes       *)
(* nothing.                                                                *)
LEMMA RoomyRests == ASSUME IInv, Fill, Fill', Roomy, Clock, ~Running PROVE Roomy'
<1>1. UNCHANGED <<pc, job, runs>>
  BY GridKept
<1>2. /\ state \in {"Idle", "Done"} /\ Ctl!run_fsm /\ rst_n \in BOOLEAN /\ start_pulse \in BOOLEAN
  BY TickParts, TypeParts DEF Running, IInv, ConfigTypes
<1>3. state' \in {"Idle", "Done", "LoadStart"}
  BY <1>2, FsmRests
<1>4. Shallow'
  <2>1. (Fill /\ state \in {"Idle", "Done", "LoadStart"} => Shallow)'
    BY ShallowAtRest, PTL
  <2>2. QED BY <1>3, <2>1
<1>5. CASE state' = "LoadStart"
  <2>1. rst_n /\ start_pulse /\ (Ctl!Idle \/ Ctl!DoneRestart)
    BY <1>2, <1>5, FsmRests
    DEF Ctl!run_fsm, Ctl!Reset, Ctl!LoadStart, Ctl!ScanNext, Ctl!ScanEnd, Ctl!PopEmpty, Ctl!Pop,
        Ctl!VisitSkip, Ctl!Visit, Ctl!GenWait, Ctl!GenLatch, Ctl!GenIdle, Ctl!PushNeighbor,
        Ctl!DoneHold
  <2>2. overflow' = FALSE
    BY <2>1 DEF Ctl!Idle, Ctl!DoneRestart, Ctl!NewRun
  <2>3. QED BY <1>4, <2>2 DEF Roomy
<1>6. CASE state' # "LoadStart"
  <2>1. UNCHANGED <<state, overflow>>
    BY <1>6, RestCounts
  <2>2. Over' => Over
    <3>1. run_pending' = (run_pending /\ ~busy)
      BY DEF Clock, Tick, drive_start_pulse
    <3>2. run_pending => ~busy
      BY DEF Running, IInv, Handshake, Pending
    <3>3. QED BY <1>1, <2>1, <3>1, <3>2 DEF Over, Reported
  <2>3. SmallGrid' <=> SmallGrid
    BY <1>1 DEF SmallGrid, Passable
  <2>4. QED BY <1>4, <2>1, <2>2, <2>3 DEF Roomy, Running
<1>7. QED BY <1>5, <1>6

(* Every step keeps the run of a small grid free of losses. *)
LEMMA RoomyStep ==
  IInv /\ Fill /\ Scan!IInv /\ CInv /\ Roomy /\ Fill' /\ [Next]_allvars => Roomy'
<1>1. SUFFICES ASSUME IInv, Fill, Scan!IInv, CInv, Roomy, Fill', [Next]_allvars
               PROVE  Roomy'
  OBVIOUS
<1>2. CASE Clock
  <2>1. CASE Running
    <3>1. SmallGrid' <=> SmallGrid
      <4>1. job' = job
        BY <1>1, <1>2, GridKept
      <4>2. QED BY <4>1 DEF SmallGrid, Passable
    <3>2. SmallGrid => Shallow' /\ overflow' = FALSE
      BY <1>1, <1>2, <2>1, RoomyTick DEF Roomy
    <3>3. QED BY <3>1, <3>2 DEF Roomy
  <2>2. QED BY <1>1, <1>2, <2>1, RoomyRests
<1>3. CASE run
  BY <1>1, <1>3, RoomyRun
<1>4. CASE Delta \/ UNCHANGED allvars
  <2>1. UNCHANGED <<Inner, job, params, state, run_pending, pc, runs>>
    BY <1>4 DEF Delta, Settle, driver, allvars, vars, config, Inner, handshake, controller
  <2>2. Over' => Over
    BY <2>1 DEF Over, Reported
  <2>3. QED BY <1>1, <2>1, <2>2, RoomyKept
<1>5. QED BY <1>1, <1>2, <1>3, <1>4 DEF Next

(* Every run on a grid whose passable cells leave the stack room for the   *)
(* neighbours they push (each one fewer than it has directions, and the    *)
(* seed) returns the number of its islands and of its passable cells,      *)
(* whatever ran before it on the same accelerator, runs that overflowed    *)
(* included (AcceleratorDriver::run, read_result).                         *)
THEOREM SmallGridsAreExact == ASSUME BusWaits PROVE Spec => [](SmallGrid => ReportExact)
<1>1. DriverInit => Roomy
  BY DEF DriverInit, Init, InitWith, Ctl!Init, Roomy, Running, Over
<1>2. IInv /\ Fill /\ Scan!IInv /\ CInv /\ Roomy /\ Fill' /\ [Next]_allvars => Roomy'
  BY RoomyStep
<1>3. IInv /\ Fill /\ CInv /\ Roomy => (SmallGrid => ReportExact)
  <2>1. SUFFICES ASSUME IInv, Fill, CInv, Roomy, SmallGrid, Reported PROVE ReportExact
    BY DEF ReportExact
  <2>2. Over
    BY <2>1 DEF Reported, Over, CInv, Collected, IInv, Handshake, Resting
  <2>3. QED BY <2>1, <2>2, ExactUnlessLost DEF Roomy
<1>4. QED BY <1>1, <1>2, <1>3, Invariance, FillInvariance, ScanInvariance, CInvariance, PTL DEF Spec
=============================================================================

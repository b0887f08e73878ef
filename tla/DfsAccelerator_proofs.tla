------------------------ MODULE DfsAccelerator_proofs ------------------------
(***************************************************************************)
(* Lemmas about the accelerator on its own, for every grid size and stack  *)
(* depth and whatever its host does: how each step - an edge, an access of *)
(* the host, a settling of the port, a reset - keeps the types and keeps   *)
(* the wires fresh; how coordinates and addresses correspond; what an edge *)
(* makes of the stack's contents.  The proofs about its two hosts          *)
(* (FreeHost_proofs, AcceleratorDriver_proofs) are built from them.        *)
(***************************************************************************)
EXTENDS ScanMapping, TLAPS

USE MaxCellsAssumption, StackDepthAssumption

(* TypeOK by module. *)
ConfigTypes ==
  /\ rst_n \in BOOLEAN /\ enabled \in BOOLEAN
  /\ rows \in Nat /\ cols \in Nat /\ params \in Nat
  /\ start_requested \in BOOLEAN /\ run_pending \in BOOLEAN /\ start_pulse \in BOOLEAN

ControllerTypes ==
  /\ busy \in BOOLEAN /\ done \in BOOLEAN
  /\ stk_push \in BOOLEAN /\ stk_pop \in BOOLEAN /\ stk_in \in Coord
  /\ ngen_valid_in \in BOOLEAN /\ ngen_cur \in Coord
  /\ vis_we \in BOOLEAN /\ vis_addr \in Nat
  /\ visited_count \in Nat /\ island_count \in Nat /\ overflow \in BOOLEAN
  /\ state \in Ctl!States
  /\ cur_node \in Coord /\ nbr_latch \in Coord /\ scan \in Coord
  /\ ngen_wait \in BOOLEAN /\ is_new_island_start \in BOOLEAN

StackTypes ==
  /\ storage \in [0 .. StackDepth - 1 -> Coord]
  /\ sp \in 0 .. StackDepth /\ peak \in 0 .. StackDepth
  /\ stk_out \in [top : Coord, empty : BOOLEAN, full : BOOLEAN, peak_depth : 0 .. StackDepth]

GeneratorTypes ==
  /\ active \in BOOLEAN /\ next_dir \in 0 .. 8 /\ num_dirs \in {4, 8} /\ base \in Coord
  /\ ngen_valid_out \in BOOLEAN /\ ngen_done \in BOOLEAN /\ ngen_nbr \in Coord

MemoryTypes ==
  /\ visited \in [0 .. MaxCells - 1 -> BOOLEAN] /\ vis_is_visited \in BOOLEAN
  /\ grid_we \in BOOLEAN /\ grid_waddr \in 0 .. MaxCells - 1 /\ grid_wdata \in Int
  /\ cells \in [0 .. MaxCells - 1 -> Int] /\ grid_value \in Int

ResultTypes ==
  /\ result \in [value : Nat, visited_cells : Nat, peak_stack_depth : Nat]
  /\ result_valid \in BOOLEAN

(* TypeOK is the conjunction of its parts.                                 *)
LEMMA TypeParts ==
  TypeOK <=> /\ ConfigTypes /\ ControllerTypes /\ StackTypes /\ GeneratorTypes
             /\ MemoryTypes /\ ResultTypes
BY DEF TypeOK, ConfigTypes, ControllerTypes, StackTypes, GeneratorTypes, MemoryTypes, ResultTypes

(* The four request wires stay Boolean whichever of them a state raises.   *)
LEMMA RaisedTypes ==
  ASSUME NEW raised, Ctl!Raise(raised)
  PROVE  /\ stk_push' \in BOOLEAN /\ stk_pop' \in BOOLEAN
         /\ ngen_valid_in' \in BOOLEAN /\ vis_we' \in BOOLEAN
<1>1. \A x : (x \in raised) \in BOOLEAN
  OBVIOUS
<1>2. QED BY <1>1, Zenon DEF Ctl!Raise

(* An edge of run_fsm keeps the types of its registers.                    *)
LEMMA ControllerTick ==
  ASSUME TypeOK, Ctl!run_fsm
  PROVE  ControllerTypes'
<1>1. /\ ControllerTypes /\ stk_out.top \in Coord /\ stk_out.full \in BOOLEAN
      /\ ngen_nbr \in Coord /\ rows \in Nat /\ cols \in Nat /\ <<0, 0>> \in Coord
  BY TypeParts DEF ConfigTypes, StackTypes, GeneratorTypes, Coord
<1>0. /\ stk_push' \in BOOLEAN /\ stk_pop' \in BOOLEAN
      /\ ngen_valid_in' \in BOOLEAN /\ vis_we' \in BOOLEAN
  <2>1. \E raised : Ctl!Raise(raised)
    BY DEF Ctl!run_fsm, Ctl!Reset, Ctl!Idle, Ctl!LoadStart, Ctl!ScanNext, Ctl!ScanEnd, Ctl!PopEmpty,
           Ctl!Pop, Ctl!VisitSkip, Ctl!Visit, Ctl!GenWait, Ctl!GenLatch, Ctl!GenIdle,
           Ctl!PushNeighbor, Ctl!DoneHold, Ctl!DoneRestart
  <2>2. QED BY <2>1, RaisedTypes
<1> USE <1>0 DEF ControllerTypes, Ctl!States
<1>2. CASE Ctl!Reset     BY <1>1, <1>2 DEF Ctl!Reset
<1>3. CASE Ctl!Idle
  <2>1. CASE start_pulse
    <3>1. /\ busy' = FALSE /\ done' = FALSE /\ state' = "LoadStart"
          /\ visited_count' = 0 /\ island_count' = 0 /\ overflow' = FALSE
          /\ UNCHANGED <<stk_in, ngen_cur, vis_addr, cur_node, nbr_latch, scan, ngen_wait,
                         is_new_island_start>>
      BY <1>3, <2>1 DEF Ctl!Idle, Ctl!NewRun
    <3>2. QED BY <1>1, <3>1
  <2>2. CASE ~start_pulse BY <1>1, <1>3, <2>2 DEF Ctl!Idle, Ctl!counters
  <2>3. QED BY <2>1, <2>2
<1>4. CASE Ctl!LoadStart BY <1>1, <1>4 DEF Ctl!LoadStart, Ctl!counters
<1>5. CASE Ctl!ScanNext
  <2>1. Ctl!NextScan \in Coord
    BY <1>1 DEF Ctl!NextScan, Coord
  <2>2. CASE Ctl!Full BY <1>1, <1>5, <2>1, <2>2 DEF Ctl!ScanNext
  <2>3. CASE ~Ctl!Full BY <1>1, <1>5, <2>1, <2>3 DEF Ctl!ScanNext
  <2>4. QED BY <2>2, <2>3
<1>6. CASE Ctl!ScanEnd   BY <1>1, <1>6 DEF Ctl!ScanEnd, Ctl!counters
<1>7. CASE Ctl!PopEmpty  BY <1>1, <1>7 DEF Ctl!PopEmpty, Ctl!counters
<1>8. CASE Ctl!Pop
  <2>1. Ctl!cell_index(stk_out.top) \in Nat
    BY <1>1 DEF Ctl!cell_index, Coord
  <2>2. QED BY <1>1, <1>8, <2>1 DEF Ctl!Pop, Ctl!counters
<1>9. CASE Ctl!VisitSkip BY <1>1, <1>9 DEF Ctl!VisitSkip, Ctl!counters
<1>10. CASE Ctl!Visit
  <2>1. Ctl!cell_index(cur_node) \in Nat
    BY <1>1 DEF Ctl!cell_index, Coord
  <2>2. visited_count' \in Nat /\ island_count' \in Nat
    BY <1>1, <1>10 DEF Ctl!Visit
  <2>3. QED BY <1>1, <1>10, <2>1, <2>2 DEF Ctl!Visit
<1>11. CASE Ctl!GenWait  BY <1>1, <1>11 DEF Ctl!GenWait, Ctl!counters
<1>12. CASE Ctl!GenLatch BY <1>1, <1>12 DEF Ctl!GenLatch, Ctl!counters
<1>13. CASE Ctl!GenIdle  BY <1>1, <1>13 DEF Ctl!GenIdle, Ctl!counters
<1>14. CASE Ctl!PushNeighbor
  BY <1>1, <1>14 DEF Ctl!PushNeighbor, Ctl!Dropped, Ctl!Full
<1>15. CASE Ctl!DoneHold BY <1>1, <1>15 DEF Ctl!DoneHold, Ctl!private, Ctl!counters
<1>16. CASE Ctl!DoneRestart BY <1>1, <1>16 DEF Ctl!DoneRestart, Ctl!NewRun
<1>17. QED BY <1>2, <1>3, <1>4, <1>5, <1>6, <1>7, <1>8, <1>9, <1>10, <1>11, <1>12,
              <1>13, <1>14, <1>15, <1>16 DEF Ctl!run_fsm

Registered ==
  /\ sp \in 0 .. StackDepth /\ peak \in 0 .. StackDepth /\ stk_in \in Coord
  /\ storage \in [0 .. StackDepth - 1 -> Coord]

(* What the stack shows on its output wires is of their type.              *)
LEMMA ShownTypes ==
  Registered => Stk!Shown \in [top : Coord, empty : BOOLEAN, full : BOOLEAN, peak_depth : 0 .. StackDepth]
<1> SUFFICES ASSUME Registered
             PROVE  Stk!Shown \in [top : Coord, empty : BOOLEAN, full : BOOLEAN,
                                  peak_depth : 0 .. StackDepth]
  OBVIOUS
<1> USE DEF Registered
<1>1. Stk!EffSp \in 0 .. StackDepth
  <2>1. CASE Stk!Held BY <2>1 DEF Stk!EffSp
  <2>2. CASE ~Stk!Held /\ Stk!DoPush
    <3>1. Stk!EffSp = sp + 1 BY <2>2 DEF Stk!EffSp, Stk!DoPush, Stk!DoPop
    <3>2. sp < StackDepth BY <2>2 DEF Stk!DoPush
    <3>3. QED BY <3>1, <3>2
  <2>3. CASE ~Stk!Held /\ ~Stk!DoPush /\ Stk!DoPop BY <2>3 DEF Stk!EffSp, Stk!DoPop
  <2>4. CASE ~Stk!Held /\ ~Stk!DoPush /\ ~Stk!DoPop BY <2>4 DEF Stk!EffSp
  <2>5. QED BY <2>1, <2>2, <2>3, <2>4
<1>2. Stk!EffPeak \in 0 .. StackDepth
  BY <1>1 DEF Stk!EffPeak
<1>3. (IF Stk!EffSp = 0 THEN <<0, 0>>
       ELSE IF Stk!DoPush THEN stk_in ELSE storage[Stk!EffSp - 1]) \in Coord
  <2>1. Stk!EffSp # 0 => Stk!EffSp - 1 \in 0 .. StackDepth - 1
    BY <1>1
  <2>2. <<0, 0>> \in Coord
    BY DEF Coord
  <2>3. QED BY <2>1, <2>2
<1>4. QED BY <1>2, <1>3 DEF Stk!Shown

(* An edge of the stack keeps the types of its registers and wires.        *)
LEMMA StackTick ==
  ASSUME TypeOK, Stk!Commit, Stk!Preview, stk_in' \in Coord
  PROVE  StackTypes'
<1>1. StackTypes /\ stk_in \in Coord
  BY TypeParts DEF ControllerTypes
<1>2. sp' \in 0 .. StackDepth /\ peak' \in 0 .. StackDepth /\ storage' \in [0 .. StackDepth - 1 -> Coord]
  <2>1. CASE Stk!CommitClear BY <1>1, <2>1 DEF Stk!CommitClear, StackTypes
  <2>2. CASE Stk!CommitPush
    <3>1. CASE sp < StackDepth
      BY <1>1, <2>2, <3>1 DEF Stk!CommitPush, Stk!Room, Stk!PushPeak, StackTypes
    <3>2. CASE ~(sp < StackDepth)
      BY <1>1, <2>2, <3>2 DEF Stk!CommitPush, Stk!Room, Stk!registers, StackTypes
    <3>3. QED BY <3>1, <3>2
  <2>3. CASE Stk!CommitPop BY <1>1, <2>3 DEF Stk!CommitPop, StackTypes
  <2>4. QED BY <2>1, <2>2, <2>3 DEF Stk!Commit
<1>3. (Stk!Shown \in [top : Coord, empty : BOOLEAN, full : BOOLEAN, peak_depth : 0 .. StackDepth])'
  <2>1. Registered'
    BY <1>2 DEF Registered
  <2>2. QED BY <2>1, ShownTypes, PTL
<1>4. QED BY <1>1, <1>2, <1>3 DEF Stk!Preview, StackTypes

(* A step that stays on the grid leads to a pair of naturals. *)
LEMMA StepOnGrid ==
  ASSUME NEW c \in Coord, NEW d \in 0 .. 7, Ngen!OnGrid(Ngen!Step(c, d))
  PROVE  Ngen!Step(c, d) \in Coord
<1>1. c[1] \in Nat /\ c[2] \in Nat
  BY DEF Coord
<1>2. Ngen!Offset[d + 1][1] \in Int /\ Ngen!Offset[d + 1][2] \in Int
  <2>1. d \in {0, 1, 2, 3, 4, 5, 6, 7} OBVIOUS
  <2>2. QED BY <2>1 DEF Ngen!Offset
<1> DEFINE x == c[1] + Ngen!Offset[d + 1][1]
           y == c[2] + Ngen!Offset[d + 1][2]
<1>3. x \in Int /\ y \in Int /\ Ngen!Step(c, d) = <<x, y>>
  BY <1>1, <1>2 DEF Ngen!Step
<1> HIDE DEF x, y
<1>4. x >= 0 /\ y >= 0
  BY <1>3 DEF Ngen!OnGrid
<1>5. QED BY <1>3, <1>4 DEF Coord

(* An edge of the generator keeps the types of its registers and wires.    *)
LEMMA GeneratorTick ==
  ASSUME TypeOK, Ngen!Generate
  PROVE  GeneratorTypes'
<1>1. /\ GeneratorTypes /\ ngen_cur \in Coord /\ params \in Nat
  BY TypeParts DEF ControllerTypes, ConfigTypes
<1>2. CASE Ngen!Reset
  <2>1. /\ active' = FALSE /\ next_dir' = 0 /\ num_dirs' = 4 /\ base' = base
        /\ ngen_valid_out' = FALSE /\ ngen_done' = FALSE /\ ngen_nbr' = <<0, 0>>
    BY <1>2 DEF Ngen!Reset
  <2>2. <<0, 0>> \in Coord BY DEF Coord
  <2>3. active' \in BOOLEAN /\ ngen_valid_out' \in BOOLEAN /\ ngen_done' \in BOOLEAN
    BY <2>1
  <2>4. next_dir' \in 0 .. 8 /\ num_dirs' \in {4, 8} /\ base' \in Coord /\ ngen_nbr' \in Coord
    BY <1>1, <2>1, <2>2 DEF GeneratorTypes
  <2>5. QED BY <2>3, <2>4 DEF GeneratorTypes
<1>3. CASE Ngen!NoRequest
  BY <1>1, <1>3 DEF Ngen!NoRequest, GeneratorTypes
<1>4. Ngen!Base \in Coord /\ Ngen!From \in 0 .. 8 /\ Ngen!Num \in {4, 8}
  BY <1>1 DEF Ngen!Base, Ngen!From, Ngen!Num, GeneratorTypes
<1>5. CASE Ngen!Emit
  <2>1. PICK d \in Ngen!Dirs(Ngen!Base, Ngen!From, Ngen!Num) :
          next_dir' = d + 1 /\ ngen_nbr' = Ngen!Step(Ngen!Base, d)
    BY <1>5 DEF Ngen!Emit
  <2>2. d \in Ngen!From .. Ngen!Num - 1 /\ Ngen!OnGrid(Ngen!Step(Ngen!Base, d))
    BY DEF Ngen!Dirs
  <2>3. d \in 0 .. 7
    BY <1>4, <2>2
  <2>4. ngen_nbr' \in Coord
    BY <1>4, <2>1, <2>2, <2>3, StepOnGrid
  <2>5. next_dir' \in 0 .. 8
    BY <2>1, <2>3
  <2>6. base' = Ngen!Base /\ num_dirs' = Ngen!Num /\ active' = TRUE /\ ngen_valid_out' = TRUE
        /\ ngen_done' = FALSE
    BY <1>5 DEF Ngen!Emit
  <2>7. QED BY <1>4, <2>4, <2>5, <2>6 DEF GeneratorTypes
<1>6. CASE Ngen!Exhausted
  <2>1. /\ active' = FALSE /\ next_dir' = Ngen!Num /\ num_dirs' = Ngen!Num /\ base' = Ngen!Base
        /\ ngen_valid_out' = FALSE /\ ngen_done' = TRUE /\ ngen_nbr' = ngen_nbr
    BY <1>6 DEF Ngen!Exhausted
  <2>2. Ngen!Num \in 0 .. 8 BY <1>4
  <2>3. QED BY <1>1, <1>4, <2>1, <2>2 DEF GeneratorTypes
<1>7. QED BY <1>2, <1>3, <1>5, <1>6 DEF Ngen!Generate

(* An edge of the two memories keeps the types of their cells and wires.   *)
LEMMA MemoryTick ==
  ASSUME TypeOK, Vis!Commit, Vis!Preview, Grid!Commit, Grid!Preview, UNCHANGED port,
         start_pulse' \in BOOLEAN, vis_we' \in BOOLEAN, vis_addr' \in Nat
  PROVE  MemoryTypes'
<1>1. MemoryTypes
  BY TypeParts
<1>2. UNCHANGED <<grid_we, grid_waddr, grid_wdata>>
  BY DEF port
<1>3. visited' \in [0 .. MaxCells - 1 -> BOOLEAN]
  BY <1>1 DEF Vis!Commit, Vis!Addresses, MemoryTypes
<1>4. vis_is_visited' \in BOOLEAN
  <2>1. Vis!Shown' \in BOOLEAN
    BY Zenon DEF Vis!Shown
  <2>2. QED BY <1>1, <2>1 DEF Vis!Preview, MemoryTypes
<1>5. cells' \in [0 .. MaxCells - 1 -> Int]
  BY <1>1 DEF Grid!Commit, Grid!Addresses, MemoryTypes
<1>6. grid_value' \in Int
  <2>1. Grid!Shown' \in Int
    BY <1>1, <1>2, <1>5 DEF Grid!Shown, Grid!Addresses, MemoryTypes
  <2>2. QED BY <1>1, <2>1 DEF Grid!Preview, MemoryTypes
<1>7. QED BY <1>1, <1>2, <1>3, <1>4, <1>5, <1>6 DEF MemoryTypes

(* Every edge keeps the types. *)
LEMMA TypeTick == ASSUME TypeOK, Tick PROVE TypeOK'
<1>1. ConfigTypes'
  <2>1. ConfigTypes BY TypeParts
  <2>2. UNCHANGED <<rst_n, enabled, rows, cols, params>> /\ start_pulse' = start_requested
        /\ start_requested' = FALSE /\ run_pending' = (run_pending /\ ~busy)
    BY DEF Tick, config, drive_start_pulse
  <2>3. (run_pending /\ ~busy) \in BOOLEAN OBVIOUS
  <2>4. QED BY <2>1, <2>2, <2>3 DEF ConfigTypes
<1>2. ControllerTypes'
  BY ControllerTick DEF Tick
<1>3. StackTypes'
  BY <1>2, StackTick DEF Tick, ControllerTypes
<1>4. GeneratorTypes'
  BY GeneratorTick DEF Tick
<1>5. MemoryTypes'
  BY <1>1, <1>2, MemoryTick DEF Tick, ConfigTypes, ControllerTypes
<1>6. ResultTypes'
  <2>1. ResultTypes /\ ControllerTypes /\ StackTypes BY TypeParts
  <2>2. Res!Counters \in [value : Nat, visited_cells : Nat, peak_stack_depth : Nat]
    BY <2>1 DEF Res!Counters, ControllerTypes, StackTypes
  <2>3. Res!NoResult \in [value : Nat, visited_cells : Nat, peak_stack_depth : Nat]
    BY DEF Res!NoResult
  <2>4. result' \in [value : Nat, visited_cells : Nat, peak_stack_depth : Nat]
    BY <2>1, <2>2, <2>3 DEF Tick, Res!Latch, ResultTypes
  <2>5. (rst_n /\ done) \in BOOLEAN OBVIOUS
  <2>6. QED BY <2>4, <2>5 DEF Tick, Res!Latch, ResultTypes
<1>7. QED
  <2>1. (TypeOK <=> /\ ConfigTypes /\ ControllerTypes /\ StackTypes /\ GeneratorTypes
                    /\ MemoryTypes /\ ResultTypes)'
    BY TypeParts, PTL
  <2>2. QED BY <1>1, <1>2, <1>3, <1>4, <1>5, <1>6, <2>1

(* So do the host's accesses, with values in range, and the reset. *)
LEMMA SameTypes ==
  ASSUME TypeOK
  PROVE  /\ UNCHANGED controller => ControllerTypes'
         /\ UNCHANGED stack => StackTypes'
         /\ UNCHANGED generator => GeneratorTypes'
         /\ UNCHANGED <<marks, port, gridmem>> => MemoryTypes'
         /\ UNCHANGED results => ResultTypes'
         /\ UNCHANGED <<rst_n, config, handshake>> => ConfigTypes'
<1>1. UNCHANGED controller => ControllerTypes'
  BY TypeParts DEF ControllerTypes, controller
<1>2. UNCHANGED stack => StackTypes'
  BY TypeParts DEF StackTypes, stack
<1>3. UNCHANGED generator => GeneratorTypes'
  BY TypeParts DEF GeneratorTypes, generator
<1>4. UNCHANGED <<marks, port, gridmem>> => MemoryTypes'
  BY TypeParts DEF MemoryTypes, marks, port, gridmem
<1>5. UNCHANGED results => ResultTypes'
  BY TypeParts DEF ResultTypes, results
<1>6. UNCHANGED <<rst_n, config, handshake>> => ConfigTypes'
  BY TypeParts DEF ConfigTypes, config, handshake
<1>7. QED BY <1>1, <1>2, <1>3, <1>4, <1>5, <1>6

(* So do an access of the host and a settling of the port.                 *)
LEMMA TypeAccess ==
  ASSUME TypeOK,
         \/ \E enable, start \in BOOLEAN : WriteControl(enable, start)
         \/ \E n \in Nat : WriteRows(n) \/ WriteCols(n) \/ WriteParams(n)
         \/ WriteUnused
         \/ \E n \in Nat, v \in Int : WriteCell(n, v)
         \/ Settle
         \/ \E level \in BOOLEAN : SetReset(level)
         \/ UNCHANGED vars
  PROVE  TypeOK'
<1>1. ConfigTypes /\ StackTypes /\ MemoryTypes /\ ControllerTypes
  BY TypeParts
<1>2. (TypeOK <=> /\ ConfigTypes /\ ControllerTypes /\ StackTypes /\ GeneratorTypes
                  /\ MemoryTypes /\ ResultTypes)'
  BY TypeParts, PTL
<1>3. NotTheGrid /\ UNCHANGED marks => MemoryTypes'
  BY <1>1 DEF NotTheGrid, gridmem, marks, MemoryTypes
<1>4. ASSUME UNCHANGED Inner, ConfigTypes', MemoryTypes'
      PROVE  TypeOK'
  BY <1>2, <1>4, SameTypes DEF Inner
<1>5. ASSUME NEW enable \in BOOLEAN, NEW start \in BOOLEAN, WriteControl(enable, start)
      PROVE  TypeOK'
  <2>1. (start_requested \/ start) \in BOOLEAN /\ (run_pending \/ start) \in BOOLEAN
    OBVIOUS
  <2>2. ConfigTypes'
    BY <1>1, <1>5, <2>1 DEF WriteControl, ConfigTypes, Inner
  <2>3. QED BY <1>3, <1>4, <1>5, <2>2 DEF WriteControl, Inner
<1>6. ASSUME NEW n \in Nat, WriteRows(n) \/ WriteCols(n) \/ WriteParams(n)
      PROVE  TypeOK'
  <2>1. ConfigTypes'
    BY <1>1, <1>6 DEF WriteRows, WriteCols, WriteParams, ConfigTypes, Inner, handshake
  <2>2. NotTheGrid /\ UNCHANGED Inner
    BY <1>6 DEF WriteRows, WriteCols, WriteParams
  <2>3. QED BY <1>3, <1>4, <2>1, <2>2 DEF Inner
<1>7. CASE WriteUnused
  BY <1>3, <1>4, <1>7, SameTypes DEF WriteUnused, Inner
<1>8. ASSUME NEW n \in Nat, NEW v \in Int, WriteCell(n, v)
      PROVE  TypeOK'
  <2>1. ConfigTypes' /\ UNCHANGED Inner
    BY <1>8, SameTypes DEF WriteCell, Inner
  <2>2. MemoryTypes'
    <3>1. cells' \in [0 .. MaxCells - 1 -> Int]
      BY <1>1, <1>8 DEF WriteCell, Grid!load_cell, Grid!Addresses, MemoryTypes
    <3>2. QED BY <1>1, <1>8, <3>1 DEF WriteCell, Inner, marks, MemoryTypes
  <2>3. QED BY <1>4, <2>1, <2>2
<1>9. CASE Settle
  <2>1. ConfigTypes' /\ UNCHANGED Inner
    BY <1>9, SameTypes DEF Settle, Inner
  <2>2. UNCHANGED <<grid_we, grid_waddr, grid_wdata, cells, visited, vis_is_visited>>
    BY <1>9 DEF Settle, Inner, port, marks
  <2>3. Grid!Shown' \in Int
    BY <1>1, <2>2 DEF Grid!Shown, Grid!Addresses, MemoryTypes
  <2>4. MemoryTypes'
    BY <1>1, <1>9, <2>2, <2>3 DEF Settle, Grid!Preview, MemoryTypes
  <2>5. QED BY <1>4, <2>1, <2>4
<1>10. ASSUME NEW level \in BOOLEAN, SetReset(level)
       PROVE  TypeOK'
  <2>1. ConfigTypes'
    BY <1>1, <1>10 DEF SetReset, ConfigTypes, config, handshake
  <2>2. /\ ControllerTypes' /\ GeneratorTypes' /\ MemoryTypes' /\ ResultTypes'
    BY <1>10, SameTypes DEF SetReset
  <2>3. StackTypes'
    <3>1. Registered'
      BY <1>1, <1>10 DEF SetReset, Registered, StackTypes, ControllerTypes, controller
    <3>2. (Stk!Shown \in [top : Coord, empty : BOOLEAN, full : BOOLEAN, peak_depth : 0 .. StackDepth])'
      BY <3>1, ShownTypes, PTL
    <3>3. QED BY <1>1, <1>10, <3>2 DEF SetReset, Stk!Preview, StackTypes
  <2>4. QED BY <1>2, <2>1, <2>2, <2>3
<1>11. CASE UNCHANGED vars
  BY <1>2, <1>11, SameTypes DEF vars
<1>12. QED BY <1>5, <1>6, <1>7, <1>8, <1>9, <1>10, <1>11

(* The accelerator starts with every register and wire in its range.       *)
LEMMA TypeInit ==
  ASSUME NEW level \in BOOLEAN, NEW r \in Nat, NEW c \in Nat, NEW p \in Nat,
         NEW grid \in [0 .. MaxCells - 1 -> Int], InitWith(level, r, c, p, grid)
  PROVE  TypeOK
<1>1. <<0, 0>> \in Coord
  BY DEF Coord
<1>2. ConfigTypes
  BY DEF InitWith, ConfigTypes
<1>3. ControllerTypes
  BY <1>1 DEF InitWith, Ctl!Init, Ctl!States, ControllerTypes
<1>4. StackTypes
  <2>1. Registered
    BY <1>1 DEF InitWith, Ctl!Init, Registered
  <2>2. QED BY <2>1, ShownTypes DEF InitWith, Registered, StackTypes
<1>5. GeneratorTypes
  <2>1. /\ active = FALSE /\ next_dir = 0 /\ num_dirs = 4 /\ base = <<0, 0>>
        /\ ngen_valid_out = FALSE /\ ngen_done = FALSE /\ ngen_nbr = <<0, 0>>
    BY DEF InitWith
  <2>2. active \in BOOLEAN /\ ngen_valid_out \in BOOLEAN /\ ngen_done \in BOOLEAN
    BY <2>1
  <2>3. next_dir \in 0 .. 8 /\ num_dirs \in {4, 8} /\ base \in Coord /\ ngen_nbr \in Coord
    BY <1>1, <2>1
  <2>4. QED BY <2>2, <2>3 DEF GeneratorTypes
<1>6. MemoryTypes
  <2>1. grid[0] \in Int OBVIOUS
  <2>2. /\ visited = [a \in 0 .. MaxCells - 1 |-> FALSE] /\ vis_is_visited = FALSE
        /\ grid_we = FALSE /\ grid_waddr = 0 /\ grid_wdata = grid[0]
        /\ cells = grid /\ grid_value = grid[0]
    BY DEF InitWith
  <2>3. 0 \in 0 .. MaxCells - 1 OBVIOUS
  <2>4. QED BY <2>1, <2>2, <2>3 DEF MemoryTypes
<1>7. ResultTypes
  BY DEF InitWith, Res!NoResult, ResultTypes
<1>8. QED BY <1>2, <1>3, <1>4, <1>5, <1>6, <1>7, TypeParts

-----------------------------------------------------------------------------
(* What the wires show, whatever the host does.                            *)
(* Where the FSM is when one of its requests is on the wires: it never     *)
(* raises the same one at two edges in a row.                              *)
Requests ==
  /\ stk_push => state \in {"Pop", "GenNeighbors"}
  /\ stk_pop => state = "Visit"
  /\ vis_we => state = "GenNeighbors"

(* done is up in state Done only, and valid at most one edge longer. *)
DoneKept ==
  /\ done => state = "Done" /\ ~busy
  /\ result_valid => ~busy

StackFresh == sp \in 0 .. StackDepth /\ stk_out = Stk!Shown

PushFits == stk_push => sp < StackDepth

(* The visited bit on the wire is the one in memory. *)
MarksFresh == vis_is_visited = Vis!Shown

WiresFresh == Requests /\ DoneKept /\ StackFresh /\ PushFits /\ MarksFresh

(* The grid's preview has seen the read address, and once it has seen the  *)
(* port as well, shows the cell.                                           *)
GridFresh ==
  /\ grid_seen[4] = vis_addr
  /\ grid_seen = Grid!inputs => grid_value = Grid!Shown

(* The wires as the registers are constructed. *)
LEMMA FreshInit ==
  ASSUME NEW level, NEW r, NEW c, NEW p, NEW grid, InitWith(level, r, c, p, grid)
  PROVE  WiresFresh /\ GridFresh
<1>1. /\ start_pulse = FALSE /\ sp = 0 /\ stk_out = Stk!Shown /\ busy = FALSE /\ done = FALSE
      /\ stk_push = FALSE /\ stk_pop = FALSE /\ vis_we = FALSE /\ vis_addr = 0
      /\ visited = [a \in 0 .. MaxCells - 1 |-> FALSE] /\ vis_is_visited = FALSE
      /\ grid_we = FALSE /\ cells = grid /\ grid_value = grid[0] /\ grid_seen = Grid!inputs
      /\ result_valid = FALSE
  BY DEF InitWith, Ctl!Init
<1>2. 0 \in 0 .. MaxCells - 1
  OBVIOUS
<1>3. Requests /\ DoneKept /\ StackFresh /\ PushFits
  BY <1>1 DEF Requests, DoneKept, StackFresh, PushFits
<1>4. MarksFresh
  <2>1. ~Vis!Shown
    BY <1>1, <1>2 DEF Vis!Shown
  <2>2. Vis!Shown \in BOOLEAN
    BY Zenon DEF Vis!Shown
  <2>3. Vis!Shown = FALSE
    BY <2>1, <2>2, Zenon
  <2>4. QED BY <1>1, <2>3 DEF MarksFresh
<1>5. GridFresh
  BY <1>1, <1>2 DEF GridFresh, Grid!inputs, Grid!Shown, Grid!Addresses
<1>6. QED BY <1>3, <1>4, <1>5 DEF WiresFresh

-----------------------------------------------------------------------------
(* What any edge does with the FSM's requests. *)
LEMMA FsmRequests ==
  ASSUME Ctl!run_fsm
  PROVE  /\ stk_push' => /\ state \in {"ScanNext", "PushNeighbor"} /\ ~stk_out.full
                         /\ state' \in {"Pop", "GenNeighbors"}
         /\ stk_pop' => state = "Pop" /\ state' = "Visit"
         /\ vis_we' => state = "Visit" /\ state' = "GenNeighbors"
<1> USE DEF Ctl!Raise, Ctl!Full
<1>1. CASE Ctl!Reset     BY <1>1 DEF Ctl!Reset
<1>2. CASE Ctl!Idle      BY <1>2 DEF Ctl!Idle
<1>3. CASE Ctl!LoadStart BY <1>3 DEF Ctl!LoadStart
<1>4. CASE Ctl!ScanNext
  <2>1. CASE stk_out.full BY <1>4, <2>1 DEF Ctl!ScanNext
  <2>2. CASE ~stk_out.full BY <1>4, <2>2 DEF Ctl!ScanNext
  <2>3. QED BY <2>1, <2>2
<1>5. CASE Ctl!ScanEnd   BY <1>5 DEF Ctl!ScanEnd
<1>6. CASE Ctl!PopEmpty  BY <1>6 DEF Ctl!PopEmpty
<1>7. CASE Ctl!Pop       BY <1>7 DEF Ctl!Pop
<1>8. CASE Ctl!VisitSkip BY <1>8 DEF Ctl!VisitSkip
<1>9. CASE Ctl!Visit     BY <1>9 DEF Ctl!Visit
<1>10. CASE Ctl!GenWait  BY <1>10 DEF Ctl!GenWait
<1>11. CASE Ctl!GenLatch BY <1>11 DEF Ctl!GenLatch
<1>12. CASE Ctl!GenIdle  BY <1>12 DEF Ctl!GenIdle
<1>13. CASE Ctl!PushNeighbor
  <2>1. CASE stk_out.full BY <1>13, <2>1 DEF Ctl!PushNeighbor, Ctl!Asked
  <2>2. CASE ~stk_out.full BY <1>13, <2>2 DEF Ctl!PushNeighbor, Ctl!Asked
  <2>3. QED BY <2>1, <2>2
<1>14. CASE Ctl!DoneHold BY <1>14 DEF Ctl!DoneHold
<1>15. CASE Ctl!DoneRestart BY <1>15 DEF Ctl!DoneRestart
<1>16. QED BY <1>1, <1>2, <1>3, <1>4, <1>5, <1>6, <1>7, <1>8, <1>9, <1>10, <1>11, <1>12,
              <1>13, <1>14, <1>15 DEF Ctl!run_fsm

(* What any edge does with busy and done. *)
LEMMA FsmDone ==
  ASSUME DoneKept, Ctl!run_fsm
  PROVE  /\ done' => state' = "Done" /\ ~busy'
         /\ rst_n /\ done => ~busy'
<1> USE DEF DoneKept
<1>1. CASE Ctl!Reset     BY <1>1 DEF Ctl!Reset
<1>2. CASE Ctl!Idle      BY <1>2 DEF Ctl!Idle
<1>3. CASE Ctl!LoadStart BY <1>3 DEF Ctl!LoadStart
<1>4. CASE Ctl!ScanNext  BY <1>4 DEF Ctl!ScanNext
<1>5. CASE Ctl!ScanEnd   BY <1>5 DEF Ctl!ScanEnd
<1>6. CASE Ctl!PopEmpty  BY <1>6 DEF Ctl!PopEmpty
<1>7. CASE Ctl!Pop       BY <1>7 DEF Ctl!Pop
<1>8. CASE Ctl!VisitSkip BY <1>8 DEF Ctl!VisitSkip
<1>9. CASE Ctl!Visit     BY <1>9 DEF Ctl!Visit
<1>10. CASE Ctl!GenWait  BY <1>10 DEF Ctl!GenWait
<1>11. CASE Ctl!GenLatch BY <1>11 DEF Ctl!GenLatch
<1>12. CASE Ctl!GenIdle  BY <1>12 DEF Ctl!GenIdle
<1>13. CASE Ctl!PushNeighbor BY <1>13 DEF Ctl!PushNeighbor
<1>14. CASE Ctl!DoneHold BY <1>14 DEF Ctl!DoneHold, Ctl!private
<1>15. CASE Ctl!DoneRestart BY <1>15 DEF Ctl!DoneRestart
<1>16. QED BY <1>1, <1>2, <1>3, <1>4, <1>5, <1>6, <1>7, <1>8, <1>9, <1>10, <1>11, <1>12,
              <1>13, <1>14, <1>15 DEF Ctl!run_fsm

(* The stack after an edge is the one the preview showed before it. *)
LEMMA StackCommit ==
  ASSUME sp \in 0 .. StackDepth, Stk!Commit
  PROVE  sp' = Stk!EffSp /\ sp' \in 0 .. StackDepth
<1> USE DEF Stk!EffSp, Stk!DoPush, Stk!DoPop
<1>1. CASE Stk!CommitClear
  BY <1>1 DEF Stk!CommitClear, Stk!Held
<1>2. CASE Stk!CommitPush
  BY <1>2 DEF Stk!CommitPush, Stk!Held, Stk!Room, Stk!registers
<1>3. CASE Stk!CommitPop
  BY <1>3 DEF Stk!CommitPop, Stk!Held
<1>4. QED BY <1>1, <1>2, <1>3 DEF Stk!Commit

(* Without a request and with unchanged inputs the preview need not run. *)
LEMMA StackQuiet ==
  ASSUME Stk!Commit, ~stk_push, ~stk_pop, Stk!inputs' = Stk!inputs, sp \in 0 .. StackDepth
  PROVE  Stk!Shown' = Stk!Shown
<1>1. UNCHANGED <<rst_n, start_pulse, stk_push, stk_pop, stk_in>>
  BY DEF Stk!inputs
<1>2. CASE Stk!Held
  <2>1. Stk!Held' /\ Stk!EffSp = 0 /\ Stk!EffSp' = 0 /\ Stk!EffPeak = 0 /\ Stk!EffPeak' = 0
    BY <1>1, <1>2 DEF Stk!Held, Stk!EffSp, Stk!EffPeak
  <2>2. QED BY <1>2, <2>1 DEF Stk!Shown
<1>3. CASE ~Stk!Held
  <2>1. UNCHANGED <<storage, sp, peak>>
    BY <1>3 DEF Stk!Commit, Stk!CommitClear, Stk!CommitPush, Stk!CommitPop
  <2>2. ~Stk!Held' /\ ~Stk!DoPush /\ ~Stk!DoPush' /\ ~Stk!DoPop /\ ~Stk!DoPop'
    BY <1>1, <1>3 DEF Stk!Held, Stk!DoPush, Stk!DoPop
  <2>3. Stk!EffSp = sp /\ Stk!EffSp' = sp' /\ Stk!EffPeak' = Stk!EffPeak
    BY <1>3, <2>1, <2>2 DEF Stk!EffSp, Stk!EffPeak
  <2>4. QED BY <1>3, <2>1, <2>2, <2>3 DEF Stk!Shown
<1>4. QED BY <1>2, <1>3

(* A mark is never requested at two edges in a row either. *)
LEMMA MarksTick ==
  ASSUME Requests, MarksFresh, Ctl!run_fsm, Vis!Commit, Vis!Preview
  PROVE  MarksFresh'
<1>1. CASE Vis!inputs' # Vis!inputs
  BY <1>1 DEF Vis!Preview, MarksFresh
<1>2. CASE Vis!inputs' = Vis!inputs
  <2>1. start_pulse' = start_pulse /\ vis_we' = vis_we /\ vis_addr' = vis_addr
    BY <1>2 DEF Vis!inputs
  <2>2. ~vis_we /\ ~vis_we'
    BY <2>1, FsmRequests DEF Requests
  <2>3. vis_is_visited' = vis_is_visited
    BY <1>2 DEF Vis!Preview
  <2>4. CASE start_pulse
    BY <2>1, <2>3, <2>4 DEF MarksFresh, Vis!Shown
  <2>5. CASE ~start_pulse
    BY <2>1, <2>2, <2>3, <2>5 DEF MarksFresh, Vis!Shown, Vis!Commit
  <2>6. QED BY <2>4, <2>5
<1>3. QED BY <1>1, <1>2

-----------------------------------------------------------------------------
(* WiresFresh is kept by an edge. *)
LEMMA TickStep == ASSUME WiresFresh, Tick PROVE WiresFresh'
<1>1. Requests'
  BY FsmRequests DEF Tick, Requests
<1>2. DoneKept'
  BY FsmDone DEF Tick, Res!Latch, WiresFresh, DoneKept
<1>3. sp' = Stk!EffSp /\ sp' \in 0 .. StackDepth
  BY StackCommit DEF Tick, WiresFresh, StackFresh
<1>4. PushFits'
  <2>1. SUFFICES ASSUME stk_push' PROVE sp' < StackDepth
    BY DEF PushFits
  <2>2. ~Stk!Shown.full
    BY <2>1, FsmRequests DEF Tick, WiresFresh, StackFresh
  <2>3. Stk!Held \/ ~(Stk!EffSp >= StackDepth)
    BY <2>2 DEF Stk!Shown
  <2>4. CASE Stk!Held
    BY <1>3, <2>4 DEF Stk!EffSp
  <2>5. CASE ~(Stk!EffSp >= StackDepth)
    BY <1>3, <2>5
  <2>6. QED BY <2>3, <2>4, <2>5
<1>5. stk_out' = Stk!Shown'
  <2>1. CASE Stk!inputs' = Stk!inputs
    <3>1. stk_push' = stk_push /\ stk_pop' = stk_pop
      BY <2>1 DEF Stk!inputs
    <3>2. ~stk_push /\ ~stk_pop
      BY <3>1, FsmRequests DEF Tick, WiresFresh, Requests
    <3>3. QED BY <2>1, <3>2, StackQuiet DEF Tick, WiresFresh, StackFresh, Stk!Preview
  <2>2. CASE Stk!inputs' # Stk!inputs
    BY <2>2 DEF Tick, Stk!Preview
  <2>3. QED BY <2>1, <2>2
<1>6. MarksFresh'
  BY MarksTick DEF Tick, WiresFresh
<1>7. QED BY <1>1, <1>2, <1>3, <1>4, <1>5, <1>6 DEF WiresFresh, StackFresh

(* Nothing the host does touches what WiresFresh speaks of. *)
LEMMA HostStep ==
  ASSUME WiresFresh, UNCHANGED <<start_pulse, rst_n, controller, stack, marks, result_valid>>
  PROVE  WiresFresh'
<1>1. UNCHANGED <<visited, vis_addr, vis_is_visited, state, busy, done, stk_push, stk_pop, stk_in, vis_we, result_valid, sp, peak,
                  storage, stk_out, start_pulse, rst_n>>
  BY DEF controller, stack, marks
<1>2. Stk!Shown' = Stk!Shown
  BY <1>1 DEF Stk!Shown, Stk!EffSp, Stk!EffPeak, Stk!DoPush, Stk!DoPop, Stk!Held
<1>3. MarksFresh'
  BY <1>1 DEF WiresFresh, MarksFresh, Vis!Shown
<1>4. QED BY <1>1, <1>2, <1>3 DEF WiresFresh, Requests, DoneKept, StackFresh, PushFits

(* A reset edge only re-evaluates the preview. *)
LEMMA ResetStep == ASSUME WiresFresh, SetReset(~rst_n) PROVE WiresFresh'
<1>1. UNCHANGED <<state, busy, done, stk_push, stk_pop, vis_we, result_valid, sp, start_pulse,
                  vis_addr, visited, vis_is_visited>>
  BY DEF SetReset, controller, results, handshake, marks
<1>2. stk_out' = Stk!Shown'
  <2>1. Stk!inputs' # Stk!inputs
    BY DEF SetReset, Stk!inputs
  <2>2. QED BY <2>1 DEF SetReset, Stk!Preview
<1>3. MarksFresh'
  BY <1>1 DEF WiresFresh, MarksFresh, Vis!Shown
<1>4. QED BY <1>1, <1>2, <1>3 DEF WiresFresh, Requests, DoneKept, StackFresh, PushFits

(* A write the port has settled before leaves the grid's preview fresh or  *)
(* to be re-evaluated.                                                     *)
LEMMA GridAccess ==
  ASSUME TypeOK, GridFresh, grid_seen = Grid!inputs, UNCHANGED <<vis_addr, grid_value, grid_seen>>,
         \/ NotTheGrid
         \/ \E n \in Nat, v \in Int : WriteCell(n, v)
  PROVE  GridFresh'
<1>1. cells \in [0 .. MaxCells - 1 -> Int]
  BY DEF TypeOK
<1>2. grid_seen' = Grid!inputs' => UNCHANGED <<grid_we, grid_waddr, grid_wdata>>
  BY DEF Grid!inputs
<1>3. CASE NotTheGrid
  BY <1>2, <1>3 DEF GridFresh, NotTheGrid, gridmem, Grid!Shown
<1>4. ASSUME NEW n \in Nat, NEW v \in Int, WriteCell(n, v), grid_seen' = Grid!inputs'
      PROVE  grid_value' = Grid!Shown'
  <2>1. n \in 0 .. MaxCells - 1 /\ cells' = [cells EXCEPT ![n] = v] /\ grid_we' = TRUE
        /\ grid_waddr' = n /\ grid_wdata' = v
    BY <1>4 DEF WriteCell, Grid!load_cell, Grid!Addresses
  <2>2. grid_we /\ grid_waddr = n /\ grid_wdata = v /\ grid_value = Grid!Shown
    BY <1>2, <1>4, <2>1 DEF GridFresh
  <2>3. CASE vis_addr = n
    BY <2>1, <2>2, <2>3 DEF Grid!Shown
  <2>4. CASE vis_addr # n
    BY <1>1, <2>1, <2>2, <2>4 DEF Grid!Shown, Grid!Addresses
  <2>5. QED BY <2>3, <2>4
<1>5. QED BY <1>3, <1>4 DEF GridFresh

(* An edge refreshes the grid's preview for the address then marked.       *)
LEMMA GridTick ==
  ASSUME TypeOK, GridFresh, Grid!Commit, Grid!Preview, UNCHANGED port
  PROVE  GridFresh' /\ grid_seen' = Grid!inputs'
<1>1. grid_seen' = Grid!inputs' /\ grid_seen'[4] = vis_addr'
  BY DEF Grid!Preview, Grid!inputs
<1>2. UNCHANGED <<grid_we, grid_waddr, grid_wdata>>
  BY DEF port
<1>3. ASSUME Grid!inputs' = grid_seen PROVE grid_value = Grid!Shown'
  <2>1. vis_addr' = vis_addr /\ grid_seen = Grid!inputs
    BY <1>2, <1>3 DEF GridFresh, Grid!inputs
  <2>2. grid_value = Grid!Shown
    BY <2>1 DEF GridFresh
  <2>3. QED BY <1>2, <2>1, <2>2 DEF Grid!Shown, Grid!Commit, Grid!Addresses, TypeOK
<1>4. QED BY <1>1, <1>3 DEF GridFresh, Grid!Preview

(* Settling the port refreshes the preview for what is on the port.        *)
LEMMA GridSettle == ASSUME GridFresh, Settle PROVE GridFresh' /\ grid_seen' = Grid!inputs'
<1>1. UNCHANGED <<grid_we, grid_waddr, grid_wdata, vis_addr>>
  BY DEF Settle, port, Inner, controller
<1>2. Grid!inputs' # grid_seen
  BY <1>1 DEF Settle, Grid!inputs
<1>3. grid_value' = Grid!Shown' /\ grid_seen' = Grid!inputs'
  BY <1>2 DEF Settle, Grid!Preview
<1>4. QED BY <1>3 DEF GridFresh, Grid!inputs

-----------------------------------------------------------------------------
(* Coordinates and addresses.                                              *)
LEMMA SplitAddress ==
  ASSUME NEW c \in Nat \ {0}, NEW a \in Nat
  PROVE  /\ a % c \in 0 .. c - 1 /\ a \div c \in Nat
         /\ a = (a \div c) * c + (a % c)
<1>0. a % c \in 0 .. c - 1
  OBVIOUS
<1>1. a \div c \in Int
  OBVIOUS
<1>2. a = c * (a \div c) + (a % c)
  OBVIOUS
<1>3. ASSUME NEW q \in Int, c * q + c - 1 >= 0 PROVE q >= 0
  <2>1. SUFFICES ASSUME q < 0 PROVE FALSE
    BY <1>3
  <2>2. PICK k \in Nat : q = -1 - k
    <3>1. -1 - q \in Nat /\ q = -1 - (-1 - q)
      BY <1>3, <2>1
    <3>2. QED BY <3>1
  <2>3. c * q = -c - c * k
    BY <2>2
  <2>4. c * k >= 0
    OBVIOUS
  <2>5. QED BY <1>3, <2>3, <2>4
<1>4. \A q \in Int : c * q = q * c
  OBVIOUS
<1>5. c * (a \div c) + c - 1 >= 0
  BY <1>1, <1>2
<1>6. a \div c >= 0
  BY <1>1, <1>3, <1>5
<1>7. QED BY <1>0, <1>1, <1>2, <1>4, <1>6

(* Row-major order is strict in the row. *)
LEMMA RowOrder ==
  ASSUME NEW c \in Nat \ {0}, NEW x \in 0 .. c - 1, NEW y \in Nat, NEW v \in Nat
  PROVE  y < v <=> y * c + x < v * c
<1>1. ASSUME y < v PROVE y * c + x < v * c
  <2>1. PICK k \in Nat : v = y + 1 + k
    <3>1. v - y - 1 \in Nat /\ v = y + 1 + (v - y - 1)
      BY <1>1
    <3>2. QED BY <3>1
  <2>2. v * c = y * c + c + k * c
    BY <2>1
  <2>3. k * c >= 0
    OBVIOUS
  <2>4. QED BY <2>2, <2>3
<1>2. ASSUME ~(y < v) PROVE ~(y * c + x < v * c)
  <2>1. PICK k \in Nat : y = v + k
    <3>1. y - v \in Nat /\ y = v + (y - v)
      BY <1>2
    <3>2. QED BY <3>1
  <2>2. y * c = v * c + k * c
    BY <2>1
  <2>3. k * c >= 0
    OBVIOUS
  <2>4. QED BY <2>2, <2>3
<1>3. QED BY <1>1, <1>2

(* The address row * c + column has that row and that column.              *)
LEMMA JoinAddress ==
  ASSUME NEW c \in Nat \ {0}, NEW x \in 0 .. c - 1, NEW y \in Nat
  PROVE  (y * c + x) % c = x /\ (y * c + x) \div c = y
<1> DEFINE a == y * c + x
           u == a % c
           v == a \div c
<1>1. a \in Nat
  OBVIOUS
<1>2. u \in 0 .. c - 1 /\ v \in Nat /\ a = v * c + u
  BY <1>1, SplitAddress
<1> HIDE DEF u, v
<1>3. ~(y < v) /\ ~(v < y)
  <2>1. y < v <=> y * c + x < v * c
    BY <1>2, RowOrder
  <2>2. v < y <=> v * c + u < y * c
    BY <1>2, RowOrder
  <2>3. QED BY <1>2, <2>1, <2>2
<1>4. y = v
  BY <1>2, <1>3
<1>5. QED BY <1>2, <1>4 DEF u, v

(* Cells of the grid, as coordinates and as addresses. *)
Fits == rows \in Nat /\ cols \in Nat /\ rows * cols <= MaxCells

(* The address of a cell of the grid is in memory, and leads back to it.   *)
LEMMA AddressOf ==
  ASSUME Fits, NEW c \in Coord, Ngen!OnGrid(c)
  PROVE  Index(c) \in Area /\ Index(c) \in 0 .. MaxCells - 1 /\ At(Index(c)) = c
<1>1. PICK x \in Nat, y \in Nat : c = <<x, y>>
  BY DEF Coord
<1>2. x \in 0 .. cols - 1 /\ y < rows /\ cols \in Nat \ {0} /\ Index(c) = y * cols + x
  BY <1>1 DEF Ngen!OnGrid, Fits, Index, Ctl!cell_index
<1>3. Index(c) < rows * cols
  BY <1>2, RowOrder DEF Fits
<1>4. Index(c) \in Nat /\ rows * cols \in Nat
  BY <1>2 DEF Fits
<1>5. At(Index(c)) = <<x, y>>
  BY <1>2, JoinAddress DEF At
<1>6. Index(c) \in Area
  BY <1>3, <1>4 DEF Area, Fits
<1>7. Index(c) \in 0 .. MaxCells - 1
  BY <1>3, <1>4, MaxCellsAssumption DEF Fits
<1>8. QED BY <1>1, <1>5, <1>6, <1>7

(* The coordinates of an address of the grid are on the grid, and lead back.*)
LEMMA CoordOf ==
  ASSUME Fits, NEW a \in Area
  PROVE  /\ At(a) \in Coord /\ Ngen!OnGrid(At(a)) /\ Index(At(a)) = a
         /\ a \in 0 .. MaxCells - 1
<1>1. a \in 0 .. rows * cols - 1 /\ rows * cols \in Nat
  BY DEF Area, Fits
<1>2. cols # 0
  BY <1>1 DEF Fits
<1>3. a % cols \in 0 .. cols - 1 /\ a \div cols \in Nat /\ a = (a \div cols) * cols + (a % cols)
  <2>1. cols \in Nat \ {0} /\ a \in Nat
    BY <1>1, <1>2 DEF Fits
  <2>2. QED BY <2>1, SplitAddress
<1>4. a \div cols < rows
  BY <1>1, <1>2, <1>3, RowOrder DEF Fits
<1>5. At(a) = <<a % cols, a \div cols>>
  BY DEF At
<1>6. At(a) \in Coord
  BY <1>3, <1>5 DEF Coord
<1>7. Ngen!OnGrid(At(a))
  BY <1>3, <1>4, <1>5 DEF Ngen!OnGrid, Fits
<1>8. Index(At(a)) = a
  <2>1. Index(At(a)) = (a \div cols) * cols + (a % cols)
    BY <1>5 DEF Index, Ctl!cell_index
  <2>2. QED BY <1>3, <2>1
<1>9. a \in 0 .. MaxCells - 1
  BY <1>1, MaxCellsAssumption DEF Fits
<1>10. QED BY <1>6, <1>7, <1>8, <1>9

Opposite == <<1, 0, 3, 2, 7, 6, 5, 4>>

(* The table of directions holds, with each, the way back; so does its     *)
(* first half.                                                             *)
LEMMA WayBack ==
  ASSUME NEW c \in Coord, NEW d \in 0 .. 7
  PROVE  /\ Opposite[d + 1] \in 0 .. 7 /\ (d < 4 => Opposite[d + 1] < 4)
         /\ Ngen!Step(Ngen!Step(c, d), Opposite[d + 1]) = c
<1>1. PICK x \in Nat, y \in Nat : c = <<x, y>>
  BY DEF Coord
<1>2. d \in {0, 1, 2, 3, 4, 5, 6, 7}
  OBVIOUS
<1>3. QED BY <1>1, <1>2 DEF Ngen!Step, Ngen!Offset, Opposite

(* The generator's number of directions is four or eight, whatever params. *)
LEMMA DegreeIs == Degree \in {4, 8} BY DEF Degree

(* The wires show a grid of the abstract flood fill: neighbours are symmetric.*)
LEMMA GridOk == TypeOK => Abs!IsGrid
<1>1. SUFFICES ASSUME TypeOK PROVE Abs!IsGrid
  OBVIOUS
<1>2. rows \in Nat /\ cols \in Nat
  BY <1>1, TypeParts DEF ConfigTypes
<1>3. ASSUME NEW a \in Area
      PROVE  /\ Near[a] \subseteq Area
             /\ \A b \in Near[a] : a \in Near[b]
  <2>1. Fits
    BY <1>2 DEF Area, Fits
  <2>2. At(a) \in Coord /\ Ngen!OnGrid(At(a)) /\ Index(At(a)) = a
    BY <2>1, CoordOf
  <2>3. ASSUME NEW b \in Near[a]
        PROVE  b \in Area /\ a \in Near[b]
    <3>1. PICK d \in Ngen!Dirs(At(a), 0, Degree) : b = Index(Ngen!Step(At(a), d))
      BY DEF Near
    <3>2. d \in 0 .. Degree - 1 /\ Ngen!OnGrid(Ngen!Step(At(a), d))
      BY DEF Ngen!Dirs
    <3>3. d \in 0 .. 7 /\ (d < 4 \/ Degree = 8)
      BY <3>2, DegreeIs
    <3>4. Ngen!Step(At(a), d) \in Coord
      BY <2>2, <3>2, <3>3, StepOnGrid
    <3>5. b \in Area /\ At(b) = Ngen!Step(At(a), d)
      BY <2>1, <3>1, <3>2, <3>4, AddressOf
    <3> DEFINE e == Opposite[d + 1]
    <3>6. e \in 0 .. Degree - 1 /\ Ngen!Step(At(b), e) = At(a)
      BY <2>2, <3>3, <3>5, WayBack, DegreeIs
    <3>7. e \in Ngen!Dirs(At(b), 0, Degree)
      BY <2>2, <3>6 DEF Ngen!Dirs
    <3>8. a = Index(Ngen!Step(At(b), e))
      BY <2>2, <3>6
    <3>9. Near[b] = {Index(Ngen!Step(At(b), k)) : k \in Ngen!Dirs(At(b), 0, Degree)}
      BY <3>5 DEF Near
    <3>10. QED BY <3>5, <3>7, <3>8, <3>9
  <2>4. QED BY <2>3
<1>4. Area \subseteq 0 .. MaxCells - 1
  <2>1. rows * cols \in Nat
    BY <1>2
  <2>2. QED BY <2>1, MaxCellsAssumption DEF Area
<1>5. Land \subseteq Area
  BY DEF Land
<1>6. Near \in [Area -> SUBSET Area]
  <2>1. Near = [a \in Area |-> Near[a]]
    BY DEF Near
  <2>2. QED BY <1>3, <2>1
<1>7. Abs!Symmetric
  BY <1>3 DEF Abs!Symmetric
<1>8. QED BY <1>4, <1>5, <1>6, <1>7 DEF Abs!IsGrid

-----------------------------------------------------------------------------
(* The stack over an edge: what the preview counts is what is committed,   *)
(* and the new request works on that.                                      *)
EffSpCases ==
  /\ Stk!EffSp \in 0 .. StackDepth
  /\ Stk!Held => Stk!EffSp = 0
  /\ ~Stk!Held /\ Stk!DoPush => Stk!EffSp = sp + 1
  /\ ~Stk!Held /\ ~Stk!DoPush /\ Stk!DoPop => Stk!EffSp = sp - 1
  /\ ~Stk!Held /\ ~Stk!DoPush /\ ~Stk!DoPop => Stk!EffSp = sp

(* The depth that the preview counts, by request on the wires.             *)
LEMMA EffSpIs == Registered => EffSpCases
<1> SUFFICES ASSUME Registered PROVE EffSpCases
  OBVIOUS
<1> USE DEF Registered, EffSpCases
<1>1. CASE Stk!Held
  <2>1. Stk!EffSp = 0 BY <1>1 DEF Stk!EffSp
  <2>2. QED BY <1>1, <2>1
<1>2. CASE ~Stk!Held /\ Stk!DoPush
  <2>1. Stk!EffSp = sp + 1 BY <1>2 DEF Stk!EffSp, Stk!DoPush, Stk!DoPop
  <2>2. sp < StackDepth BY <1>2 DEF Stk!DoPush
  <2>3. QED BY <1>2, <2>1, <2>2
<1>3. CASE ~Stk!Held /\ ~Stk!DoPush /\ Stk!DoPop
  <2>1. Stk!EffSp = sp - 1 BY <1>3 DEF Stk!EffSp, Stk!DoPop
  <2>2. sp > 0 BY <1>3 DEF Stk!DoPop
  <2>3. QED BY <1>3, <2>1, <2>2
<1>4. CASE ~Stk!Held /\ ~Stk!DoPush /\ ~Stk!DoPop
  <2>1. Stk!EffSp = sp BY <1>4 DEF Stk!EffSp
  <2>2. QED BY <1>4, <2>1
<1>5. QED BY <1>1, <1>2, <1>3, <1>4

(* At an edge the storage takes up what the preview counted.               *)
LEMMA ItemsCommitted ==
  ASSUME Registered, Registered', Stk!Commit
  PROVE  /\ sp' = Stk!EffSp
         /\ \A i \in 1 .. Stk!EffSp : storage'[i - 1] = Stk!EffItems[i]
<1>1. sp' = Stk!EffSp /\ Stk!EffSp \in 0 .. StackDepth
  BY StackCommit, EffSpIs DEF Registered, EffSpCases
<1>2. ASSUME NEW i \in 1 .. Stk!EffSp
      PROVE  storage'[i - 1] = Stk!EffItems[i]
  <2>0. i \in Nat /\ i >= 1 /\ i <= Stk!EffSp /\ i - 1 \in 0 .. StackDepth - 1
    BY <1>1, StackDepthAssumption
  <2>1. Stk!EffItems[i] = IF Stk!DoPush /\ i = Stk!EffSp THEN stk_in ELSE storage[i - 1]
    BY DEF Stk!EffItems
  <2>2. ~Stk!Held
    BY <2>0, EffSpIs DEF EffSpCases
  <2>3. CASE Stk!DoPush
    <3>1. Stk!EffSp = sp + 1 /\ storage' = [storage EXCEPT ![sp] = stk_in]
      BY <2>2, <2>3, EffSpIs
      DEF EffSpCases, Stk!DoPush, Stk!Commit, Stk!CommitClear, Stk!CommitPush, Stk!CommitPop, Stk!Room
    <3>2. CASE i = Stk!EffSp
      <4>1. i - 1 = sp /\ sp \in 0 .. StackDepth - 1
        BY <2>0, <3>1, <3>2 DEF Registered
      <4>2. storage'[sp] = stk_in
        BY <3>1, <4>1 DEF Registered
      <4>3. QED BY <2>1, <2>3, <3>2, <4>1, <4>2
    <3>3. CASE i # Stk!EffSp
      <4>1. i - 1 # sp
        BY <2>0, <3>1, <3>3 DEF Registered
      <4>2. storage'[i - 1] = storage[i - 1]
        BY <2>0, <3>1, <4>1 DEF Registered
      <4>3. QED BY <2>1, <3>3, <4>2
    <3>4. QED BY <3>2, <3>3
  <2>4. CASE ~Stk!DoPush
    <3>1. storage' = storage
      BY <2>2, <2>4 DEF Stk!DoPush, Stk!Commit, Stk!CommitClear, Stk!CommitPush, Stk!CommitPop,
                        Stk!Room, Stk!registers
    <3>2. QED BY <2>1, <2>4, <3>1
  <2>5. QED BY <2>3, <2>4
<1>3. QED BY <1>1, <1>2

(* The stack the FSM has, by its next request. *)
LEMMA ItemsTick ==
  ASSUME Registered, Registered', Stk!Commit, ~Stk!Held'
  PROVE  /\ ~stk_push' /\ ~stk_pop' =>
              /\ Stk!EffSp' = Stk!EffSp
              /\ \A i \in 1 .. Stk!EffSp : Stk!EffItems'[i] = Stk!EffItems[i]
         /\ stk_push' /\ Stk!EffSp < StackDepth =>
              /\ Stk!EffSp' = Stk!EffSp + 1
              /\ Stk!EffItems'[Stk!EffSp + 1] = stk_in'
              /\ \A i \in 1 .. Stk!EffSp : Stk!EffItems'[i] = Stk!EffItems[i]
         /\ ~stk_push' /\ stk_pop' /\ Stk!EffSp > 0 =>
              /\ Stk!EffSp' = Stk!EffSp - 1
              /\ \A i \in 1 .. Stk!EffSp - 1 : Stk!EffItems'[i] = Stk!EffItems[i]
<1> DEFINE n == Stk!EffSp
           q == Stk!EffSp'
<1>1. sp' = n /\ n \in 0 .. StackDepth /\ \A i \in 1 .. n : storage'[i - 1] = Stk!EffItems[i]
  BY ItemsCommitted, EffSpIs DEF EffSpCases
<1>2. EffSpCases'
  <2>1. (Registered => EffSpCases)'
    BY EffSpIs, PTL
  <2>2. QED BY <2>1
<1>3. \A i \in 1 .. q : Stk!EffItems'[i] =
        IF Stk!DoPush' /\ i = q THEN stk_in' ELSE storage'[i - 1]
  BY DEF Stk!EffItems
<1>4. Stk!DoPush' <=> stk_push' /\ n < StackDepth
  BY <1>1 DEF Stk!DoPush
<1>5. Stk!DoPop' <=> ~stk_push' /\ stk_pop' /\ n > 0
  BY <1>1 DEF Stk!DoPop
<1> HIDE DEF n, q
<1>6. CASE ~stk_push' /\ ~stk_pop'
  <2>1. q = n
    BY <1>1, <1>2, <1>4, <1>5, <1>6 DEF q, EffSpCases
  <2>2. QED BY <1>1, <1>3, <1>4, <1>6, <2>1 DEF n, q
<1>7. CASE stk_push' /\ n < StackDepth
  <2>1. q = n + 1
    BY <1>1, <1>2, <1>4, <1>7 DEF q, EffSpCases
  <2>2. n + 1 \in 1 .. q /\ \A i \in 1 .. n : i \in 1 .. q /\ i # q
    BY <1>1, <2>1
  <2>3. QED BY <1>1, <1>3, <1>4, <1>7, <2>1, <2>2 DEF n, q
<1>8. CASE ~stk_push' /\ stk_pop' /\ n > 0
  <2>1. q = n - 1
    BY <1>1, <1>2, <1>4, <1>5, <1>8 DEF q, EffSpCases
  <2>2. \A i \in 1 .. n - 1 : i \in 1 .. n
    BY <1>1
  <2>3. QED BY <1>1, <1>3, <1>4, <1>8, <2>1, <2>2 DEF n, q
<1>9. QED BY <1>6, <1>7, <1>8 DEF n
=============================================================================

------------------------ MODULE PrimitivePath_proofs ------------------------
(***************************************************************************)
(* Proofs that no sequence of calls tells the accelerator over TLM from    *)
(* the software one, for every set of grids that fit the memory.           *)
(***************************************************************************)
EXTENDS PrimitivePath, TLAPS

Addresses == 0 .. MaxCells - 1

(* The host's objects. *)
HostTypes ==
  /\ grid \in Grids
  /\ pc = "ready" => marks \in [Area(grid) -> BOOLEAN]
  /\ visited \in [Addresses -> BOOLEAN]

(* Once loaded, the bridge has the grid and connectivity of its caller. *)
BridgeAgrees == pc = "ready" => bridge_grid = grid /\ bridge_conn = conn

IInv == HostTypes /\ BridgeAgrees /\ MemoriesMirror /\ AnswersAgree

-----------------------------------------------------------------------------
(* The row-major index of a coordinate of a grid is one of its cells.      *)
LEMMA IndexInArea ==
  ASSUME NEW g \in Grids, NEW c \in Coords(g)
  PROVE  index(g, c) \in Area(g)
<1>1. g.rows \in Nat /\ g.cols \in Nat
  BY GridsAssumption
<1>2. c[1] \in 0 .. g.rows - 1 /\ c[2] \in 0 .. g.cols - 1
  BY DEF Coords
<1> DEFINE R == g.rows
           C == g.cols
           r == c[1]
           k == c[2]
<1>3. R \in Nat /\ C \in Nat /\ r \in Nat /\ k \in Nat /\ r + 1 <= R /\ k < C
  BY <1>1, <1>2
<1> HIDE DEF R, C, r, k
<1>4. (r + 1) * C <= R * C
  BY <1>3
<1>5. r * C + k < R * C /\ r * C + k \in Nat
  BY <1>3, <1>4
<1>6. QED
  BY <1>3, <1>5 DEF index, Area, R, C, r, k

(* Its cells are addresses of the memories. *)
LEMMA AreaInMemory ==
  ASSUME NEW g \in Grids
  PROVE  Area(g) \subseteq Addresses
<1>1. g.rows \in Nat /\ g.cols \in Nat /\ g.rows * g.cols <= MaxCells
  BY GridsAssumption
<1>2. g.rows * g.cols \in Nat
  BY <1>1
<1>3. QED
  BY <1>1, <1>2, MaxCellsAssumption DEF Area, Addresses

-----------------------------------------------------------------------------
(* The invariant holds at first. *)
LEMMA InitIInv == Init => IInv
<1> SUFFICES ASSUME Init PROVE IInv
  OBVIOUS
<1>1. HostTypes /\ BridgeAgrees /\ MemoriesMirror
  BY DEF Init, HostTypes, BridgeAgrees, MemoriesMirror, Addresses
<1>2. AnswersAgree
  BY DEF Init, Nothing, AnswersAgree
<1>3. QED
  BY <1>1, <1>2 DEF IInv

(* In a loaded state both sides read the same bit for a cell of the grid.  *)
LEMMA SameBit ==
  ASSUME IInv, pc = "ready", NEW c \in Coords(grid)
  PROVE  /\ index(grid, c) \in Area(grid) /\ index(grid, c) \in Addresses
         /\ index(bridge_grid, c) = index(grid, c)
         /\ Vis!peek(index(bridge_grid, c)) = marks[index(grid, c)]
<1>1. grid \in Grids /\ bridge_grid = grid
  BY DEF IInv, HostTypes, BridgeAgrees
<1>2. index(grid, c) \in Area(grid) /\ index(grid, c) \in Addresses
  BY <1>1, IndexInArea, AreaInMemory
<1>3. visited[index(grid, c)] = marks[index(grid, c)]
  BY <1>2 DEF IInv, MemoriesMirror
<1>4. visited[index(grid, c)] \in BOOLEAN
  BY <1>2 DEF IInv, HostTypes
<1>5. Vis!peek(index(bridge_grid, c)) = visited[index(grid, c)]
  BY Zenon, <1>1, <1>2, <1>4 DEF Vis!peek, Vis!Addresses, Addresses
<1>6. QED
  BY <1>1, <1>2, <1>3, <1>5

(* Writing one bit on both sides keeps them equal.                         *)
LEMMA WriteBoth ==
  ASSUME IInv, pc = "ready", NEW c \in Coords(grid), NEW v \in BOOLEAN,
         marks' = [marks EXCEPT ![index(grid, c)] = v],
         Vis!poke(index(bridge_grid, c), v),
         UNCHANGED <<host, loaded>>
  PROVE  HostTypes' /\ BridgeAgrees' /\ MemoriesMirror'
<1> DEFINE i == index(grid, c)
<1>1. i \in Area(grid) /\ i \in Addresses /\ index(bridge_grid, c) = i
  BY SameBit
<1>2. UNCHANGED <<pc, grid, conn, bridge_grid, bridge_conn, cells>>
  BY DEF host, loaded
<1>3. marks \in [Area(grid) -> BOOLEAN] /\ visited \in [Addresses -> BOOLEAN]
  BY DEF IInv, HostTypes
<1>4. visited' = [visited EXCEPT ![i] = v] /\ marks' = [marks EXCEPT ![i] = v]
  BY <1>1 DEF Vis!poke, Vis!Addresses, Addresses
<1> HIDE DEF i
<1>5. HostTypes'
  BY <1>1, <1>2, <1>3, <1>4 DEF HostTypes, IInv
<1>6. BridgeAgrees'
  BY <1>2 DEF BridgeAgrees, IInv
<1>7. ASSUME NEW a \in Area(grid) PROVE visited'[a] = marks'[a] /\ cells'[a] = grid.cells[a]
  <2>1. a \in Addresses
    BY AreaInMemory DEF IInv, HostTypes
  <2>2. visited[a] = marks[a] /\ cells[a] = grid.cells[a]
    BY DEF IInv, MemoriesMirror
  <2>3. QED
    BY <1>2, <1>3, <1>4, <2>1, <2>2
<1>8. ASSUME NEW a \in Addresses, visited'[a] PROVE a \in Area(grid)
  <2>1. CASE a = i
    BY <1>1, <2>1
  <2>2. CASE a # i
    <3>1. visited[a]
      BY <1>3, <1>4, <1>8, <2>2
    <3>2. QED
      BY <3>1 DEF IInv, MemoriesMirror, Addresses
  <2>3. QED
    BY <2>1, <2>2
<1>9. MemoriesMirror'
  BY <1>2, <1>7, <1>8 DEF MemoriesMirror, Addresses
<1>10. QED
  BY <1>5, <1>6, <1>9

(* Every call keeps it. *)
LEMMA StepIInv == IInv /\ [Next]_vars => IInv'
<1> SUFFICES ASSUME IInv, [Next]_vars PROVE IInv'
  OBVIOUS
<1>1. ASSUME NEW c \in {4, 8}, set_connectivity(c) PROVE IInv'
  <2>1. pc' # "ready" /\ UNCHANGED <<grid, visited, answer>>
    BY <1>1 DEF set_connectivity
  <2>2. HostTypes' /\ BridgeAgrees' /\ MemoriesMirror' /\ AnswersAgree'
    BY <2>1 DEF IInv, HostTypes, BridgeAgrees, MemoriesMirror, AnswersAgree
  <2>3. QED
    BY <2>2 DEF IInv
<1>2. ASSUME NEW g \in Grids, load_grid(g) PROVE IInv'
  <2>1. /\ grid' = g /\ marks' = [a \in Area(g) |-> FALSE]
        /\ bridge_grid' = g /\ bridge_conn' = conn /\ UNCHANGED <<conn, answer>>
        /\ cells' = [a \in Addresses |-> IF a \in Area(g) THEN g.cells[a] ELSE cells[a]]
        /\ visited' = [a \in Addresses |-> FALSE]
    BY <1>2 DEF load_grid, Vis!clear_all, Vis!Addresses, Addresses
  <2>2. Area(g) \subseteq Addresses
    BY AreaInMemory
  <2>3. HostTypes' /\ BridgeAgrees'
    BY <2>1 DEF HostTypes, BridgeAgrees
  <2>4. MemoriesMirror'
    BY <2>1, <2>2 DEF MemoriesMirror, Addresses
  <2>5. AnswersAgree'
    BY <2>1 DEF IInv, AnswersAgree
  <2>6. QED
    BY <2>3, <2>4, <2>5 DEF IInv
<1>3. CASE reset_visited
  <2>1. /\ pc = "ready" /\ UNCHANGED <<pc, grid, conn, bridge_grid, bridge_conn, cells, answer>>
        /\ marks' = [a \in DOMAIN marks |-> FALSE]
        /\ visited' = [a \in Addresses |-> FALSE]
    BY <1>3 DEF reset_visited, host, loaded, Vis!clear_all, Vis!Addresses, Addresses
  <2>2. marks' = [a \in Area(grid) |-> FALSE] /\ Area(grid) \subseteq Addresses
    BY <2>1, AreaInMemory DEF IInv, HostTypes
  <2>3. HostTypes' /\ BridgeAgrees' /\ AnswersAgree'
    BY <2>1, <2>2 DEF IInv, HostTypes, BridgeAgrees, AnswersAgree
  <2>4. MemoriesMirror'
    BY <2>1, <2>2 DEF IInv, MemoriesMirror, Addresses
  <2>5. QED
    BY <2>3, <2>4 DEF IInv
<1>4. ASSUME NEW c \in Coords(grid), is_visited(c) PROVE IInv'
  <2>1. AnswersAgree'
    BY <1>4, SameBit DEF is_visited, AnswersAgree
  <2>2. UNCHANGED <<pc, grid, conn, marks, bridge_grid, bridge_conn, cells, visited>>
    BY <1>4 DEF is_visited, host, loaded
  <2>3. HostTypes' /\ BridgeAgrees' /\ MemoriesMirror'
    BY <2>2 DEF IInv, HostTypes, BridgeAgrees, MemoriesMirror
  <2>4. QED
    BY <2>1, <2>3 DEF IInv
<1>5. ASSUME NEW c \in Coords(grid), mark_visited(c) PROVE IInv'
  <2>1. AnswersAgree'
    BY <1>5, SameBit DEF mark_visited, AnswersAgree
  <2>2. HostTypes' /\ BridgeAgrees' /\ MemoriesMirror'
    BY <1>5, WriteBoth DEF mark_visited
  <2>3. QED
    BY <2>1, <2>2 DEF IInv
<1>6. ASSUME NEW c \in Coords(grid), unmark_visited(c) PROVE IInv'
  <2>1. AnswersAgree'
    BY <1>6 DEF unmark_visited, IInv, AnswersAgree
  <2>2. HostTypes' /\ BridgeAgrees' /\ MemoriesMirror'
    BY <1>6, WriteBoth DEF unmark_visited
  <2>3. QED
    BY <2>1, <2>2 DEF IInv
<1>7. ASSUME NEW c \in Coords(grid), neighbors(c) PROVE IInv'
  <2>1. bridge_grid = grid /\ bridge_conn = conn
    BY <1>7 DEF neighbors, IInv, BridgeAgrees
  <2>2. SoftwareDelta = BridgeDelta
    BY DEF SoftwareDelta, BridgeDelta
  <2>3. AnswersAgree'
    BY <1>7, <2>1, <2>2 DEF neighbors, AnswersAgree
  <2>4. UNCHANGED <<pc, grid, conn, marks, bridge_grid, bridge_conn, cells, visited>>
    BY <1>7 DEF neighbors, host, loaded
  <2>5. HostTypes' /\ BridgeAgrees' /\ MemoriesMirror'
    BY <2>4 DEF IInv, HostTypes, BridgeAgrees, MemoriesMirror
  <2>6. QED
    BY <2>3, <2>5 DEF IInv
<1>8. CASE NextCase
  <2>1. pc' # "ready" /\ answer' = Nothing /\ UNCHANGED <<grid, visited>>
    BY <1>8 DEF NextCase
  <2>2. HostTypes' /\ BridgeAgrees' /\ MemoriesMirror' /\ AnswersAgree'
    BY <2>1 DEF IInv, HostTypes, BridgeAgrees, MemoriesMirror, AnswersAgree, Nothing
  <2>3. QED
    BY <2>2 DEF IInv
<1>9. CASE UNCHANGED vars
  <2>1. UNCHANGED <<pc, grid, conn, marks, bridge_grid, bridge_conn, cells, visited, answer>>
    BY <1>9 DEF vars
  <2>2. QED
    BY <2>1 DEF IInv, HostTypes, BridgeAgrees, MemoriesMirror, AnswersAgree
<1>10. QED
  BY <1>1, <1>2, <1>3, <1>4, <1>5, <1>6, <1>7, <1>8, <1>9 DEF Next

(* In every state of every sequence of primitive calls both sides hold the same grid and marks. *)
THEOREM Invariance == Spec => []IInv
  BY InitIInv, StepIInv, PTL DEF Spec

-----------------------------------------------------------------------------
(* The two accelerators never answer differently: with the same algorithm  *)
(* and case, baseline and accelerator runs return the same result.         *)
THEOREM CrossCheckHolds == Spec => []AnswersAgree
<1>1. IInv => AnswersAgree
  BY DEF IInv
<1>2. QED
  BY <1>1, Invariance, PTL

(* The memories behind the bridge hold the caller's grid and marks.        *)
THEOREM MemoriesFollow == Spec => []MemoriesMirror
<1>1. IInv => MemoriesMirror
  BY DEF IInv
<1>2. QED
  BY <1>1, Invariance, PTL
=============================================================================

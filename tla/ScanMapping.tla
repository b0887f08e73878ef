----------------------------- MODULE ScanMapping ----------------------------
(***************************************************************************)
(* How a state of the accelerator reads as a state of IslandScan.  A cell  *)
(* that is pending may be in any of six places: on the stack, on the wires *)
(* of a push that is not committed, in cur_node between Pop and Visit, in  *)
(* the directions the generator has still to try, on its output wires, or  *)
(* in nbr_latch.                                                           *)
(***************************************************************************)
EXTENDS DfsAccelerator

At(a) == <<a % cols, a \div cols>>
Index(c) == Ctl!cell_index(c)

(* Empty while the registers hold the rows of one grid and the columns of  *)
(* another that do not fit together.                                       *)
Area == IF rows * cols <= MaxCells THEN 0 .. rows * cols - 1 ELSE {}
Land == {a \in Area \cap DOMAIN cells : cells[a] # 0}
Degree == IF params = 8 THEN 8 ELSE 4
Near == [a \in Area |-> {Index(Ngen!Step(At(a), d)) : d \in Ngen!Dirs(At(a), 0, Degree)}]

Phase == CASE state = "Idle" -> "idle"
           [] state = "Done" -> "finished"
           [] OTHER          -> "running"

Todo == CASE state = "LoadStart"     -> Area
          [] state \in {"Idle", "Done"} -> {}
          [] OTHER -> {a \in Area : a >= Index(scan)}

OnStack == {Stk!EffItems[i] : i \in 1 .. Stk!EffSp}

(* Directions the generator will still try for the present node. *)
Untried == IF active \/ ngen_valid_in
           THEN {Ngen!Step(Ngen!Base, d) : d \in Ngen!Dirs(Ngen!Base, Ngen!From, Ngen!Num)}
           ELSE {}

InFlight == CASE state = "Visit"        -> {cur_node}
              [] state = "PushNeighbor" -> {nbr_latch} \cup Untried
              [] state = "GenNeighbors" -> Untried \cup {n \in {ngen_nbr} : ngen_valid_out}
              [] OTHER                  -> {}

Frontier == {Index(c) : c \in OnStack \cup InFlight}

Marked == {a \in DOMAIN visited : visited[a]} \cup {a \in {vis_addr} : vis_we}

Abs == INSTANCE IslandScan WITH
         Cell <- 0 .. MaxCells - 1, area <- Area, land <- Land, near <- Near,
         phase <- Phase, todo <- Todo, frontier <- Frontier, marked <- Marked,
         islands <- island_count, lost <- overflow, root <- is_new_island_start
=============================================================================

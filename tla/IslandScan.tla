----------------------------- MODULE IslandScan -----------------------------
(***************************************************************************)
(* What a run of the accelerator promises, without clock, stack or wires:  *)
(* a work-list flood fill that takes its seeds from a scan of the grid.    *)
(* A cell enters the frontier as a seed, only while the frontier is empty, *)
(* or as the neighbour of a marked cell; it leaves it marked, skipped, or  *)
(* lost (a dropped push).  The order of the frontier is left open, and     *)
(* because a cell may have been pushed more than once, taking it out need  *)
(* not be the end of it.                                                   *)
(***************************************************************************)
EXTENDS Naturals, FiniteSets

CONSTANT Cell

VARIABLES
  area, land, near,   (* the grid: its cells, the passable ones, adjacency *)
  phase,              (* "idle", "running" or "finished"                   *)
  todo,               (* cells the scan has still to offer as seeds        *)
  frontier, marked,
  islands, lost,      (* the two results besides Cardinality(marked)       *)
  root                (* the next cell to be marked opens an island        *)

grid == <<area, land, near>>
run  == <<phase, todo, frontier, marked, islands, lost, root>>
vars == <<grid, run>>

Symmetric == \A c \in area : \A d \in near[c] : c \in near[d]

IsGrid ==
  /\ area \in SUBSET Cell /\ land \in SUBSET area
  /\ near \in [area -> SUBSET area]
  /\ Symmetric

Init ==
  /\ IsGrid
  /\ phase = "idle"
  /\ todo = {} /\ frontier = {} /\ marked = {}
  /\ islands = 0 /\ lost = FALSE /\ root = FALSE

(* Another grid may be loaded whenever no run is going on. *)
Configure ==
  /\ phase # "running"
  /\ area' \in SUBSET Cell /\ land' \in SUBSET area'
  /\ near' \in [area' -> SUBSET area']
  /\ Symmetric'
  /\ UNCHANGED run

KeepCount ==              \* mutant: a run goes on counting from the last one
  /\ phase # "running"
  /\ phase' = "running"
  /\ todo' = area /\ frontier' = {} /\ marked' = {} /\ lost' = FALSE
  /\ UNCHANGED <<grid, islands, root>>

Begin ==
  /\ phase # "running"
  /\ phase' = "running"
  /\ todo' = area /\ frontier' = {} /\ marked' = {}
  /\ islands' = 0 /\ lost' = FALSE
  /\ UNCHANGED <<grid, root>>

SeedEarly(c) ==           \* mutant: the scan does not wait for the frontier
  /\ phase = "running" /\ c \in todo
  /\ todo' = todo \ {c} /\ frontier' = frontier \cup {c} /\ root' = TRUE
  /\ UNCHANGED <<grid, phase, marked, islands, lost>>

SeedIsNoRoot(c) ==        \* mutant: a seed does not open an island
  /\ phase = "running" /\ frontier = {} /\ c \in todo
  /\ todo' = todo \ {c} /\ frontier' = {c}
  /\ UNCHANGED <<grid, phase, marked, islands, lost, root>>

Seed(c) ==
  /\ phase = "running" /\ frontier = {} /\ c \in todo
  /\ todo' = todo \ {c} /\ frontier' = {c} /\ root' = TRUE
  /\ UNCHANGED <<grid, phase, marked, islands, lost>>

Skip(c) ==
  /\ phase = "running" /\ c \in frontier
  /\ c \in marked \/ c \notin land
  /\ frontier' = frontier \ {c}
  /\ UNCHANGED <<grid, phase, todo, marked, islands, lost, root>>

Mark(c) ==
  /\ phase = "running" /\ c \in (frontier \cap land) \ marked
  /\ marked' = marked \cup {c}
  /\ \E left \in {frontier, frontier \ {c}} : frontier' = left \cup near[c]
  /\ islands' = IF root THEN islands + 1 ELSE islands
  /\ root' = FALSE
  /\ UNCHANGED <<grid, phase, todo, lost>>

LoseSeeds(c) ==           \* mutant: a seed can be dropped as well
  /\ phase = "running" /\ c \in frontier
  /\ frontier' \in {frontier, frontier \ {c}}
  /\ lost' = TRUE
  /\ UNCHANGED <<grid, phase, todo, marked, islands, root>>

Lose(c) ==
  /\ phase = "running" /\ ~root /\ c \in frontier
  /\ frontier' \in {frontier, frontier \ {c}}
  /\ lost' = TRUE
  /\ UNCHANGED <<grid, phase, todo, marked, islands, root>>

Finish ==
  /\ phase = "running" /\ frontier = {} /\ todo = {}
  /\ phase' = "finished"
  /\ UNCHANGED <<grid, todo, frontier, marked, islands, lost, root>>

Next ==
  \/ Configure \/ Begin \/ Finish
  \/ \E c \in Cell : Seed(c) \/ Skip(c) \/ Mark(c) \/ Lose(c)

Spec == Init /\ [][Next]_vars

-----------------------------------------------------------------------------
(* The values the variables take. *)
TypeOK ==
  /\ IsGrid
  /\ phase \in {"idle", "running", "finished"}
  /\ todo \subseteq Cell /\ frontier \subseteq Cell /\ marked \subseteq Cell
  /\ islands \in Nat /\ lost \in BOOLEAN /\ root \in BOOLEAN

(* A run ends with exactly the passable cells marked, pushes lost or not:  *)
(* what a full stack drops, the scan offers again.                         *)
FinishComplete == [][Finish => marked = land]_vars

(* A cell that opens an island touches none that was counted before,       *)
(* unless a push was lost.                                                 *)
NewIslandTouchesNone ==
  [][\A c \in Cell : Mark(c) /\ root /\ ~lost => near[c] \cap marked = {}]_vars

(* A cell that opens no island touches one that is counted already.        *)
OthersAttach ==
  [][\A c \in Cell : Mark(c) /\ ~root => \E m \in marked : c \in near[m]]_vars

(* The islands that have a cell in S: of each cell, the smallest set of    *)
(* passable cells around it that has no edge out.                          *)
Closed(S) == \A c \in S : near[c] \cap land \subseteq S
Region(c) == {d \in land : \A S \in SUBSET land : c \in S /\ Closed(S) => d \in S}
Regions(S) == {Region(c) : c \in S}

(* A run ends with the islands of the grid counted, each once; if a push   *)
(* was lost, an island may have been counted more often.                   *)
FinishExact ==
  [][Finish => /\ islands >= Cardinality(Regions(land))
               /\ ~lost => islands = Cardinality(Regions(land))]_vars
=============================================================================

-------------------------- MODULE IslandScan_proofs -------------------------
(***************************************************************************)
(* Proofs about IslandScan, for every set of cells and every graph on it.  *)
(***************************************************************************)
EXTENDS IslandScan, FiniteSetTheorems, TLAPS

(* While a run goes on, frontier and todo stay in the grid and only        *)
(* passable cells are marked.                                              *)
Bounds ==
  phase = "running" => /\ todo \subseteq area /\ frontier \subseteq area
                       /\ marked \subseteq land

(* A seed is alone in the frontier until it is marked or skipped.          *)
SeedAlone == phase = "running" /\ root => \A c, d \in frontier : c = d

(* Every passable cell is marked, or still to be offered, or is the seed   *)
(* that has just been offered.                                             *)
LandAccounted ==
  phase = "running" => \A c \in land : \/ c \in marked \/ c \in todo
                                       \/ root /\ c \in frontier

(* As long as nothing was lost, the passable neighbours of a marked cell   *)
(* are marked or waiting; none waits when a new seed has been placed.      *)
MarkedClosed ==
  phase = "running" /\ ~lost =>
    \A m \in marked : \A c \in near[m] \cap land :
      c \in marked \/ (~root /\ c \in frontier)

(* What waits was put there by a marked neighbour, except for the seed.    *)
FrontierAttached ==
  phase = "running" /\ ~root =>
    \A c \in frontier \ marked : \E m \in marked : c \in near[m]

(* islands counts the islands marked so far; each of them once, as long as *)
(* nothing was lost.                                                       *)
Tally ==
  phase = "running" => /\ IsFiniteSet(Regions(marked))
                       /\ islands >= Cardinality(Regions(marked))
                       /\ ~lost => islands = Cardinality(Regions(marked))

IInv == /\ TypeOK /\ Bounds /\ SeedAlone /\ LandAccounted /\ MarkedClosed /\ FrontierAttached
        /\ Tally

-----------------------------------------------------------------------------
(* TypeOK is kept by every step. *)
LEMMA TypeStep == ASSUME TypeOK, [Next]_vars PROVE TypeOK'
<1>1. CASE Configure
  BY <1>1 DEF TypeOK, Configure, IsGrid, Symmetric, run
<1>2. CASE Begin
  BY <1>2 DEF TypeOK, Begin, IsGrid, Symmetric, grid
<1>3. CASE Finish
  BY <1>3 DEF TypeOK, Finish, IsGrid, Symmetric, grid
<1>4. ASSUME NEW c \in Cell, Seed(c) PROVE TypeOK'
  BY <1>4 DEF TypeOK, Seed, IsGrid, Symmetric, grid
<1>5. ASSUME NEW c \in Cell, Skip(c) PROVE TypeOK'
  BY <1>5 DEF TypeOK, Skip, IsGrid, Symmetric, grid
<1>6. ASSUME NEW c \in Cell, Mark(c) PROVE TypeOK'
  <2>1. near[c] \subseteq Cell
    BY <1>6 DEF TypeOK, Mark, IsGrid
  <2>2. islands' \in Nat
    BY <1>6 DEF TypeOK, Mark
  <2>3. frontier' \subseteq Cell /\ marked' \subseteq Cell
    BY <1>6, <2>1 DEF TypeOK, Mark
  <2>4. UNCHANGED <<area, land, near, phase, todo, lost>> /\ root' \in BOOLEAN
    BY <1>6 DEF Mark, grid
  <2>5. QED BY <2>2, <2>3, <2>4 DEF TypeOK, IsGrid, Symmetric
<1>7. ASSUME NEW c \in Cell, Lose(c) PROVE TypeOK'
  BY <1>7 DEF TypeOK, Lose, IsGrid, Symmetric, grid
<1>8. CASE UNCHANGED vars
  BY <1>8 DEF TypeOK, vars, grid, run, IsGrid, Symmetric
<1>9. QED BY <1>1, <1>2, <1>3, <1>4, <1>5, <1>6, <1>7, <1>8 DEF Next

(* A region has its cell in it, and is that of any cell next to it. *)
LEMMA OwnRegion == ASSUME NEW c \in land PROVE c \in Region(c)
BY DEF Region

(* Neighbours are in the same region.                                      *)
LEMMA SharedRegion ==
  ASSUME IsGrid, NEW m \in land, NEW c \in land, c \in near[m]
  PROVE  Region(c) = Region(m)
<1>1. m \in near[c] /\ land \subseteq area
  BY DEF IsGrid, Symmetric
<1>2. ASSUME NEW S \in SUBSET land, Closed(S)
      PROVE  c \in S <=> m \in S
  BY <1>1, <1>2 DEF Closed
<1>3. QED BY <1>2 DEF Region

(* No region leaves a closed set. *)
LEMMA OtherRegion ==
  ASSUME NEW S \in SUBSET land, Closed(S), NEW c \in land \ S
  PROVE  Region(c) \notin Regions(S)
<1>1. SUFFICES ASSUME NEW m \in S, Region(c) = Region(m) PROVE FALSE
  BY DEF Regions
<1>2. c \in Region(m)
  BY <1>1, OwnRegion
<1>3. QED BY <1>1, <1>2 DEF Region

(* One more cell adds its region, if that is new.                          *)
LEMMA OneMoreRegion ==
  ASSUME NEW S, IsFiniteSet(Regions(S)), NEW c
  PROVE  /\ IsFiniteSet(Regions(S \cup {c})) /\ Cardinality(Regions(S)) \in Nat
         /\ Cardinality(Regions(S \cup {c})) =
              IF Region(c) \in Regions(S) THEN Cardinality(Regions(S))
              ELSE Cardinality(Regions(S)) + 1
<1>1. Regions(S \cup {c}) = Regions(S) \cup {Region(c)}
  BY DEF Regions
<1>2. /\ IsFiniteSet(Regions(S) \cup {Region(c)}) /\ Cardinality(Regions(S)) \in Nat
      /\ Cardinality(Regions(S) \cup {Region(c)}) =
           IF Region(c) \in Regions(S) THEN Cardinality(Regions(S))
           ELSE Cardinality(Regions(S)) + 1
  <2> DEFINE R == Regions(S)
  <2> HIDE DEF R
  <2>1. IsFiniteSet(R)
    BY DEF R
  <2>2. /\ IsFiniteSet(R \cup {Region(c)}) /\ Cardinality(R) \in Nat
        /\ Cardinality(R \cup {Region(c)}) =
             IF Region(c) \in R THEN Cardinality(R) ELSE Cardinality(R) + 1
    BY <2>1, FS_AddElement, FS_CardinalityType
  <2>3. QED BY <2>2 DEF R
<1>3. QED BY <1>1, <1>2

(* A marked cell opens an island exactly when it is a seed, unless its     *)
(* region was cut in two by a lost push.                                   *)
LEMMA TallyStep == ASSUME IInv, NEW c \in Cell, Mark(c) PROVE Tally'
<1> DEFINE n == Cardinality(Regions(marked))
<1>1. /\ phase = "running" /\ c \in frontier /\ c \in land /\ c \notin marked
      /\ marked' = marked \cup {c} /\ UNCHANGED <<area, land, near, lost>>
      /\ islands' = IF root THEN islands + 1 ELSE islands
  BY DEF Mark, grid
<1>2. /\ IsFiniteSet(Regions(marked)) /\ islands >= n /\ (~lost => islands = n) /\ islands \in Nat
      /\ marked \subseteq land
  BY <1>1 DEF IInv, Tally, TypeOK, Bounds
<1>3. /\ IsFiniteSet(Regions(marked')) /\ n \in Nat
      /\ Cardinality(Regions(marked')) = IF Region(c) \in Regions(marked) THEN n ELSE n + 1
  BY <1>1, <1>2, OneMoreRegion
<1>4. Regions(marked)' = Regions(marked')
  BY <1>1 DEF Regions, Region, Closed
<1>5. ~root => Region(c) \in Regions(marked)
  <2>1. SUFFICES ASSUME ~root PROVE Region(c) \in Regions(marked)
    OBVIOUS
  <2>2. PICK m \in marked : c \in near[m]
    BY <1>1, <2>1 DEF IInv, FrontierAttached
  <2>3. Region(c) = Region(m)
    BY <1>1, <1>2, <2>2, SharedRegion DEF IInv, TypeOK
  <2>4. QED BY <2>2, <2>3 DEF Regions
<1>6. root /\ ~lost => Region(c) \notin Regions(marked)
  <2>1. SUFFICES ASSUME root, ~lost PROVE Region(c) \notin Regions(marked)
    OBVIOUS
  <2>2. Closed(marked)
    BY <1>1, <2>1 DEF IInv, MarkedClosed, Closed
  <2>3. QED BY <1>1, <1>2, <2>2, OtherRegion
<1> HIDE DEF n
<1>7. QED BY <1>1, <1>2, <1>3, <1>4, <1>5, <1>6 DEF Tally

(* The tally under every other step. *)
LEMMA TallyKept ==
  ASSUME Tally, UNCHANGED <<marked, land, near, islands>>,
         phase' = "running" => phase = "running", ~lost' => ~lost
  PROVE  Tally'
<1>1. Regions(marked)' = Regions(marked)
  BY DEF Regions, Region, Closed
<1>2. QED BY <1>1 DEF Tally

(* Before the first mark nothing is counted.                               *)
LEMMA TallyOfNone == marked = {} /\ islands = 0 => Tally
<1>1. Regions({}) = {}
  BY DEF Regions
<1>2. QED BY <1>1, FS_EmptySet DEF Tally

(* The rest of IInv under a step that marks a cell, the only one that      *)
(* touches all of its parts.                                               *)
LEMMA MarkStep == ASSUME IInv, NEW c \in Cell, Mark(c)
                  PROVE  (Bounds /\ SeedAlone /\ LandAccounted /\ MarkedClosed /\ FrontierAttached)'
<1> USE DEF Mark, grid
<1>1. PICK left \in {frontier, frontier \ {c}} : frontier' = left \cup near[c]
  OBVIOUS
<1>2. /\ phase = "running" /\ phase' = "running" /\ c \in frontier /\ c \in land
      /\ c \notin marked /\ marked' = marked \cup {c} /\ root' = FALSE
      /\ UNCHANGED <<area, land, near, todo, lost>>
  OBVIOUS
<1>3. near[c] \subseteq area /\ land \subseteq area
  BY <1>2 DEF IInv, TypeOK, IsGrid
<1>4. Bounds'
  BY <1>1, <1>2, <1>3 DEF IInv, Bounds
<1>5. SeedAlone'
  BY <1>2 DEF SeedAlone
<1>6. LandAccounted'
  BY <1>2 DEF IInv, LandAccounted, SeedAlone
<1>7. MarkedClosed'
  <2>1. SUFFICES ASSUME ~lost, NEW m \in marked', NEW d \in near[m] \cap land
                 PROVE  d \in marked' \/ d \in frontier'
    BY <1>2 DEF MarkedClosed
  <2>2. CASE m = c
    BY <1>1, <2>2
  <2>3. CASE m # c
    <3>1. d \in marked \/ d \in frontier
      BY <1>2, <2>1, <2>3 DEF IInv, MarkedClosed
    <3>2. QED BY <1>1, <1>2, <3>1
  <2>4. QED BY <2>2, <2>3
<1>8. FrontierAttached'
  <2>1. SUFFICES ASSUME NEW d \in frontier' \ marked'
                 PROVE  \E m \in marked' : d \in near[m]
    BY <1>2 DEF FrontierAttached
  <2>2. CASE d \in near[c]
    BY <1>2, <2>2
  <2>3. CASE d \notin near[c]
    <3>1. d \in frontier /\ d # c /\ d \notin marked
      BY <1>1, <1>2, <2>1, <2>3
    <3>2. ~root
      BY <1>2, <3>1 DEF IInv, SeedAlone
    <3>3. PICK m \in marked : d \in near[m]
      BY <1>2, <3>1, <3>2 DEF IInv, FrontierAttached
    <3>4. QED BY <1>2, <3>3
  <2>4. QED BY <2>2, <2>3
<1>9. QED BY <1>4, <1>5, <1>6, <1>7, <1>8

(* IInv is inductive. *)
LEMMA IInvStep == ASSUME IInv, [Next]_vars PROVE IInv'
<1>1. TypeOK'
  BY TypeStep DEF IInv
<1>0. Tally'
  <2>1. CASE Configure
    BY <2>1 DEF Tally, Configure, run
  <2>2. CASE Begin
    <3>1. (marked = {} /\ islands = 0 => Tally)'
      BY TallyOfNone, PTL
    <3>2. QED BY <2>2, <3>1 DEF Begin
  <2>3. CASE Finish
    BY <2>3, TallyKept DEF IInv, Finish, grid
  <2>4. ASSUME NEW c \in Cell, Seed(c) \/ Skip(c) \/ Lose(c) PROVE Tally'
    BY <2>4, TallyKept DEF IInv, Seed, Skip, Lose, grid
  <2>5. CASE UNCHANGED vars
    BY <2>5, TallyKept DEF IInv, vars, grid, run
  <2>6. QED BY <2>1, <2>2, <2>3, <2>4, <2>5, TallyStep DEF Next
<1>2. CASE Configure
  BY <1>0, <1>1, <1>2 DEF IInv, Configure, run, Bounds, SeedAlone, LandAccounted, MarkedClosed,
                    FrontierAttached
<1>3. CASE Begin
  BY <1>0, <1>1, <1>3 DEF IInv, TypeOK, IsGrid, Begin, grid, Bounds, SeedAlone, LandAccounted,
                    MarkedClosed, FrontierAttached
<1>4. CASE Finish
  BY <1>0, <1>1, <1>4 DEF IInv, Finish, grid, Bounds, SeedAlone, LandAccounted, MarkedClosed,
                    FrontierAttached
<1>5. ASSUME NEW c \in Cell, Seed(c) PROVE IInv'
  BY <1>0, <1>1, <1>5 DEF IInv, Seed, grid, Bounds, SeedAlone, LandAccounted, MarkedClosed,
                    FrontierAttached
<1>6. ASSUME NEW c \in Cell, Skip(c) PROVE IInv'
  BY <1>0, <1>1, <1>6 DEF IInv, Skip, grid, Bounds, SeedAlone, LandAccounted, MarkedClosed,
                    FrontierAttached
<1>7. ASSUME NEW c \in Cell, Mark(c) PROVE IInv'
  BY <1>0, <1>1, <1>7, MarkStep DEF IInv
<1>8. ASSUME NEW c \in Cell, Lose(c) PROVE IInv'
  BY <1>0, <1>1, <1>8 DEF IInv, Lose, grid, Bounds, SeedAlone, LandAccounted, MarkedClosed,
                    FrontierAttached
<1>9. CASE UNCHANGED vars
  BY <1>0, <1>1, <1>9 DEF IInv, vars, grid, run, Bounds, SeedAlone, LandAccounted, MarkedClosed,
                    FrontierAttached
<1>10. QED BY <1>2, <1>3, <1>4, <1>5, <1>6, <1>7, <1>8, <1>9 DEF Next

(* IInv holds of every reachable state, in particular the type invariant. *)
THEOREM Invariance == Spec => []IInv
<1>1. Init => IInv
  <2>1. Init => islands \in Nat
    BY DEF Init
  <2>2. Init => TypeOK
    BY <2>1, Zenon DEF Init, TypeOK
  <2>3. QED BY <2>2, TallyOfNone DEF Init, IInv, Bounds, SeedAlone, LandAccounted, MarkedClosed,
                        FrontierAttached
<1>2. IInv /\ [Next]_vars => IInv'
  BY IInvStep
<1>3. QED BY <1>1, <1>2, PTL DEF Spec

-----------------------------------------------------------------------------
(* A run ends with exactly the passable cells marked, pushes lost or not   *)
(* (ScanNext offers again what PushNeighbor dropped).                      *)
THEOREM FinishIsComplete == Spec => FinishComplete
<1>1. IInv /\ [Next]_vars => [Finish => marked = land]_vars
  <2>1. ASSUME IInv, Finish PROVE marked = land
    BY <2>1 DEF IInv, Finish, Bounds, LandAccounted
  <2>2. QED BY <2>1
<1>2. QED BY <1>1, Invariance, PTL DEF Spec, FinishComplete

(* A run reports the number of islands of its grid, or at least that many  *)
(* if the stack was full at a push (island_count_ counts marked seeds).    *)
THEOREM FinishIsExact == Spec => FinishExact
<1>1. IInv /\ [Next]_vars =>
        [Finish => /\ islands >= Cardinality(Regions(land))
                   /\ ~lost => islands = Cardinality(Regions(land))]_vars
  <2>1. ASSUME IInv, Finish PROVE marked = land
    BY <2>1 DEF IInv, Finish, Bounds, LandAccounted
  <2>2. ASSUME IInv, Finish
        PROVE  /\ islands >= Cardinality(Regions(land))
               /\ ~lost => islands = Cardinality(Regions(land))
    BY <2>1, <2>2 DEF IInv, Finish, Tally
  <2>3. QED BY <2>2
<1>2. QED BY <1>1, Invariance, PTL DEF Spec, FinishExact

(* A cell counted as a new island touches no cell counted before, unless a *)
(* push was lost (is_new_island_start_ is set for a scan seed only).       *)
THEOREM NewIslandIsNew == Spec => NewIslandTouchesNone
<1>1. IInv => \A c \in Cell : Mark(c) /\ root /\ ~lost => near[c] \cap marked = {}
  <2>1. SUFFICES ASSUME IInv, NEW c \in Cell, Mark(c), root, ~lost,
                        NEW m \in near[c] \cap marked
                 PROVE  FALSE
    OBVIOUS
  <2>2. c \in area /\ m \in area /\ c \in land
    BY <2>1 DEF Mark, IInv, TypeOK, IsGrid
  <2>3. c \in near[m]
    BY <2>1, <2>2 DEF IInv, TypeOK, IsGrid, Symmetric
  <2>4. c \in marked
    BY <2>1, <2>2, <2>3 DEF Mark, IInv, MarkedClosed
  <2>5. QED BY <2>1, <2>4 DEF Mark
<1>2. QED BY <1>1, Invariance, PTL DEF Spec, NewIslandTouchesNone

(* A cell that is not counted as an island touches one that is counted.    *)
THEOREM OthersAreAttached == Spec => OthersAttach
<1>1. IInv => \A c \in Cell : Mark(c) /\ ~root => \E m \in marked : c \in near[m]
  BY DEF IInv, Mark, FrontierAttached
<1>2. QED BY <1>1, Invariance, PTL DEF Spec, OthersAttach
=============================================================================

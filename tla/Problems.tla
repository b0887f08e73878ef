------------------------------ MODULE Problems ------------------------------
(***************************************************************************)
(* What the five grid searches are asked for, stated over the grid as a    *)
(* graph and without a traversal: neither marks nor stacks, no order in    *)
(* which cells are met.  The repository's own oracle                       *)
(* (src/program/cases/oracle.cpp) computes four of the five by searches of *)
(* its own.  A problem p has the fields of a job of HlsKernel; a cell is   *)
(* its index in the grid.                                                  *)
(***************************************************************************)
EXTENDS Integers, Sequences, FiniteSets, Functions

Area(p) == 0 .. p.rows * p.cols - 1

(* The cells next to c: at most one row and one column away, and without   *)
(* the diagonals in the same row or column.                                *)
Near(p, c) ==
  {n \in Area(p) :
     LET dy == (n \div p.cols) - (c \div p.cols)
         dx == (n % p.cols) - (c % p.cols)
     IN  /\ dy \in -1 .. 1 /\ dx \in -1 .. 1 /\ n # c
         /\ p.eight \/ dy = 0 \/ dx = 0}

(* The least set that holds S and, with c, what edge allows from c: no     *)
(* cell is more steps away than there are cells.                           *)
Reach(edge, S) ==
  LET n == Cardinality(DOMAIN edge)
      Within[k \in 0 .. n] ==
        IF k = 0 THEN S
        ELSE LET R == Within[k - 1] IN R \cup UNION {edge[c] : c \in R}
  IN  Within[n]

(* The walks of k cells along edge, from a cell of S, that meet no cell    *)
(* twice.                                                                  *)
Routes(edge, S, k) ==
  LET Longer[i \in 0 .. k - 1] ==
        IF i = 0 THEN {<<c>> : c \in S}
        ELSE UNION {{Append(w, n) : n \in edge[w[Len(w)]] \ Range(w)} : w \in Longer[i - 1]}
  IN  IF k = 0 THEN {} ELSE Longer[k - 1]

-----------------------------------------------------------------------------
(* The islands: of each cell with land, the land it is connected to.       *)
IslandCount(p) ==
  LET land == {c \in Area(p) : p.cells[c] # 0}
      edge == [c \in Area(p) |-> Near(p, c) \cap land]
  IN  Cardinality({Reach(edge, {c}) : c \in land})

(* The cells that water reaches from an ocean if it may not go downhill.   *)
Flooded(p, ocean) ==
  LET up == [c \in Area(p) |-> {n \in Near(p, c) : p.cells[n] >= p.cells[c]}]
      coast == {c \in Area(p) :
                  IF ocean = "pacific" THEN c < p.cols \/ c % p.cols = 0
                  ELSE c \div p.cols = p.rows - 1 \/ c % p.cols = p.cols - 1}
  IN  Reach(up, coast)

BothOceansCount(p) == Cardinality(Flooded(p, "pacific") \cap Flooded(p, "atlantic"))

(* The length of the longest walk that rises with every step.              *)
LongestIncrease(p) ==
  LET up == [c \in Area(p) |-> {n \in Near(p, c) : p.cells[n] > p.cells[c]}]
      lengths == {k \in 1 .. Cardinality(Area(p)) : Routes(up, Area(p), k) # {}}
  IN  CHOOSE k \in lengths : \A j \in lengths : j <= k

Findable(p, w) ==
  \E walk \in Routes([c \in Area(p) |-> Near(p, c)], Area(p), Len(w)) :
    \A i \in 1 .. Len(w) : p.cells[walk[i]] = w[i]

(* The different words that some walk spells; a search that goes word by   *)
(* word counts one that is named twice twice.                              *)
FindableWords(p, words) ==
  LET found == {i \in DOMAIN words : Findable(p, words[i])}
  IN  Cardinality(IF p.prune THEN {words[i] : i \in found} ELSE found)

(* The last cell that holds a 1; a grid without one is entered at cell 0.  *)
Entrance(p) ==
  LET ones == {c \in Area(p) : p.cells[c] = 1}
  IN  IF ones = {} THEN 0 ELSE CHOOSE c \in ones : \A d \in ones : d <= c

(* The walks from there over free cells, as many as the grid has, that     *)
(* meet a 2 at their end only.                                             *)
UniquePaths(p) ==
  LET free == {c \in Area(p) : p.cells[c] # -1}
      edge == [c \in Area(p) |-> Near(p, c) \cap free]
      k == Cardinality(free)
  IN  Cardinality({w \in Routes(edge, {Entrance(p)}, k) :
                     \A i \in 1 .. k : p.cells[w[i]] = 2 <=> i = k})

Answer(p) ==
  CASE p.mode = "islands"    -> IslandCount(p)
    [] p.mode = "pacific"    -> BothOceansCount(p)
    [] p.mode = "paths"      -> UniquePaths(p)
    [] p.mode = "increasing" -> LongestIncrease(p)
    [] p.mode = "words"      -> FindableWords(p, p.words)
    [] OTHER                 -> 0
=============================================================================

-------------------------- MODULE HlsKernel_proofs --------------------------
(***************************************************************************)
(* Proofs about the HLS kernel, for every engine size, every set of jobs and
   every number of calls on one engine. *)
(***************************************************************************)
EXTENDS HlsKernel, SequenceTheorems, FiniteSetTheorems, TLAPS

USE MaxSizesAssumption

-----------------------------------------------------------------------------
(* What the loops over directions and cells meet, in order. *)

(* Different numbers of a finite set have different ranks, so every rank from
   0 is taken. *)
LEMMA Ranks ==
  ASSUME NEW S \in SUBSET Nat, IsFiniteSet(S), NEW k \in 1 .. Cardinality(S)
  PROVE  \E x \in S : Cardinality({y \in S : y < x}) = k - 1
<1> DEFINE Below(x) == {y \in S : y < x}
           n == Cardinality(S)
           rank == [x \in S |-> Cardinality(Below(x))]
<1>1. n \in Nat /\ \A x \in S : IsFiniteSet(Below(x)) /\ Cardinality(Below(x)) \in Nat
  <2>1. n \in Nat
    BY FS_CardinalityType
  <2>2. ASSUME NEW x \in S PROVE IsFiniteSet(Below(x)) /\ Cardinality(Below(x)) \in Nat
    <3>1. Below(x) \in SUBSET S
      OBVIOUS
    <3>2. IsFiniteSet(Below(x))
      BY <3>1, FS_Subset
    <3>3. QED BY <3>2, FS_CardinalityType
  <2>3. QED BY <2>1, <2>2
<1>2. ASSUME NEW x \in S PROVE Cardinality(Below(x)) < n
  <2>1. Below(x) \in SUBSET S /\ x \notin Below(x)
    OBVIOUS
  <2>2. Cardinality(Below(x)) <= n /\ (n = Cardinality(Below(x)) => S = Below(x))
    BY <2>1, FS_Subset
  <2>3. QED BY <1>1, <2>1, <2>2
<1>3. ASSUME NEW x \in S, NEW z \in S, x < z PROVE Cardinality(Below(x)) # Cardinality(Below(z))
  <2>0. \A y \in S : y < x => y < z
    BY <1>3
  <2>1. Below(x) \in SUBSET Below(z) /\ x \in Below(z) /\ x \notin Below(x)
    <3>1. x \in Nat /\ ~(x < x)
      OBVIOUS
    <3>2. QED BY <1>3, <2>0, <3>1, Zenon
  <2>2. IsFiniteSet(Below(z))
    BY <1>1
  <2>3. Cardinality(Below(z)) = Cardinality(Below(x)) => Below(z) = Below(x)
    BY <2>1, <2>2, FS_Subset
  <2>4. QED BY <2>1, <2>3
<1> HIDE DEF Below, n
<1>4. rank \in Injection(S, 0 .. n - 1)
  <2>1. rank \in [S -> 0 .. n - 1]
    BY <1>1, <1>2
  <2>2. ASSUME NEW x \in S, NEW z \in S, rank[x] = rank[z] PROVE x = z
    <3>1. ~(x < z) /\ ~(z < x)
      BY <1>3, <2>2
    <3>2. QED BY <3>1
  <2>3. QED BY <2>1, <2>2 DEF Injection, IsInjective
<1>5. IsFiniteSet(0 .. n - 1) /\ Cardinality(0 .. n - 1) = n
  <2>1. /\ IsFiniteSet(0 .. n - 1)
        /\ Cardinality(0 .. n - 1) = IF 0 > n - 1 THEN 0 ELSE n - 1 - 0 + 1
    BY <1>1, FS_Interval
  <2>2. QED BY <1>1, <2>1
<1>6. rank \in Surjection(S, 0 .. n - 1)
  BY <1>4, <1>5, FS_Injection DEF n
<1>7. k - 1 \in 0 .. n - 1
  BY <1>1 DEF n
<1>8. \E x \in S : rank[x] = k - 1
  BY <1>6, <1>7 DEF Surjection
<1>9. QED BY <1>8 DEF Below

(* InOrder names each number of the set once. *)
LEMMA InOrderOf ==
  ASSUME NEW S \in SUBSET Nat, IsFiniteSet(S)
  PROVE  /\ InOrder(S) \in Seq(S) /\ Len(InOrder(S)) = Cardinality(S)
         /\ \A i, j \in 1 .. Len(InOrder(S)) : InOrder(S)[i] = InOrder(S)[j] => i = j
<1> DEFINE n == Cardinality(S)
           At(k) == CHOOSE x \in S : Cardinality({y \in S : y < x}) = k - 1
<1>1. n \in Nat
  BY FS_CardinalityType
<1>2. \A k \in 1 .. n : At(k) \in S /\ Cardinality({y \in S : y < At(k)}) = k - 1
  BY Ranks
<1> DEFINE order == InOrder(S)
<1>0. order = [k \in 1 .. n |-> At(k)]
  BY DEF InOrder
<1> HIDE DEF n, At, order
<1>3. order = [k \in 1 .. n |-> order[k]] /\ \A k \in 1 .. n : order[k] = At(k)
  <2>1. \A k \in 1 .. n : order[k] = At(k)
    BY <1>0
  <2>2. QED BY <1>0, <2>1, Zenon
<1>4. order \in Seq(S) /\ Len(order) = n
  <2>1. order \in [1 .. n -> S]
    BY <1>2, <1>3
  <2>2. QED BY <1>1, <2>1
<1>5. ASSUME NEW i \in 1 .. n, NEW j \in 1 .. n, order[i] = order[j] PROVE i = j
  <2>1. i - 1 = j - 1
    BY <1>2, <1>3, <1>5
  <2>2. QED BY <1>1, <2>1
<1>6. QED BY <1>4, <1>5 DEF n, order

-----------------------------------------------------------------------------
(* Cells and their neighbours. *)

(* Row-major order is strict in the row. *)
LEMMA RowOrder ==
  ASSUME NEW c \in Nat \ {0}, NEW x \in 0 .. c - 1, NEW z \in 0 .. c - 1,
         NEW y \in Int, NEW v \in Int, y < v
  PROVE  y * c + x < v * c + z
<1>1. PICK k \in Nat : v = y + 1 + k
  <2>1. v - y - 1 \in Nat /\ v = y + 1 + (v - y - 1)
    OBVIOUS
  <2>2. QED BY <2>1
<1>2. v * c = y * c + c + k * c
  BY <1>1
<1>3. k * c >= 0
  OBVIOUS
<1>4. QED BY <1>2, <1>3

(* So an address has one row and one column. *)
LEMMA OneCoord ==
  ASSUME NEW c \in Nat \ {0}, NEW x \in 0 .. c - 1, NEW z \in 0 .. c - 1,
         NEW y \in Int, NEW v \in Int, y * c + x = v * c + z
  PROVE  y = v /\ x = z
<1>1. ~(y < v)
  <2>1. y * c \in Int /\ v * c \in Int
    OBVIOUS
  <2>2. QED BY <2>1, RowOrder
<1>2. ~(v < y)
  <2>1. y * c \in Int /\ v * c \in Int
    OBVIOUS
  <2>2. QED BY <2>1, RowOrder
<1>3. y = v
  BY <1>1, <1>2
<1>4. QED BY <1>3

Sized(s) == s.rows \in 1 .. MaxRows /\ s.cols \in 1 .. MaxCols

(* A direction is one of eight, none of them the same twice. *)
LEMMA Directions ==
  ASSUME NEW i \in 0 .. 7
  PROVE  /\ Delta[i + 1][1] \in {-1, 0, 1} /\ Delta[i + 1][2] \in {-1, 0, 1}
         /\ \A j \in 0 .. 7 : Delta[i + 1][1] = Delta[j + 1][1] /\ Delta[i + 1][2] = Delta[j + 1][2]
                                => i = j
<1>1. i \in {0, 1, 2, 3, 4, 5, 6, 7}
  OBVIOUS
<1>2. \A j \in 0 .. 7 : j \in {0, 1, 2, 3, 4, 5, 6, 7}
  OBVIOUS
<1>3. QED BY <1>1, <1>2 DEF Delta

(* A grid that fits has cells, all of them in the engine's arrays. *)
LEMMA CellsFit ==
  ASSUME NEW s, Sized(s)
  PROVE  /\ 0 \in Cells(s) /\ Cells(s) \subseteq 0 .. MaxCells - 1 /\ MaxCells \in Nat
         /\ IsFiniteSet(Cells(s)) /\ s.rows * s.cols \in Nat
<1> DEFINE r == s.rows
           c == s.cols
<1>1. r \in 1 .. MaxRows /\ c \in 1 .. MaxCols
  BY DEF Sized
<1> HIDE DEF r, c
<1>2. r * c \in Nat /\ r * c >= 1 /\ r * c <= MaxRows * MaxCols
  <2>1. PICK a \in Nat, b \in Nat : r = a + 1 /\ c = b + 1
    <3>1. r - 1 \in Nat /\ c - 1 \in Nat /\ r = r - 1 + 1 /\ c = c - 1 + 1
      BY <1>1
    <3>2. QED BY <3>1
  <2>2. PICK d \in Nat, f \in Nat : MaxRows = r + d /\ MaxCols = c + f
    <3>1. MaxRows - r \in Nat /\ MaxCols - c \in Nat
          /\ MaxRows = r + (MaxRows - r) /\ MaxCols = c + (MaxCols - c)
      BY <1>1
    <3>2. QED BY <3>1
  <2>3. r * c = a * b + a + b + 1 /\ a * b >= 0
    BY <2>1
  <2>4. MaxRows * MaxCols = r * c + r * f + d * c + d * f
    BY <1>1, <2>2
  <2>5. r * f >= 0 /\ d * c >= 0 /\ d * f >= 0 /\ r * f \in Int /\ d * c \in Int /\ d * f \in Int
    BY <1>1
  <2>6. r * c \in Int /\ a * b \in Int /\ MaxRows * MaxCols \in Int
    BY <1>1
  <2>7. QED BY <2>3, <2>4, <2>5, <2>6
<1>3. Cells(s) = 0 .. r * c - 1
  BY DEF Cells, r, c
<1>4. IsFiniteSet(0 .. r * c - 1)
  BY <1>2, FS_Interval
<1>5. QED BY <1>2, <1>3, <1>4 DEF MaxCells, r, c

(* The row and column of a cell. *)
LEMMA CoordOf ==
  ASSUME NEW s, Sized(s), NEW c \in Cells(s)
  PROVE  /\ c % s.cols \in 0 .. s.cols - 1 /\ c \div s.cols \in 0 .. s.rows - 1
         /\ c = (c \div s.cols) * s.cols + (c % s.cols)
<1> DEFINE k == s.cols
           r == s.rows
           q == c \div k
           m == c % k
<1>1. k \in Nat \ {0} /\ r \in Nat \ {0} /\ c \in Nat /\ c <= r * k - 1
  <2>1. s.rows * s.cols \in Nat
    BY CellsFit
  <2>2. QED BY <2>1 DEF Sized, Cells
<1> HIDE DEF k, r
<1>2. m \in 0 .. k - 1 /\ q \in Int
  <2>1. m \in 0 .. k - 1
    BY <1>1
  <2>2. q \in Int
    BY <1>1
  <2>3. QED BY <2>1, <2>2
<1>3. c = k * q + m
  BY <1>1
<1> HIDE DEF q, m
<1>4. c = q * k + m
  <2>1. k * q = q * k
    BY <1>1, <1>2
  <2>2. QED BY <1>3, <2>1
<1>5. ~(q < 0)
  <2>1. ASSUME q < 0 PROVE FALSE
    <3>1. q * k + m < 0 * k + 0
      BY <1>1, <1>2, <2>1, RowOrder
    <3>2. QED BY <1>1, <1>4, <3>1
  <2>2. QED BY <2>1
<1>6. ~(r - 1 < q)
  <2>1. ASSUME r - 1 < q PROVE FALSE
    <3>1. (r - 1) * k + (k - 1) < q * k + m
      BY <1>1, <1>2, <2>1, RowOrder
    <3>2. (r - 1) * k + (k - 1) = r * k - 1
      BY <1>1
    <3>3. QED BY <1>1, <1>2, <1>4, <3>1, <3>2
  <2>2. QED BY <2>1
<1>7. q \in 0 .. r - 1
  BY <1>1, <1>2, <1>5, <1>6
<1>8. QED BY <1>2, <1>4, <1>7 DEF q, m, k, r

(* A neighbour is a cell of the grid, and each direction leads to another. *)
LEMMA NeighborOf ==
  ASSUME NEW s, Sized(s), NEW c \in Cells(s), NEW i \in 0 .. 7, HasNeighbor(s, c, i)
  PROVE  /\ Neighbor(s, c, i) \in Cells(s)
         /\ \A j \in 0 .. 7 : HasNeighbor(s, c, j) /\ Neighbor(s, c, i) = Neighbor(s, c, j) => i = j
<1> DEFINE k == s.cols
           r == s.rows
           q == c \div k
           m == c % k
           dy(h) == Delta[h + 1][1]
           dx(h) == Delta[h + 1][2]
<1>1. k \in Nat \ {0} /\ r \in Nat \ {0}
  BY DEF Sized
<1>2. m \in 0 .. k - 1 /\ q \in 0 .. r - 1 /\ c = q * k + m
  BY CoordOf
<1>3. \A h \in 0 .. 7 : dy(h) \in Int /\ dx(h) \in Int
  BY Directions
<1>4. \A h \in 0 .. 7 : HasNeighbor(s, c, h) => q + dy(h) \in 0 .. r - 1 /\ m + dx(h) \in 0 .. k - 1
  BY DEF HasNeighbor
<1>5. \A h \in 0 .. 7 : Neighbor(s, c, h) = c + dy(h) * k + dx(h)
  BY DEF Neighbor
<1>6. Cells(s) = 0 .. r * k - 1
  BY DEF Cells
<1>7. \A j \in 0 .. 7 : dy(i) = dy(j) /\ dx(i) = dx(j) => i = j
  BY Directions
<1> HIDE DEF q, m, k, r, dy, dx
<1>8. \A h \in 0 .. 7 : HasNeighbor(s, c, h) => Neighbor(s, c, h) = (q + dy(h)) * k + (m + dx(h))
  <2>1. SUFFICES ASSUME NEW h \in 0 .. 7
                 PROVE  c + dy(h) * k + dx(h) = (q + dy(h)) * k + (m + dx(h))
    BY <1>5
  <2>2. (q + dy(h)) * k = q * k + dy(h) * k
    BY <1>1, <1>2, <1>3
  <2>3. q * k \in Int /\ dy(h) * k \in Int /\ dx(h) \in Int
    BY <1>1, <1>2, <1>3
  <2>4. QED BY <1>2, <2>2, <2>3
<1>9. Neighbor(s, c, i) \in Cells(s)
  <2> DEFINE y == q + dy(i)
             x == m + dx(i)
  <2>1. y \in 0 .. r - 1 /\ x \in 0 .. k - 1 /\ Neighbor(s, c, i) = y * k + x
    BY <1>4, <1>8
  <2> HIDE DEF y, x
  <2>2. y * k + x < r * k + 0
    BY <1>1, <2>1, RowOrder
  <2>3. y * k >= 0 /\ y * k \in Int /\ r * k \in Int
    BY <1>1, <2>1
  <2>4. QED BY <1>1, <1>6, <2>1, <2>2, <2>3
<1>10. ASSUME NEW j \in 0 .. 7, HasNeighbor(s, c, j), Neighbor(s, c, i) = Neighbor(s, c, j)
       PROVE  i = j
  <2>1. q + dy(i) = q + dy(j) /\ m + dx(i) = m + dx(j)
    <3>1. (q + dy(i)) * k + (m + dx(i)) = (q + dy(j)) * k + (m + dx(j))
      BY <1>8, <1>10
    <3>2. /\ m + dx(i) \in 0 .. k - 1 /\ m + dx(j) \in 0 .. k - 1
          /\ q + dy(i) \in Int /\ q + dy(j) \in Int
      BY <1>4, <1>10
    <3> DEFINE a == q + dy(i)
               b == q + dy(j)
               x == m + dx(i)
               z == m + dx(j)
    <3> HIDE DEF a, b, x, z
    <3>3. a * k + x = b * k + z /\ x \in 0 .. k - 1 /\ z \in 0 .. k - 1 /\ a \in Int /\ b \in Int
      BY <3>1, <3>2 DEF a, b, x, z
    <3>4. a = b /\ x = z
      BY <1>1, <3>3, OneCoord
    <3>5. QED BY <3>4 DEF a, b, x, z
  <2>2. dy(i) = dy(j) /\ dx(i) = dx(j)
    BY <1>2, <1>3, <2>1
  <2>3. QED BY <1>7, <2>2
<1>11. QED BY <1>9, <1>10

-----------------------------------------------------------------------------
(* The engine. *)
Cell == 0 .. MaxCells - 1

FrameType == [cur : Nat, next : Nat, char_index : Nat, node : Seq(Int), best : Int, walked : Nat]

(* The type of the engine. *)
EngineType ==
  [rows : Nat, cols : Nat, degree : {4, 8}, words : Seq(Seq(Int)),
   grid : [Cell -> Int], visited : [Cell -> BOOLEAN], reachable : [Cell -> BOOLEAN],
   memo : [Cell -> Int], word_found : SUBSET Nat,
   stack : Seq(Nat), frames : Seq(FrameType),
   expanded_nodes : Nat, visited_cells : Nat, peak_stack_depth : Nat]

(* t is s with other counters, memo, reachable and found words at most. *)
Alike(s, t) ==
  /\ t.rows = s.rows /\ t.cols = s.cols /\ t.degree = s.degree
  /\ t.words = s.words /\ t.grid = s.grid

Same(s, t) == Alike(s, t) /\ t.visited = s.visited /\ t.stack = s.stack /\ t.frames = s.frames

(* The arrays have a natural number of entries. *)
LEMMA MaxCellsIsNat == MaxCells \in Nat
<1>1. \A a, b \in Nat : a * b \in Nat
  OBVIOUS
<1>2. QED BY <1>1 DEF MaxCells

(* An assignment of a value of the right type to a field. *)
LEMMA WithCount ==
  ASSUME NEW s \in EngineType, NEW n \in Nat
  PROVE  LET t == [s EXCEPT !.expanded_nodes = n] IN t \in EngineType /\ Same(s, t)
BY DEF EngineType, Same, Alike

(* The same for the stack. *)
LEMMA WithStack ==
  ASSUME NEW s \in EngineType, NEW q \in Seq(Nat)
  PROVE  LET t == [s EXCEPT !.stack = q]
         IN  /\ t \in EngineType /\ Alike(s, t) /\ t.visited = s.visited /\ t.frames = s.frames
             /\ t.stack = q
BY DEF EngineType, Alike

(* The same for the frames. *)
LEMMA WithFrames ==
  ASSUME NEW s \in EngineType, NEW f \in Seq(FrameType)
  PROVE  LET t == [s EXCEPT !.frames = f]
         IN  /\ t \in EngineType /\ Alike(s, t) /\ t.visited = s.visited /\ t.stack = s.stack
             /\ t.frames = f
BY DEF EngineType, Alike

(* The static engine before the first call. *)
LEMMA Blanks == Blank \in EngineType /\ Blank.stack = <<>> /\ Blank.frames = <<>>
<1>1. /\ [c \in 0 .. MaxCells - 1 |-> 0] \in [Cell -> Int]
      /\ [c \in 0 .. MaxCells - 1 |-> FALSE] \in [Cell -> BOOLEAN]
  BY DEF Cell
<1> DEFINE z == [c \in 0 .. MaxCells - 1 |-> 0]
           f == [c \in 0 .. MaxCells - 1 |-> FALSE]
<1>2. Blank = [rows |-> 0, cols |-> 0, degree |-> 4, words |-> <<>>, grid |-> z, visited |-> f,
               reachable |-> f, memo |-> z, word_found |-> {}, stack |-> <<>>, frames |-> <<>>,
               expanded_nodes |-> 0, visited_cells |-> 0, peak_stack_depth |-> 0]
  BY DEF Blank
<1> HIDE DEF z, f
<1>3. QED BY <1>1, <1>2 DEF EngineType, z, f

(* note_depth writes peak_stack_depth only. *)
LEMMA NoteDepth ==
  ASSUME NEW s \in EngineType, NEW d \in Nat
  PROVE  note_depth(s, d) \in EngineType /\ Same(s, note_depth(s, d))
BY DEF note_depth, EngineType, Same, Alike

(* expanded_nodes++ writes one counter only. *)
LEMMA CountNode ==
  ASSUME NEW s \in EngineType
  PROVE  LET t == [s EXCEPT !.expanded_nodes = @ + 1] IN t \in EngineType /\ Same(s, t)
<1>1. s.expanded_nodes \in Nat
  BY DEF EngineType
<1>2. s.expanded_nodes + 1 \in Nat
  BY <1>1
<1>3. QED BY <1>2, WithCount

(* mark_visited sets the flag of its cell and touches no stack. *)
LEMMA MarkVisited ==
  ASSUME NEW s \in EngineType, NEW c \in Cell
  PROVE  LET t == mark_visited(s, c)
         IN  /\ t \in EngineType /\ Alike(s, t) /\ t.stack = s.stack /\ t.frames = s.frames
             /\ t.visited = [s.visited EXCEPT ![c] = TRUE]
<1> DEFINE v == [s.visited EXCEPT ![c] = TRUE]
<1>0. v \in [Cell -> BOOLEAN] /\ s.visited_cells \in Nat
  BY DEF EngineType
<1>1. CASE s.visited[c]
  <2>1. s.visited = v
    BY <1>1 DEF EngineType
  <2>2. QED BY <1>1, <2>1 DEF mark_visited, Alike
<1>2. CASE ~s.visited[c]
  <2>1. mark_visited(s, c) = [s EXCEPT !.visited = v, !.visited_cells = s.visited_cells + 1]
    BY <1>2 DEF mark_visited
  <2>2. s.visited_cells + 1 \in Nat
    BY <1>0
  <2> DEFINE u == mark_visited(s, c)
  <2> HIDE DEF v, u
  <2>3. u = [s EXCEPT !.visited = v, !.visited_cells = s.visited_cells + 1]
    BY <2>1 DEF u
  <2>4. u \in EngineType /\ Alike(s, u) /\ u.stack = s.stack /\ u.frames = s.frames /\ u.visited = v
    BY <1>0, <2>2, <2>3 DEF EngineType, Alike
  <2>5. QED BY <2>4 DEF u, v
<1>3. QED BY <1>1, <1>2

(* unmark_visited clears the flag of its cell and touches no stack. *)
LEMMA UnmarkVisited ==
  ASSUME NEW s \in EngineType, NEW c \in Cell
  PROVE  LET t == unmark_visited(s, c)
         IN  /\ t \in EngineType /\ Alike(s, t) /\ t.stack = s.stack /\ t.frames = s.frames
             /\ t.visited = [s.visited EXCEPT ![c] = FALSE]
BY DEF unmark_visited, EngineType, Alike

(* clear_visited leaves no flag in the grid. *)
LEMMA ClearVisited ==
  ASSUME NEW s \in EngineType
  PROVE  LET t == clear_visited(s)
         IN  /\ t \in EngineType /\ Alike(s, t) /\ t.stack = s.stack /\ t.frames = s.frames
             /\ \A c \in Cells(s) \cap Cell : ~t.visited[c]
<1> DEFINE v == [c \in DOMAIN s.visited |-> c \notin Cells(s) /\ s.visited[c]]
<1>1. v \in [Cell -> BOOLEAN] /\ \A c \in Cells(s) \cap Cell : ~v[c]
  BY Zenon DEF EngineType
<1> DEFINE t == [s EXCEPT !.visited = v]
<1>2. clear_visited(s) = t
  BY DEF clear_visited
<1> HIDE DEF v
<1>3. t.visited = v /\ t.stack = s.stack /\ t.frames = s.frames /\ Cells(t) = Cells(s)
  BY DEF EngineType, Cells
<1>4. t \in EngineType /\ Alike(s, t)
  BY <1>1 DEF EngineType, Alike
<1> HIDE DEF t
<1>5. QED BY <1>1, <1>2, <1>3, <1>4

(* push appends its cell. *)
LEMMA Push ==
  ASSUME NEW s \in EngineType, NEW c \in Nat
  PROVE  LET t == push(s, c)
         IN  /\ t \in EngineType /\ Alike(s, t) /\ t.visited = s.visited /\ t.frames = s.frames
             /\ t.stack = Append(s.stack, c)
<1> DEFINE u == [s EXCEPT !.stack = Append(s.stack, c)]
<1>1. s.stack \in Seq(Nat)
  BY DEF EngineType
<1>2. Append(s.stack, c) \in Seq(Nat) /\ Len(s.stack) + 1 \in Nat
  BY <1>1
<1>3. u \in EngineType /\ Alike(s, u) /\ u.visited = s.visited /\ u.frames = s.frames
      /\ u.stack = Append(s.stack, c)
  BY <1>2, WithStack
<1>4. push(s, c) = note_depth(u, Len(s.stack) + 1)
  BY DEF push
<1> HIDE DEF u
<1>5. push(s, c) \in EngineType /\ Same(u, push(s, c))
  BY <1>2, <1>3, <1>4, NoteDepth
<1>6. QED BY <1>3, <1>5 DEF Same, Alike

(* No cell comes twice; none is marked; all are marked, and no other is. *)
Distinct(q) == \A i, j \in 1 .. Len(q) : q[i] = q[j] => i = j
Unmarked(s, q) == \A i \in 1 .. Len(q) : ~s.visited[q[i]]
Marks(s, t, q) ==
  \A c \in Cell : t.visited[c] <=> s.visited[c] \/ \E i \in 1 .. Len(q) : q[i] = c

(* visit_all marks and appends its cells and nothing else. *)
LEMMA VisitAll ==
  ASSUME NEW s \in EngineType, NEW new \in Seq(Nat)
  PROVE  /\ visit_all(s, new) \in EngineType /\ Alike(s, visit_all(s, new))
         /\ visit_all(s, new).frames = s.frames /\ visit_all(s, new).stack = s.stack \o new
         /\ Marks(s, visit_all(s, new), new)
<1> DEFINE v == [c \in DOMAIN s.visited |-> s.visited[c] \/ c \in Range(new)]
           q == s.stack \o new
           n == s.visited_cells + Len(new)
           u == [s EXCEPT !.visited = v, !.visited_cells = n]
           w == [u EXCEPT !.stack = q]
<1>1. /\ v \in [Cell -> BOOLEAN]
      /\ \A c \in Cell : v[c] <=> s.visited[c] \/ \E i \in 1 .. Len(new) : new[i] = c
  <2>1. DOMAIN new = 1 .. Len(new)
    OBVIOUS
  <2>2. Range(new) = {new[i] : i \in 1 .. Len(new)}
    BY <2>1 DEF Range
  <2>3. DOMAIN s.visited = Cell /\ \A c \in Cell : s.visited[c] \in BOOLEAN
    BY DEF EngineType
  <2>4. QED BY <2>2, <2>3, Zenon
<1>2. s.stack \in Seq(Nat) /\ s.visited_cells \in Nat
  BY DEF EngineType
<1>3. Len(s.stack) + Len(new) \in Nat /\ q \in Seq(Nat) /\ n \in Nat
  BY <1>2, ConcatProperties
<1>4. visit_all(s, new) = note_depth(w, Len(s.stack) + Len(new))
  BY DEF visit_all
<1> HIDE DEF v, q, n
<1>0. u = [s EXCEPT !.visited = v, !.visited_cells = n] /\ v \in [Cell -> BOOLEAN]
  BY <1>1
<1> HIDE DEF u
<1>5. u \in EngineType /\ Alike(s, u) /\ u.visited = v /\ u.frames = s.frames
  BY <1>0, <1>3 DEF EngineType, Alike
<1>6. w \in EngineType /\ Alike(u, w) /\ w.visited = v /\ w.frames = s.frames /\ w.stack = q
  BY <1>3, <1>5, WithStack
<1> HIDE DEF w
<1>7. visit_all(s, new) \in EngineType /\ Same(w, visit_all(s, new))
  BY <1>3, <1>4, <1>6, NoteDepth
<1> DEFINE z == visit_all(s, new)
<1> HIDE DEF z
<1>8. Alike(s, z)
  BY <1>5, <1>6, <1>7 DEF Same, Alike, z
<1>9. z.frames = s.frames /\ z.stack = q /\ z.visited = v /\ z \in EngineType
  BY <1>6, <1>7 DEF Same, z
<1>10. Marks(s, z, new)
  BY <1>1, <1>9 DEF Marks
<1>11. QED BY <1>8, <1>9, <1>10 DEF q, z

-----------------------------------------------------------------------------
(* Frames. *)

(* As many frames, on the same cells. *)
SameCurs(s, t) ==
  /\ Len(t.frames) = Len(s.frames)
  /\ \A i \in 1 .. Len(s.frames) : t.frames[i].cur = s.frames[i].cur

(* One frame more, and its cell marked; one less, and its cell unmarked. *)
Enters(s, t, c) ==
  /\ Alike(s, t) /\ t.stack = s.stack /\ t.visited = [s.visited EXCEPT ![c] = TRUE]
  /\ \E f \in FrameType : f.cur = c /\ t.frames = Append(s.frames, f)

Leaves(s, t) ==
  /\ Alike(s, t) /\ t.stack = s.stack /\ t.visited = [s.visited EXCEPT ![Top(s).cur] = FALSE]
  /\ t.frames = Front(s.frames)

(* The innermost frame, and the frames below it. *)
LEMMA TopOf ==
  ASSUME NEW s \in EngineType, s.frames # <<>>
  PROVE  /\ Len(s.frames) \in Nat \ {0} /\ Top(s) = s.frames[Len(s.frames)] /\ Top(s) \in FrameType
         /\ Front(s.frames) \in Seq(FrameType) /\ Len(Front(s.frames)) = Len(s.frames) - 1
         /\ \A i \in 1 .. Len(s.frames) - 1 : Front(s.frames)[i] = s.frames[i]
<1>1. s.frames \in Seq(FrameType)
  BY DEF EngineType
<1> DEFINE f == s.frames
<1> HIDE DEF f
<1>2. f \in Seq(FrameType) /\ f # <<>>
  BY <1>1 DEF f
<1>3. Len(f) \in Nat \ {0} /\ \A i \in 1 .. Len(f) : f[i] \in FrameType
  BY <1>2, EmptySeq
<1>4. /\ SubSeq(f, 1, Len(f) - 1) \in Seq(FrameType)
      /\ Len(SubSeq(f, 1, Len(f) - 1)) = IF 1 <= Len(f) - 1 THEN Len(f) - 1 - 1 + 1 ELSE 0
      /\ \A i \in 1 .. Len(f) - 1 - 1 + 1 : SubSeq(f, 1, Len(f) - 1)[i] = f[1 + i - 1]
  <2>1. 1 \in Int /\ Len(f) - 1 \in Int /\ \A i \in 1 .. Len(f) - 1 : f[i] \in FrameType
    BY <1>3
  <2>2. QED BY <2>1, SubSeqProperties
<1>5. /\ Len(SubSeq(f, 1, Len(f) - 1)) = Len(f) - 1
      /\ \A i \in 1 .. Len(f) - 1 : SubSeq(f, 1, Len(f) - 1)[i] = f[i]
  <2> DEFINE n == Len(f)
             q == SubSeq(f, 1, n - 1)
  <2>1. /\ n \in Nat \ {0} /\ Len(q) = IF 1 <= n - 1 THEN n - 1 - 1 + 1 ELSE 0
        /\ \A i \in 1 .. n - 1 - 1 + 1 : q[i] = f[1 + i - 1]
    BY <1>3, <1>4
  <2> HIDE DEF q, n
  <2>2. Len(q) = n - 1
    BY <2>1
  <2>3. \A i \in 1 .. n - 1 : i \in 1 .. n - 1 - 1 + 1 /\ 1 + i - 1 = i
    BY <2>1
  <2>4. \A i \in 1 .. n - 1 : q[i] = f[i]
    BY <2>1, <2>3
  <2>5. QED BY <2>2, <2>4 DEF q, n
<1>6. f[Len(f)] \in FrameType
  BY <1>3
<1>7. QED BY <1>3, <1>4, <1>5, <1>6 DEF Top, Last, Front, f

(* The frames under a new one stay where they are. *)
LEMMA Appended ==
  ASSUME NEW s \in EngineType, NEW f \in FrameType
  PROVE  /\ Append(s.frames, f) \in Seq(FrameType) /\ Len(s.frames) \in Nat
         /\ Len(Append(s.frames, f)) = Len(s.frames) + 1
         /\ Append(s.frames, f)[Len(s.frames) + 1] = f
         /\ \A i \in 1 .. Len(s.frames) : Append(s.frames, f)[i] = s.frames[i]
<1>1. s.frames \in Seq(FrameType)
  BY DEF EngineType
<1>2. Len(s.frames) \in Nat
  BY <1>1
<1>3. QED BY <1>1, <1>2, AppendProperties

(* A new frame stands on its cell, whatever its search adds to it. *)
LEMMA FrameIs ==
  ASSUME NEW c \in Nat
  PROVE  /\ Frame(c) \in FrameType /\ Frame(c).cur = c
         /\ \A n \in Nat : /\ [Frame(c) EXCEPT !.walked = n] \in FrameType
                          /\ [Frame(c) EXCEPT !.walked = n].cur = c
         /\ \A n \in Nat : /\ [Frame(c) EXCEPT !.char_index = n] \in FrameType
                          /\ [Frame(c) EXCEPT !.char_index = n].cur = c
         /\ \A n \in Seq(Int) : /\ [Frame(c) EXCEPT !.node = n] \in FrameType
                               /\ [Frame(c) EXCEPT !.node = n].cur = c
<1>1. Frame(c) \in FrameType /\ Frame(c).cur = c
  BY DEF Frame, FrameType
<1> DEFINE f == Frame(c)
<1> HIDE DEF f
<1>2. f \in FrameType /\ f.cur = c
  BY <1>1 DEF f
<1>3. \A n \in Nat : [f EXCEPT !.walked = n] \in FrameType /\ [f EXCEPT !.walked = n].cur = c
  BY <1>2 DEF FrameType
<1>4. \A n \in Nat : [f EXCEPT !.char_index = n] \in FrameType /\ [f EXCEPT !.char_index = n].cur = c
  BY <1>2 DEF FrameType
<1>5. \A n \in Seq(Int) : [f EXCEPT !.node = n] \in FrameType /\ [f EXCEPT !.node = n].cur = c
  BY <1>2 DEF FrameType
<1>6. QED BY <1>1, <1>3, <1>4, <1>5 DEF f

(* push_frame appends its frame, and touches neither marks nor stack. *)
LEMMA PushFrame ==
  ASSUME NEW s \in EngineType, NEW f \in FrameType
  PROVE  LET t == push_frame(s, f)
         IN  /\ t \in EngineType /\ Alike(s, t) /\ t.visited = s.visited /\ t.stack = s.stack
             /\ t.frames = Append(s.frames, f)
<1> DEFINE q == Append(s.frames, f)
           n == s.expanded_nodes + 1
           u == [s EXCEPT !.frames = q, !.expanded_nodes = n]
<1>1. q \in Seq(FrameType) /\ Len(s.frames) + 1 \in Nat
  BY Appended
<1>2. n \in Nat
  <2>1. s.expanded_nodes \in Nat
    BY DEF EngineType
  <2>2. QED BY <2>1
<1>3. push_frame(s, f) = note_depth(u, Len(s.frames) + 1)
  BY DEF push_frame
<1> HIDE DEF q, n
<1>4. /\ u \in EngineType /\ Alike(s, u) /\ u.visited = s.visited /\ u.stack = s.stack
      /\ u.frames = q
  BY <1>1, <1>2 DEF EngineType, Alike
<1> HIDE DEF u
<1>5. push_frame(s, f) \in EngineType /\ Same(u, push_frame(s, f))
  BY <1>1, <1>3, <1>4, NoteDepth
<1> DEFINE z == push_frame(s, f)
<1> HIDE DEF z
<1>6. z \in EngineType /\ Same(u, z)
  BY <1>5 DEF z
<1>7. Alike(s, z) /\ z.visited = s.visited /\ z.stack = s.stack /\ z.frames = q
  BY <1>4, <1>6 DEF Same, Alike
<1>8. QED BY <1>6, <1>7 DEF q, z

(* pop_frame drops the innermost frame, and touches no mark. *)
LEMMA PopFrame ==
  ASSUME NEW s \in EngineType, s.frames # <<>>
  PROVE  LET t == pop_frame(s)
         IN  /\ t \in EngineType /\ Alike(s, t) /\ t.visited = s.visited /\ t.stack = s.stack
             /\ t.frames = Front(s.frames)
<1>1. Front(s.frames) \in Seq(FrameType)
  BY TopOf
<1>2. pop_frame(s) = [s EXCEPT !.frames = Front(s.frames)]
  BY DEF pop_frame
<1>3. QED BY <1>1, <1>2, WithFrames

(* f.next++ leaves every frame on its cell. *)
LEMMA Advance ==
  ASSUME NEW s \in EngineType, s.frames # <<>>
  PROVE  LET t == advance(s)
         IN  /\ t \in EngineType /\ Alike(s, t) /\ t.visited = s.visited /\ t.stack = s.stack
             /\ SameCurs(s, t) /\ t.frames # <<>>
<1> DEFINE L == Len(s.frames)
           f == [s.frames[L] EXCEPT !.next = s.frames[L].next + 1]
           q == [s.frames EXCEPT ![L] = f]
<1>1. s.frames \in Seq(FrameType) /\ L \in Nat \ {0} /\ s.frames[L] \in FrameType
  BY TopOf DEF EngineType
<1>2. f \in FrameType /\ f.cur = s.frames[L].cur
  <2>1. s.frames[L].next \in Nat
    BY <1>1 DEF FrameType
  <2>2. s.frames[L].next + 1 \in Nat
    BY <2>1
  <2>3. QED BY <1>1, <2>2 DEF FrameType
<1>3. advance(s) = [s EXCEPT !.frames = q]
  BY DEF advance
<1> HIDE DEF f
<1>4. L \in 1 .. L
  BY <1>1
<1>5. /\ q \in Seq(FrameType) /\ Len(q) = L
      /\ \A j \in 1 .. L : q[j] = IF j = L THEN f ELSE s.frames[j]
  BY <1>1, <1>2, <1>4, ExceptSeq
<1>6. \A j \in 1 .. L : q[j].cur = s.frames[j].cur
  BY <1>2, <1>5
<1> HIDE DEF q
<1>7. LET t == advance(s)
      IN  /\ t \in EngineType /\ Alike(s, t) /\ t.visited = s.visited /\ t.stack = s.stack
          /\ t.frames = q
  BY <1>3, <1>5, WithFrames
<1>8. q # <<>>
  BY <1>1, <1>5, EmptySeq
<1>9. QED BY <1>5, <1>6, <1>7, <1>8 DEF SameCurs

(* What every entry of a word search counts. *)
LEMMA CountAndNote ==
  ASSUME NEW s \in EngineType
  PROVE  LET t == note_depth([s EXCEPT !.expanded_nodes = @ + 1], Len(s.frames) + 1)
         IN  t \in EngineType /\ Same(s, t)
<1> DEFINE u == [s EXCEPT !.expanded_nodes = @ + 1]
           n == Len(s.frames) + 1
<1>1. u \in EngineType /\ Same(s, u)
  BY CountNode
<1>2. n \in Nat
  <2>1. s.frames \in Seq(FrameType)
    BY DEF EngineType
  <2>2. QED BY <2>1
<1> HIDE DEF u, n
<1>3. note_depth(u, n) \in EngineType /\ Same(u, note_depth(u, n))
  BY <1>1, <1>2, NoteDepth
<1>4. Same(s, note_depth(u, n))
  BY <1>1, <1>3 DEF Same, Alike
<1>5. QED BY <1>3, <1>4 DEF u, n

(* enter_trie only counts, or adds a frame with the mark of its cell. *)
LEMMA EnterTrie ==
  ASSUME e \in EngineType, NEW s \in EngineType, NEW c \in Cell, NEW node \in Seq(Int)
  PROVE  LET t == enter_trie(s, c, node)
         IN  t \in EngineType /\ (Same(s, t) \/ Enters(s, t, c))
<1> DEFINE u == note_depth([s EXCEPT !.expanded_nodes = @ + 1], Len(s.frames) + 1)
           nxt == Append(node, e.grid[c])
           f == [Frame(c) EXCEPT !.node = nxt]
           w == [mark_visited(u, c) EXCEPT !.word_found = @ \cup trie_word(nxt),
                                           !.frames = Append(@, f)]
<1>1. u \in EngineType /\ Same(s, u)
  BY CountAndNote
<1>2. nxt \in Seq(Int)
  <2>1. e.grid[c] \in Int
    BY DEF EngineType
  <2>2. QED BY <2>1
<1>3. trie_word(nxt) \in SUBSET Nat
  <2>1. e.words \in Seq(Seq(Int))
    BY DEF EngineType
  <2>2. DOMAIN e.words \subseteq Nat
    BY <2>1
  <2>3. QED BY <2>2 DEF trie_word
<1>4. c \in Nat
  BY MaxCellsIsNat DEF Cell
<1>5. f \in FrameType /\ f.cur = c
  BY <1>2, <1>4, FrameIs
<1>6. enter_trie(s, c, node) = IF nxt \notin Trie THEN u ELSE w
  BY DEF enter_trie
<1> HIDE DEF u, nxt, f
<1> DEFINE m == mark_visited(u, c)
<1> HIDE DEF m
<1>7. /\ m \in EngineType /\ Alike(u, m) /\ m.stack = u.stack /\ m.frames = u.frames
      /\ m.visited = [u.visited EXCEPT ![c] = TRUE]
  BY <1>1, MarkVisited DEF m
<1> DEFINE q == Append(m.frames, f)
           k == m.word_found \cup trie_word(nxt)
<1>8. q \in Seq(FrameType) /\ k \in SUBSET Nat
  <2>1. m.word_found \in SUBSET Nat
    BY <1>7 DEF EngineType
  <2>2. QED BY <1>3, <1>5, <1>7, <2>1, Appended
<1>9. w = [m EXCEPT !.word_found = k, !.frames = q]
  BY DEF m
<1> HIDE DEF q, k, w
<1>10. /\ w \in EngineType /\ Alike(m, w) /\ w.stack = m.stack /\ w.visited = m.visited
       /\ w.frames = q
  BY <1>7, <1>8, <1>9 DEF EngineType, Alike
<1>11. Enters(s, w, c)
  <2>1. Alike(s, w) /\ w.stack = s.stack /\ w.visited = [s.visited EXCEPT ![c] = TRUE]
    BY <1>1, <1>7, <1>10 DEF Same, Alike
  <2>2. w.frames = Append(s.frames, f)
    BY <1>1, <1>7, <1>10 DEF Same, q
  <2>3. QED BY <1>5, <2>1, <2>2 DEF Enters
<1>12. QED BY <1>1, <1>6, <1>10, <1>11

(* enter_match only counts, or adds a frame with the mark of its cell. *)
LEMMA EnterMatch ==
  ASSUME NEW s \in EngineType, NEW c \in Cell, NEW k \in Nat
  PROVE  LET t == enter_match(s, c, k)
         IN  t \in EngineType /\ (Same(s, t) \/ Enters(s, t, c))
<1> DEFINE u == note_depth([s EXCEPT !.expanded_nodes = @ + 1], Len(s.frames) + 1)
           f == [Frame(c) EXCEPT !.char_index = k]
           w == [mark_visited(u, c) EXCEPT !.frames = Append(@, f)]
<1>1. u \in EngineType /\ Same(s, u)
  BY CountAndNote
<1>2. c \in Nat
  BY MaxCellsIsNat DEF Cell
<1>3. f \in FrameType /\ f.cur = c
  BY <1>2, FrameIs
<1>4. enter_match(s, c, k) = IF ~Spelt(c, k) \/ Ends(k) THEN u ELSE w
  BY DEF enter_match
<1> HIDE DEF u, f
<1> DEFINE m == mark_visited(u, c)
<1> HIDE DEF m
<1>5. /\ m \in EngineType /\ Alike(u, m) /\ m.stack = u.stack /\ m.frames = u.frames
      /\ m.visited = [u.visited EXCEPT ![c] = TRUE]
  BY <1>1, MarkVisited DEF m
<1> DEFINE q == Append(m.frames, f)
<1>6. q \in Seq(FrameType)
  BY <1>3, <1>5, Appended
<1>7. w = [m EXCEPT !.frames = q]
  BY DEF m
<1> HIDE DEF q, w
<1>8. /\ w \in EngineType /\ Alike(m, w) /\ w.stack = m.stack /\ w.visited = m.visited
      /\ w.frames = q
  BY <1>5, <1>6, <1>7, WithFrames
<1>9. Enters(s, w, c)
  <2>1. Alike(s, w) /\ w.stack = s.stack /\ w.visited = [s.visited EXCEPT ![c] = TRUE]
    BY <1>1, <1>5, <1>8 DEF Same, Alike
  <2>2. w.frames = Append(s.frames, f)
    BY <1>1, <1>5, <1>8 DEF Same, q
  <2>3. QED BY <1>3, <2>1, <2>2 DEF Enters
<1>10. QED BY <1>1, <1>4, <1>8, <1>9

-----------------------------------------------------------------------------
(* Marks and frames of a search that backtracks. *)

(* Every frame is on a cell of the grid; no two are on the same one. *)
OnCells(s) == \A i \in 1 .. Len(s.frames) : s.frames[i].cur \in Cells(s)

Apart(s) == \A i, j \in 1 .. Len(s.frames) : s.frames[i].cur = s.frames[j].cur => i = j

(* The marked cells are those of the frames, which are all different. *)
Path(s) ==
  /\ OnCells(s) /\ Apart(s)
  /\ \A c \in Cells(s) : s.visited[c] <=> \E i \in 1 .. Len(s.frames) : s.frames[i].cur = c

(* A path is kept while frames and marks are. *)
LEMMA PathAdvances ==
  ASSUME NEW s, NEW t, Path(s), Alike(s, t), t.visited = s.visited, SameCurs(s, t)
  PROVE  Path(t)
<1>1. Cells(t) = Cells(s)
  BY DEF Alike, Cells
<1>2. QED BY <1>1 DEF Path, OnCells, Apart, SameCurs

(* A path grows by an unmarked cell, marked with its frame. *)
LEMMA PathEnters ==
  ASSUME NEW s \in EngineType, NEW t, Sized(s), Path(s), NEW c \in Cells(s), ~s.visited[c],
         Enters(s, t, c)
  PROVE  Path(t)
<1>1. Cells(t) = Cells(s) /\ Cells(s) \subseteq Cell
  <2>1. Cells(t) = Cells(s)
    BY DEF Enters, Alike, Cells
  <2>2. QED BY <2>1, CellsFit DEF Cell
<1>2. PICK f \in FrameType : f.cur = c /\ t.frames = Append(s.frames, f)
  BY DEF Enters
<1> DEFINE n == Len(s.frames)
<1>3. /\ n \in Nat /\ Len(t.frames) = n + 1 /\ t.frames[n + 1].cur = c
      /\ \A i \in 1 .. n : t.frames[i].cur = s.frames[i].cur
  BY <1>2, Appended
<1>4. \A d \in Cells(s) : t.visited[d] <=> s.visited[d] \/ d = c
  BY <1>1 DEF Enters, EngineType
<1>5. \A i \in 1 .. n : s.frames[i].cur \in Cells(s) /\ s.frames[i].cur # c
  BY DEF Path, OnCells
<1> HIDE DEF n
<1>6. 1 .. n + 1 = 1 .. n \cup {n + 1} /\ n + 1 \notin 1 .. n
  BY <1>3
<1>7. OnCells(t)
  BY <1>1, <1>3, <1>5, <1>6 DEF OnCells
<1>8. Apart(t)
  <2>1. \A i, j \in 1 .. n : t.frames[i].cur = t.frames[j].cur => i = j
    BY <1>3 DEF Path, Apart, n
  <2>2. \A i \in 1 .. n : t.frames[i].cur # t.frames[n + 1].cur
    BY <1>3, <1>5
  <2>3. QED BY <1>3, <1>6, <2>1, <2>2 DEF Apart
<1>9. ASSUME NEW d \in Cells(t)
      PROVE  t.visited[d] <=> \E i \in 1 .. Len(t.frames) : t.frames[i].cur = d
  <2>1. s.visited[d] <=> \E i \in 1 .. n : s.frames[i].cur = d
    BY <1>1, <1>9 DEF Path, n
  <2>2. QED BY <1>1, <1>3, <1>4, <1>6, <1>9, <2>1
<1>10. QED BY <1>7, <1>8, <1>9 DEF Path

(* A path shrinks by its last cell, unmarked with its frame. *)
LEMMA PathLeaves ==
  ASSUME NEW s \in EngineType, NEW t, Sized(s), Path(s), s.frames # <<>>, Leaves(s, t)
  PROVE  Path(t)
<1>1. Cells(t) = Cells(s) /\ Cells(s) \subseteq Cell
  <2>1. Cells(t) = Cells(s)
    BY DEF Leaves, Alike, Cells
  <2>2. QED BY <2>1, CellsFit DEF Cell
<1> DEFINE n == Len(s.frames)
           c == s.frames[n].cur
<1>2. /\ n \in Nat \ {0} /\ Len(t.frames) = n - 1 /\ Top(s) = s.frames[n]
      /\ \A i \in 1 .. n - 1 : t.frames[i].cur = s.frames[i].cur
  BY TopOf DEF Leaves
<1>3. n \in 1 .. n /\ \A i \in 1 .. n - 1 : i \in 1 .. n /\ i # n
  BY <1>2
<1>4. /\ \A i \in 1 .. n : s.frames[i].cur \in Cells(s)
      /\ \A i, j \in 1 .. n : s.frames[i].cur = s.frames[j].cur => i = j
  BY DEF Path, OnCells, Apart
<1>5. c \in Cells(s) /\ \A i \in 1 .. n - 1 : s.frames[i].cur # c
  BY <1>3, <1>4
<1>6. \A d \in Cells(s) : t.visited[d] <=> s.visited[d] /\ d # c
  <2>1. s.visited \in [Cell -> BOOLEAN] /\ t.visited = [s.visited EXCEPT ![c] = FALSE]
    BY <1>2 DEF Leaves, EngineType
  <2>2. QED BY <1>1, <2>1
<1>7. \A d \in Cells(s) : s.visited[d] <=> \E i \in 1 .. n : s.frames[i].cur = d
  BY DEF Path
<1>8. 1 .. n = 1 .. n - 1 \cup {n}
  BY <1>2
<1> HIDE DEF n
<1>9. OnCells(t) /\ Apart(t)
  BY <1>1, <1>2, <1>3, <1>4 DEF OnCells, Apart
<1>10. ASSUME NEW d \in Cells(t)
       PROVE  t.visited[d] <=> \E i \in 1 .. Len(t.frames) : t.frames[i].cur = d
  BY <1>1, <1>2, <1>5, <1>6, <1>7, <1>8, <1>10
<1>11. QED BY <1>9, <1>10 DEF Path

-----------------------------------------------------------------------------
(* An array that holds no cell twice holds no more than there are. *)
LEMMA NoMoreThanCells ==
  ASSUME NEW T, IsFiniteSet(T), NEW n \in Nat, NEW a \in [1 .. n -> T],
         \A i, j \in 1 .. n : a[i] = a[j] => i = j
  PROVE  n <= Cardinality(T)
<1>1. a \in Injection(1 .. n, T)
  BY DEF Injection, IsInjective
<1>2. Cardinality(1 .. n) <= Cardinality(T)
  BY <1>1, FS_Injection
<1>3. Cardinality(1 .. n) = IF 1 > n THEN 0 ELSE n - 1 + 1
  BY FS_Interval
<1>4. QED BY <1>2, <1>3

-----------------------------------------------------------------------------
(* The inductive invariant. *)

(* What waits on the stack is marked, and waits once. *)
Spreading(s) ==
  /\ \A i \in 1 .. Len(s.stack) : s.stack[i] \in Cells(s) /\ s.visited[s.stack[i]]
  /\ \A i, j \in 1 .. Len(s.stack) : s.stack[i] = s.stack[j] => i = j

(* The heights of the frames rise. *)
Rising(s) ==
  \A i, j \in 1 .. Len(s.frames) : i < j => s.grid[s.frames[i].cur] < s.grid[s.frames[j].cur]

Spreads == {"islands", "pacific_flood", "atlantic_flood"}
Walks   == {"paths", "increasing_walk", "trie", "match"}

(* What the engine looks like in the loop p. *)
Shape(p, s) ==
  /\ p # "idle" => Sized(s)
  /\ p \in Spreads => Spreading(s)
  /\ p \notin Spreads \cup {"idle"} => s.stack = <<>>
  /\ p = "start" => \A c \in Cells(s) : ~s.visited[c]
  /\ p \in {"trie", "match"} => Path(s)
  /\ p = "paths" => s.frames = <<>> \/ Path(s)
  /\ p = "increasing_walk" => OnCells(s) /\ Rising(s)
  /\ p \notin Walks \cup {"idle"} => s.frames = <<>>

IInv == e \in EngineType /\ Shape(pc, e)

(* Engines alike have the same cells. *)
LEMMA SizedAlike ==
  ASSUME NEW s, NEW t, Alike(s, t), Sized(s)
  PROVE  Sized(t) /\ Cells(t) = Cells(s)
BY DEF Alike, Sized, Cells

(* Unmarked cells and no frames are a path of none. *)
LEMMA PathOfNone ==
  ASSUME NEW s, s.frames = <<>>, \A c \in Cells(s) : ~s.visited[c]
  PROVE  Path(s)
<1>1. Len(s.frames) = 0 /\ 1 .. Len(s.frames) = {}
  OBVIOUS
<1>2. QED BY <1>1 DEF Path, OnCells, Apart

(* What a search finds at its innermost frame. *)
LEMMA AtTop ==
  ASSUME NEW s \in EngineType, Sized(s), OnCells(s), s.frames # <<>>
  PROVE  /\ Top(s).cur \in Cells(s) /\ Top(s).cur \in Cell /\ Top(s).next \in Nat
         /\ Top(s).char_index \in Nat /\ Top(s).node \in Seq(Int) /\ Top(s).best \in Int
         /\ Top(s).walked \in Nat
         /\ \A i \in Nat : i < s.degree /\ HasNeighbor(s, Top(s).cur, i) =>
              Neighbor(s, Top(s).cur, i) \in Cells(s) /\ Neighbor(s, Top(s).cur, i) \in Cell
<1> DEFINE n == Len(s.frames)
<1>1. n \in Nat \ {0} /\ Top(s) = s.frames[n] /\ Top(s) \in FrameType
  BY TopOf
<1>2. n \in 1 .. n
  BY <1>1
<1>3. Top(s).cur \in Cells(s)
  BY <1>1, <1>2 DEF OnCells
<1>4. Cells(s) \subseteq Cell
  BY CellsFit DEF Cell
<1>5. ASSUME NEW i \in Nat, i < s.degree, HasNeighbor(s, Top(s).cur, i)
      PROVE  Neighbor(s, Top(s).cur, i) \in Cells(s)
  <2>1. s.degree \in {4, 8}
    BY DEF EngineType
  <2>2. i \in 0 .. 7
    BY <1>5, <2>1
  <2>3. QED BY <1>3, <1>5, <2>2, NeighborOf
<1>6. QED BY <1>1, <1>3, <1>4, <1>5 DEF FrameType

-----------------------------------------------------------------------------
(* The searches that spread from a stack. *)

(* Popping a cell and pushing others, now marked, that were not. *)
LEMMA SpreadKept ==
  ASSUME NEW s \in EngineType, NEW t \in EngineType, Sized(s), Spreading(s), Alike(s, t),
         NEW m \in 0 .. Len(s.stack), NEW new \in Seq(Cells(s)),
         t.stack = SubSeq(s.stack, 1, m) \o new,
         Unmarked(s, new), Distinct(new), Marks(s, t, new)
  PROVE  Spreading(t)
<1> DEFINE old == SubSeq(s.stack, 1, m)
           l == Len(new)
<1>0. m \in Nat /\ l \in Nat
  <2>1. s.stack \in Seq(Nat)
    BY DEF EngineType
  <2>2. Len(s.stack) \in Nat
    BY <2>1
  <2>3. l \in Nat
    OBVIOUS
  <2> HIDE DEF l
  <2>4. QED BY <2>2, <2>3
<1>1. s.stack \in Seq(Nat) /\ Len(s.stack) \in Nat /\ l \in Nat /\ m \in Nat
  <2>1. s.stack \in Seq(Nat)
    BY DEF EngineType
  <2>2. Len(s.stack) \in Nat
    BY <2>1
  <2>3. QED BY <1>0, <2>1, <2>2
<1>2. \A i \in 1 .. m : i \in 1 .. Len(s.stack) /\ s.stack[i] \in Cells(s)
  BY <1>1 DEF Spreading
<1>3. /\ old \in Seq(Cells(s)) /\ Len(old) = m /\ \A i \in 1 .. m : old[i] = s.stack[i]
  <2>1. \A i \in 1 .. m : s.stack[i] \in Cells(s)
    BY <1>2
  <2>2. 1 \in Int /\ m \in Int
    BY <1>1
  <2>3. /\ old \in Seq(Cells(s)) /\ Len(old) = IF 1 <= m THEN m - 1 + 1 ELSE 0
        /\ \A i \in 1 .. m - 1 + 1 : old[i] = s.stack[1 + i - 1]
    BY <2>1, <2>2, SubSeqProperties
  <2> HIDE DEF old
  <2>4. m - 1 + 1 = m /\ \A i \in 1 .. m : 1 + i - 1 = i
    BY <1>1
  <2>5. Len(old) = m
    BY <1>1, <2>3
  <2>6. QED BY <2>3, <2>4, <2>5
<1> HIDE DEF old
<1>4. /\ t.stack \in Seq(Cells(s)) /\ Len(t.stack) = m + l
      /\ \A i \in 1 .. m + l : t.stack[i] = IF i <= m THEN s.stack[i] ELSE new[i - m]
  <2>1. /\ old \o new \in Seq(Cells(s)) /\ Len(old \o new) = Len(old) + Len(new)
        /\ \A i \in 1 .. Len(old) + Len(new) :
             (old \o new)[i] = IF i <= Len(old) THEN old[i] ELSE new[i - Len(old)]
    <3> DEFINE S == Cells(s)
    <3>1. old \in Seq(S) /\ new \in Seq(S)
      BY <1>3
    <3> HIDE DEF S
    <3>2. /\ old \o new \in Seq(S) /\ Len(old \o new) = Len(old) + Len(new)
          /\ \A i \in 1 .. Len(old) + Len(new) :
               (old \o new)[i] = IF i <= Len(old) THEN old[i] ELSE new[i - Len(old)]
      BY <3>1, ConcatProperties
    <3>3. QED BY <3>2 DEF S
  <2>2. t.stack = old \o new
    BY DEF old
  <2>3. \A i \in 1 .. m + l : i <= m => i \in 1 .. m
    BY <1>1
  <2>4. QED BY <1>3, <2>1, <2>2, <2>3
<1>5. Cells(t) = Cells(s)
  BY SizedAlike
<1> HIDE DEF l
<1>6. \A i \in 1 .. m + l : (i <= m /\ i \in 1 .. m) \/ (~(i <= m) /\ i - m \in 1 .. l)
  <2>1. SUFFICES ASSUME NEW i \in 1 .. m + l
                 PROVE  (i <= m /\ i \in 1 .. m) \/ (~(i <= m) /\ i - m \in 1 .. l)
    OBVIOUS
  <2>2. i \in Int /\ 1 <= i /\ i <= m + l
    BY <1>0
  <2>3. CASE i <= m
    BY <1>0, <2>2, <2>3
  <2>4. CASE ~(i <= m)
    BY <1>0, <2>2, <2>4
  <2>5. QED BY <2>3, <2>4
<1>7. ASSUME NEW i \in 1 .. Len(t.stack)
      PROVE  t.stack[i] \in Cells(t) /\ t.visited[t.stack[i]]
  <2>1. i \in 1 .. m + l
    BY <1>4
  <2>2. CASE i <= m
    <3>1. t.stack[i] = s.stack[i] /\ i \in 1 .. m
      BY <1>4, <1>6, <2>1, <2>2
    <3>2. s.visited[s.stack[i]] /\ s.stack[i] \in Cells(s)
      BY <1>2, <3>1 DEF Spreading
    <3>3. t.visited[s.stack[i]]
      <4>1. Cells(s) \subseteq Cell
        BY CellsFit DEF Cell
      <4>2. QED BY <3>2, <4>1 DEF Marks
    <3>4. QED BY <1>5, <3>1, <3>2, <3>3
  <2>3. CASE ~(i <= m)
    <3>1. t.stack[i] = new[i - m] /\ i - m \in 1 .. l
      BY <1>4, <1>6, <2>1, <2>3
    <3>2. new[i - m] \in Cells(s)
      BY <3>1 DEF l
    <3>3. t.visited[new[i - m]]
      <4>1. Cells(s) \subseteq Cell
        BY CellsFit DEF Cell
      <4>2. QED BY <3>1, <3>2, <4>1 DEF l, Marks
    <3>4. QED BY <1>5, <3>1, <3>2, <3>3
  <2>4. QED BY <2>2, <2>3
<1>8. ASSUME NEW i \in 1 .. Len(t.stack), NEW j \in 1 .. Len(t.stack), t.stack[i] = t.stack[j]
      PROVE  i = j
  <2>1. i \in 1 .. m + l /\ j \in 1 .. m + l
    BY <1>4
  <2>2. \A h, k \in 1 .. m + l : h <= m /\ ~(k <= m) => t.stack[h] # t.stack[k]
    <3>1. SUFFICES ASSUME NEW h \in 1 .. m + l, NEW k \in 1 .. m + l, h <= m, ~(k <= m)
                   PROVE  t.stack[h] # t.stack[k]
      OBVIOUS
    <3>2. t.stack[h] = s.stack[h] /\ h \in 1 .. m
      BY <1>4, <1>6, <3>1
    <3>3. t.stack[k] = new[k - m] /\ k - m \in 1 .. l
      BY <1>4, <1>6, <3>1
    <3>4. s.visited[s.stack[h]]
      BY <1>2, <3>2 DEF Spreading
    <3>5. ~s.visited[new[k - m]]
      BY <3>3 DEF l, Unmarked
    <3>6. QED BY <3>2, <3>3, <3>4, <3>5
  <2>3. CASE i <= m /\ j <= m
    <3>1. i \in 1 .. m /\ j \in 1 .. m /\ s.stack[i] = s.stack[j]
      BY <1>4, <1>6, <1>8, <2>1, <2>3
    <3>2. QED BY <1>2, <3>1 DEF Spreading
  <2>4. CASE ~(i <= m) /\ ~(j <= m)
    <3>1. i - m \in 1 .. l /\ j - m \in 1 .. l /\ new[i - m] = new[j - m]
      BY <1>4, <1>6, <1>8, <2>1, <2>4
    <3>2. i - m = j - m
      BY <3>1 DEF l, Distinct
    <3>3. QED BY <1>1, <2>1, <3>2
  <2>5. QED BY <1>8, <2>1, <2>2, <2>3, <2>4
<1>9. QED BY <1>7, <1>8 DEF Spreading

(* The neighbours in a set of directions, as they are pushed. *)
LEMMA TowardOf ==
  ASSUME NEW s, Sized(s), NEW c \in Cells(s), NEW dirs \in SUBSET (0 .. 7),
         \A i \in dirs : HasNeighbor(s, c, i) /\ ~s.visited[Neighbor(s, c, i)]
  PROVE  /\ Toward(s, c, dirs) \in Seq(Cells(s))
         /\ Unmarked(s, Toward(s, c, dirs)) /\ Distinct(Toward(s, c, dirs))
<1> DEFINE order == InOrder(dirs)
           to == Toward(s, c, dirs)
           n == Len(order)
           S == Cells(s)
<1>1. dirs \in SUBSET Nat /\ IsFiniteSet(dirs)
  <2>1. 0 \in Int /\ 7 \in Int /\ 0 .. 7 \subseteq Nat
    OBVIOUS
  <2>2. IsFiniteSet(0 .. 7)
    BY <2>1, FS_Interval
  <2>3. IsFiniteSet(dirs)
    BY <2>2, FS_Subset
  <2>4. QED BY <2>1, <2>3
<1>2. /\ order \in Seq(dirs)
      /\ \A k, l \in 1 .. n : order[k] = order[l] => k = l
  BY <1>1, InOrderOf
<1> HIDE DEF order
<1>3. n \in Nat /\ DOMAIN order = 1 .. n /\ \A k \in 1 .. n : order[k] \in dirs
  BY <1>2
<1>4. to = [k \in 1 .. n |-> Neighbor(s, c, order[k])]
  BY <1>3 DEF Toward, order
<1>5. ASSUME NEW k \in 1 .. n
      PROVE  /\ Neighbor(s, c, order[k]) \in S /\ ~s.visited[Neighbor(s, c, order[k])]
             /\ \A l \in 1 .. n : Neighbor(s, c, order[k]) = Neighbor(s, c, order[l]) => k = l
  <2>1. order[k] \in dirs /\ order[k] \in 0 .. 7 /\ HasNeighbor(s, c, order[k])
    BY <1>3
  <2>2. /\ Neighbor(s, c, order[k]) \in S
        /\ \A j \in 0 .. 7 : HasNeighbor(s, c, j) /\ Neighbor(s, c, order[k]) = Neighbor(s, c, j)
                               => order[k] = j
    BY <2>1, NeighborOf
  <2>3. ASSUME NEW l \in 1 .. n, Neighbor(s, c, order[k]) = Neighbor(s, c, order[l])
        PROVE  k = l
    <3>1. order[l] \in 0 .. 7 /\ HasNeighbor(s, c, order[l])
      BY <1>3
    <3>2. order[k] = order[l]
      BY <2>2, <2>3, <3>1
    <3>3. QED BY <1>2, <3>2
  <2>4. QED BY <2>1, <2>2, <2>3
<1>6. \A k \in 1 .. n : to[k] = Neighbor(s, c, order[k])
  BY <1>4
<1>7. to \in [1 .. n -> S]
  BY <1>4, <1>5
<1> HIDE DEF to, n, S
<1>8. to \in Seq(S) /\ Len(to) = n
  BY <1>3, <1>7
<1>9. Unmarked(s, to) /\ Distinct(to)
  BY <1>5, <1>6, <1>8 DEF Unmarked, Distinct
<1>10. QED BY <1>8, <1>9 DEF to, S

(* Taking a cell from the stack and pushing its unmarked neighbours. *)
LEMMA SpreadStep ==
  ASSUME NEW s \in EngineType, Sized(s), Spreading(s), s.stack # <<>>,
         NEW dirs \in SUBSET (0 .. 7),
         \A i \in dirs : /\ HasNeighbor(s, Last(s.stack), i)
                        /\ ~s.visited[Neighbor(s, Last(s.stack), i)],
         NEW t, t = visit_all([s EXCEPT !.stack = Front(@), !.expanded_nodes = @ + 1],
                              Toward(s, Last(s.stack), dirs))
  PROVE  t \in EngineType /\ Alike(s, t) /\ t.frames = s.frames /\ Spreading(t)
<1> DEFINE n == Len(s.stack)
           c == Last(s.stack)
           new == Toward(s, c, dirs)
           u == [s EXCEPT !.stack = Front(s.stack), !.expanded_nodes = s.expanded_nodes + 1]
<1>1. s.stack \in Seq(Nat) /\ n \in Nat \ {0} /\ c = s.stack[n] /\ Front(s.stack) = SubSeq(s.stack, 1, n - 1)
  <2>1. s.stack \in Seq(Nat)
    BY DEF EngineType
  <2>2. QED BY <2>1, EmptySeq DEF Last, Front
<1>2. n \in 1 .. n /\ n - 1 \in 0 .. n
  BY <1>1
<1>3. c \in Cells(s)
  BY <1>1, <1>2 DEF Spreading
<1>4. new \in Seq(Cells(s)) /\ Unmarked(s, new) /\ Distinct(new)
  BY <1>3, TowardOf
<1>5. Cells(s) \subseteq Cell /\ Cells(s) \subseteq Nat
  BY CellsFit DEF Cell
<1>6. new \in Seq(Nat)
  BY <1>4, <1>5, SeqMonotonic
<1>7. u \in EngineType /\ Alike(s, u) /\ u.visited = s.visited /\ u.frames = s.frames
      /\ u.stack = Front(s.stack)
  <2>1. s.expanded_nodes \in Nat
    BY DEF EngineType
  <2>2. s.expanded_nodes + 1 \in Nat
    BY <2>1
  <2>3. Front(s.stack) \in Seq(Nat)
    <3>1. 1 \in Int /\ n - 1 \in Int /\ \A i \in 1 .. n - 1 : i \in 1 .. n
      BY <1>1
    <3>2. \A i \in 1 .. n : s.stack[i] \in Nat
      <4>1. s.stack \in Seq(Nat)
        BY <1>1
      <4>2. QED BY <4>1, ElementOfSeq
    <3>3. SubSeq(s.stack, 1, n - 1) \in Seq(Nat)
      BY <3>1, <3>2, SubSeqProperties
    <3>4. QED BY <1>1, <3>3
  <2> DEFINE k == s.expanded_nodes + 1
             q == Front(s.stack)
  <2> HIDE DEF k, q
  <2>4. k \in Nat /\ q \in Seq(Nat) /\ u = [s EXCEPT !.stack = q, !.expanded_nodes = k]
    BY <2>2, <2>3 DEF k, q
  <2> HIDE DEF u
  <2>5. u \in EngineType /\ Alike(s, u) /\ u.visited = s.visited /\ u.frames = s.frames /\ u.stack = q
    BY <2>4 DEF EngineType, Alike
  <2>6. QED BY <2>5 DEF q
<1>8. t = visit_all(u, new)
  OBVIOUS
<1> HIDE DEF u, new, n, c
<1>9. t \in EngineType /\ Alike(u, t) /\ t.frames = u.frames /\ t.stack = u.stack \o new /\ Marks(u, t, new)
  BY <1>6, <1>7, <1>8, VisitAll
<1>10. Alike(s, t)
  BY <1>7, <1>9 DEF Alike
<1>11. t.stack = SubSeq(s.stack, 1, n - 1) \o new
  BY <1>1, <1>7, <1>9
<1>12. Marks(s, t, new)
  BY <1>7, <1>9 DEF Marks
<1>13. n - 1 \in 0 .. Len(s.stack)
  BY <1>2 DEF n
<1>14. Spreading(t)
  BY <1>4, <1>9, <1>10, <1>11, <1>12, <1>13, SpreadKept
<1>15. QED BY <1>7, <1>9, <1>10, <1>14

(* A seed on an empty stack. *)
LEMMA SeedStep ==
  ASSUME NEW s \in EngineType, Sized(s), s.stack = <<>>, NEW c \in Cells(s),
         NEW t, t = mark_visited(push(s, c), c)
  PROVE  t \in EngineType /\ Alike(s, t) /\ t.frames = s.frames /\ Spreading(t)
<1>1. c \in Cell /\ c \in Nat
  BY CellsFit DEF Cell
<1> DEFINE u == push(s, c)
<1>2. /\ u \in EngineType /\ Alike(s, u) /\ u.visited = s.visited /\ u.frames = s.frames
      /\ u.stack = Append(s.stack, c)
  BY <1>1, Push
<1> HIDE DEF u
<1>3. /\ t \in EngineType /\ Alike(u, t) /\ t.stack = u.stack /\ t.frames = u.frames
      /\ t.visited = [u.visited EXCEPT ![c] = TRUE]
  BY <1>1, <1>2, MarkVisited DEF u
<1>4. Alike(s, t) /\ t.frames = s.frames
  BY <1>2, <1>3 DEF Alike
<1>5. t.stack = <<c>> /\ Len(t.stack) = 1 /\ t.stack[1] = c
  BY <1>2, <1>3
<1>6. t.visited[c]
  BY <1>1, <1>2, <1>3 DEF EngineType
<1>7. Cells(t) = Cells(s)
  BY <1>4, SizedAlike
<1>8. \A i \in 1 .. Len(t.stack) : i = 1
  BY <1>5
<1>9. QED BY <1>3, <1>4, <1>5, <1>6, <1>7, <1>8 DEF Spreading

(* The loop over the sources of the islands. *)
LEMMA IslandsSourceKeeps == IInv /\ IslandsSource => IInv'
<1> SUFFICES ASSUME IInv, IslandsSource PROVE IInv'
  OBVIOUS
<1>1. /\ e \in EngineType /\ Sized(e) /\ Spreading(e) /\ e.frames = <<>> /\ e.stack = <<>>
      /\ pc = "islands" /\ pc' = "islands" /\ scan \in Cells(e)
  BY DEF IInv, Shape, Spreads, Walks, IslandsSource
<1>2. CASE e' = e
  BY <1>1, <1>2 DEF IInv, Shape, Spreads, Walks
<1>3. CASE e' = mark_visited(push(e, scan), scan)
  <2>1. e' \in EngineType /\ Alike(e, e') /\ e'.frames = e.frames /\ Spreading(e')
    BY <1>1, <1>3, SeedStep
  <2>2. Sized(e')
    BY <1>1, <2>1, SizedAlike
  <2>3. QED BY <1>1, <2>1, <2>2 DEF IInv, Shape, Spreads, Walks
<1>4. QED BY <1>2, <1>3 DEF IslandsSource

(* One step of a search that spreads, whichever neighbours it accepts. *)
LEMMA SpreadKeeps ==
  ASSUME IInv, pc \in Spreads, pc' = pc, e.stack # <<>>,
         NEW dirs \in SUBSET (0 .. e.degree - 1),
         \A i \in dirs : /\ HasNeighbor(e, Last(e.stack), i)
                        /\ ~e.visited[Neighbor(e, Last(e.stack), i)],
         e' = visit_all([e EXCEPT !.stack = Front(@), !.expanded_nodes = @ + 1],
                        Toward(e, Last(e.stack), dirs))
  PROVE  IInv'
<1>1. e \in EngineType /\ Sized(e) /\ Spreading(e) /\ e.frames = <<>>
  BY DEF IInv, Shape, Spreads, Walks
<1>2. e.degree \in {4, 8}
  BY <1>1 DEF EngineType
<1>3. dirs \in SUBSET (0 .. 7)
  BY <1>2
<1>4. e' \in EngineType /\ Alike(e, e') /\ e'.frames = e.frames /\ Spreading(e')
  BY <1>1, <1>3, SpreadStep
<1>5. Sized(e')
  BY <1>1, <1>4, SizedAlike
<1>6. QED BY <1>1, <1>4, <1>5 DEF IInv, Shape, Spreads, Walks

(* The loop of flood, from an island. *)
LEMMA IslandsSpreadKeeps == IInv /\ IslandsSpread => IInv'
<1> SUFFICES ASSUME IInv, IslandsSpread PROVE IInv'
  OBVIOUS
<1> DEFINE dirs == {i \in 0 .. e.degree - 1 :
                      /\ HasNeighbor(e, Last(e.stack), i)
                      /\ LET n == Neighbor(e, Last(e.stack), i)
                         IN  ~e.visited[n] /\ e.grid[n] # 0}
<1>1. e' = visit_all([e EXCEPT !.stack = Front(@), !.expanded_nodes = @ + 1],
                     Toward(e, Last(e.stack), dirs))
  BY DEF IslandsSpread, Spread, Fresh
<1>2. pc \in Spreads /\ pc' = pc /\ e.stack # <<>>
  BY DEF IslandsSpread, Spreads
<1>3. /\ dirs \in SUBSET (0 .. e.degree - 1)
      /\ \A i \in dirs : /\ HasNeighbor(e, Last(e.stack), i)
                        /\ ~e.visited[Neighbor(e, Last(e.stack), i)]
  OBVIOUS
<1> HIDE DEF dirs
<1>4. QED BY <1>1, <1>2, <1>3, SpreadKeeps

(* The loop of flood, from an ocean. *)
LEMMA FloodSpreadKeeps == IInv /\ FloodSpread => IInv'
<1> SUFFICES ASSUME IInv, FloodSpread PROVE IInv'
  OBVIOUS
<1> DEFINE dirs == {i \in 0 .. e.degree - 1 :
                      /\ HasNeighbor(e, Last(e.stack), i)
                      /\ LET n == Neighbor(e, Last(e.stack), i)
                         IN  ~e.visited[n] /\ e.grid[n] >= e.grid[Last(e.stack)]}
<1>1. e' = visit_all([e EXCEPT !.stack = Front(@), !.expanded_nodes = @ + 1],
                     Toward(e, Last(e.stack), dirs))
  BY DEF FloodSpread, Spread, Fresh
<1>2. pc \in Spreads /\ pc' = pc /\ e.stack # <<>>
  BY DEF FloodSpread, Spreads
<1>3. /\ dirs \in SUBSET (0 .. e.degree - 1)
      /\ \A i \in dirs : /\ HasNeighbor(e, Last(e.stack), i)
                        /\ ~e.visited[Neighbor(e, Last(e.stack), i)]
  OBVIOUS
<1> HIDE DEF dirs
<1>4. QED BY <1>1, <1>2, <1>3, SpreadKeeps

(* The border an ocean starts from, each cell of it once. *)
LEMMA FloodSourcesKeeps == IInv /\ FloodSources => IInv'
<1> SUFFICES ASSUME IInv, FloodSources PROVE IInv'
  OBVIOUS
<1> DEFINE clean == [clear_visited(e) EXCEPT !.stack = <<>>]
           S == {c \in Coast(e, pc) : ~clean.visited[c]}
           new == InOrder(S)
<1>1. e \in EngineType /\ Sized(e) /\ e.frames = <<>> /\ pc' \in {"pacific_flood", "atlantic_flood"}
  BY DEF IInv, Shape, Spreads, Walks, FloodSources
<1>2. e' = visit_all(clean, new)
  BY DEF FloodSources
<1>3. clean \in EngineType /\ Alike(e, clean) /\ clean.stack = <<>> /\ clean.frames = <<>>
  <2>1. <<>> \in Seq(Nat)
    OBVIOUS
  <2> DEFINE u == clear_visited(e)
  <2>2. u \in EngineType /\ Alike(e, u) /\ u.frames = e.frames
    BY <1>1, ClearVisited
  <2> HIDE DEF u
  <2>3. LET z == [u EXCEPT !.stack = <<>>]
        IN  z \in EngineType /\ Alike(u, z) /\ z.frames = u.frames /\ z.stack = <<>>
    BY <2>1, <2>2, WithStack
  <2>4. QED BY <1>1, <2>2, <2>3 DEF Alike, u
<1>4. Cells(clean) = Cells(e) /\ Sized(clean)
  BY <1>1, <1>3, SizedAlike
<1>5. S \in SUBSET Nat /\ IsFiniteSet(S) /\ S \in SUBSET Cells(e)
  <2>1. Cells(e) \subseteq Nat /\ IsFiniteSet(Cells(e))
    BY <1>1, CellsFit
  <2>2. S \in SUBSET Cells(e)
    BY DEF Coast
  <2> HIDE DEF S
  <2>3. QED BY <2>1, <2>2, FS_Subset
<1>6. new \in Seq(S) /\ Distinct(new)
  BY <1>5, InOrderOf DEF Distinct
<1>7. new \in Seq(Cells(e)) /\ new \in Seq(Nat)
  BY <1>5, <1>6, SeqMonotonic
<1>8. Unmarked(clean, new)
  <2>1. \A c \in S : ~clean.visited[c]
    OBVIOUS
  <2> HIDE DEF clean, S, new
  <2>2. QED BY <1>6, <2>1 DEF Unmarked
<1> HIDE DEF clean, S, new
<1>9. e' \in EngineType /\ Alike(clean, e') /\ e'.frames = <<>> /\ e'.stack = <<>> \o new /\ Marks(clean, e', new)
  BY <1>2, <1>3, <1>7, VisitAll
<1>10. Spreading(clean)
  BY <1>3 DEF Spreading
<1>11. 0 \in 0 .. Len(clean.stack) /\ e'.stack = SubSeq(clean.stack, 1, 0) \o new
  <2>1. SubSeq(<<>>, 1, 0) = <<>> /\ 0 \in 0 .. Len(<<>>)
    OBVIOUS
  <2>2. QED BY <1>3, <1>9, <2>1
<1>12. Spreading(e')
  BY <1>3, <1>4, <1>6, <1>7, <1>8, <1>9, <1>10, <1>11, SpreadKept
<1>13. Sized(e')
  BY <1>3, <1>4, <1>9, SizedAlike
<1>14. QED BY <1>1, <1>9, <1>12, <1>13 DEF IInv, Shape, Spreads, Walks

(* The cells the first ocean reached are put aside. *)
LEMMA KeepPacificKeeps == IInv /\ KeepPacific => IInv'
<1> SUFFICES ASSUME IInv, KeepPacific PROVE IInv'
  OBVIOUS
<1> DEFINE r == [c \in DOMAIN e.reachable |-> IF c \in Cells(e) THEN e.visited[c] ELSE e.reachable[c]]
<1>1. e \in EngineType /\ Sized(e) /\ e.frames = <<>> /\ e.stack = <<>> /\ pc' = "atlantic"
  BY DEF IInv, Shape, Spreads, Walks, KeepPacific
<1>2. r \in [Cell -> BOOLEAN]
  BY <1>1, Zenon DEF EngineType
<1>3. e' = [e EXCEPT !.reachable = r]
  BY DEF KeepPacific
<1> HIDE DEF r
<1>4. e' \in EngineType /\ Alike(e, e') /\ e'.frames = <<>> /\ e'.stack = <<>>
  BY <1>1, <1>2, <1>3 DEF EngineType, Alike
<1>5. Sized(e')
  BY <1>1, <1>4, SizedAlike
<1>6. QED BY <1>1, <1>4, <1>5 DEF IInv, Shape, Spreads, Walks

-----------------------------------------------------------------------------
(* The searches that backtrack. *)

(* The invariant of a search with nothing on the stack is about its path. *)
LEMMA PathShape ==
  ASSUME NEW s, NEW t, Alike(s, t), Sized(s), t.stack = <<>>, Path(t),
         NEW p \in {"paths", "trie", "match"}
  PROVE  Shape(p, t)
<1>1. Sized(t)
  BY SizedAlike
<1>2. QED BY <1>1 DEF Shape, Spreads, Walks

(* What the invariant says of such a search. *)
LEMMA OnPath ==
  ASSUME IInv, pc \in {"paths", "trie", "match"}, pc = "paths" => e.frames # <<>>
  PROVE  e \in EngineType /\ Sized(e) /\ e.stack = <<>> /\ Path(e) /\ OnCells(e)
BY DEF IInv, Shape, Spreads, Walks, Path

(* A frame that moves on, or a cell entered from it. *)
LEMMA PathGoesOn ==
  ASSUME IInv, pc \in {"paths", "trie", "match"}, pc' = pc, e.frames # <<>>, MoreDirs,
         NEW u, u = advance(e), NEW n, n = Neighbor(e, cur, Top(e).next),
         \/ e' = u
         \/ /\ HasNeighbor(e, cur, Top(e).next) /\ ~e.visited[n]
            /\ e' \in EngineType /\ (Same(u, e') \/ Enters(u, e', n))
  PROVE  IInv'
<1>1. e \in EngineType /\ Sized(e) /\ e.stack = <<>> /\ Path(e) /\ OnCells(e)
  BY OnPath
<1>2. /\ u \in EngineType /\ Alike(e, u) /\ u.visited = e.visited /\ u.stack = <<>>
      /\ SameCurs(e, u) /\ u.frames # <<>>
  BY <1>1, Advance
<1>3. Path(u) /\ Sized(u) /\ Cells(u) = Cells(e)
  BY <1>1, <1>2, PathAdvances, SizedAlike
<1>4. CASE e' = u
  <2>1. Shape(pc', e')
    BY <1>1, <1>2, <1>3, <1>4, PathShape
  <2>2. QED BY <1>2, <1>4, <2>1 DEF IInv
<1>5. CASE e' \in EngineType /\ Same(u, e')
  <2>1. SameCurs(u, e')
    BY <1>5 DEF Same, SameCurs
  <2>2. Path(e')
    BY <1>3, <1>5, <2>1, PathAdvances DEF Same
  <2>3. Alike(u, e') /\ e'.stack = <<>>
    BY <1>2, <1>5 DEF Same
  <2>4. Shape(pc', e')
    BY <1>3, <2>2, <2>3, PathShape
  <2>5. QED BY <1>5, <2>4 DEF IInv
<1>6. CASE /\ HasNeighbor(e, cur, Top(e).next) /\ ~e.visited[n]
           /\ e' \in EngineType /\ Enters(u, e', n)
  <2>1. n \in Cells(e)
    <3>1. /\ Top(e).next \in Nat
          /\ \A i \in Nat : i < e.degree /\ HasNeighbor(e, Top(e).cur, i) =>
                              Neighbor(e, Top(e).cur, i) \in Cells(e)
      BY <1>1, AtTop
    <3>2. QED BY <1>6, <3>1 DEF MoreDirs, cur
  <2>2. Path(e')
    BY <1>2, <1>3, <1>6, <2>1, PathEnters
  <2>3. Alike(u, e') /\ e'.stack = <<>>
    BY <1>2, <1>6 DEF Enters
  <2>4. Shape(pc', e')
    BY <1>3, <2>2, <2>3, PathShape
  <2>5. QED BY <1>6, <2>4 DEF IInv
<1>7. QED BY <1>4, <1>5, <1>6

(* A cell entered with no frame under it. *)
LEMMA PathBegins ==
  ASSUME IInv, pc \in {"trie", "match"}, pc' = pc, e.frames = <<>>, NEW c \in Cells(e),
         e' \in EngineType, Same(e, e') \/ Enters(e, e', c)
  PROVE  IInv'
<1>1. e \in EngineType /\ Sized(e) /\ e.stack = <<>> /\ Path(e)
  BY OnPath
<1>2. CASE Same(e, e')
  <2>1. SameCurs(e, e')
    BY <1>2 DEF Same, SameCurs
  <2>2. Path(e')
    BY <1>1, <1>2, <2>1, PathAdvances DEF Same
  <2>3. Shape(pc', e')
    BY <1>1, <1>2, <2>2, PathShape DEF Same
  <2>4. QED BY <2>3 DEF IInv
<1>3. CASE Enters(e, e', c)
  <2>1. ~e.visited[c]
    <3>1. Len(e.frames) = 0 /\ 1 .. Len(e.frames) = {}
      OBVIOUS
    <3>2. QED BY <1>1, <3>1 DEF Path
  <2>2. Path(e')
    BY <1>1, <1>3, <2>1, PathEnters
  <2>3. Shape(pc', e')
    BY <1>1, <1>3, <2>2, PathShape DEF Enters
  <2>4. QED BY <2>3 DEF IInv
<1>4. QED BY <1>2, <1>3

(* A frame removed, and its cell unmarked. *)
LEMMA PathGoesBack ==
  ASSUME IInv, pc \in {"paths", "trie", "match"}, pc' = pc, e.frames # <<>>,
         e' \in EngineType, Leaves(e, e')
  PROVE  IInv'
<1>1. e \in EngineType /\ Sized(e) /\ e.stack = <<>> /\ Path(e)
  BY OnPath
<1>2. Path(e')
  BY <1>1, PathLeaves
<1>3. Shape(pc', e')
  BY <1>1, <1>2, PathShape DEF Leaves
<1>4. QED BY <1>3 DEF IInv

(* A marked cell with its frame, and both undone. *)
LEMMA EnterFrame ==
  ASSUME NEW s \in EngineType, NEW c \in Cell, NEW f \in FrameType, f.cur = c,
         NEW t, t = push_frame(mark_visited(s, c), f)
  PROVE  t \in EngineType /\ Enters(s, t, c)
<1> DEFINE m == mark_visited(s, c)
<1>1. /\ m \in EngineType /\ Alike(s, m) /\ m.stack = s.stack /\ m.frames = s.frames
      /\ m.visited = [s.visited EXCEPT ![c] = TRUE]
  BY MarkVisited
<1>2. t = push_frame(m, f)
  OBVIOUS
<1> HIDE DEF m
<1>3. /\ t \in EngineType /\ Alike(m, t) /\ t.visited = m.visited /\ t.stack = m.stack
      /\ t.frames = Append(m.frames, f)
  BY <1>1, <1>2, PushFrame
<1>4. Alike(s, t)
  BY <1>1, <1>3 DEF Alike
<1>5. QED BY <1>1, <1>3, <1>4 DEF Enters

(* unmark_visited and pop_frame, in either order, undo one entry. *)
LEMMA LeaveFrame ==
  ASSUME NEW s \in EngineType, Sized(s), OnCells(s), s.frames # <<>>, NEW t,
         \/ t = pop_frame(unmark_visited(s, Top(s).cur))
         \/ t = unmark_visited(pop_frame(s), Top(s).cur)
  PROVE  t \in EngineType /\ Leaves(s, t)
<1> DEFINE c == Top(s).cur
<1>1. c \in Cell
  BY AtTop
<1> HIDE DEF c
<1>2. CASE t = pop_frame(unmark_visited(s, c))
  <2> DEFINE m == unmark_visited(s, c)
  <2>1. /\ m \in EngineType /\ Alike(s, m) /\ m.stack = s.stack /\ m.frames = s.frames
        /\ m.visited = [s.visited EXCEPT ![c] = FALSE]
    BY <1>1, UnmarkVisited
  <2>2. t = pop_frame(m)
    BY <1>2
  <2> HIDE DEF m
  <2>3. /\ t \in EngineType /\ Alike(m, t) /\ t.visited = m.visited /\ t.stack = m.stack
        /\ t.frames = Front(m.frames)
    BY <2>1, <2>2, PopFrame
  <2>4. Alike(s, t)
    BY <2>1, <2>3 DEF Alike
  <2>5. QED BY <2>1, <2>3, <2>4 DEF Leaves, c
<1>3. CASE t = unmark_visited(pop_frame(s), c)
  <2> DEFINE m == pop_frame(s)
  <2>1. /\ m \in EngineType /\ Alike(s, m) /\ m.visited = s.visited /\ m.stack = s.stack
        /\ m.frames = Front(s.frames)
    BY PopFrame
  <2>2. t = unmark_visited(m, c)
    BY <1>3
  <2> HIDE DEF m
  <2>3. /\ t \in EngineType /\ Alike(m, t) /\ t.stack = m.stack /\ t.frames = m.frames
        /\ t.visited = [m.visited EXCEPT ![c] = FALSE]
    BY <1>1, <2>1, <2>2, UnmarkVisited
  <2>4. Alike(s, t)
    BY <2>1, <2>3 DEF Alike
  <2>5. QED BY <2>1, <2>3, <2>4 DEF Leaves, c
<1>4. QED BY <1>2, <1>3 DEF c

(* A word search with a trie begins at a cell. *)
LEMMA TrieSourceKeeps == IInv /\ TrieSource => IInv'
<1> SUFFICES ASSUME IInv, TrieSource PROVE IInv'
  OBVIOUS
<1>1. pc = "trie" /\ pc' = pc /\ e.frames = <<>> /\ scan \in Cells(e) /\ e' = enter_trie(e, scan, <<>>)
  BY DEF TrieSource, Walking
<1>2. e \in EngineType /\ Sized(e)
  BY <1>1, OnPath
<1>3. scan \in Cell /\ <<>> \in Seq(Int)
  BY <1>1, <1>2, CellsFit DEF Cell
<1>4. e' \in EngineType /\ (Same(e, e') \/ Enters(e, e', scan))
  BY <1>1, <1>2, <1>3, EnterTrie
<1>5. QED BY <1>1, <1>4, PathBegins

(* It tries a direction. *)
LEMMA TrieStepKeeps == IInv /\ TrieStep => IInv'
<1> SUFFICES ASSUME IInv, TrieStep PROVE IInv'
  OBVIOUS
<1> DEFINE u == advance(e)
           n == Neighbor(e, cur, Top(e).next)
<1>1. pc = "trie" /\ pc' = pc /\ e.frames # <<>> /\ MoreDirs
  BY DEF TrieStep, Walking
<1>2. \/ e' = u
      \/ /\ HasNeighbor(e, cur, Top(e).next) /\ ~e.visited[n]
         /\ e' = enter_trie(u, n, Top(e).node)
  BY DEF TrieStep, TryNext, Free
<1>3. e \in EngineType /\ Sized(e) /\ OnCells(e)
  BY <1>1, OnPath
<1>4. u \in EngineType
  BY <1>1, <1>3, Advance
<1>5. Top(e).node \in Seq(Int) /\ (HasNeighbor(e, cur, Top(e).next) => n \in Cell)
  BY <1>1, <1>3, AtTop DEF MoreDirs, cur
<1> HIDE DEF n
<1>6. CASE e' = u
  BY <1>1, <1>6, PathGoesOn DEF n
<1>7. CASE /\ HasNeighbor(e, cur, Top(e).next) /\ ~e.visited[n]
           /\ e' = enter_trie(u, n, Top(e).node)
  <2> HIDE DEF u
  <2>1. e' \in EngineType /\ (Same(u, e') \/ Enters(u, e', n))
    BY <1>3, <1>4, <1>5, <1>7, EnterTrie
  <2>2. u = advance(e) /\ n = Neighbor(e, cur, Top(e).next)
    BY DEF u, n
  <2>3. QED BY <1>1, <1>7, <2>1, <2>2, PathGoesOn
<1>8. QED BY <1>2, <1>6, <1>7

(* It goes back. *)
LEMMA TrieBackKeeps == IInv /\ TrieBack => IInv'
<1> SUFFICES ASSUME IInv, TrieBack PROVE IInv'
  OBVIOUS
<1>1. pc = "trie" /\ pc' = pc /\ e.frames # <<>> /\ e' = pop_frame(unmark_visited(e, Top(e).cur))
  BY DEF TrieBack, Walking, cur
<1>2. e \in EngineType /\ Sized(e) /\ OnCells(e)
  BY <1>1, OnPath
<1>3. e' \in EngineType /\ Leaves(e, e')
  BY <1>1, <1>2, LeaveFrame
<1>4. QED BY <1>1, <1>3, PathGoesBack

(* A word search without a trie begins at a cell. *)
LEMMA MatchSourceKeeps == IInv /\ MatchSource => IInv'
<1> SUFFICES ASSUME IInv, MatchSource PROVE IInv'
  OBVIOUS
<1>1. pc = "match" /\ pc' = pc /\ e.frames = <<>> /\ scan \in Cells(e) /\ e' = enter_match(e, scan, 0)
  BY DEF MatchSource, Walking, WordOver
<1>2. e \in EngineType /\ Sized(e)
  BY <1>1, OnPath
<1>3. scan \in Cell /\ 0 \in Nat
  BY <1>1, <1>2, CellsFit DEF Cell
<1>4. e' \in EngineType /\ (Same(e, e') \/ Enters(e, e', scan))
  BY <1>1, <1>2, <1>3, EnterMatch
<1>5. QED BY <1>1, <1>4, PathBegins

(* It tries a direction. *)
LEMMA MatchStepKeeps == IInv /\ MatchStep => IInv'
<1> SUFFICES ASSUME IInv, MatchStep PROVE IInv'
  OBVIOUS
<1> DEFINE u == advance(e)
           n == Neighbor(e, cur, Top(e).next)
           k == Top(e).char_index + 1
<1>1. pc = "match" /\ pc' = pc /\ e.frames # <<>> /\ MoreDirs
  BY DEF MatchStep, Walking
<1>2. \/ e' = u
      \/ /\ HasNeighbor(e, cur, Top(e).next) /\ ~e.visited[n]
         /\ e' = enter_match(u, n, k)
  BY DEF MatchStep, TryNext, Free
<1>3. e \in EngineType /\ Sized(e) /\ OnCells(e)
  BY <1>1, OnPath
<1>4. u \in EngineType
  BY <1>1, <1>3, Advance
<1>5. Top(e).char_index \in Nat /\ (HasNeighbor(e, cur, Top(e).next) => n \in Cell)
  BY <1>1, <1>3, AtTop DEF MoreDirs, cur
<1> HIDE DEF n
<1>0. k \in Nat
  BY <1>5
<1> HIDE DEF k
<1>6. CASE e' = u
  BY <1>1, <1>6, PathGoesOn DEF n
<1>7. CASE /\ HasNeighbor(e, cur, Top(e).next) /\ ~e.visited[n]
           /\ e' = enter_match(u, n, k)
  <2> HIDE DEF u
  <2>1. e' \in EngineType /\ (Same(u, e') \/ Enters(u, e', n))
    BY <1>0, <1>4, <1>5, <1>7, EnterMatch
  <2>2. u = advance(e) /\ n = Neighbor(e, cur, Top(e).next)
    BY DEF u, n
  <2>3. QED BY <1>1, <1>7, <2>1, <2>2, PathGoesOn
<1>8. QED BY <1>2, <1>6, <1>7

(* It goes back. *)
LEMMA MatchBackKeeps == IInv /\ MatchBack => IInv'
<1> SUFFICES ASSUME IInv, MatchBack PROVE IInv'
  OBVIOUS
<1>1. pc = "match" /\ pc' = pc /\ e.frames # <<>> /\ e' = pop_frame(unmark_visited(e, Top(e).cur))
  BY DEF MatchBack, Walking, cur
<1>2. e \in EngineType /\ Sized(e) /\ OnCells(e)
  BY <1>1, OnPath
<1>3. e' \in EngineType /\ Leaves(e, e')
  BY <1>1, <1>2, LeaveFrame
<1>4. QED BY <1>1, <1>3, PathGoesBack

(* A finite set of naturals has a largest: the one of the highest rank. *)
LEMMA Largest ==
  ASSUME NEW S \in SUBSET Nat, IsFiniteSet(S), S # {}
  PROVE  \E c \in S : \A d \in S : d <= c
<1> DEFINE n == Cardinality(S)
<1>1. n \in Nat /\ n # 0
  <2>1. n \in Nat
    BY FS_CardinalityType
  <2>2. n # 0
    BY FS_EmptySet
  <2>3. QED BY <2>1, <2>2
<1>2. n \in 1 .. n
  BY <1>1
<1>3. PICK c \in S : Cardinality({y \in S : y < c}) = n - 1
  BY <1>2, Ranks
<1> DEFINE Below == {y \in S : y < c}
<1>4. ASSUME NEW d \in S, ~(d <= c) PROVE FALSE
  <2>1. IsFiniteSet(Below) /\ c \notin Below
    <3>1. Below \in SUBSET S /\ c \notin Below
      OBVIOUS
    <3>2. QED BY <3>1, FS_Subset
  <2>2. Cardinality(Below \cup {c}) = Cardinality(Below) + 1
    BY <2>1, FS_AddElement
  <2>3. Cardinality(Below) = n - 1
    BY <1>3
  <2>4. Cardinality(Below \cup {c}) = n
    BY <1>1, <2>2, <2>3
  <2>5. Below \cup {c} \in SUBSET S
    OBVIOUS
  <2>6. Below \cup {c} = S
    BY <2>4, <2>5, FS_Subset
  <2>7. d \notin Below /\ d # c
    BY <1>4
  <2>8. QED BY <1>4, <2>6, <2>7
<1>5. QED BY <1>3, <1>4

(* The start is a cell of the grid. *)
LEMMA StartIsCell ==
  ASSUME Sized(e)
  PROVE  Start \in Cells(e)
<1> DEFINE ones == {c \in Cells(e) : e.grid[c] = 1}
<1>1. 0 \in Cells(e) /\ IsFiniteSet(Cells(e)) /\ Cells(e) \subseteq Nat
  BY CellsFit
<1>2. ones \in SUBSET Nat /\ IsFiniteSet(ones) /\ ones \in SUBSET Cells(e)
  BY <1>1, FS_Subset
<1>3. Start = IF ones = {} THEN 0 ELSE CHOOSE c \in ones : \A d \in ones : d <= c
  BY DEF Start
<1> HIDE DEF ones
<1>4. ones # {} => \E c \in ones : \A d \in ones : d <= c
  BY <1>2, Largest
<1>5. QED BY <1>1, <1>2, <1>3, <1>4

(* Unique paths enters its start. *)
LEMMA PathsStartKeeps == IInv /\ PathsStart => IInv'
<1> SUFFICES ASSUME IInv, PathsStart PROVE IInv'
  OBVIOUS
<1> DEFINE f == [Frame(Start) EXCEPT !.walked = 1]
<1>1. /\ e \in EngineType /\ Sized(e) /\ e.stack = <<>> /\ e.frames = <<>>
      /\ \A c \in Cells(e) : ~e.visited[c]
  BY DEF IInv, Shape, Spreads, Walks, PathsStart
<1>2. Start \in Cells(e) /\ Start \in Cell
  BY <1>1, StartIsCell, CellsFit DEF Cell
<1>3. f \in FrameType /\ f.cur = Start
  <2>1. Start \in Nat
    BY <1>2, MaxCellsIsNat DEF Cell
  <2>2. QED BY <2>1, FrameIs
<1>4. pc' = "paths" /\ e' = push_frame(mark_visited(e, Start), f)
  BY DEF PathsStart
<1> HIDE DEF f
<1>5. e' \in EngineType /\ Enters(e, e', Start)
  BY <1>1, <1>2, <1>3, <1>4, EnterFrame
<1>6. Path(e)
  BY <1>1, PathOfNone
<1>7. Path(e')
  BY <1>1, <1>2, <1>5, <1>6, PathEnters
<1>8. Shape(pc', e')
  BY <1>1, <1>4, <1>5, <1>7, PathShape DEF Enters
<1>9. QED BY <1>5, <1>8 DEF IInv

(* It tries a direction. *)
LEMMA PathsStepKeeps == IInv /\ PathsStep => IInv'
<1> SUFFICES ASSUME IInv, PathsStep PROVE IInv'
  OBVIOUS
<1> DEFINE u == advance(e)
           n == Neighbor(e, cur, Top(e).next)
           k == Top(e).walked + 1
           f == [Frame(n) EXCEPT !.walked = k]
<1>1. pc = "paths" /\ pc' = pc /\ e.frames # <<>> /\ MoreDirs
  BY DEF PathsStep, Walking
<1>2. \/ e' = u
      \/ /\ HasNeighbor(e, cur, Top(e).next) /\ ~e.visited[n]
         /\ e' = push_frame(mark_visited(u, n), f)
  BY DEF PathsStep, TryNext, Free
<1>3. e \in EngineType /\ Sized(e) /\ OnCells(e)
  BY <1>1, OnPath
<1>4. u \in EngineType
  BY <1>1, <1>3, Advance
<1>5. Top(e).walked \in Nat /\ (HasNeighbor(e, cur, Top(e).next) => n \in Cell)
  BY <1>1, <1>3, AtTop DEF MoreDirs, cur
<1> HIDE DEF n
<1>0. k \in Nat
  BY <1>5
<1> HIDE DEF k
<1>6. CASE e' = u
  BY <1>1, <1>6, PathGoesOn DEF n
<1>7. CASE /\ HasNeighbor(e, cur, Top(e).next) /\ ~e.visited[n]
           /\ e' = push_frame(mark_visited(u, n), f)
  <2> HIDE DEF u
  <2>1. n \in Cell /\ n \in Nat
    BY <1>5, <1>7, MaxCellsIsNat DEF Cell
  <2>2. f \in FrameType /\ f.cur = n
    BY <1>0, <2>1, FrameIs
  <2> HIDE DEF f
  <2>3. e' \in EngineType /\ Enters(u, e', n)
    BY <1>4, <1>7, <2>1, <2>2, EnterFrame
  <2>4. u = advance(e) /\ n = Neighbor(e, cur, Top(e).next)
    BY DEF u, n
  <2>5. QED BY <1>1, <1>7, <2>3, <2>4, PathGoesOn
<1>8. QED BY <1>2, <1>6, <1>7

(* The last frame takes its mark with it, and the start, the first, leaves
   it. *)
LEMMA BacktrackKeeps ==
  ASSUME IInv, pc = "paths", pc' = pc, e.frames # <<>>, e' = Backtrack(e)
  PROVE  IInv'
<1>1. e \in EngineType /\ Sized(e) /\ OnCells(e) /\ e.stack = <<>>
  BY OnPath
<1>2. CASE Len(e.frames) = 1
  <2>1. e' = pop_frame(e)
    BY <1>2 DEF Backtrack
  <2>2. e' \in EngineType /\ Alike(e, e') /\ e'.stack = <<>> /\ e'.frames = Front(e.frames)
    BY <1>1, <2>1, PopFrame
  <2>3. Front(e.frames) \in Seq(FrameType) /\ Len(Front(e.frames)) = 1 - 1
    BY <1>1, <1>2, TopOf
  <2> DEFINE q == Front(e.frames)
  <2> HIDE DEF q
  <2>4. q \in Seq(FrameType) /\ Len(q) = 0 /\ e'.frames = q
    BY <2>2, <2>3 DEF q
  <2>5. e'.frames = <<>>
    BY <2>4, EmptySeq
  <2>6. Sized(e')
    BY <1>1, <2>2, SizedAlike
  <2>7. QED BY <2>2, <2>5, <2>6 DEF IInv, Shape, Spreads, Walks
<1>3. CASE Len(e.frames) # 1
  <2>1. e' = unmark_visited(pop_frame(e), Top(e).cur)
    BY <1>3 DEF Backtrack
  <2>2. e' \in EngineType /\ Leaves(e, e')
    BY <1>1, <2>1, LeaveFrame
  <2>3. QED BY <2>2, PathGoesBack
<1>4. QED BY <1>2, <1>3

(* It goes back from a target. *)
LEMMA PathsTargetKeeps == IInv /\ PathsTarget => IInv'
BY BacktrackKeeps DEF PathsTarget, Walking

(* It goes back from a cell with no direction left. *)
LEMMA PathsBackKeeps == IInv /\ PathsBack => IInv'
BY BacktrackKeeps DEF PathsBack, Walking

-----------------------------------------------------------------------------
(* The longest increasing path. *)

(* Rising frames still rise while they stand where they are. *)
LEMMA RisesOn ==
  ASSUME NEW s, NEW t, OnCells(s), Rising(s), Alike(s, t), SameCurs(s, t)
  PROVE  OnCells(t) /\ Rising(t)
<1>1. Cells(t) = Cells(s)
  BY DEF Alike, Cells
<1>2. QED BY <1>1 DEF OnCells, Rising, SameCurs, Alike

(* The cell entered is higher than the innermost one, hence than all. *)
LEMMA RisesIn ==
  ASSUME NEW s \in EngineType, Sized(s), OnCells(s), Rising(s), NEW c \in Cells(s),
         s.frames # <<>> => s.grid[Top(s).cur] < s.grid[c],
         NEW f \in FrameType, f.cur = c, NEW t, Alike(s, t), t.frames = Append(s.frames, f)
  PROVE  OnCells(t) /\ Rising(t)
<1> DEFINE n == Len(s.frames)
           h(i) == s.grid[s.frames[i].cur]
<1>1. Cells(t) = Cells(s) /\ Cells(s) \subseteq Cell /\ t.grid = s.grid
  <2>1. Cells(t) = Cells(s) /\ t.grid = s.grid
    BY DEF Alike, Cells
  <2>2. QED BY <2>1, CellsFit DEF Cell
<1>2. /\ n \in Nat /\ Len(t.frames) = n + 1 /\ t.frames[n + 1].cur = c
      /\ \A i \in 1 .. n : t.frames[i].cur = s.frames[i].cur
  BY Appended
<1>3. \A i \in 1 .. n : s.frames[i].cur \in Cells(s) /\ h(i) \in Int
  BY <1>1 DEF OnCells, EngineType
<1>4. s.grid[c] \in Int
  BY <1>1 DEF EngineType
<1>5. \A i \in 1 .. n : h(i) < s.grid[c]
  <2>1. SUFFICES ASSUME NEW i \in 1 .. n PROVE h(i) < s.grid[c]
    OBVIOUS
  <2>2. n # 0 /\ s.frames # <<>>
    BY <1>2
  <2>3. Top(s) = s.frames[n]
    BY <2>2, TopOf
  <2>4. h(n) < s.grid[c] /\ n \in 1 .. n
    BY <1>2, <2>2, <2>3
  <2>5. i = n \/ i < n
    BY <1>2
  <2>6. i < n => h(i) < h(n)
    BY <2>4 DEF Rising
  <2>7. h(i) \in Int /\ h(n) \in Int
    BY <1>3, <2>4
  <2> HIDE DEF h
  <2>8. QED BY <1>4, <2>4, <2>5, <2>6, <2>7
<1>6. 1 .. n + 1 = 1 .. n \cup {n + 1} /\ \A i \in 1 .. n : ~(n + 1 < i)
  BY <1>2
<1>7. OnCells(t)
  BY <1>1, <1>2, <1>3, <1>6 DEF OnCells
<1>8. ASSUME NEW i \in 1 .. n + 1, NEW j \in 1 .. n + 1, i < j
      PROVE  s.grid[t.frames[i].cur] < s.grid[t.frames[j].cur]
  <2>1. i \in 1 .. n
    BY <1>2, <1>8
  <2>2. CASE j \in 1 .. n
    BY <1>2, <1>8, <2>1, <2>2 DEF Rising
  <2>3. CASE j = n + 1
    BY <1>2, <1>5, <2>1, <2>3
  <2>4. QED BY <1>6, <2>2, <2>3
<1>9. Rising(t)
  BY <1>1, <1>2, <1>8 DEF Rising
<1>10. QED BY <1>7, <1>9

(* Rising frames still rise without the last. *)
LEMMA RisesOut ==
  ASSUME NEW s \in EngineType, OnCells(s), Rising(s), s.frames # <<>>,
         NEW t, Alike(s, t), t.frames = Front(s.frames)
  PROVE  OnCells(t) /\ Rising(t)
<1> DEFINE n == Len(s.frames)
<1>1. Cells(t) = Cells(s) /\ t.grid = s.grid
  BY DEF Alike, Cells
<1>2. /\ n \in Nat \ {0} /\ Len(t.frames) = n - 1
      /\ \A i \in 1 .. n - 1 : t.frames[i].cur = s.frames[i].cur
  BY TopOf
<1>3. \A i \in 1 .. n - 1 : i \in 1 .. n
  BY <1>2
<1>4. QED BY <1>1, <1>2, <1>3 DEF OnCells, Rising

(* Only the best of the innermost frame is written. *)
LEMMA PropagateBest ==
  ASSUME NEW s \in EngineType, NEW child \in Int
  PROVE  LET t == propagate_best(s, child)
         IN  /\ t \in EngineType /\ Alike(s, t) /\ t.visited = s.visited /\ t.stack = s.stack
             /\ SameCurs(s, t)
<1>1. CASE ~(s.frames # <<>> /\ child + 1 > Top(s).best)
  BY <1>1 DEF propagate_best, Alike, SameCurs
<1>2. CASE s.frames # <<>> /\ child + 1 > Top(s).best
  <2> DEFINE L == Len(s.frames)
             b == child + 1
             f == [s.frames[L] EXCEPT !.best = b]
             q == [s.frames EXCEPT ![L] = f]
  <2>1. s.frames \in Seq(FrameType) /\ L \in Nat \ {0} /\ s.frames[L] \in FrameType
    BY <1>2, TopOf DEF EngineType
  <2>2. b \in Int
    OBVIOUS
  <2>3. propagate_best(s, child) = [s EXCEPT !.frames = q]
    BY <1>2 DEF propagate_best
  <2> HIDE DEF b
  <2>4. f \in FrameType /\ f.cur = s.frames[L].cur
    BY <2>1, <2>2 DEF FrameType
  <2> HIDE DEF f
  <2>5. L \in 1 .. L
    BY <2>1
  <2>6. /\ q \in Seq(FrameType) /\ Len(q) = L
        /\ \A j \in 1 .. L : q[j] = IF j = L THEN f ELSE s.frames[j]
    BY <2>1, <2>4, <2>5, ExceptSeq
  <2>7. \A j \in 1 .. L : q[j].cur = s.frames[j].cur
    BY <2>4, <2>6
  <2> HIDE DEF q
  <2>8. LET t == propagate_best(s, child)
        IN  /\ t \in EngineType /\ Alike(s, t) /\ t.visited = s.visited /\ t.stack = s.stack
            /\ t.frames = q
    BY <2>3, <2>6, WithFrames
  <2>9. QED BY <2>6, <2>7, <2>8 DEF SameCurs
<1>3. QED BY <1>1, <1>2

(* The invariant of the longest increasing path is about its frames. *)
LEMMA RisingShape ==
  ASSUME NEW s, NEW t, Alike(s, t), Sized(s), t.stack = <<>>, OnCells(t), Rising(t)
  PROVE  Shape("increasing_walk", t)
<1>1. Sized(t)
  BY SizedAlike
<1>2. QED BY <1>1 DEF Shape, Spreads, Walks

(* A frame removed, and its value handed to the one below. *)
LEMMA RisingGoesBack ==
  ASSUME IInv, pc = "increasing_walk", pc' = pc, e.frames # <<>>,
         NEW s \in EngineType, Alike(e, s), s.frames = e.frames, s.stack = <<>>,
         NEW v \in Int, e' = propagate_best(pop_frame(s), v)
  PROVE  IInv'
<1>1. Sized(e) /\ OnCells(e) /\ Rising(e)
  BY DEF IInv, Shape, Spreads, Walks
<1> DEFINE u == pop_frame(s)
<1>2. /\ u \in EngineType /\ Alike(s, u) /\ u.stack = <<>> /\ u.frames = Front(s.frames)
  BY PopFrame
<1>3. Alike(e, u) /\ u.frames = Front(e.frames)
  BY <1>2 DEF Alike
<1>4. OnCells(u) /\ Rising(u)
  BY <1>1, <1>3, RisesOut DEF IInv
<1>5. e' = propagate_best(u, v)
  OBVIOUS
<1> HIDE DEF u
<1>6. e' \in EngineType /\ Alike(u, e') /\ e'.stack = <<>> /\ SameCurs(u, e')
  BY <1>2, <1>5, PropagateBest
<1>7. OnCells(e') /\ Rising(e')
  BY <1>4, <1>6, RisesOn
<1>8. Sized(u)
  BY <1>1, <1>3, SizedAlike
<1>9. Shape(pc', e')
  BY <1>6, <1>7, <1>8, RisingShape
<1>10. QED BY <1>6, <1>9 DEF IInv

(* The longest increasing path begins at a cell. *)
LEMMA IncreasingSourceKeeps == IInv /\ IncreasingSource => IInv'
<1> SUFFICES ASSUME IInv, IncreasingSource PROVE IInv'
  OBVIOUS
<1>1. /\ e \in EngineType /\ Sized(e) /\ e.stack = <<>> /\ e.frames = <<>> /\ scan \in Cells(e)
      /\ pc' = "increasing_walk" /\ e' = push_frame(e, Frame(scan))
  BY DEF IInv, Shape, Spreads, Walks, IncreasingSource
<1>2. scan \in Nat
  BY <1>1, CellsFit
<1>3. Frame(scan) \in FrameType /\ Frame(scan).cur = scan
  BY <1>2, FrameIs
<1>4. e' \in EngineType /\ Alike(e, e') /\ e'.stack = <<>> /\ e'.frames = Append(e.frames, Frame(scan))
  BY <1>1, <1>3, PushFrame
<1>5. OnCells(e) /\ Rising(e)
  <2>1. Len(e.frames) = 0 /\ 1 .. Len(e.frames) = {}
    BY <1>1
  <2>2. QED BY <2>1 DEF OnCells, Rising
<1>6. OnCells(e') /\ Rising(e')
  BY <1>1, <1>3, <1>4, <1>5, RisesIn
<1>7. Shape(pc', e')
  BY <1>1, <1>4, <1>6, RisingShape
<1>8. QED BY <1>4, <1>7 DEF IInv

(* It tries a direction, and enters a higher cell only. *)
LEMMA IncreasingStepKeeps == IInv /\ IncreasingStep => IInv'
<1> SUFFICES ASSUME IInv, IncreasingStep PROVE IInv'
  OBVIOUS
<1> DEFINE u == advance(e)
           n == Neighbor(e, cur, Top(e).next)
<1>1. pc = "increasing_walk" /\ pc' = pc /\ e.frames # <<>> /\ MoreDirs
  BY DEF IncreasingStep, Walking
<1>2. \/ e' = u
      \/ /\ HasNeighbor(e, cur, Top(e).next) /\ e.grid[n] > e.grid[cur]
         /\ e' = push_frame(u, Frame(n))
  BY DEF IncreasingStep, TryNext
<1>3. e \in EngineType /\ Sized(e) /\ OnCells(e) /\ Rising(e) /\ e.stack = <<>>
  BY <1>1 DEF IInv, Shape, Spreads, Walks
<1>4. /\ u \in EngineType /\ Alike(e, u) /\ u.stack = <<>> /\ SameCurs(e, u) /\ u.frames # <<>>
  BY <1>1, <1>3, Advance
<1>5. HasNeighbor(e, cur, Top(e).next) => n \in Cells(e) /\ n \in Cell
  BY <1>1, <1>3, AtTop DEF MoreDirs, cur
<1>6. cur \in Cell
  BY <1>1, <1>3, AtTop DEF cur
<1>7. Top(u).cur = cur
  <2>1. /\ Len(e.frames) \in Nat \ {0} /\ Top(e) = e.frames[Len(e.frames)]
        /\ Top(u) = u.frames[Len(u.frames)]
    BY <1>1, <1>3, <1>4, TopOf
  <2>2. Len(e.frames) \in 1 .. Len(e.frames)
    BY <2>1
  <2>3. QED BY <1>4, <2>1, <2>2 DEF SameCurs, cur
<1> HIDE DEF u, n
<1>8. OnCells(u) /\ Rising(u) /\ Sized(u) /\ Cells(u) = Cells(e)
  BY <1>3, <1>4, RisesOn, SizedAlike
<1>9. CASE e' = u
  <2>1. Shape(pc', e')
    BY <1>1, <1>3, <1>4, <1>8, <1>9, RisingShape
  <2>2. QED BY <1>4, <1>9, <2>1 DEF IInv
<1>10. CASE /\ HasNeighbor(e, cur, Top(e).next) /\ e.grid[n] > e.grid[cur]
            /\ e' = push_frame(u, Frame(n))
  <2>1. n \in Cells(u) /\ n \in Cell /\ n \in Nat
    BY <1>5, <1>8, <1>10, MaxCellsIsNat DEF Cell
  <2>2. Frame(n) \in FrameType /\ Frame(n).cur = n
    BY <2>1, FrameIs
  <2>3. /\ e' \in EngineType /\ Alike(u, e') /\ e'.stack = <<>>
        /\ e'.frames = Append(u.frames, Frame(n))
    BY <1>4, <1>10, <2>2, PushFrame
  <2>4. u.grid[Top(u).cur] < u.grid[n]
    <3>1. e.grid[n] \in Int /\ e.grid[cur] \in Int
      BY <1>3, <1>6, <2>1 DEF EngineType
    <3>2. e.grid[cur] < e.grid[n]
      BY <1>10, <3>1
    <3>3. QED BY <1>4, <1>7, <3>2 DEF Alike
  <2>5. OnCells(e') /\ Rising(e')
    BY <1>4, <1>8, <2>1, <2>2, <2>3, <2>4, RisesIn
  <2>6. Shape(pc', e')
    BY <1>1, <1>8, <2>3, <2>5, RisingShape
  <2>7. QED BY <2>3, <2>6 DEF IInv
<1>11. QED BY <1>2, <1>9, <1>10

(* It takes the value of a cell from the memo. *)
LEMMA IncreasingHitKeeps == IInv /\ IncreasingHit => IInv'
<1> SUFFICES ASSUME IInv, IncreasingHit PROVE IInv'
  OBVIOUS
<1>1. /\ pc = "increasing_walk" /\ pc' = pc /\ e.frames # <<>>
      /\ e' = propagate_best(pop_frame(e), e.memo[cur])
  BY DEF IncreasingHit, Walking
<1>2. e \in EngineType /\ Sized(e) /\ OnCells(e) /\ e.stack = <<>> /\ Alike(e, e)
  BY <1>1 DEF IInv, Shape, Spreads, Walks, Alike
<1>3. cur \in Cell
  BY <1>1, <1>2, AtTop DEF cur
<1>4. e.memo[cur] \in Int
  BY <1>2, <1>3 DEF EngineType
<1>5. QED BY <1>1, <1>2, <1>4, RisingGoesBack

(* It writes the value of a cell to the memo and goes back. *)
LEMMA IncreasingBackKeeps == IInv /\ IncreasingBack => IInv'
<1> SUFFICES ASSUME IInv, IncreasingBack PROVE IInv'
  OBVIOUS
<1> DEFINE v == Top(e).best
           w == [e EXCEPT !.memo[cur] = v]
           s == IF job.memo THEN w ELSE e
<1>1. /\ pc = "increasing_walk" /\ pc' = pc /\ e.frames # <<>>
      /\ e' = propagate_best(pop_frame(s), v)
  BY DEF IncreasingBack, Walking
<1>2. e \in EngineType /\ Sized(e) /\ OnCells(e) /\ e.stack = <<>>
  BY <1>1 DEF IInv, Shape, Spreads, Walks
<1>3. cur \in Cell /\ v \in Int
  BY <1>1, <1>2, AtTop DEF cur
<1> HIDE DEF v
<1>4. w \in EngineType /\ Alike(e, w) /\ w.frames = e.frames /\ w.stack = <<>>
  <2> DEFINE c == cur
  <2>1. c \in Cell /\ w = [e EXCEPT !.memo[c] = v]
    BY <1>3
  <2> HIDE DEF c, w
  <2>2. QED BY <1>2, <1>3, <2>1 DEF EngineType, Alike
<1> HIDE DEF w
<1>5. s \in EngineType /\ Alike(e, s) /\ s.frames = e.frames /\ s.stack = <<>>
  BY <1>2, <1>4 DEF Alike
<1> HIDE DEF s
<1>6. QED BY <1>1, <1>3, <1>5, RisingGoesBack

(* It has the value of a source. *)
LEMMA IncreasingNextKeeps == IInv /\ IncreasingNext => IInv'
BY DEF IncreasingNext, Walking, IInv, Shape, Spreads, Walks

-----------------------------------------------------------------------------
(* A call, and the invariant of the specification. *)

(* A job that fits is loaded whole, and leaves no stack or frames behind. *)
LEMMA LoadOf ==
  ASSUME IInv, NEW j \in Jobs, FitsEngine(j)
  PROVE  Load(j) \in EngineType /\ Sized(Load(j)) /\ Load(j).stack = <<>> /\ Load(j).frames = <<>>
<1> DEFINE size == j.rows * j.cols
           m == IF Len(j.words) > MaxWords THEN MaxWords ELSE Len(j.words)
           d == IF j.eight THEN 8 ELSE 4
           g == [c \in DOMAIN e.grid |-> IF c < size THEN j.cells[c] ELSE e.grid[c]]
           w == SubSeq(j.words, 1, m)
           z == Zeroed
<1>1. e \in EngineType
  BY DEF IInv
<1>2. j.rows \in 1 .. MaxRows /\ j.cols \in 1 .. MaxCols
  BY DEF FitsEngine
<1>3. j.cells \in [0 .. size - 1 -> Int] /\ j.words \in Seq(Seq(Int))
  BY JobsAssumption
<1>4. j.rows \in Nat /\ j.cols \in Nat
  BY <1>2
<1>5. size \in Nat
  <2>1. \A a, b \in Nat : a * b \in Nat
    OBVIOUS
  <2>2. QED BY <1>4, <2>1
<1>6. w \in Seq(Seq(Int))
  <2>1. m \in Int /\ m <= Len(j.words)
    BY <1>3
  <2>2. \A i \in 1 .. m : i \in 1 .. Len(j.words)
    BY <2>1
  <2>3. \A i \in 1 .. m : j.words[i] \in Seq(Int)
    BY <1>3, <2>2
  <2> DEFINE p == j.words
             T == Seq(Int)
  <2> HIDE DEF m, p, T
  <2>4. p \in Seq(T) /\ 1 \in Int /\ m \in Int /\ \A i \in 1 .. m : p[i] \in T
    BY <1>3, <2>1, <2>3 DEF p, T
  <2>5. SubSeq(p, 1, m) \in Seq(T)
    BY <2>4, SubSeqProperties
  <2>6. QED BY <2>5 DEF p, T
<1> HIDE DEF size
<1>7. g \in [Cell -> Int]
  <2>1. DOMAIN e.grid = Cell /\ \A c \in Cell : e.grid[c] \in Int
    BY <1>1 DEF EngineType
  <2>2. \A c \in Cell : c \in Nat
    BY MaxCellsIsNat DEF Cell
  <2>3. \A c \in Cell : c < size => c \in 0 .. size - 1
    BY <1>5, <2>2
  <2>4. QED BY <1>3, <2>1, <2>3
<1>8. d \in {4, 8}
  OBVIOUS
<1>9. z \in EngineType /\ z.stack = <<>> /\ z.frames = <<>>
  <2>1. <<>> \in Seq(Nat) /\ <<>> \in Seq(FrameType)
    OBVIOUS
  <2>2. QED BY <1>1, <2>1 DEF Zeroed, EngineType
<1>10. Load(j) = [z EXCEPT !.rows = j.rows, !.cols = j.cols, !.degree = d, !.grid = g, !.words = w]
  BY DEF Load, size
<1> HIDE DEF d, g, w, z, m
<1> DEFINE t == Load(j)
<1> HIDE DEF t
<1>11. t = [z EXCEPT !.rows = j.rows, !.cols = j.cols, !.degree = d, !.grid = g, !.words = w]
  BY <1>10 DEF t
<1>12. /\ t \in EngineType /\ t.stack = <<>> /\ t.frames = <<>>
       /\ t.rows = j.rows /\ t.cols = j.cols
  BY <1>4, <1>6, <1>7, <1>8, <1>9, <1>11 DEF EngineType
<1>13. Sized(t)
  BY <1>2, <1>12 DEF Sized
<1>14. QED BY <1>12, <1>13 DEF t

(* What the search of a job clears before it begins. *)
LEMMA ClearedOf ==
  ASSUME NEW j, NEW s \in EngineType, Sized(s)
  PROVE  LET t == Cleared(j, s)
         IN  /\ t \in EngineType /\ Alike(s, t) /\ t.stack = s.stack /\ t.frames = s.frames
             /\ j.mode \in {"paths", "words"} => \A c \in Cells(t) : ~t.visited[c]
<1> DEFINE u == clear_visited(s)
           v == [u EXCEPT !.word_found = IF j.prune THEN {} ELSE @]
           m == [c \in DOMAIN s.memo |-> IF c \in Cells(s) THEN 0 ELSE s.memo[c]]
           w == [s EXCEPT !.memo = m]
<1>1. Cells(s) \subseteq Cell
  BY CellsFit DEF Cell
<1>2. /\ u \in EngineType /\ Alike(s, u) /\ u.stack = s.stack /\ u.frames = s.frames
      /\ \A c \in Cells(s) : ~u.visited[c]
  BY <1>1, ClearVisited
<1>3. m \in [Cell -> Int]
  BY DEF EngineType
<1>4. Cleared(j, s) = CASE j.mode \in {"islands", "paths"} -> u
                        [] j.mode = "words" -> v
                        [] j.mode = "increasing" -> w
                        [] OTHER -> s
  BY DEF Cleared
<1> HIDE DEF u, m
<1>5. /\ v \in EngineType /\ Alike(s, v) /\ v.stack = s.stack /\ v.frames = s.frames
      /\ \A c \in Cells(s) : ~v.visited[c]
  BY <1>2 DEF EngineType, Alike
<1>6. w \in EngineType /\ Alike(s, w) /\ w.stack = s.stack /\ w.frames = s.frames
  BY <1>3 DEF EngineType, Alike
<1>7. Alike(s, s)
  BY DEF Alike
<1> HIDE DEF v, w
<1>8. CASE j.mode \in {"islands", "paths"}
  <2>1. Cleared(j, s) = u
    BY <1>4, <1>8
  <2>2. Cells(u) = Cells(s)
    BY <1>2, SizedAlike
  <2>3. QED BY <1>2, <2>1, <2>2
<1>9. CASE j.mode = "words"
  <2>1. Cleared(j, s) = v
    BY <1>4, <1>9
  <2>2. Cells(v) = Cells(s)
    BY <1>5, SizedAlike
  <2>3. QED BY <1>5, <2>1, <2>2
<1>10. CASE j.mode = "increasing"
  <2>1. Cleared(j, s) = w
    BY <1>4, <1>10
  <2>2. QED BY <1>6, <1>10, <2>1
<1>11. CASE j.mode \notin {"islands", "paths", "words", "increasing"}
  <2>1. Cleared(j, s) = s
    BY <1>4, <1>11
  <2>2. QED BY <1>7, <1>11, <2>1
<1>12. QED BY <1>8, <1>9, <1>10, <1>11

(* A call finds an engine used before, and clears what its search reads. *)
LEMMA CallKeeps == ASSUME IInv, NEW j \in Jobs, Call(j) PROVE IInv'
<1> DEFINE s == Load(j)
<1>1. FitsEngine(j) /\ e' = Cleared(j, s) /\ pc' = Loop(j)
  BY DEF Call
<1>2. s \in EngineType /\ Sized(s) /\ s.stack = <<>> /\ s.frames = <<>>
  BY <1>1, LoadOf
<1> HIDE DEF s
<1>3. /\ e' \in EngineType /\ Alike(s, e') /\ e'.stack = <<>> /\ e'.frames = <<>>
      /\ j.mode \in {"paths", "words"} => \A c \in Cells(e') : ~e'.visited[c]
  BY <1>1, <1>2, ClearedOf
<1>4. Sized(e')
  BY <1>2, <1>3, SizedAlike
<1>5. Spreading(e')
  BY <1>3 DEF Spreading
<1>6. j.mode \in {"islands", "pacific", "paths", "increasing", "words", "other"}
  BY JobsAssumption
<1>7. CASE j.mode = "words"
  <2>1. Path(e')
    BY <1>3, <1>7, PathOfNone
  <2>2. pc' \in {"trie", "match"}
    BY <1>1, <1>7 DEF Loop
  <2>3. QED BY <1>3, <1>4, <2>1, <2>2 DEF IInv, Shape, Spreads, Walks
<1>8. CASE j.mode = "paths"
  <2>1. pc' = "start"
    BY <1>1, <1>8 DEF Loop
  <2>2. QED BY <1>3, <1>4, <1>8, <2>1 DEF IInv, Shape, Spreads, Walks
<1>9. CASE j.mode \in {"islands", "pacific", "increasing", "other"}
  <2>1. pc' = j.mode
    BY <1>1, <1>9 DEF Loop
  <2>2. QED BY <1>3, <1>4, <1>5, <1>9, <2>1 DEF IInv, Shape, Spreads, Walks
<1>10. QED BY <1>6, <1>7, <1>8, <1>9

(* A call with a grid that does not fit only zeroes the counters. *)
LEMMA RefuseKeeps == ASSUME IInv, NEW j \in Jobs, Refuse(j) PROVE IInv'
<1>1. e \in EngineType /\ e' = Zeroed /\ pc' = "idle"
  BY DEF IInv, Refuse
<1>2. Zeroed \in EngineType
  <2>1. <<>> \in Seq(Nat) /\ <<>> \in Seq(FrameType)
    OBVIOUS
  <2>2. QED BY <1>1, <2>1 DEF Zeroed, EngineType
<1>3. QED BY <1>1, <1>2 DEF IInv, Shape, Spreads, Walks

(* A search that returns leaves the engine as it is. *)
LEMMA ReturnKeeps == ASSUME IInv, NEW v, Return(v) PROVE IInv'
<1>1. e' = e /\ pc' = "idle"
  BY DEF Return
<1>2. QED BY <1>1 DEF IInv, Shape, Spreads, Walks

(* The invariant holds of the engine before the first call. *)
LEMMA InitIInv == Init => IInv
<1>1. Init => e \in EngineType /\ pc = "idle"
  BY Blanks DEF Init
<1>2. QED BY <1>1 DEF IInv, Shape, Spreads, Walks

(* Every step of every search keeps it. *)
LEMMA StepIInv == IInv /\ [Next]_vars => IInv'
<1> SUFFICES ASSUME IInv, [Next]_vars PROVE IInv'
  OBVIOUS
<1>1. CASE IslandsSource \/ IslandsSpread
  BY <1>1, IslandsSourceKeeps, IslandsSpreadKeeps
<1>2. CASE FloodSources \/ FloodSpread \/ KeepPacific
  BY <1>2, FloodSourcesKeeps, FloodSpreadKeeps, KeepPacificKeeps
<1>3. CASE PathsStart \/ PathsTarget \/ PathsStep \/ PathsBack
  BY <1>3, PathsStartKeeps, PathsTargetKeeps, PathsStepKeeps, PathsBackKeeps
<1>4. CASE IncreasingSource \/ IncreasingHit \/ IncreasingStep \/ IncreasingBack \/ IncreasingNext
  BY <1>4, IncreasingSourceKeeps, IncreasingHitKeeps, IncreasingStepKeeps, IncreasingBackKeeps,
     IncreasingNextKeeps
<1>5. CASE TrieSource \/ TrieStep \/ TrieBack
  BY <1>5, TrieSourceKeeps, TrieStepKeeps, TrieBackKeeps
<1>6. CASE MatchSource \/ MatchStep \/ MatchBack
  BY <1>6, MatchSourceKeeps, MatchStepKeeps, MatchBackKeeps
<1>7. CASE MatchWord
  BY <1>7 DEF MatchWord, IInv
<1>8. CASE \/ IslandsReturn \/ PacificReturn \/ PathsReturn \/ IncreasingReturn \/ TrieReturn
           \/ MatchReturn \/ UnknownMode
  BY <1>8, ReturnKeeps DEF IslandsReturn, PacificReturn, PathsReturn, IncreasingReturn, TrieReturn,
     MatchReturn, UnknownMode
<1>9. CASE pc = "idle" /\ \E j \in Jobs : Call(j) \/ Refuse(j)
  BY <1>9, CallKeeps, RefuseKeeps
<1>10. CASE UNCHANGED vars
  BY <1>10 DEF vars, IInv
<1>11. QED
  BY <1>1, <1>2, <1>3, <1>4, <1>5, <1>6, <1>7, <1>8, <1>9, <1>10 DEF Next, dfs_accel

(* In every state of every run, with any jobs in any order on one engine: the
   engine has its type, a cell waits on a stack once and marked, a
   backtracking search has marked exactly the cells of its frames, and the
   frames of the longest increasing path rise strictly. *)
THEOREM Invariance == Spec => []IInv
<1>1. QED BY InitIInv, StepIInv, PTL DEF Spec

(* Frames that stand on different cells are no more than the cells. *)
LEMMA FramesFit ==
  ASSUME NEW s \in EngineType, Sized(s), OnCells(s), Apart(s)
  PROVE  Len(s.frames) <= Cardinality(Cells(s))
<1> DEFINE n == Len(s.frames)
           a == [i \in 1 .. n |-> s.frames[i].cur]
<1>1. n \in Nat
  <2>1. s.frames \in Seq(FrameType)
    BY DEF EngineType
  <2>2. QED BY <2>1
<1>2. a \in [1 .. n -> Cells(s)]
  BY DEF OnCells
<1>3. \A i, j \in 1 .. n : a[i] = a[j] => i = j
  BY DEF Apart
<1>4. IsFiniteSet(Cells(s))
  BY CellsFit
<1> HIDE DEF n, a
<1>5. n <= Cardinality(Cells(s))
  BY <1>1, <1>2, <1>3, <1>4, NoMoreThanCells
<1>6. QED BY <1>5 DEF n

(* What waits on a stack, each cell once, is no more than the cells. *)
LEMMA StackFits ==
  ASSUME NEW s \in EngineType, Sized(s), Spreading(s)
  PROVE  Len(s.stack) <= Cardinality(Cells(s))
<1> DEFINE n == Len(s.stack)
           a == [i \in 1 .. n |-> s.stack[i]]
<1>1. n \in Nat
  <2>1. s.stack \in Seq(Nat)
    BY DEF EngineType
  <2>2. QED BY <2>1
<1>2. a \in [1 .. n -> Cells(s)]
  BY DEF Spreading
<1>3. \A i, j \in 1 .. n : a[i] = a[j] => i = j
  BY DEF Spreading
<1>4. IsFiniteSet(Cells(s))
  BY CellsFit
<1> HIDE DEF n, a
<1>5. n <= Cardinality(Cells(s))
  BY <1>1, <1>2, <1>3, <1>4, NoMoreThanCells
<1>6. QED BY <1>5 DEF n

(* Heights that rise are of different cells. *)
LEMMA RisingIsApart ==
  ASSUME NEW s \in EngineType, Sized(s), OnCells(s), Rising(s)
  PROVE  Apart(s)
<1>1. SUFFICES ASSUME NEW i \in 1 .. Len(s.frames), NEW j \in 1 .. Len(s.frames),
                      s.frames[i].cur = s.frames[j].cur
               PROVE  i = j
  BY DEF Apart
<1>2. s.grid[s.frames[i].cur] \in Int
  <2>1. s.frames[i].cur \in Cell
    BY CellsFit DEF OnCells, Cell
  <2>2. QED BY <2>1 DEF EngineType
<1>3. ~(i < j) /\ ~(j < i)
  BY <1>1, <1>2 DEF Rising
<1>4. QED BY <1>3

(* The invariant bounds stack and frames. *)
LEMMA IInvArrays == IInv => ArraysSuffice
<1> SUFFICES ASSUME IInv, pc # "idle"
             PROVE  /\ Len(e.stack) <= Cardinality(Cells(e))
                    /\ Len(e.frames) <= Cardinality(Cells(e))
  BY DEF ArraysSuffice
<1>1. e \in EngineType /\ Sized(e)
  BY DEF IInv, Shape
<1>2. Cardinality(Cells(e)) \in Nat
  BY <1>1, CellsFit, FS_CardinalityType
<1>3. Len(<<>>) = 0
  OBVIOUS
<1>4. Len(e.stack) <= Cardinality(Cells(e))
  <2>1. CASE pc \in Spreads
    <3>1. Spreading(e)
      BY <2>1 DEF IInv, Shape
    <3>2. QED BY <1>1, <3>1, StackFits
  <2>2. CASE pc \notin Spreads
    <3>1. e.stack = <<>>
      BY <2>2 DEF IInv, Shape
    <3>2. QED BY <1>2, <1>3, <3>1
  <2>3. QED BY <2>1, <2>2
<1>5. Len(e.frames) <= Cardinality(Cells(e))
  <2>1. CASE e.frames = <<>>
    BY <1>2, <1>3, <2>1
  <2>2. CASE e.frames # <<>>
    <3>1. Path(e) \/ (OnCells(e) /\ Rising(e))
      BY <2>2 DEF IInv, Shape, Walks
    <3>2. OnCells(e) /\ Apart(e)
      BY <1>1, <3>1, RisingIsApart DEF Path
    <3>3. QED BY <1>1, <3>2, FramesFit
  <2>3. QED BY <2>1, <2>2
<1>6. QED BY <1>4, <1>5

(* The invariant says which cells a backtracking search has marked. *)
LEMMA IInvPath == IInv => PathIsMarked
<1> SUFFICES ASSUME IInv, pc \in {"paths", "trie", "match"}, Walking \/ pc # "paths"
             PROVE  {c \in Cells(e) : e.visited[c]} = {e.frames[i].cur : i \in DOMAIN e.frames}
  BY DEF PathIsMarked
<1>1. Path(e)
  BY OnPath DEF Walking
<1>2. DOMAIN e.frames = 1 .. Len(e.frames)
  <2>1. e.frames \in Seq(FrameType)
    BY DEF IInv, EngineType
  <2>2. QED BY <2>1
<1>3. QED BY <1>1, <1>2 DEF Path, OnCells

(* Whatever the size of the engine, the jobs and the number of calls, no
   search of dfs_accel keeps more entries in stack or frames than its grid
   has cells: push and push_frame, which test no bound, stay in the arrays. *)
THEOREM ArraysAlwaysSuffice == Spec => []ArraysSuffice
<1>1. QED BY Invariance, IInvArrays, PTL

(* While unique paths or a word search backtracks, the visited flags of the
   engine are those of the cells of its frames: each unmark_visited undoes
   the mark of its own frame, and the calls before leave none. *)
THEOREM PathAlwaysMarked == Spec => []PathIsMarked
<1>1. QED BY Invariance, IInvPath, PTL

-----------------------------------------------------------------------------
(* The searches that spread, as searches of a graph. *)

(* Every cell that steps lead to from S: what is in each closed set around S. *)
Reached(steps, S) ==
  {c \in DOMAIN steps : \A T \in SUBSET DOMAIN steps : S \subseteq T /\ Closed(steps, T) => c \in T}

Entries(q) == {q[i] : i \in 1 .. Len(q)}
Waiting(s) == Entries(s.stack)

(* Cells that are marked and wait no longer have been expanded. *)
Opened(s, steps) == \A c \in Visited(s) \ Waiting(s) : steps[c] \subseteq Visited(s)

(* The two counters, above what they held when the search began. *)
Counted(s, b) ==
  /\ b \in Nat
  /\ s.visited_cells = b + Cardinality(Visited(s))
  /\ s.expanded_nodes = b + Cardinality(Visited(s) \ Waiting(s))

(* A sequence without repetition has as many entries as its length says. *)
LEMMA EntriesCount ==
  ASSUME NEW T, NEW q \in Seq(T), Distinct(q)
  PROVE  Entries(q) \subseteq T /\ IsFiniteSet(Entries(q)) /\ Cardinality(Entries(q)) = Len(q)
<1> DEFINE n == Len(q)
           S == Entries(q)
<1>1. n \in Nat /\ q \in [1 .. n -> T]
  OBVIOUS
<1>2. S = {q[i] : i \in 1 .. n}
  BY DEF Entries
<1>3. S \subseteq T
  BY <1>1, <1>2
<1>4. q \in [1 .. n -> S]
  <2>1. q = [i \in 1 .. n |-> q[i]]
    BY <1>1
  <2>2. \A i \in 1 .. n : q[i] \in S
    BY <1>2
  <2> HIDE DEF n, S
  <2>3. QED BY <2>1, <2>2
<1> HIDE DEF S
<1>5. q \in Bijection(1 .. n, S)
  <2>1. \A i, j \in 1 .. n : q[i] = q[j] => i = j
    BY DEF Distinct
  <2>2. \A c \in S : \E i \in 1 .. n : q[i] = c
    BY <1>2
  <2> HIDE DEF n
  <2>3. QED BY <1>4, <2>1, <2>2 DEF Bijection, Injection, IsInjective, Surjection
<1> HIDE DEF n
<1>6. IsFiniteSet(1 .. n) /\ Cardinality(1 .. n) = n
  <2>1. IsFiniteSet(1 .. n) /\ Cardinality(1 .. n) = IF 1 > n THEN 0 ELSE n - 1 + 1
    BY <1>1, FS_Interval
  <2>2. QED BY <1>1, <2>1
<1>7. IsFiniteSet(S) /\ Cardinality(S) = Cardinality(1 .. n)
  BY <1>5, <1>6, FS_Bijection DEF ExistsBijection
<1>8. QED BY <1>3, <1>6, <1>7 DEF n, S

(* InOrder names every number of the set. *)
LEMMA InOrderAll ==
  ASSUME NEW S \in SUBSET Nat, IsFiniteSet(S)
  PROVE  Entries(InOrder(S)) = S
<1> DEFINE q == InOrder(S)
<1>1. q \in Seq(S) /\ Len(q) = Cardinality(S) /\ Distinct(q)
  BY InOrderOf DEF Distinct
<1> HIDE DEF q
<1>2. Entries(q) \subseteq S /\ Cardinality(Entries(q)) = Cardinality(S)
  BY <1>1, EntriesCount
<1>3. QED BY <1>2, FS_Subset DEF q

(* visit_all counts its cells as visited, and leaves reachable alone. *)
LEMMA VisitAllCounts ==
  ASSUME NEW s \in EngineType, NEW new \in Seq(Nat)
  PROVE  /\ visit_all(s, new).visited_cells = s.visited_cells + Len(new)
         /\ visit_all(s, new).expanded_nodes = s.expanded_nodes
         /\ visit_all(s, new).reachable = s.reachable
<1> DEFINE v == [c \in DOMAIN s.visited |-> s.visited[c] \/ c \in Range(new)]
           q == s.stack \o new
           n == s.visited_cells + Len(new)
           u == [s EXCEPT !.visited = v, !.visited_cells = n, !.stack = q]
           d == Len(s.stack) + Len(new)
<1>1. visit_all(s, new) = note_depth(u, d)
  BY DEF visit_all
<1> HIDE DEF v, q, n, d
<1>2. /\ u.visited_cells = n /\ u.expanded_nodes = s.expanded_nodes /\ u.reachable = s.reachable
      /\ "peak_stack_depth" \in DOMAIN u
  BY DEF EngineType
<1> HIDE DEF u
<1>3. LET t == [u EXCEPT !.peak_stack_depth = d]
      IN  /\ t.visited_cells = n /\ t.expanded_nodes = s.expanded_nodes
          /\ t.reachable = s.reachable
  BY <1>2
<1>4. QED BY <1>1, <1>2, <1>3 DEF note_depth, n

(* visit_all adds its cells to what is marked and to what waits. *)
LEMMA VisitAllSets ==
  ASSUME NEW s \in EngineType, Sized(s), NEW new \in Seq(Cells(s)), Unmarked(s, new),
         Distinct(new), NEW t, t = visit_all(s, new), NEW N, N = Entries(new)
  PROVE  /\ Visited(t) = Visited(s) \cup N /\ Waiting(t) = Waiting(s) \cup N
         /\ N \cap Visited(s) = {} /\ N \subseteq Cells(s) /\ IsFiniteSet(N)
         /\ t.visited_cells = s.visited_cells + Cardinality(N)
         /\ t.expanded_nodes = s.expanded_nodes /\ t.reachable = s.reachable
         /\ t \in EngineType /\ Alike(s, t)
<1>1. Cells(s) \subseteq Cell /\ Cells(s) \subseteq Nat
  BY CellsFit DEF Cell
<1>2. new \in Seq(Nat)
  BY <1>1, SeqMonotonic
<1>3. t \in EngineType /\ Alike(s, t) /\ t.stack = s.stack \o new /\ Marks(s, t, new)
  BY <1>2, VisitAll
<1>4. /\ t.visited_cells = s.visited_cells + Len(new) /\ t.expanded_nodes = s.expanded_nodes
      /\ t.reachable = s.reachable
  BY <1>2, VisitAllCounts
<1>5. N \subseteq Cells(s) /\ IsFiniteSet(N) /\ Cardinality(N) = Len(new)
  BY EntriesCount
<1>6. N \cap Visited(s) = {}
  BY DEF Entries, Unmarked, Visited
<1>7. Cells(t) = Cells(s)
  BY <1>3, SizedAlike
<1>8. Visited(t) = Visited(s) \cup N
  <2>1. \A c \in Cells(s) : t.visited[c] <=> s.visited[c] \/ c \in N
    BY <1>1, <1>3 DEF Marks, Entries
  <2>2. QED BY <1>5, <1>7, <2>1 DEF Visited
<1>9. Waiting(t) = Waiting(s) \cup N
  <2>1. s.stack \in Seq(Nat)
    BY DEF EngineType
  <2>2. Range(t.stack) = Range(s.stack) \cup Range(new)
    BY <1>2, <1>3, <2>1, RangeConcatenation
  <2>3. \A q \in Seq(Nat) : Range(q) = Entries(q)
    BY RangeEquality DEF Entries
  <2>4. t.stack \in Seq(Nat)
    BY <1>3 DEF EngineType
  <2>5. QED BY <1>2, <2>1, <2>2, <2>3, <2>4 DEF Waiting
<1>10. QED BY <1>3, <1>4, <1>5, <1>6, <1>8, <1>9

(* Popping the last cell and counting it takes it out of what waits. *)
LEMMA PopSets ==
  ASSUME NEW s \in EngineType, Sized(s), Spreading(s), s.stack # <<>>,
         NEW u, u = [s EXCEPT !.stack = Front(s.stack), !.expanded_nodes = s.expanded_nodes + 1]
  PROVE  /\ Last(s.stack) \in Waiting(s) /\ Waiting(s) \subseteq Visited(s)
         /\ u \in EngineType /\ Alike(s, u) /\ Visited(u) = Visited(s)
         /\ Waiting(u) = Waiting(s) \ {Last(s.stack)}
         /\ u.visited_cells = s.visited_cells /\ u.expanded_nodes = s.expanded_nodes + 1
         /\ u.reachable = s.reachable /\ u.visited = s.visited
<1> DEFINE n == Len(s.stack)
           q == s.stack
           f == Front(q)
           k == s.expanded_nodes + 1
<1>1. q \in Seq(Nat) /\ n \in Nat \ {0} /\ Last(q) = q[n] /\ f = SubSeq(q, 1, n - 1)
  <2>1. s.stack \in Seq(Nat)
    BY DEF EngineType
  <2>2. QED BY <2>1, EmptySeq DEF Last, Front
<1>2. /\ \A i \in 1 .. n : q[i] \in Cells(s) /\ s.visited[q[i]]
      /\ \A i, j \in 1 .. n : q[i] = q[j] => i = j
  BY DEF Spreading
<1>3. /\ f \in Seq(Nat) /\ Len(f) = n - 1 /\ \A i \in 1 .. n - 1 : f[i] = q[i]
  <2>1. 1 \in Int /\ n - 1 \in Int /\ \A i \in 1 .. n - 1 : q[i] \in Nat
    <3>1. n - 1 \in Int /\ \A i \in 1 .. n - 1 : i \in 1 .. n
      BY <1>1
    <3>2. \A i \in 1 .. n : q[i] \in Nat
      <4>1. q \in Seq(Nat)
        BY <1>1
      <4>2. QED BY <4>1, ElementOfSeq
    <3>3. QED BY <3>1, <3>2
  <2> HIDE DEF n, q
  <2>2. /\ SubSeq(q, 1, n - 1) \in Seq(Nat)
        /\ Len(SubSeq(q, 1, n - 1)) = IF 1 <= n - 1 THEN n - 1 - 1 + 1 ELSE 0
        /\ \A i \in 1 .. n - 1 - 1 + 1 : SubSeq(q, 1, n - 1)[i] = q[1 + i - 1]
    BY <2>1, SubSeqProperties
  <2> HIDE DEF f
  <2>3. Len(f) = n - 1
    <3>1. n \in Nat \ {0}
      BY <1>1
    <3>2. (IF 1 <= n - 1 THEN n - 1 - 1 + 1 ELSE 0) = n - 1
      BY <3>1
    <3>3. QED BY <1>1, <2>2, <3>2
  <2>4. \A i \in 1 .. n - 1 : i \in 1 .. n - 1 - 1 + 1 /\ 1 + i - 1 = i
    BY <1>1
  <2>5. QED BY <1>1, <2>2, <2>3, <2>4
<1>4. k \in Nat
  <2>1. s.expanded_nodes \in Nat
    BY DEF EngineType
  <2>2. QED BY <2>1
<1>5. Waiting(s) = {q[i] : i \in 1 .. n}
  BY DEF Waiting, Entries
<1> HIDE DEF k, f
<1>6. /\ u \in EngineType /\ u.stack = f /\ u.visited = s.visited /\ u.reachable = s.reachable
      /\ u.visited_cells = s.visited_cells /\ u.expanded_nodes = k
  BY <1>3, <1>4 DEF EngineType, f, k
<1>7. Alike(s, u)
  BY DEF EngineType, Alike
<1>8. Cells(u) = Cells(s)
  BY <1>7, SizedAlike
<1>9. Visited(u) = Visited(s)
  BY <1>6, <1>8 DEF Visited
<1>10. Waiting(u) = {f[i] : i \in 1 .. n - 1}
  BY <1>3, <1>6 DEF Waiting, Entries
<1> HIDE DEF n, q
<1>11. 1 .. n = 1 .. n - 1 \cup {n} /\ n \notin 1 .. n - 1 /\ n \in 1 .. n
  BY <1>1
<1>12. {f[i] : i \in 1 .. n - 1} = {q[i] : i \in 1 .. n - 1}
  BY <1>3
<1>13. {q[i] : i \in 1 .. n - 1} = {q[i] : i \in 1 .. n} \ {q[n]}
  BY <1>2, <1>11
<1>14. Waiting(s) \subseteq Visited(s)
  BY <1>2, <1>5 DEF Visited
<1>15. QED BY <1>1, <1>5, <1>6, <1>7, <1>9, <1>10, <1>11, <1>12, <1>13, <1>14 DEF q, k

(* The cells around one are cells of the grid. *)
LEMMA AroundOf ==
  ASSUME NEW s \in EngineType, Sized(s), NEW c \in Cells(s)
  PROVE  Around(s, c) \subseteq Cells(s)
<1>1. 0 .. s.degree - 1 \subseteq 0 .. 7
  <2>1. s.degree \in {4, 8}
    BY DEF EngineType
  <2>2. QED BY <2>1
<1>2. QED BY <1>1, NeighborOf DEF Around

(* From s to t a cell that was marked has been expanded, and what steps lead
   to from it marked. *)
Expanded(s, t, steps) ==
  /\ Alike(s, t) /\ t.reachable = s.reachable
  /\ \E c \in Visited(s) : Visited(t) = Visited(s) \cup steps[c]
  /\ Opened(s, steps) => Opened(t, steps)
  /\ \A b : Counted(s, b) => Counted(t, b)

(* One pass of the loop that pops a cell and enters what steps lead to. *)
LEMMA SpreadSets ==
  ASSUME NEW s \in EngineType, Sized(s), Spreading(s), s.stack # <<>>,
         NEW steps, \A c \in Cells(s) : steps[c] \subseteq Around(s, c),
         NEW t, t = visit_all([s EXCEPT !.stack = Front(@), !.expanded_nodes = @ + 1],
                              Toward(s, Last(s.stack),
                                {i \in 0 .. s.degree - 1 :
                                   /\ HasNeighbor(s, Last(s.stack), i)
                                   /\ LET n == Neighbor(s, Last(s.stack), i)
                                      IN  ~s.visited[n] /\ n \in steps[Last(s.stack)]}))
  PROVE  Expanded(s, t, steps)
<1> DEFINE c == Last(s.stack)
           dirs == {i \in 0 .. s.degree - 1 :
                      /\ HasNeighbor(s, c, i)
                      /\ LET n == Neighbor(s, c, i) IN ~s.visited[n] /\ n \in steps[c]}
           u == [s EXCEPT !.stack = Front(s.stack), !.expanded_nodes = s.expanded_nodes + 1]
           new == Toward(s, c, dirs)
           N == Entries(new)
<1>1. /\ c \in Waiting(s) /\ Waiting(s) \subseteq Visited(s)
      /\ u \in EngineType /\ Alike(s, u) /\ Visited(u) = Visited(s)
      /\ Waiting(u) = Waiting(s) \ {c}
      /\ u.visited_cells = s.visited_cells /\ u.expanded_nodes = s.expanded_nodes + 1
      /\ u.reachable = s.reachable /\ u.visited = s.visited
  BY PopSets
<1>2. c \in Cells(s) /\ Visited(s) \subseteq Cells(s)
  BY <1>1 DEF Visited
<1>3. s.degree \in {4, 8}
  BY DEF EngineType
<1>4. dirs \in SUBSET (0 .. 7) /\ dirs \in SUBSET Nat /\ IsFiniteSet(dirs)
  <2>1. 0 \in Int /\ 7 \in Int /\ 0 .. 7 \subseteq Nat
    OBVIOUS
  <2>2. dirs \in SUBSET (0 .. 7)
    BY <1>3
  <2> HIDE DEF dirs
  <2>3. IsFiniteSet(0 .. 7)
    BY <2>1, FS_Interval
  <2>4. QED BY <2>1, <2>2, <2>3, FS_Subset
<1>5. new \in Seq(Cells(s)) /\ Unmarked(s, new) /\ Distinct(new)
  <2>1. \A i \in dirs : HasNeighbor(s, c, i) /\ ~s.visited[Neighbor(s, c, i)]
    OBVIOUS
  <2> HIDE DEF dirs, c
  <2>2. QED BY <1>2, <1>4, <2>1, TowardOf
<1>6. N = steps[c] \ Visited(s)
  <2>1. N = {Neighbor(s, c, i) : i \in dirs}
    <3> DEFINE order == InOrder(dirs)
    <3>1. order \in Seq(dirs) /\ Entries(order) = dirs
      BY <1>4, InOrderOf, InOrderAll
    <3> HIDE DEF dirs, order, c
    <3>2. DOMAIN order = 1 .. Len(order) /\ Len(order) \in Nat
      BY <3>1
    <3>3. new = [k \in 1 .. Len(order) |-> Neighbor(s, c, order[k])]
      BY <3>2 DEF Toward, order
    <3>4. Len(new) = Len(order)
      BY <3>2, <3>3
    <3>5. N = {Neighbor(s, c, order[k]) : k \in 1 .. Len(order)}
      BY <3>3, <3>4 DEF Entries
    <3>6. dirs = {order[k] : k \in 1 .. Len(order)}
      BY <3>1 DEF Entries
    <3>7. QED BY <3>5, <3>6
  <2>2. steps[c] \subseteq Around(s, c) /\ Around(s, c) \subseteq Cells(s)
    BY <1>2, AroundOf
  <2> HIDE DEF N, c, new
  <2>3. {Neighbor(s, c, i) : i \in dirs} = {n \in Around(s, c) : ~s.visited[n] /\ n \in steps[c]}
    BY DEF Around
  <2>4. QED BY <2>1, <2>2, <2>3 DEF Visited
<1> HIDE DEF N, new, dirs, u, c
<1>0. N = Entries(new)
  BY DEF N
<1>7. Sized(u) /\ new \in Seq(Cells(u)) /\ Unmarked(u, new)
  BY <1>1, <1>5, SizedAlike DEF Unmarked
<1> DEFINE z == visit_all(u, new)
<1> HIDE DEF z
<1>8. t = z
  BY DEF z, u, new, dirs, c
<1>9. /\ Visited(z) = Visited(u) \cup N /\ Waiting(z) = Waiting(u) \cup N
      /\ N \cap Visited(u) = {} /\ N \subseteq Cells(u) /\ IsFiniteSet(N)
      /\ z.visited_cells = u.visited_cells + Cardinality(N)
      /\ z.expanded_nodes = u.expanded_nodes /\ z.reachable = u.reachable
      /\ z \in EngineType /\ Alike(u, z)
  <2>1. u \in EngineType /\ Sized(u) /\ new \in Seq(Cells(u)) /\ Unmarked(u, new) /\ Distinct(new)
    BY <1>1, <1>5, <1>7
  <2>2. QED BY <1>0, <2>1, VisitAllSets DEF z
<1>10. Alike(s, z)
  BY <1>1, <1>9 DEF Alike
<1>11. Visited(z) = Visited(s) \cup steps[c]
  BY <1>1, <1>6, <1>9
<1>12. Visited(z) \ Waiting(z) = (Visited(s) \ Waiting(s)) \cup {c}
  BY <1>1, <1>9
<1>13. ASSUME Opened(s, steps) PROVE Opened(z, steps)
  BY <1>11, <1>12, <1>13 DEF Opened
<1>14. ASSUME NEW b, Counted(s, b) PROVE Counted(z, b)
  <2> DEFINE V == Visited(s)
             E == V \ Waiting(s)
  <2>1. IsFiniteSet(Cells(s))
    BY CellsFit
  <2>2. V \in SUBSET Cells(s) /\ E \in SUBSET Cells(s)
    BY <1>2
  <2>3. IsFiniteSet(V) /\ IsFiniteSet(E)
    BY <2>1, <2>2, FS_Subset
  <2>4. c \notin E /\ V \cap N = {}
    BY <1>1, <1>9
  <2>5. /\ b \in Nat /\ s.visited_cells = b + Cardinality(V)
        /\ s.expanded_nodes = b + Cardinality(E)
    BY <1>14 DEF Counted
  <2> HIDE DEF V, E
  <2>6. Cardinality(V) \in Nat /\ Cardinality(E) \in Nat /\ Cardinality(N) \in Nat
    BY <1>9, <2>3, FS_CardinalityType
  <2>7. Cardinality(V \cup N) = Cardinality(V) + Cardinality(N)
    <3>1. Cardinality(V \cup N) = Cardinality(V) + Cardinality(N) - Cardinality(V \cap N)
      BY <1>9, <2>3, FS_Union
    <3>2. Cardinality(V \cap N) = 0
      BY <2>4, FS_EmptySet
    <3>3. QED BY <2>6, <3>1, <3>2
  <2>8. Cardinality(E \cup {c}) = Cardinality(E) + 1
    BY <2>3, <2>4, FS_AddElement
  <2>9. Visited(z) = V \cup N /\ Visited(z) \ Waiting(z) = E \cup {c}
    BY <1>1, <1>9, <1>12 DEF V, E
  <2>10. z.visited_cells = b + Cardinality(V) + Cardinality(N)
    BY <1>1, <1>9, <2>5
  <2>11. z.expanded_nodes = b + Cardinality(E) + 1
    BY <1>1, <1>9, <2>5
  <2>12. z.visited_cells = b + Cardinality(V \cup N)
    BY <2>5, <2>6, <2>7, <2>10
  <2>13. z.expanded_nodes = b + Cardinality(E \cup {c})
    BY <2>5, <2>6, <2>8, <2>11
  <2>14. QED BY <2>5, <2>9, <2>12, <2>13 DEF Counted
<1>15. c \in Visited(s) /\ z.reachable = s.reachable
  BY <1>1, <1>9
<1>16. Expanded(s, z, steps)
  BY <1>10, <1>11, <1>13, <1>14, <1>15 DEF Expanded
<1>17. QED BY <1>8, <1>16

(* A seed on an empty stack is marked, waits, and is counted. *)
LEMMA SeedSets ==
  ASSUME NEW s \in EngineType, Sized(s), s.stack = <<>>, NEW c \in Cells(s), ~s.visited[c]
  PROVE  /\ Waiting(s) = {} /\ Waiting(mark_visited(push(s, c), c)) = {c}
         /\ Visited(mark_visited(push(s, c), c)) = Visited(s) \cup {c}
         /\ \A b : Counted(s, b) => Counted(mark_visited(push(s, c), c), b)
<1> DEFINE u == push(s, c)
           t == mark_visited(u, c)
           w == [s EXCEPT !.stack = Append(s.stack, c)]
           h == Len(s.stack) + 1
<1>1. c \in Cell /\ c \in Nat
  BY CellsFit DEF Cell
<1>2. /\ u \in EngineType /\ Alike(s, u) /\ u.visited = s.visited /\ u.frames = s.frames
      /\ u.stack = Append(s.stack, c)
  BY <1>1, Push
<1>3. u.visited_cells = s.visited_cells /\ u.expanded_nodes = s.expanded_nodes
  <2>1. u = note_depth(w, h)
    BY DEF push
  <2>2. /\ w.visited_cells = s.visited_cells /\ w.expanded_nodes = s.expanded_nodes
        /\ "peak_stack_depth" \in DOMAIN w
    BY DEF EngineType
  <2> HIDE DEF w, h, u
  <2>3. LET z == [w EXCEPT !.peak_stack_depth = h]
        IN  z.visited_cells = s.visited_cells /\ z.expanded_nodes = s.expanded_nodes
    BY <2>2
  <2>4. QED BY <2>1, <2>2, <2>3 DEF note_depth
<1> HIDE DEF u
<1>4. /\ t \in EngineType /\ Alike(u, t) /\ t.stack = u.stack
      /\ t.visited = [u.visited EXCEPT ![c] = TRUE]
  BY <1>1, <1>2, MarkVisited
<1>5. t.visited_cells = u.visited_cells + 1 /\ t.expanded_nodes = u.expanded_nodes
  <2> DEFINE v == [u.visited EXCEPT ![c] = TRUE]
             n == u.visited_cells + 1
  <2>1. t = [u EXCEPT !.visited = v, !.visited_cells = n]
    BY <1>2 DEF mark_visited
  <2> HIDE DEF v, n, t
  <2>2. t.visited_cells = n /\ t.expanded_nodes = u.expanded_nodes
    BY <1>2, <2>1 DEF EngineType
  <2>3. QED BY <2>2 DEF n
<1> HIDE DEF t
<1>6. Waiting(s) = {} /\ Waiting(t) = {c}
  <2>1. Len(s.stack) = 0 /\ t.stack = <<c>> /\ Len(t.stack) = 1 /\ t.stack[1] = c
    BY <1>2, <1>4
  <2>2. 1 .. Len(s.stack) = {} /\ 1 .. Len(t.stack) = {1}
    BY <2>1
  <2>3. QED BY <2>1, <2>2 DEF Waiting, Entries
<1>7. Cells(t) = Cells(s)
  BY <1>2, <1>4, SizedAlike DEF Alike
<1>8. Visited(t) = Visited(s) \cup {c}
  <2>1. Cells(s) \subseteq Cell
    BY CellsFit DEF Cell
  <2>2. \A d \in Cells(s) : t.visited[d] <=> s.visited[d] \/ d = c
    BY <1>1, <1>2, <1>4, <2>1 DEF EngineType
  <2>3. QED BY <1>7, <2>2 DEF Visited
<1>9. ASSUME NEW b, Counted(s, b) PROVE Counted(t, b)
  <2> DEFINE V == Visited(s)
  <2>1. IsFiniteSet(Cells(s)) /\ V \in SUBSET Cells(s) /\ c \notin V
    BY CellsFit DEF Visited
  <2>2. /\ b \in Nat /\ s.visited_cells = b + Cardinality(V)
        /\ s.expanded_nodes = b + Cardinality(V \ Waiting(s))
    BY <1>9 DEF Counted
  <2>3. V \ Waiting(s) = V /\ Visited(t) \ Waiting(t) = V /\ Visited(t) = V \cup {c}
    BY <1>6, <1>8, <2>1
  <2> HIDE DEF V
  <2>4. IsFiniteSet(V)
    BY <2>1, FS_Subset
  <2>5. Cardinality(V \cup {c}) = Cardinality(V) + 1 /\ Cardinality(V) \in Nat
    BY <2>1, <2>4, FS_AddElement, FS_CardinalityType
  <2>6. t.visited_cells = b + Cardinality(V) + 1 /\ t.expanded_nodes = b + Cardinality(V)
    BY <1>3, <1>5, <2>2, <2>3
  <2>7. t.visited_cells = b + Cardinality(V \cup {c})
    BY <2>2, <2>5, <2>6
  <2>8. QED BY <2>2, <2>3, <2>6, <2>7 DEF Counted
<1>10. QED BY <1>6, <1>8, <1>9 DEF t, u

(* The row and column of a neighbour. *)
LEMMA NeighborAt ==
  ASSUME NEW s, Sized(s), NEW c \in Cells(s), NEW i \in 0 .. 7, HasNeighbor(s, c, i),
         NEW n, n = Neighbor(s, c, i)
  PROVE  /\ n \div s.cols = (c \div s.cols) + Delta[i + 1][1]
         /\ n % s.cols = (c % s.cols) + Delta[i + 1][2]
<1> DEFINE k == s.cols
           q == c \div k
           m == c % k
           a == n \div k
           b == n % k
           y == Delta[i + 1][1]
           x == Delta[i + 1][2]
           f == q + y
           g == m + x
<1>1. k \in Nat \ {0} /\ y \in Int /\ x \in Int
  BY Directions DEF Sized
<1>2. n \in Cells(s)
  BY NeighborOf
<1>3. /\ m \in 0 .. k - 1 /\ q \in 0 .. s.rows - 1 /\ c = q * k + m
      /\ b \in 0 .. k - 1 /\ a \in 0 .. s.rows - 1 /\ n = a * k + b
  BY <1>2, CoordOf
<1>4. f \in 0 .. s.rows - 1 /\ g \in 0 .. k - 1 /\ n = c + y * k + x
  BY DEF HasNeighbor, Neighbor
<1> HIDE DEF k, q, m, a, b, y, x
<1>5. f * k = q * k + y * k /\ q * k \in Int /\ y * k \in Int
  BY <1>1, <1>3
<1>6. n = f * k + g
  BY <1>1, <1>3, <1>4, <1>5
<1> HIDE DEF f, g
<1>7. a = f /\ b = g
  <2>1. f \in Int /\ a \in Int
    BY <1>3, <1>4
  <2>2. QED BY <1>1, <1>3, <1>4, <1>6, <2>1, OneCoord
<1>8. QED BY <1>7 DEF f, g, k, q, m, a, b, y, x

(* A cell is next to the cells next to it: each direction has its opposite,
   with four directions as with eight. *)
LEMMA AroundBack ==
  ASSUME NEW s \in EngineType, Sized(s), NEW c \in Cells(s), NEW n \in Around(s, c)
  PROVE  c \in Around(s, n)
<1>1. s.degree \in {4, 8}
  BY DEF EngineType
<1>2. PICK i \in 0 .. s.degree - 1 : HasNeighbor(s, c, i) /\ n = Neighbor(s, c, i)
  BY DEF Around
<1>3. i \in {0, 1, 2, 3, 4, 5, 6, 7} /\ (s.degree = 4 => i \in {0, 1, 2, 3})
  BY <1>1
<1> DEFINE dy(h) == Delta[h + 1][1]
           dx(h) == Delta[h + 1][2]
           opposite == <<1, 0, 3, 2, 7, 6, 5, 4>>
           o == opposite[i + 1]
<1>4. o \in 0 .. s.degree - 1 /\ o \in 0 .. 7 /\ dy(o) = 0 - dy(i) /\ dx(o) = 0 - dx(i)
  BY <1>1, <1>3 DEF Delta
<1> DEFINE k == s.cols
           r == s.rows
           q == c \div k
           m == c % k
           a == n \div k
           b == n % k
           y == dy(i)
           x == dx(i)
<1>5. k \in Nat \ {0} /\ r \in Nat \ {0}
  BY DEF Sized
<1>6. i \in 0 .. 7
  BY <1>3
<1>7. n \in Cells(s)
  BY <1>2, <1>6, NeighborOf
<1>8. /\ m \in 0 .. k - 1 /\ q \in 0 .. r - 1 /\ c = q * k + m
      /\ b \in 0 .. k - 1 /\ a \in 0 .. r - 1 /\ n = a * k + b
  BY <1>7, CoordOf
<1>9. q + y \in 0 .. r - 1 /\ m + x \in 0 .. k - 1 /\ n = c + y * k + x
  BY <1>2 DEF HasNeighbor, Neighbor
<1>10. y \in Int /\ x \in Int /\ dy(o) = 0 - y /\ dx(o) = 0 - x
  BY <1>4, <1>6, Directions
<1>11. HasNeighbor(s, n, o) <=> a + dy(o) \in 0 .. r - 1 /\ b + dx(o) \in 0 .. k - 1
  BY DEF HasNeighbor
<1>12. Neighbor(s, n, o) = n + dy(o) * k + dx(o)
  BY DEF Neighbor
<1>13. a = q + y /\ b = m + x
  BY <1>2, <1>6, NeighborAt
<1> HIDE DEF dy, dx, o, k, r, q, m, a, b, y, x
<1>14. q * k \in Int /\ y * k \in Int /\ c \in Int
  BY <1>5, <1>8, <1>10
<1>15. HasNeighbor(s, n, o)
  <2>1. a + dy(o) = q /\ b + dx(o) = m
    BY <1>8, <1>10, <1>13
  <2>2. QED BY <1>8, <1>11, <2>1
<1>16. Neighbor(s, n, o) = c
  <2>1. dy(o) * k = 0 - y * k
    BY <1>5, <1>10
  <2>2. QED BY <1>8, <1>9, <1>10, <1>12, <1>14, <2>1
<1>17. QED BY <1>4, <1>15, <1>16 DEF Around

-----------------------------------------------------------------------------
(* The land that can be walked to from a cell; the islands that have cells in
   S; the cells from which water reaches an ocean. *)
Island(s, c) == Reached(OverLand(s), {c})
Islands(s, S) == {Island(s, c) : c \in S}
Ocean(s, ocean) == Reached(Uphill(s), Coast(s, ocean))

Loaded(s, j) ==
  /\ s.rows = j.rows /\ s.cols = j.cols /\ s.degree = IF j.eight THEN 8 ELSE 4
  /\ \A c \in Cells(s) : s.grid[c] = j.cells[c]

(* What is reached holds its seeds and is closed. *)
LEMMA ReachedClosed ==
  ASSUME NEW steps, NEW S \in SUBSET DOMAIN steps,
         \A c \in DOMAIN steps : steps[c] \subseteq DOMAIN steps
  PROVE  /\ S \subseteq Reached(steps, S) /\ Reached(steps, S) \subseteq DOMAIN steps
         /\ Closed(steps, Reached(steps, S))
<1>1. S \subseteq Reached(steps, S) /\ Reached(steps, S) \subseteq DOMAIN steps
  BY DEF Reached
<1>2. ASSUME NEW c \in Reached(steps, S), NEW n \in steps[c] PROVE n \in Reached(steps, S)
  <2>1. c \in DOMAIN steps /\ n \in DOMAIN steps
    BY <1>1
  <2>2. ASSUME NEW T \in SUBSET DOMAIN steps, S \subseteq T, Closed(steps, T) PROVE n \in T
    <3>1. c \in T
      BY <2>2 DEF Reached
    <3>2. QED BY <2>2, <3>1 DEF Closed
  <2>3. QED BY <2>1, <2>2 DEF Reached
<1>3. QED BY <1>1, <1>2 DEF Closed

(* A closed set around the seeds, with nothing but what is reached, is all
   that is reached. *)
LEMMA ReachedIs ==
  ASSUME NEW steps, NEW S, NEW V, S \subseteq V, V \subseteq Reached(steps, S), Closed(steps, V)
  PROVE  V = Reached(steps, S)
<1>1. V \in SUBSET DOMAIN steps
  BY DEF Reached
<1>2. QED BY <1>1 DEF Reached

(* Engines alike hold the same graph. *)
LEMMA SameGraph ==
  ASSUME NEW s, NEW t, Alike(s, t)
  PROVE  /\ Cells(t) = Cells(s) /\ Land(t) = Land(s)
         /\ OverLand(t) = OverLand(s) /\ Uphill(t) = Uphill(s)
         /\ \A ocean : Coast(t, ocean) = Coast(s, ocean) /\ Ocean(t, ocean) = Ocean(s, ocean)
         /\ \A S : Islands(t, S) = Islands(s, S)
         /\ \A j : Loaded(s, j) => Loaded(t, j)
<1>1. t.rows = s.rows /\ t.cols = s.cols /\ t.degree = s.degree /\ t.grid = s.grid
  BY DEF Alike
<1>2. Cells(t) = Cells(s)
  BY <1>1 DEF Cells
<1>3. \A c : Around(t, c) = Around(s, c)
  BY <1>1 DEF Around, HasNeighbor, Neighbor
<1>4. Land(t) = Land(s)
  BY <1>1, <1>2 DEF Land
<1>5. OverLand(t) = OverLand(s) /\ Uphill(t) = Uphill(s)
  BY <1>1, <1>2, <1>3, <1>4 DEF OverLand, Uphill
<1>6. \A ocean : Coast(t, ocean) = Coast(s, ocean)
  BY <1>1, <1>2 DEF Coast
<1>7. \A ocean : Ocean(t, ocean) = Ocean(s, ocean)
  BY <1>5, <1>6 DEF Ocean
<1>8. \A S : Islands(t, S) = Islands(s, S)
  BY <1>5 DEF Islands, Island
<1>9. \A j : Loaded(s, j) => Loaded(t, j)
  BY <1>1, <1>2 DEF Loaded
<1>10. QED BY <1>2, <1>4, <1>5, <1>6, <1>7, <1>8, <1>9

(* The steps of both graphs lead to cells around. *)
LEMMA StepsAround ==
  ASSUME NEW s \in EngineType, Sized(s)
  PROVE  /\ DOMAIN OverLand(s) = Cells(s) /\ DOMAIN Uphill(s) = Cells(s)
         /\ \A c \in Cells(s) : OverLand(s)[c] = Around(s, c) \cap Land(s)
         /\ \A c \in Cells(s) : OverLand(s)[c] \subseteq Around(s, c)
         /\ \A c \in Cells(s) : Uphill(s)[c] = {n \in Around(s, c) : s.grid[n] >= s.grid[c]}
         /\ \A c \in Cells(s) : Uphill(s)[c] \subseteq Around(s, c)
         /\ \A c \in Cells(s) : OverLand(s)[c] \subseteq Cells(s) /\ Uphill(s)[c] \subseteq Cells(s)
<1>1. \A c \in Cells(s) : Around(s, c) \subseteq Cells(s)
  BY AroundOf
<1>2. QED BY <1>1 DEF OverLand, Uphill

(* Land next to land is of the same island. *)
LEMMA SharedIsland ==
  ASSUME NEW s \in EngineType, Sized(s), NEW m \in Land(s), NEW n \in OverLand(s)[m]
  PROVE  Island(s, n) = Island(s, m)
<1> DEFINE steps == OverLand(s)
<1>1. m \in Cells(s) /\ n \in Around(s, m) /\ n \in Land(s) /\ n \in Cells(s)
  BY StepsAround DEF Land
<1>2. m \in steps[n]
  <2>1. m \in Around(s, n)
    BY <1>1, AroundBack
  <2>2. QED BY <1>1, <2>1, StepsAround
<1>3. n \in steps[m]
  OBVIOUS
<1> HIDE DEF steps
<1>4. \A T \in SUBSET DOMAIN steps :
        Closed(steps, T) => ({n} \subseteq T <=> {m} \subseteq T)
  BY <1>2, <1>3 DEF Closed
<1>5. Reached(steps, {n}) = Reached(steps, {m})
  BY <1>4 DEF Reached
<1>6. QED BY <1>5 DEF Island, steps

(* Land outside a closed set is of another island than any land inside. *)
LEMMA OtherIsland ==
  ASSUME NEW s \in EngineType, Sized(s), NEW V \in SUBSET Cells(s), Closed(OverLand(s), V),
         NEW c \in Cells(s) \ V
  PROVE  Island(s, c) \notin Islands(s, V)
<1>1. DOMAIN OverLand(s) = Cells(s)
  BY StepsAround
<1>2. c \in Island(s, c)
  BY <1>1 DEF Island, Reached
<1>3. \A d \in V : c \notin Island(s, d)
  BY <1>1 DEF Island, Reached
<1>4. QED BY <1>2, <1>3 DEF Islands

-----------------------------------------------------------------------------
(* In the island search, with k the next source and v islands counted: what
   is marked is land, of v islands, and covers the land below k. *)
IslandsSoFar(s, k, v) ==
  /\ k \in Nat
  /\ Visited(s) \subseteq Land(s)
  /\ Opened(s, OverLand(s))
  /\ \A c \in Land(s) : c < k => c \in Visited(s)
  /\ IsFiniteSet(Islands(s, Visited(s))) /\ v = Cardinality(Islands(s, Visited(s)))
  /\ Counted(s, 0)

(* In a flood, with b cells counted before it: what is marked holds the coast
   and is reached from it. *)
FloodSoFar(s, ocean, b) ==
  /\ Coast(s, ocean) \subseteq Visited(s) /\ Visited(s) \subseteq Ocean(s, ocean)
  /\ Opened(s, Uphill(s))
  /\ Counted(s, b)

CountersAt(s, b) == s.visited_cells = b /\ s.expanded_nodes = b

Flooding == {"pacific", "pacific_flood", "atlantic", "atlantic_flood"}

Found(p, s, j, k, v) ==
  /\ p \in {"islands"} \cup Flooding => Loaded(s, j)
  /\ p = "islands" => IslandsSoFar(s, k, v)
  /\ p = "pacific" => CountersAt(s, 0)
  /\ p = "pacific_flood" => FloodSoFar(s, "pacific", 0)
  /\ p \in {"atlantic", "atlantic_flood"} => Reachable(s) = Ocean(s, "pacific")
  /\ p = "atlantic" => CountersAt(s, Cardinality(Reachable(s)))
  /\ p = "atlantic_flood" => FloodSoFar(s, "atlantic", Cardinality(Reachable(s)))

FInv == Found(pc, e, job, scan, value)

(* The directions in which a step of the graph leads to a cell not marked. *)
LEMMA FreshIs ==
  ASSUME NEW s \in EngineType, Sized(s), NEW c \in Cells(s)
  PROVE  /\ {i \in 0 .. s.degree - 1 :
               /\ HasNeighbor(s, c, i)
               /\ LET n == Neighbor(s, c, i) IN ~s.visited[n] /\ s.grid[n] # 0} =
            {i \in 0 .. s.degree - 1 :
               /\ HasNeighbor(s, c, i)
               /\ LET n == Neighbor(s, c, i) IN ~s.visited[n] /\ n \in OverLand(s)[c]}
         /\ {i \in 0 .. s.degree - 1 :
               /\ HasNeighbor(s, c, i)
               /\ LET n == Neighbor(s, c, i) IN ~s.visited[n] /\ s.grid[n] >= s.grid[c]} =
            {i \in 0 .. s.degree - 1 :
               /\ HasNeighbor(s, c, i)
               /\ LET n == Neighbor(s, c, i) IN ~s.visited[n] /\ n \in Uphill(s)[c]}
<1>1. ASSUME NEW i \in 0 .. s.degree - 1, HasNeighbor(s, c, i)
      PROVE  /\ s.grid[Neighbor(s, c, i)] # 0 <=> Neighbor(s, c, i) \in OverLand(s)[c]
             /\ s.grid[Neighbor(s, c, i)] >= s.grid[c] <=> Neighbor(s, c, i) \in Uphill(s)[c]
  <2> DEFINE n == Neighbor(s, c, i)
  <2>1. n \in Around(s, c)
    BY <1>1 DEF Around
  <2>2. n \in Cells(s)
    BY <2>1, AroundOf
  <2> HIDE DEF n
  <2>3. s.grid[n] # 0 <=> n \in OverLand(s)[c]
    BY <2>1, <2>2, StepsAround DEF Land
  <2>4. s.grid[n] >= s.grid[c] <=> n \in Uphill(s)[c]
    BY <2>1, StepsAround
  <2>5. QED BY <2>3, <2>4 DEF n
<1>2. QED BY <1>1

(* When nothing waits, what is marked is closed, and counted. *)
LEMMA Settled ==
  ASSUME NEW s, s.stack = <<>>, NEW steps
  PROVE  /\ Waiting(s) = {}
         /\ Opened(s, steps) => Closed(steps, Visited(s))
         /\ \A b : Counted(s, b) => CountersAt(s, b + Cardinality(Visited(s)))
<1>1. Waiting(s) = {}
  <2>1. Len(s.stack) = 0
    OBVIOUS
  <2>2. 1 .. Len(s.stack) = {}
    BY <2>1
  <2>3. QED BY <2>2 DEF Waiting, Entries
<1>2. Visited(s) \ Waiting(s) = Visited(s)
  BY <1>1
<1>3. QED BY <1>1, <1>2 DEF Opened, Closed, Counted, CountersAt

(* A pass over a cell that waits finds no new island. *)
LEMMA SpreadOverLand ==
  ASSUME NEW s \in EngineType, Sized(s), NEW t, Expanded(s, t, OverLand(s)),
         NEW k, NEW v, IslandsSoFar(s, k, v)
  PROVE  IslandsSoFar(t, k, v)
<1> DEFINE steps == OverLand(s)
<1>1. PICK c \in Visited(s) : Visited(t) = Visited(s) \cup steps[c]
  BY DEF Expanded
<1>2. /\ Alike(s, t)
      /\ Opened(s, steps) => Opened(t, steps)
      /\ \A b : Counted(s, b) => Counted(t, b)
  BY DEF Expanded
<1>3. Land(t) = Land(s) /\ OverLand(t) = steps /\ \A S : Islands(t, S) = Islands(s, S)
  BY <1>2, SameGraph
<1>4. c \in Cells(s) /\ c \in Land(s) /\ steps[c] \subseteq Land(s)
  BY StepsAround DEF IslandsSoFar, Visited
<1>5. \A n \in steps[c] : Island(s, n) = Island(s, c)
  BY <1>4, SharedIsland
<1> HIDE DEF steps
<1>6. Islands(s, Visited(t)) = Islands(s, Visited(s))
  BY <1>1, <1>5 DEF Islands
<1>7. Visited(t) \subseteq Land(t) /\ \A d \in Land(t) : d < k => d \in Visited(t)
  BY <1>1, <1>3, <1>4 DEF IslandsSoFar
<1>8. Opened(t, OverLand(t)) /\ Counted(t, 0)
  BY <1>2, <1>3 DEF IslandsSoFar, steps
<1>9. IsFiniteSet(Islands(t, Visited(t))) /\ v = Cardinality(Islands(t, Visited(t)))
  BY <1>3, <1>6 DEF IslandsSoFar
<1>10. QED BY <1>7, <1>8, <1>9 DEF IslandsSoFar

(* A source that is land not yet marked is of an island not yet counted. *)
LEMMA SeedFinds ==
  ASSUME NEW s \in EngineType, Sized(s), s.stack = <<>>, NEW k \in Cells(s), NEW v,
         IslandsSoFar(s, k, v), s.grid[k] # 0, ~s.visited[k],
         NEW t, t = mark_visited(push(s, k), k)
  PROVE  Alike(s, t) /\ IslandsSoFar(t, k + 1, v + 1)
<1>1. Alike(s, t)
  BY SeedStep
<1>2. /\ Waiting(s) = {} /\ Waiting(t) = {k} /\ Visited(t) = Visited(s) \cup {k}
      /\ \A b : Counted(s, b) => Counted(t, b)
  BY SeedSets
<1>3. Land(t) = Land(s) /\ OverLand(t) = OverLand(s) /\ \A S : Islands(t, S) = Islands(s, S)
  BY <1>1, SameGraph
<1> DEFINE V == Visited(s)
           I == Islands(s, V)
<1>4. k \in Land(s) /\ k \notin V /\ V \in SUBSET Cells(s)
  BY DEF Land, Visited
<1>5. Closed(OverLand(s), V)
  BY Settled DEF IslandsSoFar
<1>6. Island(s, k) \notin I
  BY <1>4, <1>5, OtherIsland
<1>7. Islands(s, V \cup {k}) = I \cup {Island(s, k)}
  BY DEF Islands
<1>8. IsFiniteSet(I) /\ v = Cardinality(I)
  BY DEF IslandsSoFar
<1> HIDE DEF I
<1>9. IsFiniteSet(I \cup {Island(s, k)}) /\ Cardinality(I \cup {Island(s, k)}) = v + 1
  BY <1>6, <1>8, FS_AddElement
<1>10. Opened(t, OverLand(t))
  BY <1>2, <1>3, <1>5 DEF Opened, Closed
<1>11. k \in Nat /\ k + 1 \in Nat /\ \A c \in Land(s) : c < k + 1 => c < k \/ c = k
  <2>1. Cells(s) \subseteq Nat
    BY CellsFit
  <2>2. k \in Nat /\ \A c \in Land(s) : c \in Nat
    BY <2>1 DEF Land
  <2>3. QED BY <2>2
<1>12. Visited(t) \subseteq Land(t) /\ \A c \in Land(t) : c < k + 1 => c \in Visited(t)
  BY <1>2, <1>3, <1>4, <1>11 DEF IslandsSoFar
<1>13. Counted(t, 0)
  BY <1>2 DEF IslandsSoFar
<1>14. IsFiniteSet(Islands(t, Visited(t))) /\ v + 1 = Cardinality(Islands(t, Visited(t)))
  BY <1>2, <1>3, <1>7, <1>9
<1>15. QED BY <1>1, <1>10, <1>11, <1>12, <1>13, <1>14 DEF IslandsSoFar

(* When the scan is over and nothing waits, all land is marked. *)
LEMMA IslandsDone ==
  ASSUME NEW s, Sized(s), s.stack = <<>>, NEW k, k \notin Cells(s), NEW v, IslandsSoFar(s, k, v)
  PROVE  /\ Visited(s) = Land(s) /\ v = Cardinality(Islands(s, Land(s)))
         /\ CountersAt(s, Cardinality(Land(s)))
<1>1. s.rows * s.cols \in Nat /\ k \in Nat
  BY CellsFit DEF IslandsSoFar
<1>2. \A c \in Cells(s) : c < k
  BY <1>1 DEF Cells
<1>3. Visited(s) = Land(s)
  BY <1>2 DEF IslandsSoFar, Land
<1>4. CountersAt(s, 0 + Cardinality(Visited(s)))
  BY Settled DEF IslandsSoFar
<1>5. 0 + Cardinality(Land(s)) = Cardinality(Land(s))
  <2>1. IsFiniteSet(Cells(s)) /\ Land(s) \in SUBSET Cells(s)
    BY CellsFit DEF Land
  <2>2. IsFiniteSet(Land(s))
    BY <2>1, FS_Subset
  <2>3. QED BY <2>2, FS_CardinalityType
<1>6. QED BY <1>3, <1>4, <1>5 DEF IslandsSoFar

(* The coast is of cells, and what a flood can reach holds it and is closed. *)
LEMMA OceanOf ==
  ASSUME NEW s \in EngineType, Sized(s), NEW ocean
  PROVE  /\ Coast(s, ocean) \subseteq Cells(s) /\ Coast(s, ocean) \subseteq Ocean(s, ocean)
         /\ Ocean(s, ocean) \subseteq Cells(s) /\ Closed(Uphill(s), Ocean(s, ocean))
<1> DEFINE steps == Uphill(s)
           S == Coast(s, ocean)
<1>1. S \subseteq Cells(s)
  BY DEF Coast
<1>2. DOMAIN steps = Cells(s) /\ \A c \in DOMAIN steps : steps[c] \subseteq DOMAIN steps
  BY StepsAround
<1>3. S \in SUBSET DOMAIN steps
  BY <1>1, <1>2
<1> HIDE DEF steps, S
<1>4. /\ S \subseteq Reached(steps, S) /\ Reached(steps, S) \subseteq DOMAIN steps
      /\ Closed(steps, Reached(steps, S))
  BY <1>2, <1>3, ReachedClosed
<1>5. Ocean(s, ocean) = Reached(steps, S)
  BY DEF Ocean, steps, S
<1>6. QED BY <1>1, <1>2, <1>4, <1>5 DEF steps, S

(* A flood begins with its coast, all of it waiting. *)
LEMMA CoastFinds ==
  ASSUME NEW s \in EngineType, Sized(s), NEW ocean, NEW b \in Nat, CountersAt(s, b),
         NEW t, t = visit_all([clear_visited(s) EXCEPT !.stack = <<>>],
                      InOrder({c \in Coast(s, ocean) :
                                 ~[clear_visited(s) EXCEPT !.stack = <<>>].visited[c]}))
  PROVE  /\ Alike(s, t) /\ FloodSoFar(t, ocean, b) /\ Reachable(t) = Reachable(s)
<1> DEFINE u == clear_visited(s)
           clean == [u EXCEPT !.stack = <<>>]
           S == {c \in Coast(s, ocean) : ~clean.visited[c]}
           new == InOrder(S)
<1>1. /\ u \in EngineType /\ Alike(s, u) /\ \A c \in Cells(s) \cap Cell : ~u.visited[c]
  BY ClearVisited
<1>2. /\ u.visited_cells = s.visited_cells /\ u.expanded_nodes = s.expanded_nodes
      /\ u.reachable = s.reachable
  BY DEF clear_visited, EngineType
<1> HIDE DEF u
<1>3. /\ clean \in EngineType /\ Alike(u, clean) /\ clean.visited = u.visited /\ clean.stack = <<>>
      /\ clean.visited_cells = u.visited_cells /\ clean.expanded_nodes = u.expanded_nodes
      /\ clean.reachable = u.reachable
  <2>1. <<>> \in Seq(Nat)
    OBVIOUS
  <2>2. QED BY <1>1, <2>1 DEF EngineType, Alike
<1>4. Alike(s, clean) /\ Cells(clean) = Cells(s) /\ Sized(clean)
  <2>1. Alike(s, clean)
    BY <1>1, <1>3 DEF Alike
  <2> HIDE DEF clean
  <2>2. QED BY <2>1, SizedAlike
<1>5. Cells(s) \subseteq Cell /\ Cells(s) \subseteq Nat /\ IsFiniteSet(Cells(s))
  BY CellsFit DEF Cell
<1>6. Visited(clean) = {}
  BY <1>1, <1>3, <1>4, <1>5 DEF Visited
<1>7. S = Coast(s, ocean) /\ S \in SUBSET Cells(s)
  BY <1>1, <1>3, <1>5 DEF Coast
<1>8. t = visit_all(clean, new)
  BY DEF u
<1> HIDE DEF S
<1>9. S \in SUBSET Nat /\ IsFiniteSet(S)
  BY <1>5, <1>7, FS_Subset
<1>10. new \in Seq(S) /\ Distinct(new) /\ Entries(new) = S
  BY <1>9, InOrderOf, InOrderAll DEF Distinct
<1> HIDE DEF new, clean
<1>11. new \in Seq(Cells(clean))
  BY <1>4, <1>7, <1>10, SeqMonotonic
<1>12. Unmarked(clean, new)
  <2>1. \A c \in Cells(s) : ~clean.visited[c]
    BY <1>4, <1>6 DEF Visited
  <2>2. \A i \in 1 .. Len(new) : new[i] \in S
    BY <1>10 DEF Entries
  <2>3. QED BY <1>7, <2>1, <2>2 DEF Unmarked
<1> DEFINE z == visit_all(clean, new)
<1> HIDE DEF z
<1>13. t = z
  BY <1>8 DEF z
<1>14. /\ Visited(z) = Visited(clean) \cup S /\ Waiting(z) = Waiting(clean) \cup S
       /\ z.visited_cells = clean.visited_cells + Cardinality(S)
       /\ z.expanded_nodes = clean.expanded_nodes /\ z.reachable = clean.reachable
       /\ z \in EngineType /\ Alike(clean, z)
  <2>1. S = Entries(new)
    BY <1>10
  <2>2. QED BY <1>3, <1>4, <1>10, <1>11, <1>12, <2>1, VisitAllSets DEF z
<1>15. Alike(s, z)
  BY <1>4, <1>14 DEF Alike
<1>16. Visited(z) = S /\ Visited(z) \ Waiting(z) = {}
  BY <1>6, <1>14
<1>17. Cells(z) = Cells(s) /\ Coast(z, ocean) = S /\ Ocean(z, ocean) = Ocean(s, ocean)
  BY <1>7, <1>15, SameGraph
<1>18. S \subseteq Ocean(s, ocean)
  BY <1>7, OceanOf
<1>19. Counted(z, b)
  <2>1. Cardinality({}) = 0 /\ b + 0 = b
    BY FS_EmptySet
  <2>2. z.visited_cells = b + Cardinality(S) /\ z.expanded_nodes = b
    BY <1>2, <1>3, <1>14 DEF CountersAt
  <2>3. QED BY <1>16, <2>1, <2>2 DEF Counted
<1>20. Opened(z, Uphill(z))
  BY <1>16 DEF Opened
<1>21. Reachable(z) = Reachable(s)
  BY <1>2, <1>3, <1>14, <1>17 DEF Reachable
<1>22. FloodSoFar(z, ocean, b)
  BY <1>16, <1>17, <1>18, <1>19, <1>20 DEF FloodSoFar
<1>23. QED BY <1>13, <1>15, <1>21, <1>22

(* A pass over a cell that waits goes on uphill from it. *)
LEMMA SpreadUphill ==
  ASSUME NEW s \in EngineType, Sized(s), NEW t, Expanded(s, t, Uphill(s)),
         NEW ocean, NEW b, FloodSoFar(s, ocean, b)
  PROVE  FloodSoFar(t, ocean, b) /\ Reachable(t) = Reachable(s)
<1> DEFINE steps == Uphill(s)
<1>1. PICK c \in Visited(s) : Visited(t) = Visited(s) \cup steps[c]
  BY DEF Expanded
<1>2. /\ Alike(s, t) /\ t.reachable = s.reachable
      /\ Opened(s, steps) => Opened(t, steps)
      /\ \A a : Counted(s, a) => Counted(t, a)
  BY DEF Expanded
<1>3. /\ Cells(t) = Cells(s) /\ Uphill(t) = steps
      /\ Coast(t, ocean) = Coast(s, ocean) /\ Ocean(t, ocean) = Ocean(s, ocean)
  BY <1>2, SameGraph
<1>4. steps[c] \subseteq Ocean(s, ocean)
  <2>1. c \in Ocean(s, ocean)
    BY DEF FloodSoFar
  <2>2. QED BY <2>1, OceanOf DEF Closed
<1> HIDE DEF steps
<1>5. Reachable(t) = Reachable(s)
  BY <1>2, <1>3 DEF Reachable
<1>6. Coast(t, ocean) \subseteq Visited(t) /\ Visited(t) \subseteq Ocean(t, ocean)
  BY <1>1, <1>3, <1>4 DEF FloodSoFar
<1>7. Opened(t, Uphill(t)) /\ Counted(t, b)
  BY <1>2, <1>3 DEF FloodSoFar, steps
<1>8. QED BY <1>5, <1>6, <1>7 DEF FloodSoFar

(* When nothing waits, a flood has marked all its ocean reaches. *)
LEMMA FloodDone ==
  ASSUME NEW s \in EngineType, Sized(s), s.stack = <<>>, NEW ocean, NEW b, FloodSoFar(s, ocean, b)
  PROVE  /\ Visited(s) = Ocean(s, ocean) /\ Closed(Uphill(s), Visited(s))
         /\ Coast(s, ocean) \subseteq Visited(s)
         /\ CountersAt(s, b + Cardinality(Visited(s)))
<1>1. Closed(Uphill(s), Visited(s)) /\ CountersAt(s, b + Cardinality(Visited(s)))
  BY Settled DEF FloodSoFar
<1>2. Visited(s) = Ocean(s, ocean)
  BY <1>1, ReachedIs DEF FloodSoFar, Ocean
<1>3. QED BY <1>1, <1>2 DEF FloodSoFar

(* The job is loaded as given, and the counters start from 0. *)
LEMMA LoadFinds ==
  ASSUME IInv, NEW j \in Jobs, FitsEngine(j)
  PROVE  Loaded(Load(j), j) /\ CountersAt(Load(j), 0)
<1> DEFINE m == IF Len(j.words) > MaxWords THEN MaxWords ELSE Len(j.words)
           d == IF j.eight THEN 8 ELSE 4
           g == [c \in DOMAIN e.grid |-> IF c < j.rows * j.cols THEN j.cells[c] ELSE e.grid[c]]
           w == SubSeq(j.words, 1, m)
           z == Zeroed
           t == Load(j)
<1>1. e \in EngineType
  BY DEF IInv
<1>2. /\ {"rows", "cols", "degree", "grid", "words"} \subseteq DOMAIN z
      /\ z.visited_cells = 0 /\ z.expanded_nodes = 0
  BY <1>1 DEF Zeroed, EngineType
<1>3. t = [z EXCEPT !.rows = j.rows, !.cols = j.cols, !.degree = d, !.grid = g, !.words = w]
  BY DEF Load
<1>4. Sized(t)
  BY LoadOf
<1> HIDE DEF z, w, g, d, t
<1>5. /\ t.rows = j.rows /\ t.cols = j.cols /\ t.degree = d /\ t.grid = g
      /\ t.visited_cells = 0 /\ t.expanded_nodes = 0
  BY <1>2, <1>3
<1>6. Cells(t) \subseteq Cell /\ t.rows * t.cols \in Nat
  BY <1>4, CellsFit DEF Cell
<1>7. \A c \in Cells(t) : t.grid[c] = j.cells[c]
  <2>1. DOMAIN e.grid = Cell
    BY <1>1 DEF EngineType
  <2>2. j.rows * j.cols \in Nat /\ Cells(t) = 0 .. j.rows * j.cols - 1
    BY <1>5, <1>6 DEF Cells
  <2>3. \A c \in Cells(t) : c < j.rows * j.cols
    BY <2>2
  <2>4. QED BY <1>5, <1>6, <2>1, <2>3 DEF g
<1>8. QED BY <1>5, <1>7 DEF Loaded, CountersAt, d, t

(* Every search starts having found nothing, whatever the last call left. *)
LEMMA CallFinds == ASSUME IInv, NEW j \in Jobs, Call(j) PROVE FInv'
<1> DEFINE s == Load(j)
<1>1. FitsEngine(j) /\ e' = Cleared(j, s) /\ pc' = Loop(j) /\ job' = j /\ scan' = 0 /\ value' = 0
  BY DEF Call
<1>2. s \in EngineType /\ Sized(s) /\ s.stack = <<>> /\ Loaded(s, j) /\ CountersAt(s, 0)
  BY <1>1, LoadOf, LoadFinds
<1> HIDE DEF s
<1>3. CASE j.mode = "islands"
  <2> DEFINE u == clear_visited(s)
  <2>1. e' = u /\ pc' = "islands"
    BY <1>1, <1>3 DEF Cleared, Loop
  <2>2. /\ u \in EngineType /\ Alike(s, u) /\ u.stack = s.stack
        /\ \A c \in Cells(s) \cap Cell : ~u.visited[c]
    BY <1>2, ClearVisited
  <2>3. u.visited_cells = s.visited_cells /\ u.expanded_nodes = s.expanded_nodes
    BY <1>2 DEF clear_visited, EngineType
  <2> HIDE DEF u
  <2>4. Cells(u) = Cells(s) /\ Cells(s) \subseteq Cell /\ Loaded(u, j)
    BY <1>2, <2>2, SameGraph, CellsFit DEF Cell
  <2>5. Visited(u) = {} /\ Visited(u) \ Waiting(u) = {} /\ Islands(u, {}) = {}
    BY <2>2, <2>4 DEF Visited, Islands
  <2>6. \A c \in Land(u) : ~(c < 0)
    <3>1. \A c \in Cells(u) : c \in Nat
      BY <1>2, <2>4, CellsFit
    <3>2. QED BY <3>1 DEF Land
  <2>7. Cardinality({}) = 0 /\ IsFiniteSet({}) /\ 0 + 0 = 0
    BY FS_EmptySet
  <2>8. Counted(u, 0)
    BY <1>2, <2>3, <2>5, <2>7 DEF Counted, CountersAt
  <2>9. IslandsSoFar(u, 0, 0)
    BY <2>5, <2>6, <2>7, <2>8 DEF IslandsSoFar, Opened
  <2>10. QED BY <1>1, <2>1, <2>4, <2>9 DEF FInv, Found, Flooding
<1>4. CASE j.mode = "pacific"
  <2>1. e' = s /\ pc' = "pacific"
    BY <1>1, <1>4 DEF Cleared, Loop
  <2>2. QED BY <1>1, <1>2, <2>1 DEF FInv, Found, Flooding
<1>5. CASE j.mode \in {"paths", "increasing", "words", "other"}
  <2>1. pc' \notin {"islands"} \cup Flooding
    BY <1>1, <1>5 DEF Loop, Flooding
  <2>2. QED BY <2>1 DEF FInv, Found, Flooding
<1>6. j.mode \in {"islands", "pacific", "paths", "increasing", "words", "other"}
  BY JobsAssumption
<1>7. QED BY <1>3, <1>4, <1>5, <1>6

(* The loop over the sources counts an island at its first cell only. *)
LEMMA IslandsSourceFinds == IInv /\ FInv /\ IslandsSource => FInv'
<1> SUFFICES ASSUME IInv, FInv, IslandsSource PROVE FInv'
  OBVIOUS
<1>1. /\ e \in EngineType /\ Sized(e) /\ e.stack = <<>> /\ scan \in Cells(e)
      /\ pc' = "islands" /\ job' = job /\ scan' = scan + 1
      /\ Loaded(e, job) /\ IslandsSoFar(e, scan, value)
  BY DEF IInv, Shape, FInv, Found, Flooding, IslandsSource, call
<1>2. CASE e' = e /\ value' = value /\ (e.grid[scan] = 0 \/ e.visited[scan])
  <2>1. scan \in Nat /\ \A c \in Land(e) : c \in Nat
    BY <1>1, CellsFit DEF Land
  <2>2. scan + 1 \in Nat /\ \A c \in Land(e) : c < scan + 1 => c < scan \/ c = scan
    BY <2>1
  <2>3. scan \in Land(e) => scan \in Visited(e)
    BY <1>1, <1>2 DEF Land, Visited
  <2>4. IslandsSoFar(e, scan + 1, value)
    BY <1>1, <2>2, <2>3 DEF IslandsSoFar
  <2>5. QED BY <1>1, <1>2, <2>4 DEF FInv, Found, Flooding
<1>3. CASE e' = mark_visited(push(e, scan), scan) /\ value' = value + 1
           /\ e.grid[scan] # 0 /\ ~e.visited[scan]
  <2>1. Alike(e, e') /\ IslandsSoFar(e', scan + 1, value + 1)
    BY <1>1, <1>3, SeedFinds
  <2>2. Loaded(e', job)
    BY <1>1, <2>1, SameGraph
  <2>3. QED BY <1>1, <1>3, <2>1, <2>2 DEF FInv, Found, Flooding
<1>4. QED BY <1>2, <1>3 DEF IslandsSource

(* One pass of the loop of flood over an island. *)
LEMMA IslandsSpreadFinds == IInv /\ FInv /\ IslandsSpread => FInv'
<1> SUFFICES ASSUME IInv, FInv, IslandsSpread PROVE FInv'
  OBVIOUS
<1>1. /\ e \in EngineType /\ Sized(e) /\ Spreading(e) /\ e.stack # <<>>
      /\ pc' = "islands" /\ job' = job /\ scan' = scan /\ value' = value
      /\ Loaded(e, job) /\ IslandsSoFar(e, scan, value)
  BY DEF IInv, Shape, Spreads, FInv, Found, Flooding, IslandsSpread, call
<1>2. Last(e.stack) \in Cells(e)
  BY <1>1, PopSets DEF Visited
<1>3. \A c \in Cells(e) : OverLand(e)[c] \subseteq Around(e, c)
  BY <1>1, StepsAround
<1>4. Expanded(e, e', OverLand(e))
  <2>1. e' = visit_all([e EXCEPT !.stack = Front(@), !.expanded_nodes = @ + 1],
                       Toward(e, Last(e.stack),
                         {i \in 0 .. e.degree - 1 :
                            /\ HasNeighbor(e, Last(e.stack), i)
                            /\ LET n == Neighbor(e, Last(e.stack), i)
                               IN  ~e.visited[n] /\ e.grid[n] # 0}))
    BY DEF IslandsSpread, Spread, Fresh
  <2>2. e' = visit_all([e EXCEPT !.stack = Front(@), !.expanded_nodes = @ + 1],
                       Toward(e, Last(e.stack),
                         {i \in 0 .. e.degree - 1 :
                            /\ HasNeighbor(e, Last(e.stack), i)
                            /\ LET n == Neighbor(e, Last(e.stack), i)
                               IN  ~e.visited[n] /\ n \in OverLand(e)[Last(e.stack)]}))
    BY <1>1, <1>2, <2>1, FreshIs
  <2>3. QED BY <1>1, <1>3, <2>2, SpreadSets
<1>5. Alike(e, e') /\ IslandsSoFar(e', scan, value)
  BY <1>1, <1>4, SpreadOverLand DEF Expanded
<1>6. Loaded(e', job)
  BY <1>1, <1>5, SameGraph
<1>7. QED BY <1>1, <1>5, <1>6 DEF FInv, Found, Flooding

(* One pass of the loop of flood from an ocean. *)
LEMMA FloodSpreadFinds == IInv /\ FInv /\ FloodSpread => FInv'
<1> SUFFICES ASSUME IInv, FInv, FloodSpread PROVE FInv'
  OBVIOUS
<1>1. /\ e \in EngineType /\ Sized(e) /\ Spreading(e) /\ e.stack # <<>>
      /\ pc \in {"pacific_flood", "atlantic_flood"} /\ pc' = pc /\ job' = job /\ Loaded(e, job)
  BY DEF IInv, Shape, Spreads, FInv, Found, Flooding, FloodSpread, call
<1>2. Last(e.stack) \in Cells(e)
  BY <1>1, PopSets DEF Visited
<1>3. \A c \in Cells(e) : Uphill(e)[c] \subseteq Around(e, c)
  BY <1>1, StepsAround
<1>4. Expanded(e, e', Uphill(e))
  <2>1. e' = visit_all([e EXCEPT !.stack = Front(@), !.expanded_nodes = @ + 1],
                       Toward(e, Last(e.stack),
                         {i \in 0 .. e.degree - 1 :
                            /\ HasNeighbor(e, Last(e.stack), i)
                            /\ LET n == Neighbor(e, Last(e.stack), i)
                               IN  ~e.visited[n] /\ e.grid[n] >= e.grid[Last(e.stack)]}))
    BY DEF FloodSpread, Spread, Fresh
  <2>2. e' = visit_all([e EXCEPT !.stack = Front(@), !.expanded_nodes = @ + 1],
                       Toward(e, Last(e.stack),
                         {i \in 0 .. e.degree - 1 :
                            /\ HasNeighbor(e, Last(e.stack), i)
                            /\ LET n == Neighbor(e, Last(e.stack), i)
                               IN  ~e.visited[n] /\ n \in Uphill(e)[Last(e.stack)]}))
    BY <1>1, <1>2, <2>1, FreshIs
  <2>3. QED BY <1>1, <1>3, <2>2, SpreadSets
<1>5. Alike(e, e')
  BY <1>4 DEF Expanded
<1>6. /\ Loaded(e', job) /\ \A ocean : Ocean(e', ocean) = Ocean(e, ocean)
  BY <1>1, <1>5, SameGraph
<1>7. CASE pc = "pacific_flood"
  <2>1. FloodSoFar(e, "pacific", 0)
    BY <1>7 DEF FInv, Found
  <2>2. FloodSoFar(e', "pacific", 0)
    BY <1>1, <1>4, <2>1, SpreadUphill
  <2>3. QED BY <1>1, <1>6, <1>7, <2>2 DEF FInv, Found, Flooding
<1>8. CASE pc = "atlantic_flood"
  <2>1. FloodSoFar(e, "atlantic", Cardinality(Reachable(e))) /\ Reachable(e) = Ocean(e, "pacific")
    BY <1>8 DEF FInv, Found
  <2>2. FloodSoFar(e', "atlantic", Cardinality(Reachable(e))) /\ Reachable(e') = Reachable(e)
    BY <1>1, <1>4, <2>1, SpreadUphill
  <2>3. Reachable(e') = Ocean(e', "pacific")
    BY <1>6, <2>1, <2>2
  <2>4. QED BY <1>1, <1>6, <1>8, <2>2, <2>3 DEF FInv, Found, Flooding
<1>9. QED BY <1>1, <1>7, <1>8

(* A flood starts on a clean grid, whatever the search before it marked. *)
LEMMA FloodSourcesFinds == IInv /\ FInv /\ FloodSources => FInv'
<1> SUFFICES ASSUME IInv, FInv, FloodSources PROVE FInv'
  OBVIOUS
<1>1. e \in EngineType /\ Sized(e) /\ Loaded(e, job) /\ job' = job /\ pc \in {"pacific", "atlantic"}
  BY DEF IInv, Shape, FInv, Found, Flooding, FloodSources, call
<1>2. e' = visit_all([clear_visited(e) EXCEPT !.stack = <<>>],
             InOrder({c \in Coast(e, pc) : ~[clear_visited(e) EXCEPT !.stack = <<>>].visited[c]}))
  BY DEF FloodSources
<1>3. ASSUME NEW b \in Nat, CountersAt(e, b)
      PROVE  Alike(e, e') /\ FloodSoFar(e', pc, b) /\ Reachable(e') = Reachable(e)
  BY <1>1, <1>2, <1>3, CoastFinds
<1>4. Alike(e, e') => Loaded(e', job) /\ Ocean(e', "pacific") = Ocean(e, "pacific")
  BY <1>1, SameGraph
<1>5. CASE pc = "pacific"
  <2>1. CountersAt(e, 0) /\ pc' = "pacific_flood"
    BY <1>5 DEF FInv, Found, FloodSources
  <2>2. Alike(e, e') /\ FloodSoFar(e', "pacific", 0)
    BY <1>3, <1>5, <2>1
  <2>3. QED BY <1>1, <1>4, <2>1, <2>2 DEF FInv, Found, Flooding
<1>6. CASE pc = "atlantic"
  <2> DEFINE b == Cardinality(Reachable(e))
  <2>1. CountersAt(e, b) /\ Reachable(e) = Ocean(e, "pacific") /\ pc' = "atlantic_flood"
    BY <1>6 DEF FInv, Found, FloodSources
  <2>2. b \in Nat
    <3>1. IsFiniteSet(Cells(e)) /\ Reachable(e) \in SUBSET Cells(e)
      BY <1>1, CellsFit DEF Reachable
    <3>2. IsFiniteSet(Reachable(e))
      BY <3>1, FS_Subset
    <3>3. QED BY <3>2, FS_CardinalityType
  <2> HIDE DEF b
  <2>3. Alike(e, e') /\ FloodSoFar(e', "atlantic", b) /\ Reachable(e') = Reachable(e)
    BY <1>3, <1>6, <2>1, <2>2
  <2>4. b = Cardinality(Reachable(e')) /\ Reachable(e') = Ocean(e', "pacific")
    BY <1>4, <2>1, <2>3 DEF b
  <2>5. QED BY <1>1, <1>4, <2>1, <2>3, <2>4 DEF FInv, Found, Flooding
<1>7. QED BY <1>1, <1>5, <1>6

(* What the first ocean reached is kept as it was found. *)
LEMMA KeepPacificFinds == IInv /\ FInv /\ KeepPacific => FInv'
<1> SUFFICES ASSUME IInv, FInv, KeepPacific PROVE FInv'
  OBVIOUS
<1> DEFINE r == [c \in DOMAIN e.reachable |-> IF c \in Cells(e) THEN e.visited[c] ELSE e.reachable[c]]
<1>1. /\ e \in EngineType /\ Sized(e) /\ e.stack = <<>> /\ Loaded(e, job) /\ job' = job
      /\ pc' = "atlantic" /\ FloodSoFar(e, "pacific", 0)
  BY DEF IInv, Shape, FInv, Found, Flooding, KeepPacific, call
<1>2. Visited(e) = Ocean(e, "pacific") /\ CountersAt(e, 0 + Cardinality(Visited(e)))
  BY <1>1, FloodDone
<1>3. CountersAt(e, Cardinality(Visited(e)))
  <2>1. IsFiniteSet(Cells(e)) /\ Visited(e) \in SUBSET Cells(e)
    BY <1>1, CellsFit DEF Visited
  <2>2. IsFiniteSet(Visited(e))
    BY <2>1, FS_Subset
  <2>3. 0 + Cardinality(Visited(e)) = Cardinality(Visited(e))
    BY <2>2, FS_CardinalityType
  <2>4. QED BY <1>2, <2>3
<1>4. e' = [e EXCEPT !.reachable = r]
  BY DEF KeepPacific
<1>5. \A c \in Cells(e) : r[c] = e.visited[c]
  <2>1. DOMAIN e.reachable = Cell /\ Cells(e) \subseteq Cell
    BY <1>1, CellsFit DEF EngineType, Cell
  <2>2. QED BY <2>1
<1> HIDE DEF r
<1>6. /\ Alike(e, e') /\ e'.reachable = r
      /\ e'.visited_cells = e.visited_cells /\ e'.expanded_nodes = e.expanded_nodes
  BY <1>1, <1>4 DEF EngineType, Alike
<1>7. Cells(e') = Cells(e) /\ Loaded(e', job) /\ Ocean(e', "pacific") = Ocean(e, "pacific")
  BY <1>1, <1>6, SameGraph
<1>8. Reachable(e') = Visited(e)
  BY <1>5, <1>6, <1>7 DEF Reachable, Visited
<1>9. CountersAt(e', Cardinality(Reachable(e')))
  BY <1>3, <1>6, <1>8 DEF CountersAt
<1>10. QED BY <1>1, <1>2, <1>7, <1>8, <1>9 DEF FInv, Found, Flooding

(* Nothing is claimed outside the two searches. *)
LEMMA ElsewhereFinds == pc' \notin {"islands"} \cup Flooding => FInv'
BY DEF FInv, Found, Flooding

(* Before the first call nothing is claimed either. *)
LEMMA InitFInv == Init => FInv
BY DEF Init, FInv, Found, Flooding

(* Every step of every search keeps what is found. *)
LEMMA StepFInv == IInv /\ FInv /\ [Next]_vars => FInv'
<1> SUFFICES ASSUME IInv, FInv, [Next]_vars PROVE FInv'
  OBVIOUS
<1>1. CASE IslandsSource \/ IslandsSpread
  BY <1>1, IslandsSourceFinds, IslandsSpreadFinds
<1>2. CASE FloodSources \/ FloodSpread \/ KeepPacific
  BY <1>2, FloodSourcesFinds, FloodSpreadFinds, KeepPacificFinds
<1>3. CASE PathsStart \/ PathsTarget \/ PathsStep \/ PathsBack
  <2>1. pc' = "paths"
    BY <1>3 DEF PathsStart, PathsTarget, PathsStep, PathsBack
  <2>2. QED BY <2>1, ElsewhereFinds DEF Flooding
<1>4. CASE IncreasingSource \/ IncreasingHit \/ IncreasingStep \/ IncreasingBack \/ IncreasingNext
  <2>1. pc' \in {"increasing_walk", "increasing"}
    BY <1>4 DEF IncreasingSource, IncreasingHit, IncreasingStep, IncreasingBack, IncreasingNext
  <2>2. QED BY <2>1, ElsewhereFinds DEF Flooding
<1>5. CASE TrieSource \/ TrieStep \/ TrieBack \/ MatchSource \/ MatchStep \/ MatchBack \/ MatchWord
  <2>1. pc' \in {"trie", "match"}
    BY <1>5 DEF TrieSource, TrieStep, TrieBack, MatchSource, MatchStep, MatchBack, MatchWord
  <2>2. QED BY <2>1, ElsewhereFinds DEF Flooding
<1>6. CASE \/ IslandsReturn \/ PacificReturn \/ PathsReturn \/ IncreasingReturn \/ TrieReturn
           \/ MatchReturn \/ UnknownMode
  <2>1. pc' = "idle"
    BY <1>6 DEF IslandsReturn, PacificReturn, PathsReturn, IncreasingReturn, TrieReturn,
       MatchReturn, UnknownMode, Return
  <2>2. QED BY <2>1, ElsewhereFinds DEF Flooding
<1>7. CASE pc = "idle" /\ \E j \in Jobs : Call(j) \/ Refuse(j)
  <2>1. ASSUME NEW j \in Jobs, Refuse(j) PROVE FInv'
    <3>1. pc' = "idle"
      BY <1>7, <2>1 DEF Refuse
    <3>2. QED BY <3>1, ElsewhereFinds DEF Flooding
  <2>2. QED BY <1>7, <2>1, CallFinds
<1>8. CASE UNCHANGED vars
  BY <1>8 DEF vars, FInv
<1>9. QED
  BY <1>1, <1>2, <1>3, <1>4, <1>5, <1>6, <1>7, <1>8 DEF Next, dfs_accel

(* In every state of every run, the island search has counted the islands of
   the land it has marked, and has marked all land before its source; a flood
   has marked its coast and nothing its ocean cannot reach, expanded what no
   longer waits, and counted each cell once; and reachable is what the first
   ocean reaches while the second floods. *)
THEOREM Findings == Spec => [](IInv /\ FInv)
<1>1. QED BY InitIInv, InitFInv, StepIInv, StepFInv, PTL DEF Spec

-----------------------------------------------------------------------------
(* What Problems asks for, in terms of the engine. *)

(* What holds of 0 and passes from each number to the next holds up to n. *)
LEMMA UpTo ==
  ASSUME NEW n \in Nat, NEW D \in SUBSET (0 .. n), 0 \in D,
         \A k \in 0 .. n - 1 : k \in D => k + 1 \in D
  PROVE  D = 0 .. n
<1> DEFINE Low == {k \in 0 .. n : 0 .. k \subseteq D}
<1>1. Low \in SUBSET Nat /\ IsFiniteSet(Low) /\ 0 \in Low
  <2>1. IsFiniteSet(0 .. n) /\ Low \in SUBSET (0 .. n)
    BY FS_Interval
  <2>2. QED BY <2>1, FS_Subset
<1>2. PICK m \in Low : \A k \in Low : k <= m
  BY <1>1, Largest
<1>3. CASE m = n
  BY <1>2, <1>3
<1>4. CASE m # n
  <2>1. m \in 0 .. n - 1 /\ m \in 0 .. m /\ m + 1 \in 0 .. n /\ 0 .. m \subseteq D
    BY <1>2, <1>4
  <2>2. m + 1 \in D
    BY <2>1
  <2>3. 0 .. m + 1 = 0 .. m \cup {m + 1}
    BY <2>1
  <2>4. m + 1 \in Low
    BY <2>1, <2>2, <2>3
  <2> HIDE DEF Low
  <2>5. m + 1 <= m
    BY <1>2, <2>4
  <2>6. QED BY <2>1, <2>5
<1>5. QED BY <1>3, <1>4

(* The values a step F, taken n times, goes through from x on. *)
Orbit(X, x, F, n, f) ==
  f \in [0 .. n -> X] /\ f[0] = x /\ \A k \in 1 .. n : f[k] = F[f[k - 1]]

(* There are such values. *)
LEMMA Rounds ==
  ASSUME NEW X, NEW x \in X, NEW F \in [X -> X], NEW n \in Nat
  PROVE  \E f : Orbit(X, x, F, n, f)
<1> DEFINE To(m) == \E f \in [0 .. m -> X] : f[0] = x /\ \A k \in 1 .. m : f[k] = F[f[k - 1]]
           D == {m \in 0 .. n : To(m)}
<1>1. 0 \in D
  <2> DEFINE f == [k \in 0 .. 0 |-> x]
  <2>1. f \in [0 .. 0 -> X] /\ f[0] = x /\ \A k \in 1 .. 0 : f[k] = F[f[k - 1]]
    OBVIOUS
  <2>2. To(0)
    BY <2>1
  <2>3. QED BY <2>2
<1>2. ASSUME NEW m \in 0 .. n - 1, To(m) PROVE To(m + 1)
  <2>1. PICK f \in [0 .. m -> X] : f[0] = x /\ \A k \in 1 .. m : f[k] = F[f[k - 1]]
    BY <1>2
  <2> DEFINE g == [k \in 0 .. m + 1 |-> IF k = m + 1 THEN F[f[m]] ELSE f[k]]
  <2>2. \A k \in 0 .. m + 1 : k # m + 1 => k \in 0 .. m
    BY <1>2
  <2>3. f[m] \in X /\ F[f[m]] \in X
    BY <1>2, <2>1
  <2>4. g \in [0 .. m + 1 -> X]
    BY <2>1, <2>2, <2>3
  <2>5. g[0] = x
    BY <1>2, <2>1
  <2>6. ASSUME NEW k \in 1 .. m + 1 PROVE g[k] = F[g[k - 1]]
    <3>1. k - 1 \in 0 .. m /\ k - 1 \in 0 .. m + 1 /\ k - 1 # m + 1 /\ k \in 0 .. m + 1
      BY <1>2
    <3>2. g[k - 1] = f[k - 1]
      BY <3>1
    <3>3. CASE k = m + 1
      <4>1. k - 1 = m
        BY <1>2, <3>3
      <4>2. QED BY <3>1, <3>2, <3>3, <4>1
    <3>4. CASE k # m + 1
      <4>1. k \in 1 .. m
        BY <1>2, <3>4
      <4>2. QED BY <2>1, <3>1, <3>2, <3>4, <4>1
    <3>5. QED BY <3>3, <3>4
  <2> HIDE DEF g
  <2>7. QED BY <2>4, <2>5, <2>6
<1>3. D = 0 .. n
  <2>1. \A k \in 0 .. n - 1 : k \in D => k + 1 \in D
    <3>1. \A k \in 0 .. n - 1 : k + 1 \in 0 .. n
      OBVIOUS
    <3> HIDE DEF To
    <3>2. QED BY <1>2, <3>1
  <2>2. D \in SUBSET (0 .. n)
    OBVIOUS
  <2> HIDE DEF D
  <2>3. QED BY <1>1, <2>1, <2>2, UpTo
<1>4. n \in D
  BY <1>3
<1>5. QED BY <1>4 DEF Orbit

(* The rounds of Reach end with the least closed set around S: each adds a
   cell or none, and then none is ever added. *)
LEMMA ReachIs ==
  ASSUME NEW steps, IsFiniteSet(DOMAIN steps), NEW S \in SUBSET DOMAIN steps,
         \A c \in DOMAIN steps : steps[c] \subseteq DOMAIN steps
  PROVE  Reach(steps, S) = Reached(steps, S)
<1> DEFINE D == DOMAIN steps
           n == Cardinality(D)
           Wider(R) == R \cup UNION {steps[c] : c \in R}
           F == [R \in SUBSET D |-> Wider(R)]
           Rule(g) == [k \in 0 .. n |-> IF k = 0 THEN S ELSE Wider(g[k - 1])]
           f == CHOOSE g : g = Rule(g)
<1>1. Reach(steps, S) = f[n]
  BY DEF Reach
<1>2. n \in Nat
  BY FS_CardinalityType
<1>3. \A R \in SUBSET D : Wider(R) \in SUBSET D
  OBVIOUS
<1>4. f = Rule(f)
  <2>1. F \in [SUBSET D -> SUBSET D] /\ (\A R \in SUBSET D : F[R] = Wider(R)) /\ S \in SUBSET D
    BY <1>3
  <2> DEFINE X == SUBSET D
  <2> HIDE DEF n, D, F, Wider
  <2>2. PICK g \in [0 .. n -> SUBSET D] : g[0] = S /\ \A k \in 1 .. n : g[k] = F[g[k - 1]]
    <3>1. S \in X /\ F \in [X -> X]
      BY <2>1
    <3> HIDE DEF X
    <3>2. \E g : Orbit(X, S, F, n, g)
      BY <1>2, <3>1, Rounds
    <3>3. QED BY <3>2 DEF X, Orbit
  <2>3. ASSUME NEW k \in 0 .. n PROVE g[k] = IF k = 0 THEN S ELSE Wider(g[k - 1])
    <3>1. CASE k = 0
      BY <2>2, <3>1
    <3>2. CASE k # 0
      <4>1. k \in 1 .. n /\ k - 1 \in 0 .. n
        BY <1>2, <3>2
      <4>2. g[k - 1] \in SUBSET D
        BY <2>2, <4>1
      <4>3. QED BY <2>1, <2>2, <3>2, <4>1, <4>2
    <3>3. QED BY <3>1, <3>2
  <2>4. g = Rule(g)
    BY <2>2, <2>3
  <2> HIDE DEF Rule
  <2>5. QED BY <2>4
<1> HIDE DEF f
<1>5. f[0] = S /\ \A k \in 0 .. n - 1 : f[k + 1] = Wider(f[k])
  <2>1. \A k \in 0 .. n : f[k] = IF k = 0 THEN S ELSE Wider(f[k - 1])
    BY <1>4
  <2>2. \A k \in 0 .. n - 1 : k + 1 \in 0 .. n /\ k + 1 # 0 /\ k + 1 - 1 = k
    BY <1>2
  <2>3. 0 \in 0 .. n
    BY <1>2
  <2> HIDE DEF Wider, n
  <2>4. QED BY <2>1, <2>2, <2>3
<1> DEFINE T == Reached(steps, S)
           Good(k) == /\ f[k] \in SUBSET D /\ S \subseteq f[k] /\ f[k] \subseteq T
                      /\ Closed(steps, f[k]) \/ Cardinality(f[k]) >= k
           G == {k \in 0 .. n : Good(k)}
<1>6. S \subseteq T /\ T \subseteq D /\ Closed(steps, T)
  BY ReachedClosed
<1>7. 0 \in G
  <2>1. IsFiniteSet(S)
    BY FS_Subset
  <2>2. Cardinality(S) \in Nat
    BY <2>1, FS_CardinalityType
  <2>3. 0 \in 0 .. n /\ Cardinality(S) >= 0
    BY <1>2, <2>2
  <2> HIDE DEF T, n
  <2>4. QED BY <1>5, <1>6, <2>3
<1>8. ASSUME NEW k \in 0 .. n - 1, Good(k) PROVE Good(k + 1)
  <2> DEFINE R == f[k]
  <2>1. /\ R \in SUBSET D /\ S \subseteq R /\ R \subseteq T /\ f[k + 1] = Wider(R)
        /\ Closed(steps, R) \/ Cardinality(R) >= k
    BY <1>5, <1>8
  <2> HIDE DEF R, T
  <2>2. Wider(R) \in SUBSET D /\ S \subseteq Wider(R) /\ R \subseteq Wider(R)
    BY <2>1
  <2>3. Wider(R) \subseteq T
    BY <1>6, <2>1 DEF Closed
  <2>4. CASE Closed(steps, R)
    <3>1. Wider(R) = R
      BY <2>4 DEF Closed
    <3>2. QED BY <2>1, <2>2, <2>3, <2>4, <3>1
  <2>5. CASE ~Closed(steps, R)
    <3>1. PICK c \in R : ~(steps[c] \subseteq R)
      BY <2>5 DEF Closed
    <3>2. PICK d \in steps[c] : d \notin R
      BY <3>1
    <3>3. d \in Wider(R)
      BY <3>2
    <3> HIDE DEF Wider
    <3>4. IsFiniteSet(Wider(R)) /\ IsFiniteSet(R)
      BY <2>1, <2>2, FS_Subset
    <3>5. Cardinality(R) <= Cardinality(Wider(R)) /\ Cardinality(R) # Cardinality(Wider(R))
      BY <2>2, <3>2, <3>3, <3>4, FS_Subset
    <3>6. Cardinality(R) \in Nat /\ Cardinality(Wider(R)) \in Nat
      BY <3>4, FS_CardinalityType
    <3>7. Cardinality(Wider(R)) >= k + 1
      BY <2>1, <2>5, <3>5, <3>6
    <3>8. QED BY <2>1, <2>2, <2>3, <3>7
  <2>6. QED BY <2>4, <2>5
<1>9. Good(n)
  <2>1. \A k \in 0 .. n - 1 : k + 1 \in 0 .. n
    BY <1>2
  <2> HIDE DEF Good, n
  <2>2. \A k \in 0 .. n - 1 : k \in G => k + 1 \in G
    BY <1>8, <2>1
  <2>3. G = 0 .. n
    BY <1>2, <1>7, <2>2, UpTo
  <2>4. n \in 0 .. n
    BY <1>2
  <2>5. QED BY <2>3, <2>4
<1>10. Closed(steps, f[n])
  <2>1. ASSUME Cardinality(f[n]) >= n PROVE f[n] = D
    <3>1. f[n] \in SUBSET D
      BY <1>9
    <3>2. IsFiniteSet(D) /\ Cardinality(f[n]) <= n /\ (Cardinality(f[n]) = n => f[n] = D)
      BY <3>1, FS_Subset
    <3>3. Cardinality(f[n]) \in Nat
      BY <3>1, FS_Subset, FS_CardinalityType
    <3>4. QED BY <1>2, <2>1, <3>2, <3>3
  <2>2. Closed(steps, D)
    BY DEF Closed
  <2> HIDE DEF D, n
  <2>3. QED BY <1>9, <2>1, <2>2
<1>11. f[n] = T
  BY <1>9, <1>10, ReachedIs
<1>12. QED BY <1>1, <1>11

(* A walk of k cells along the steps that meets no cell twice. *)
Route(steps, S, k, w) ==
  /\ w \in Seq(DOMAIN steps) /\ Len(w) = k /\ w[1] \in S /\ Distinct(w)
  /\ \A i \in 1 .. k - 1 : w[i + 1] \in steps[w[i]]

Grown(steps, S, k, v) ==
  \E w : /\ Route(steps, S, k, w)
         /\ \E n \in steps[w[Len(w)]] \ Range(w) : v = Append(w, n)

(* One that goes on for a cell it has not met is one of a cell more. *)
LEMMA RouteGrows ==
  ASSUME NEW steps, NEW S, NEW k \in Nat \ {0},
         \A c \in DOMAIN steps : steps[c] \subseteq DOMAIN steps,
         NEW w, Route(steps, S, k, w), NEW n \in steps[w[Len(w)]] \ Range(w)
  PROVE  Route(steps, S, k + 1, Append(w, n))
<1> DEFINE D == DOMAIN steps
           v == Append(w, n)
<1>1. /\ w \in Seq(D) /\ Len(w) = k /\ w[1] \in S /\ Distinct(w)
      /\ \A i \in 1 .. k - 1 : w[i + 1] \in steps[w[i]]
  BY DEF Route
<1>2. k \in 1 .. k /\ 1 \in 1 .. k
  OBVIOUS
<1>3. \A i \in 1 .. k : w[i] \in D
  BY <1>1
<1>4. n \in steps[w[k]] /\ n \in D
  BY <1>1, <1>2, <1>3
<1>5. \A i \in 1 .. k : w[i] # n
  <2>1. DOMAIN w = 1 .. k
    BY <1>1
  <2>2. QED BY <2>1 DEF Range
<1>6. v \in Seq(D) /\ Len(v) = k + 1 /\ v[k + 1] = n /\ \A i \in 1 .. k : v[i] = w[i]
  BY <1>1, <1>4
<1> HIDE DEF v, D
<1>7. \A i \in 1 .. k + 1 : i \in 1 .. k \/ i = k + 1
  OBVIOUS
<1>8. Distinct(v)
  <2>1. \A i, j \in 1 .. k : w[i] = w[j] => i = j
    BY <1>1 DEF Distinct
  <2>2. \A i, j \in 1 .. k + 1 : v[i] = v[j] => i = j
    BY <1>5, <1>6, <1>7, <2>1
  <2>3. QED BY <1>6, <2>2 DEF Distinct
<1>9. ASSUME NEW i \in 1 .. k PROVE v[i + 1] \in steps[v[i]]
  <2>1. CASE i = k
    BY <1>2, <1>4, <1>6, <2>1
  <2>2. CASE i # k
    <3>1. i \in 1 .. k - 1 /\ i + 1 \in 1 .. k
      BY <2>2
    <3>2. QED BY <1>1, <1>6, <3>1
  <2>3. QED BY <2>1, <2>2
<1>10. k + 1 - 1 = k
  OBVIOUS
<1>11. QED BY <1>1, <1>2, <1>6, <1>8, <1>9, <1>10 DEF Route, v, D

(* And one of more than a cell has gone on so. *)
LEMMA RouteShrinks ==
  ASSUME NEW steps, NEW S, NEW k \in Nat \ {0}, NEW v, Route(steps, S, k + 1, v)
  PROVE  Grown(steps, S, k, v)
<1> DEFINE D == DOMAIN steps
           w == SubSeq(v, 1, k)
           n == v[k + 1]
<1>1. /\ v \in Seq(D) /\ Len(v) = k + 1 /\ v[1] \in S /\ Distinct(v)
      /\ \A i \in 1 .. k : v[i + 1] \in steps[v[i]]
  <2>1. k + 1 - 1 = k
    OBVIOUS
  <2>2. QED BY <2>1 DEF Route
<1>2. w \in Seq(D) /\ Len(w) = k /\ \A i \in 1 .. k : w[i] = v[i]
  BY <1>1
<1>3. k \in 1 .. k /\ 1 \in 1 .. k /\ k + 1 \in 1 .. k + 1 /\ \A i \in 1 .. k : i \in 1 .. k + 1
  OBVIOUS
<1>4. v = Append(w, n)
  BY <1>1
<1> HIDE DEF w, D
<1>5. Distinct(w)
  <2>1. \A i, j \in 1 .. k + 1 : v[i] = v[j] => i = j
    BY <1>1 DEF Distinct
  <2>2. QED BY <1>2, <1>3, <2>1 DEF Distinct
<1>6. \A i \in 1 .. k - 1 : w[i + 1] \in steps[w[i]]
  <2>1. \A i \in 1 .. k - 1 : i \in 1 .. k /\ i + 1 \in 1 .. k
    OBVIOUS
  <2>2. QED BY <1>1, <1>2, <2>1
<1>7. Route(steps, S, k, w)
  BY <1>1, <1>2, <1>3, <1>5, <1>6 DEF Route, D
<1>8. n \in steps[w[Len(w)]]
  BY <1>1, <1>2, <1>3
<1>9. n \notin Range(w)
  <2>1. \A i \in 1 .. k : v[i] # v[k + 1]
    <3>1. \A i, j \in 1 .. k + 1 : v[i] = v[j] => i = j
      BY <1>1 DEF Distinct
    <3>2. \A i \in 1 .. k : i # k + 1
      OBVIOUS
    <3>3. QED BY <1>3, <3>1, <3>2
  <2>2. DOMAIN w = 1 .. k
    BY <1>2
  <2>3. QED BY <1>2, <2>1, <2>2 DEF Range
<1>10. QED BY <1>4, <1>7, <1>8, <1>9 DEF Grown

(* The routes of one cell are the cells of S. *)
LEMMA RoutesBegin ==
  ASSUME NEW steps, NEW S \in SUBSET DOMAIN steps
  PROVE  \A w : Route(steps, S, 1, w) <=> w \in {<<c>> : c \in S}
<1> DEFINE D == DOMAIN steps
<1>1. ASSUME NEW c \in S PROVE Route(steps, S, 1, <<c>>)
  <2> DEFINE w == <<c>>
  <2>1. w \in Seq(D) /\ Len(w) = 1 /\ w[1] = c
    OBVIOUS
  <2> HIDE DEF w, D
  <2>2. Distinct(w) /\ \A i \in 1 .. 1 - 1 : w[i + 1] \in steps[w[i]]
    BY <2>1 DEF Distinct
  <2>3. QED BY <2>1, <2>2 DEF Route, w, D
<1>2. ASSUME NEW w, Route(steps, S, 1, w) PROVE w \in {<<c>> : c \in S}
  <2>1. w \in Seq(D) /\ Len(w) = 1 /\ w[1] \in S
    BY <1>2 DEF Route
  <2>2. w = <<w[1]>>
    BY <2>1
  <2>3. QED BY <2>1, <2>2
<1>3. QED BY <1>1, <1>2

(* Routes lists the walks that meet no cell twice. *)
LEMMA RoutesAre ==
  ASSUME NEW steps, NEW S \in SUBSET DOMAIN steps, NEW k \in Nat,
         \A c \in DOMAIN steps : steps[c] \subseteq DOMAIN steps
  PROVE  \A w : w \in Routes(steps, S, k) <=> k # 0 /\ Route(steps, S, k, w)
<1>1. CASE k = 0
  BY <1>1 DEF Routes
<1>2. CASE k # 0
  <2> DEFINE D == DOMAIN steps
             n == k - 1
             One == {<<c>> : c \in S}
             More(W) == UNION {{Append(w, d) : d \in steps[w[Len(w)]] \ Range(w)} : w \in W}
             Of(i) == {w \in Seq(D) : Route(steps, S, i, w)}
             Rule(g) == [i \in 0 .. n |-> IF i = 0 THEN One ELSE More(g[i - 1])]
             f == CHOOSE g : g = Rule(g)
             h == [i \in 0 .. n |-> Of(i + 1)]
  <2>1. Routes(steps, S, k) = f[n]
    BY <1>2 DEF Routes
  <2>2. n \in Nat /\ n \in 0 .. n /\ 0 \in 0 .. n
    BY <1>2
  <2>3. Of(1) = One
    <3>1. \A w : Route(steps, S, 1, w) => w \in Seq(D)
      BY DEF Route
    <3> HIDE DEF D, One
    <3>2. QED BY <3>1, RoutesBegin DEF One
  <2>4. ASSUME NEW i \in Nat \ {0} PROVE Of(i + 1) = More(Of(i))
    <3>1. \A j \in Nat : \A w : Route(steps, S, j, w) => w \in Seq(D)
      BY DEF Route
    <3>2. \A w : w \in Of(i) <=> Route(steps, S, i, w)
      BY <3>1
    <3>3. \A w : w \in Of(i + 1) <=> Route(steps, S, i + 1, w)
      BY <3>1
    <3> HIDE DEF Of
    <3>4. \A v : v \in More(Of(i)) <=>
            \E w \in Of(i) : \E d \in steps[w[Len(w)]] \ Range(w) : v = Append(w, d)
      OBVIOUS
    <3> HIDE DEF More, D
    <3>5. \A v : v \in More(Of(i)) => Route(steps, S, i + 1, v)
      <4>1. ASSUME NEW v \in More(Of(i)) PROVE Route(steps, S, i + 1, v)
        <5>1. PICK w \in Of(i) : \E d \in steps[w[Len(w)]] \ Range(w) : v = Append(w, d)
          BY <3>4
        <5>2. PICK d \in steps[w[Len(w)]] \ Range(w) : v = Append(w, d)
          BY <5>1
        <5>3. Route(steps, S, i, w)
          BY <3>2
        <5>4. QED BY <5>2, <5>3, RouteGrows
      <4>2. QED BY <4>1
    <3>6. \A v : Route(steps, S, i + 1, v) => v \in More(Of(i))
      <4>1. ASSUME NEW v, Route(steps, S, i + 1, v) PROVE v \in More(Of(i))
        <5>1. Grown(steps, S, i, v)
          BY <4>1, RouteShrinks
        <5>2. PICK w : /\ Route(steps, S, i, w)
                       /\ \E d \in steps[w[Len(w)]] \ Range(w) : v = Append(w, d)
          BY <5>1 DEF Grown
        <5>3. w \in Of(i)
          BY <3>2, <5>2
        <5>4. QED BY <3>4, <5>2, <5>3
      <4>2. QED BY <4>1
    <3>7. \A v : v \in Of(i + 1) <=> v \in More(Of(i))
      BY <3>3, <3>5, <3>6
    <3>8. QED BY <3>7
  <2> HIDE DEF Of, One, More, n
  <2>5. h = Rule(h)
    <3>1. ASSUME NEW i \in 0 .. n PROVE h[i] = IF i = 0 THEN One ELSE More(h[i - 1])
      <4>1. CASE i = 0
        BY <2>3, <4>1
      <4>2. CASE i # 0
        <5>1. i \in Nat \ {0} /\ i - 1 \in 0 .. n /\ i - 1 + 1 = i
          BY <2>2, <4>2
        <5>2. QED BY <2>4, <4>2, <5>1
      <4>3. QED BY <4>1, <4>2
    <3> HIDE DEF Of
    <3>2. QED BY <3>1
  <2>6. f = Rule(f)
    <3> HIDE DEF h, Rule
    <3>1. QED BY <2>5
  <2>7. f[n] = Of(k)
    <3> DEFINE G == {i \in 0 .. n : f[i] = Of(i + 1)}
    <3> HIDE DEF f
    <3>9. \A i \in 0 .. n : f[i] = IF i = 0 THEN One ELSE More(f[i - 1])
      <4> DEFINE R == Rule(f)
      <4>1. \A i \in 0 .. n : R[i] = IF i = 0 THEN One ELSE More(f[i - 1])
        OBVIOUS
      <4>2. f = R
        BY <2>6
      <4> HIDE DEF R
      <4>3. QED BY <4>1, <4>2
    <3>1. 0 \in G
      BY <2>2, <2>3, <3>9
    <3>2. ASSUME NEW i \in 0 .. n - 1, f[i] = Of(i + 1) PROVE f[i + 1] = Of(i + 1 + 1)
      <4>1. i + 1 \in 0 .. n /\ i + 1 # 0 /\ i + 1 - 1 = i /\ i + 1 \in Nat \ {0}
        BY <2>2
      <4>2. f[i + 1] = More(f[i])
        BY <3>9, <4>1
      <4>3. QED BY <2>4, <3>2, <4>1, <4>2
    <3>3. \A i \in 0 .. n - 1 : i \in G => i + 1 \in G
      <4>1. \A i \in 0 .. n - 1 : i + 1 \in 0 .. n
        BY <2>2
      <4>2. QED BY <3>2, <4>1
    <3>4. G \in SUBSET (0 .. n)
      OBVIOUS
    <3> HIDE DEF G
    <3>5. G = 0 .. n
      BY <2>2, <3>1, <3>3, <3>4, UpTo
    <3>6. f[n] = Of(n + 1)
      BY <2>2, <3>5 DEF G
    <3>7. n + 1 = k
      BY DEF n
    <3>8. QED BY <3>6, <3>7
  <2>8. \A w : w \in Of(k) <=> Route(steps, S, k, w)
    BY DEF Of, Route
  <2>9. QED BY <1>2, <2>1, <2>7, <2>8
<1>3. QED BY <1>1, <1>2

(* Each of the eight pairs of steps has its direction, the straight ones
   among the first four. *)
LEMMA DirectionFor ==
  ASSUME NEW y \in -1 .. 1, NEW x \in -1 .. 1, ~(y = 0 /\ x = 0)
  PROVE  \E i \in 0 .. 7 : /\ Delta[i + 1][1] = y /\ Delta[i + 1][2] = x
                           /\ y = 0 \/ x = 0 => i < 4
<1>1. y \in {-1, 0, 1} /\ x \in {-1, 0, 1}
  OBVIOUS
<1> DEFINE i == IF x = 0 THEN IF y = -1 THEN 0 ELSE 1
                ELSE IF y = 0 THEN IF x = -1 THEN 2 ELSE 3
                ELSE IF y = -1 THEN IF x = -1 THEN 4 ELSE 5
                ELSE IF x = -1 THEN 6 ELSE 7
<1>2. i \in 0 .. 7 /\ (y = 0 \/ x = 0 => i < 4)
  BY <1>1
<1>3. Delta[i + 1][1] = y /\ Delta[i + 1][2] = x
  BY <1>1 DEF Delta
<1>4. QED BY <1>2, <1>3

(* The cells next to one in the problem are those around it in the engine. *)
LEMMA NearIsAround ==
  ASSUME NEW s \in EngineType, Sized(s), NEW j, Loaded(s, j)
  PROVE  /\ Area(j) = Cells(s)
         /\ \A c \in Cells(s) : Near(j, c) = Around(s, c)
         /\ \A c \in Cells(s) : j.cells[c] = s.grid[c]
<1>1. /\ j.rows = s.rows /\ j.cols = s.cols /\ s.degree = IF j.eight THEN 8 ELSE 4
      /\ \A c \in Cells(s) : j.cells[c] = s.grid[c]
  BY DEF Loaded
<1>2. Area(j) = Cells(s)
  BY <1>1 DEF Area, Cells
<1> DEFINE k == s.cols
           Dy(c, n) == (n \div k) - (c \div k)
           Dx(c, n) == (n % k) - (c % k)
           Next8(c, n) == /\ n \in Cells(s) /\ n # c
                          /\ Dy(c, n) \in -1 .. 1 /\ Dx(c, n) \in -1 .. 1
                          /\ j.eight \/ Dy(c, n) = 0 \/ Dx(c, n) = 0
<1>3. \A c, n : n \in Near(j, c) <=> Next8(c, n)
  BY <1>1, <1>2 DEF Near
<1>4. ASSUME NEW c \in Cells(s), NEW n \in Around(s, c) PROVE Next8(c, n)
  <2>1. PICK i \in 0 .. s.degree - 1 : HasNeighbor(s, c, i) /\ n = Neighbor(s, c, i)
    BY DEF Around
  <2>2. i \in 0 .. 7 /\ (~j.eight => i \in {0, 1, 2, 3})
    BY <1>1
  <2> DEFINE y == Delta[i + 1][1]
             x == Delta[i + 1][2]
             q == c \div k
             m == c % k
             a == n \div k
             b == n % k
  <2>3. n \in Cells(s) /\ a = q + y /\ b = m + x
    BY <2>1, <2>2, NeighborOf, NeighborAt
  <2>4. m \in Int /\ q \in Int
    BY CoordOf
  <2>5. y \in -1 .. 1 /\ x \in -1 .. 1 /\ ~(y = 0 /\ x = 0) /\ (~j.eight => y = 0 \/ x = 0)
    <3>1. i \in {0, 1, 2, 3, 4, 5, 6, 7}
      BY <2>2
    <3>2. QED BY <2>2, <3>1 DEF Delta
  <2>6. n # c
    <3>1. n = c => a = q /\ b = m
      OBVIOUS
    <3> HIDE DEF y, x, q, m, a, b
    <3>2. QED BY <2>3, <2>4, <2>5, <3>1
  <2>7. Dy(c, n) = y /\ Dx(c, n) = x
    <3>1. a - q = y /\ b - m = x
      <4> HIDE DEF y, x, q, m, a, b
      <4>1. QED BY <2>3, <2>4, <2>5
    <3>2. QED BY <3>1
  <2> HIDE DEF y, x, q, m, a, b, Dy, Dx
  <2>8. QED BY <2>3, <2>5, <2>6, <2>7
<1>5. ASSUME NEW c \in Cells(s), NEW n, Next8(c, n) PROVE n \in Around(s, c)
  <2> DEFINE q == c \div k
             m == c % k
             a == n \div k
             b == n % k
             y == a - q
             x == b - m
  <2>1. n \in Cells(s) /\ n # c /\ y \in -1 .. 1 /\ x \in -1 .. 1 /\ (j.eight \/ y = 0 \/ x = 0)
    BY <1>5
  <2>2. /\ m \in 0 .. k - 1 /\ q \in 0 .. s.rows - 1 /\ c = q * k + m
        /\ b \in 0 .. k - 1 /\ a \in 0 .. s.rows - 1 /\ n = a * k + b
        /\ k \in Nat \ {0}
    <3>1. k \in Nat \ {0}
      BY DEF Sized
    <3>2. m \in 0 .. k - 1 /\ q \in 0 .. s.rows - 1 /\ c = q * k + m
      BY CoordOf
    <3>3. b \in 0 .. k - 1 /\ a \in 0 .. s.rows - 1 /\ n = a * k + b
      BY <2>1, CoordOf
    <3>4. QED BY <3>1, <3>2, <3>3
  <2>3. ~(y = 0 /\ x = 0)
    <3> HIDE DEF q, m, a, b, k
    <3>1. y = 0 => a = q
      BY <2>2
    <3>2. x = 0 => b = m
      BY <2>2
    <3>3. QED BY <2>1, <2>2, <3>1, <3>2
  <2> HIDE DEF y, x
  <2>4. PICK i \in 0 .. 7 : /\ Delta[i + 1][1] = y /\ Delta[i + 1][2] = x
                            /\ y = 0 \/ x = 0 => i < 4
    BY <2>1, <2>3, DirectionFor
  <2>5. i \in 0 .. s.degree - 1
    BY <1>1, <2>1, <2>4
  <2>6. a = q + y /\ b = m + x
    <3> HIDE DEF q, m, a, b
    <3>1. QED BY <2>2 DEF y, x
  <2>7. HasNeighbor(s, c, i)
    BY <2>2, <2>4, <2>6 DEF HasNeighbor
  <2>8. n = Neighbor(s, c, i)
    <3>1. Neighbor(s, c, i) = c + y * k + x
      BY <2>4 DEF Neighbor
    <3> HIDE DEF q, m, a, b, k
    <3>2. a * k = q * k + y * k /\ q * k \in Int /\ y * k \in Int /\ y \in Int /\ x \in Int
      BY <2>1, <2>2, <2>6
    <3>3. QED BY <2>2, <2>6, <3>1, <3>2
  <2>9. QED BY <2>5, <2>7, <2>8 DEF Around
<1>6. \A c \in Cells(s) : Near(j, c) = Around(s, c)
  <2> HIDE DEF Next8
  <2>1. QED BY <1>3, <1>4, <1>5
<1>7. QED BY <1>1, <1>2, <1>6

(* The number of islands asked for is the number the grid has. *)
LEMMA IslandsAsked ==
  ASSUME NEW s \in EngineType, Sized(s), NEW j, Loaded(s, j)
  PROVE  IslandCount(j) = Cardinality(Islands(s, Land(s)))
<1> DEFINE land == {c \in Area(j) : j.cells[c] # 0}
           edge == [c \in Area(j) |-> Near(j, c) \cap land]
<1>1. IslandCount(j) = Cardinality({Reach(edge, {c}) : c \in land})
  BY DEF IslandCount
<1>2. land = Land(s)
  BY NearIsAround DEF Land
<1>3. edge = OverLand(s)
  BY <1>2, NearIsAround DEF OverLand
<1> HIDE DEF land, edge
<1>4. ASSUME NEW c \in Land(s) PROVE Reach(edge, {c}) = Island(s, c)
  <2> DEFINE steps == OverLand(s)
  <2>1. DOMAIN steps = Cells(s) /\ \A d \in Cells(s) : steps[d] \subseteq Cells(s)
    BY StepsAround
  <2>2. c \in Cells(s) /\ IsFiniteSet(Cells(s))
    BY CellsFit DEF Land
  <2> HIDE DEF steps
  <2>3. {c} \in SUBSET DOMAIN steps /\ IsFiniteSet(DOMAIN steps)
        /\ \A d \in DOMAIN steps : steps[d] \subseteq DOMAIN steps
    BY <2>1, <2>2
  <2>4. Reach(steps, {c}) = Reached(steps, {c})
    BY <2>3, ReachIs
  <2>5. QED BY <1>3, <2>4 DEF Island, steps
<1>5. {Reach(edge, {c}) : c \in land} = Islands(s, Land(s))
  BY <1>2, <1>4 DEF Islands
<1>6. QED BY <1>1, <1>5

(* The cells an ocean is asked to reach are those it reaches. *)
LEMMA OceanAsked ==
  ASSUME NEW s \in EngineType, Sized(s), NEW j, Loaded(s, j), NEW ocean
  PROVE  Flooded(j, ocean) = Ocean(s, ocean)
<1> DEFINE up == [c \in Area(j) |-> {n \in Near(j, c) : j.cells[n] >= j.cells[c]}]
           coast == {c \in Area(j) :
                       IF ocean = "pacific" THEN c < j.cols \/ c % j.cols = 0
                       ELSE c \div j.cols = j.rows - 1 \/ c % j.cols = j.cols - 1}
           steps == Uphill(s)
<1>1. Flooded(j, ocean) = Reach(up, coast)
  BY DEF Flooded
<1>2. j.rows = s.rows /\ j.cols = s.cols /\ Area(j) = Cells(s)
  BY NearIsAround DEF Loaded
<1>3. up = steps
  <2>1. \A c \in Cells(s) : Around(s, c) \subseteq Cells(s)
    BY AroundOf
  <2>2. \A c \in Cells(s) : {n \in Near(j, c) : j.cells[n] >= j.cells[c]} =
                            {n \in Around(s, c) : s.grid[n] >= s.grid[c]}
    BY <2>1, NearIsAround
  <2>3. QED BY <1>2, <2>2 DEF Uphill
<1>4. coast = Coast(s, ocean)
  <2>1. ASSUME NEW c \in Cells(s)
        PROVE  /\ c \div s.cols = s.rows - 1 <=> (c \div s.cols) + 1 = s.rows
               /\ c % s.cols = s.cols - 1 <=> (c % s.cols) + 1 = s.cols
    <3> DEFINE a == c \div s.cols
               b == c % s.cols
    <3>1. a \in Int /\ b \in Int /\ s.rows \in Int /\ s.cols \in Int
      BY CoordOf DEF Sized
    <3> HIDE DEF a, b
    <3>2. (a = s.rows - 1 <=> a + 1 = s.rows) /\ (b = s.cols - 1 <=> b + 1 = s.cols)
      BY <3>1
    <3>3. QED BY <3>2 DEF a, b
  <2>2. QED BY <1>2, <2>1 DEF Coast
<1>5. DOMAIN steps = Cells(s) /\ \A c \in Cells(s) : steps[c] \subseteq Cells(s)
  BY StepsAround
<1>6. Coast(s, ocean) \in SUBSET Cells(s) /\ IsFiniteSet(Cells(s))
  BY CellsFit DEF Coast
<1> HIDE DEF up, coast, steps
<1>7. Coast(s, ocean) \in SUBSET DOMAIN steps /\ IsFiniteSet(DOMAIN steps)
      /\ \A c \in DOMAIN steps : steps[c] \subseteq DOMAIN steps
  BY <1>5, <1>6
<1>8. Reach(steps, Coast(s, ocean)) = Reached(steps, Coast(s, ocean))
  BY <1>7, ReachIs
<1>9. QED BY <1>1, <1>3, <1>4, <1>8 DEF Ocean, steps

-----------------------------------------------------------------------------
(* What the island search should return, by Problems: how many islands the
   grid of its job has, and in both counters how much land. *)
IslandsResult(j, r) ==
  LET land == {c \in Area(j) : j.cells[c] # 0}
  IN  /\ r.value = IslandCount(j)
      /\ r.visited_cells = Cardinality(land) /\ r.expanded_nodes = Cardinality(land)

(* What Pacific Atlantic should return: the cells both oceans reach, and in
   both counters the cells of the two floods. *)
OceansResult(j, r) ==
  LET both_floods == Cardinality(Flooded(j, "pacific")) + Cardinality(Flooded(j, "atlantic"))
  IN  /\ r.value = BothOceansCount(j)
      /\ r.visited_cells = both_floods /\ r.expanded_nodes = both_floods

(* Each island search returns that, whatever ran on the engine before. *)
IslandsCounted == [][IslandsReturn => IslandsResult(job, result')]_vars
(* So does each Pacific Atlantic search. *)
OceansCounted == [][PacificReturn => OceansResult(job, result')]_vars

(* What a finished island search has found, by the invariant. *)
LEMMA AtIslandsReturn ==
  ASSUME IInv, FInv, IslandsReturn
  PROVE  /\ e \in EngineType /\ Sized(e) /\ Loaded(e, job)
         /\ Visited(e) = Land(e) /\ value = Cardinality(Islands(e, Land(e)))
         /\ CountersAt(e, Cardinality(Land(e)))
<1>1. /\ e \in EngineType /\ Sized(e) /\ e.stack = <<>> /\ scan \notin Cells(e)
      /\ Loaded(e, job) /\ IslandsSoFar(e, scan, value)
  BY DEF IInv, Shape, FInv, Found, Flooding, IslandsReturn
<1>2. QED BY <1>1, IslandsDone

(* What the two floods have found when the second one ends. *)
LEMMA AtPacificReturn ==
  ASSUME IInv, FInv, PacificReturn
  PROVE  /\ e \in EngineType /\ Sized(e) /\ Loaded(e, job)
         /\ Reachable(e) = Ocean(e, "pacific") /\ Visited(e) = Ocean(e, "atlantic")
         /\ Coast(e, "atlantic") \subseteq Visited(e) /\ Closed(Uphill(e), Visited(e))
         /\ CountersAt(e, Cardinality(Reachable(e)) + Cardinality(Visited(e)))
<1>1. /\ e \in EngineType /\ Sized(e) /\ e.stack = <<>> /\ Loaded(e, job)
      /\ Reachable(e) = Ocean(e, "pacific")
      /\ FloodSoFar(e, "atlantic", Cardinality(Reachable(e)))
  BY DEF IInv, Shape, FInv, Found, Flooding, PacificReturn
<1>2. QED BY <1>1, FloodDone

(* Marked cells can be counted. *)
LEMMA MarkedCounts ==
  ASSUME NEW s, Sized(s)
  PROVE  Cardinality(Visited(s)) \in Nat /\ Cardinality(Reachable(s)) \in Nat
<1>1. IsFiniteSet(Cells(s)) /\ Visited(s) \in SUBSET Cells(s) /\ Reachable(s) \in SUBSET Cells(s)
  BY CellsFit DEF Visited, Reachable
<1>2. IsFiniteSet(Visited(s)) /\ IsFiniteSet(Reachable(s))
  BY <1>1, FS_Subset
<1>3. QED BY <1>2, FS_CardinalityType

(* For every engine, set of jobs and number of calls: the loop of
   run_number_of_islands counts a cell as a new island only when no cell next
   to it, in any of the four or eight directions, is marked. *)
THEOREM NewIslandsAreApart == Spec => NewIslandApart
<1>1. IInv /\ FInv /\ [Next]_vars =>
        [IslandsSource /\ value' # value => Around(e, scan) \cap Visited(e) = {}]_vars
  <2> SUFFICES ASSUME IInv, FInv, IslandsSource, value' # value, NEW n \in Around(e, scan), n \in Visited(e)
               PROVE  FALSE
    OBVIOUS
  <2>1. /\ e \in EngineType /\ Sized(e) /\ e.stack = <<>> /\ scan \in Cells(e)
        /\ IslandsSoFar(e, scan, value)
    BY DEF IInv, Shape, FInv, Found, IslandsSource
  <2>2. e.grid[scan] # 0 /\ ~e.visited[scan]
    BY DEF IslandsSource
  <2>3. Closed(OverLand(e), Visited(e))
    BY <2>1, Settled DEF IslandsSoFar
  <2>4. n \in Cells(e) /\ scan \in Around(e, n)
    BY <2>1, AroundBack DEF Visited
  <2>5. scan \in OverLand(e)[n]
    BY <2>1, <2>2, <2>4, StepsAround DEF Land
  <2>6. scan \in Visited(e)
    BY <2>3, <2>5 DEF Closed
  <2>7. QED BY <2>2, <2>6 DEF Visited
<1>2. QED BY <1>1, Findings, PTL DEF Spec, NewIslandApart

(* When run_number_of_islands returns, visited holds the land of the grid and
   nothing else, and visited_cells and expanded_nodes are its size: no land
   is skipped or expanded twice, and no mark of an earlier call hides any. *)
THEOREM IslandsAreSearched == Spec => IslandsSearched
<1>1. IInv /\ FInv /\ [Next]_vars =>
        [IslandsReturn => /\ Visited(e) = Land(e)
                          /\ e.visited_cells = Cardinality(Land(e))
                          /\ e.expanded_nodes = Cardinality(Land(e))]_vars
  BY AtIslandsReturn DEF CountersAt
<1>2. QED BY <1>1, Findings, PTL DEF Spec, IslandsSearched

(* When a flood of run_pacific_atlantic ends, what is marked holds the coast
   of its ocean and is closed under steps to cells no lower; the two counters
   agree and add the cells of both floods. *)
THEOREM OceansAreReached == Spec => OceansReached
<1>1. IInv /\ FInv /\ [Next]_vars =>
        [KeepPacific \/ PacificReturn =>
           /\ Coast(e, IF pc = "pacific_flood" THEN "pacific" ELSE "atlantic") \subseteq Visited(e)
           /\ Closed(Uphill(e), Visited(e))
           /\ e.visited_cells = e.expanded_nodes
           /\ e.visited_cells = Cardinality(Visited(e)) +
                                (IF pc = "pacific_flood" THEN 0 ELSE Cardinality(Reachable(e)))]_vars
  <2> SUFFICES ASSUME IInv, FInv, KeepPacific \/ PacificReturn
               PROVE  /\ Coast(e, IF pc = "pacific_flood" THEN "pacific" ELSE "atlantic") \subseteq Visited(e)
                      /\ Closed(Uphill(e), Visited(e))
                      /\ e.visited_cells = e.expanded_nodes
                      /\ e.visited_cells = Cardinality(Visited(e)) +
                           (IF pc = "pacific_flood" THEN 0 ELSE Cardinality(Reachable(e)))
    OBVIOUS
  <2>1. CASE KeepPacific
    <3>1. /\ e \in EngineType /\ Sized(e) /\ e.stack = <<>> /\ pc = "pacific_flood"
          /\ FloodSoFar(e, "pacific", 0)
      BY <2>1 DEF IInv, Shape, FInv, Found, KeepPacific
    <3>2. /\ Coast(e, "pacific") \subseteq Visited(e) /\ Closed(Uphill(e), Visited(e))
          /\ CountersAt(e, 0 + Cardinality(Visited(e)))
      BY <3>1, FloodDone
    <3>3. 0 + Cardinality(Visited(e)) = Cardinality(Visited(e)) + 0
      BY <3>1, MarkedCounts
    <3>4. QED BY <3>1, <3>2, <3>3 DEF CountersAt
  <2>2. CASE PacificReturn
    <3>1. /\ Sized(e) /\ Coast(e, "atlantic") \subseteq Visited(e) /\ Closed(Uphill(e), Visited(e))
          /\ CountersAt(e, Cardinality(Reachable(e)) + Cardinality(Visited(e)))
      BY <2>2, AtPacificReturn
    <3>2. pc # "pacific_flood"
      BY <2>2 DEF PacificReturn
    <3>3. Cardinality(Reachable(e)) + Cardinality(Visited(e)) =
            Cardinality(Visited(e)) + Cardinality(Reachable(e))
      BY <3>1, MarkedCounts
    <3>4. QED BY <3>1, <3>2, <3>3 DEF CountersAt
  <2>3. QED BY <2>1, <2>2
<1>2. QED BY <1>1, Findings, PTL DEF Spec, OceansReached

(* The value of an island search, by its invariant. *)
LEMMA IslandsReturnRight ==
  ASSUME IInv, FInv, IslandsReturn
  PROVE  IslandsResult(job, result')
<1>1. /\ e \in EngineType /\ Sized(e) /\ Loaded(e, job) /\ value = Cardinality(Islands(e, Land(e)))
      /\ CountersAt(e, Cardinality(Land(e)))
  BY AtIslandsReturn
<1>2. /\ result'.value = value /\ result'.visited_cells = e.visited_cells
      /\ result'.expanded_nodes = e.expanded_nodes
  BY DEF IslandsReturn, Return
<1>3. {c \in Area(job) : job.cells[c] # 0} = Land(e) /\ IslandCount(job) = value
  BY <1>1, NearIsAround, IslandsAsked DEF Land
<1>4. QED BY <1>1, <1>2, <1>3 DEF IslandsResult, CountersAt

(* The value run_number_of_islands returns is the number of islands of the
   job's grid: of the sets of land that can be walked to from some land. It
   and the counters follow from the job alone, so no call can see what an
   earlier one left in the static engine. *)
THEOREM IslandsAreCounted == Spec => IslandsCounted
<1>1. IInv /\ FInv /\ [Next]_vars => [IslandsReturn => IslandsResult(job, result')]_vars
  BY IslandsReturnRight
<1>2. QED BY <1>1, Findings, PTL DEF Spec, IslandsCounted

(* The value of a Pacific Atlantic search, by its invariant. *)
LEMMA PacificReturnRight ==
  ASSUME IInv, FInv, PacificReturn
  PROVE  OceansResult(job, result')
<1>1. /\ e \in EngineType /\ Sized(e) /\ Loaded(e, job)
      /\ Reachable(e) = Ocean(e, "pacific") /\ Visited(e) = Ocean(e, "atlantic")
      /\ CountersAt(e, Cardinality(Reachable(e)) + Cardinality(Visited(e)))
  BY AtPacificReturn
<1>2. /\ result'.value = Cardinality({c \in Cells(e) : e.reachable[c] /\ e.visited[c]})
      /\ result'.visited_cells = e.visited_cells /\ result'.expanded_nodes = e.expanded_nodes
  BY DEF PacificReturn, Return
<1>3. {c \in Cells(e) : e.reachable[c] /\ e.visited[c]} = Reachable(e) \cap Visited(e)
  BY DEF Reachable, Visited
<1>4. Flooded(job, "pacific") = Reachable(e) /\ Flooded(job, "atlantic") = Visited(e)
  BY <1>1, OceanAsked
<1>5. QED BY <1>1, <1>2, <1>3, <1>4 DEF OceansResult, BothOceansCount, CountersAt

(* The value run_pacific_atlantic returns is the number of cells that both
   oceans reach going uphill, and the counters the cells each of them
   reaches: again from the job alone. *)
THEOREM OceansAreCounted == Spec => OceansCounted
<1>1. IInv /\ FInv /\ [Next]_vars => [PacificReturn => OceansResult(job, result')]_vars
  BY PacificReturnRight
<1>2. QED BY <1>1, Findings, PTL DEF Spec, OceansCounted

-----------------------------------------------------------------------------
(* The longest climbs of a grid. *)

(* Some cell of a finite set is as high as any. *)
LEMMA Highest ==
  ASSUME NEW C, IsFiniteSet(C), NEW g, \A c \in C : g[c] \in Int,
         NEW T \in SUBSET C, T # {}
  PROVE  \E c \in T : \A d \in T : g[d] <= g[c]
<1> DEFINE Low(c) == {d \in C : g[d] < g[c]}
           K == {Cardinality(Low(c)) : c \in T}
<1>1. /\ Cardinality(C) \in Nat
      /\ \A c \in C : /\ IsFiniteSet(Low(c)) /\ Cardinality(Low(c)) \in Nat
                       /\ Cardinality(Low(c)) <= Cardinality(C)
  <2>1. \A c : Low(c) \in SUBSET C
    OBVIOUS
  <2>2. \A c : IsFiniteSet(Low(c)) /\ Cardinality(Low(c)) <= Cardinality(C)
    BY <2>1, FS_Subset
  <2>3. QED BY <2>2, FS_CardinalityType
<1>2. K \in SUBSET Nat /\ K # {}
  BY <1>1
<1>3. IsFiniteSet(K)
  <2>1. IsFiniteSet(0 .. Cardinality(C))
    BY <1>1, FS_Interval
  <2> HIDE DEF Low
  <2>2. K \in SUBSET (0 .. Cardinality(C))
    BY <1>1
  <2>3. QED BY <2>1, <2>2, FS_Subset
<1>4. PICK m \in K : \A k \in K : k <= m
  BY <1>2, <1>3, Largest
<1>5. PICK c \in T : m = Cardinality(Low(c))
  BY <1>4
<1>6. ASSUME NEW d \in T, ~(g[d] <= g[c]) PROVE FALSE
  <2>1. g[d] \in Int /\ g[c] \in Int /\ g[c] < g[d]
    BY <1>6
  <2>2. Low(c) \in SUBSET Low(d) /\ c \in Low(d) /\ c \notin Low(c)
    BY <2>1
  <2>3. IsFiniteSet(Low(d)) /\ Cardinality(Low(d)) \in Nat /\ Cardinality(Low(c)) \in Nat
    BY <1>1
  <2>4. Cardinality(Low(d)) <= m
    BY <1>4
  <2> HIDE DEF Low
  <2>5. Cardinality(Low(c)) <= Cardinality(Low(d)) /\ Cardinality(Low(c)) # Cardinality(Low(d))
    BY <2>2, <2>3, FS_Subset
  <2>6. QED BY <1>5, <2>3, <2>4, <2>5
<1>7. QED BY <1>6

(* steps leads from a cell of C to higher ones of C. *)
Ascends(C, g, steps) ==
  /\ IsFiniteSet(C) /\ \A c \in C : g[c] \in Int
  /\ \A c \in C : steps[c] \subseteq C /\ \A n \in steps[c] : g[n] > g[c]

SolvedOn(steps, S, f) == f \in [S -> Nat \ {0}] /\ Closed(steps, S) /\ \A c \in S : Solved(steps, f, c)

(* A cell next to solved ones only can be solved too. *)
LEMMA SolvedNext ==
  ASSUME NEW C, NEW g, NEW steps, Ascends(C, g, steps), NEW S \in SUBSET C, NEW f, SolvedOn(steps, S, f),
         NEW c \in C \ S, steps[c] \subseteq S
  PROVE  \E h : SolvedOn(steps, S \cup {c}, h)
<1>1. \E v \in Nat \ {0} : /\ \A n \in steps[c] : f[n] \in 1 .. v - 1
                           /\ v = 1 \/ \E n \in steps[c] : v = f[n] + 1
  <2>1. CASE steps[c] = {}
    BY <2>1
  <2>2. CASE steps[c] # {}
    <3>1. IsFiniteSet(steps[c])
      BY FS_Subset DEF Ascends
    <3>2. \A n \in steps[c] : f[n] \in Nat \ {0}
      BY DEF SolvedOn
    <3>3. PICK n \in steps[c] : \A m \in steps[c] : f[m] <= f[n]
      <4>1. \A n \in steps[c] : f[n] \in Int
        BY <3>2
      <4>2. QED BY <2>2, <3>1, <4>1, Highest
    <3>4. WITNESS f[n] + 1 \in Nat \ {0}
    <3>5. QED BY <3>2, <3>3
  <2>3. QED BY <2>1, <2>2
<1>2. PICK v \in Nat \ {0} : /\ \A n \in steps[c] : f[n] \in 1 .. v - 1
                             /\ v = 1 \/ \E n \in steps[c] : v = f[n] + 1
  BY <1>1
<1> DEFINE h == [d \in S \cup {c} |-> IF d = c THEN v ELSE f[d]]
<1>3. h \in [S \cup {c} -> Nat \ {0}] /\ h[c] = v /\ \A d \in S : h[d] = f[d]
  BY DEF SolvedOn
<1> HIDE DEF h
<1>4. Closed(steps, S \cup {c})
  BY DEF Closed, SolvedOn
<1>5. ASSUME NEW d \in S PROVE Solved(steps, h, d)
  <2>1. Solved(steps, f, d) /\ steps[d] \subseteq S
    BY DEF SolvedOn, Closed
  <2>2. QED BY <1>3, <2>1 DEF Solved
<1>6. Solved(steps, h, c)
  BY <1>2, <1>3 DEF Solved
<1>7. SolvedOn(steps, S \cup {c}, h)
  BY <1>3, <1>4, <1>5, <1>6 DEF SolvedOn
<1>8. QED BY <1>7

(* So the longest climbs exist: take the most cells that can be solved; if
   some are left, the highest of them can be solved too. *)
LEMMA SolutionExists ==
  ASSUME NEW C, NEW g, NEW steps, Ascends(C, g, steps)
  PROVE  \E f : SolvedOn(steps, C, f)
<1> DEFINE Solvable == {S \in SUBSET C : \E f : SolvedOn(steps, S, f)}
           K == {Cardinality(S) : S \in Solvable}
<1>1. /\ IsFiniteSet(C) /\ Cardinality(C) \in Nat
      /\ \A S \in SUBSET C : /\ IsFiniteSet(S) /\ Cardinality(S) \in Nat
                              /\ Cardinality(S) <= Cardinality(C)
  <2>1. IsFiniteSet(C)
    BY DEF Ascends
  <2>2. \A S \in SUBSET C : IsFiniteSet(S) /\ Cardinality(S) <= Cardinality(C)
    BY <2>1, FS_Subset
  <2>3. QED BY <2>1, <2>2, FS_CardinalityType
<1>2. \A S \in SUBSET C : (\E f : SolvedOn(steps, S, f)) => S \in Solvable
  OBVIOUS
<1>3. {} \in Solvable
  <2>1. [c \in {} |-> 1] \in [{} -> Nat \ {0}]
    OBVIOUS
  <2>2. SolvedOn(steps, {}, [c \in {} |-> 1])
    BY <2>1 DEF SolvedOn, Closed
  <2>3. QED BY <2>2
<1>4. \A S \in Solvable : S \in SUBSET C /\ \E f : SolvedOn(steps, S, f)
  OBVIOUS
<1> HIDE DEF Solvable
<1>5. K \in SUBSET Nat /\ K # {} /\ IsFiniteSet(K)
  <2>1. K \in SUBSET Nat /\ K # {}
    BY <1>1, <1>3, <1>4
  <2>2. IsFiniteSet(K)
    <3>1. IsFiniteSet(0 .. Cardinality(C))
      BY <1>1, FS_Interval
    <3>2. K \in SUBSET (0 .. Cardinality(C))
      BY <1>1, <1>4
    <3>3. QED BY <3>1, <3>2, FS_Subset
  <2>3. QED BY <2>1, <2>2
<1>6. PICK m \in K : \A k \in K : k <= m
  BY <1>5, Largest
<1>7. PICK S \in Solvable : m = Cardinality(S)
  BY <1>6
<1>8. S \in SUBSET C /\ \E f : SolvedOn(steps, S, f)
  BY <1>4
<1>9. PICK f : SolvedOn(steps, S, f)
  BY <1>8
<1>10. ASSUME S # C PROVE FALSE
  <2>1. C \ S \in SUBSET C /\ C \ S # {}
    BY <1>8, <1>10
  <2>2. PICK c \in C \ S : \A d \in C \ S : g[d] <= g[c]
    <3>1. \A c \in C : g[c] \in Int
      BY DEF Ascends
    <3>2. QED BY <1>1, <2>1, <3>1, Highest
  <2>3. steps[c] \subseteq S
    <3>1. \A n \in steps[c] : n \in C /\ g[n] > g[c] /\ g[n] \in Int /\ g[c] \in Int
      BY DEF Ascends
    <3>2. \A n \in steps[c] : ~(n \in C \ S)
      BY <2>2, <3>1
    <3>3. QED BY <3>1, <3>2
  <2>4. \E h : SolvedOn(steps, S \cup {c}, h)
    BY <1>8, <1>9, <2>3, SolvedNext
  <2>5. S \cup {c} \in SUBSET C
    BY <1>8
  <2>6. S \cup {c} \in Solvable
    BY <1>2, <2>4, <2>5
  <2>7. Cardinality(S \cup {c}) \in K
    BY <2>6
  <2>8. Cardinality(S \cup {c}) = Cardinality(S) + 1
    BY <1>1, <1>8, <2>2, FS_AddElement
  <2>9. Cardinality(S) \in Nat
    BY <1>1, <1>8
  <2>10. QED BY <1>6, <1>7, <2>7, <2>8, <2>9
<1>11. QED BY <1>9, <1>10

(* The paths that take these steps. *)
Climbings(steps) ==
  {p \in Seq(DOMAIN steps) : p # <<>> /\ \A i \in 1 .. Len(p) - 1 : p[i + 1] \in steps[p[i]]}

(* No path is longer than the solution of its first cell. *)
LEMMA NoLonger ==
  ASSUME NEW steps, NEW f, SolvedOn(steps, DOMAIN steps, f), NEW p \in Climbings(steps)
  PROVE  Len(p) <= f[p[1]]
<1> DEFINE n == Len(p)
           Short == {i \in 1 .. n : f[p[i]] < n - i + 1}
<1>1. p \in Seq(DOMAIN steps) /\ p # <<>> /\ \A i \in 1 .. n - 1 : p[i + 1] \in steps[p[i]]
  BY DEF Climbings
<1>2. n \in Nat \ {0} /\ \A i \in 1 .. n : p[i] \in DOMAIN steps
  BY <1>1, EmptySeq
<1> HIDE DEF n
<1>3. \A i \in 1 .. n : f[p[i]] \in Nat \ {0} /\ Solved(steps, f, p[i])
  BY <1>2 DEF SolvedOn
<1>4. Short \in SUBSET Nat /\ IsFiniteSet(Short)
  <2>1. 1 .. n \in SUBSET Nat /\ IsFiniteSet(1 .. n) /\ Short \in SUBSET (1 .. n)
    BY <1>2, FS_Interval
  <2>2. QED BY <2>1, FS_Subset
<1>5. ASSUME Short # {} PROVE FALSE
  <2>1. PICK i \in Short : \A j \in Short : j <= i
    BY <1>4, <1>5, Largest
  <2>2. i \in 1 .. n /\ f[p[i]] < n - i + 1 /\ f[p[i]] \in Nat \ {0}
    BY <1>3
  <2>3. i # n /\ i \in 1 .. n - 1 /\ i + 1 \in 1 .. n
    BY <1>2, <2>2
  <2>4. i + 1 \notin Short
    BY <2>1, <2>2
  <2>5. p[i + 1] \in steps[p[i]]
    BY <1>1, <2>3 DEF n
  <2>6. f[p[i + 1]] \in 1 .. f[p[i]] - 1
    BY <1>3, <2>2, <2>5 DEF Solved
  <2>7. f[p[i + 1]] \in Nat /\ ~(f[p[i + 1]] < n - (i + 1) + 1)
    BY <1>3, <2>3, <2>4
  <2>8. QED BY <1>2, <2>2, <2>6, <2>7
<1>6. 1 \in 1 .. n /\ ~(f[p[1]] < n - 1 + 1) /\ f[p[1]] \in Nat
  BY <1>2, <1>3, <1>5
<1>7. QED BY <1>2, <1>6 DEF n

(* And a path of that length begins at every cell. *)
LEMMA AsLong ==
  ASSUME NEW g, NEW steps, Ascends(DOMAIN steps, g, steps),
         NEW f, SolvedOn(steps, DOMAIN steps, f), NEW c \in DOMAIN steps
  PROVE  \E p \in Climbings(steps) : p[1] = c /\ Len(p) = f[c]
<1> DEFINE C == DOMAIN steps
           From(d) == \E p \in Climbings(steps) : p[1] = d /\ Len(p) = f[d]
           T == {d \in C : ~From(d)}
<1>1. ASSUME T # {} PROVE FALSE
  <2>1. IsFiniteSet(C) /\ T \in SUBSET C /\ \A d \in C : g[d] \in Int
    BY DEF Ascends
  <2> HIDE DEF T
  <2>2. PICK d \in T : \A n \in T : g[n] <= g[d]
    BY <1>1, <2>1, Highest
  <2> USE DEF T
  <2>3. d \in C /\ f[d] \in Nat \ {0} /\ Solved(steps, f, d) /\ ~From(d)
    BY DEF SolvedOn
  <2>4. CASE f[d] = 1
    <3>1. <<d>> \in Seq(C) /\ <<d>> # <<>> /\ Len(<<d>>) = 1 /\ <<d>>[1] = d
      BY <2>3
    <3>2. <<d>> \in Climbings(steps)
      BY <3>1 DEF Climbings
    <3>3. QED BY <2>3, <2>4, <3>1, <3>2
  <2>5. CASE f[d] # 1
    <3>1. PICK n \in steps[d] : f[d] = f[n] + 1
      BY <2>3, <2>5 DEF Solved
    <3>2. n \in C /\ g[n] > g[d] /\ g[n] \in Int /\ g[d] \in Int
      BY <2>3 DEF Ascends
    <3>3. From(n)
      BY <2>2, <3>2
    <3>4. PICK q \in Climbings(steps) : q[1] = n /\ Len(q) = f[n]
      BY <3>3
    <3>5. q \in Seq(C) /\ q # <<>> /\ \A i \in 1 .. Len(q) - 1 : q[i + 1] \in steps[q[i]]
      BY <3>4 DEF Climbings
    <3> DEFINE m == Len(q)
               p == [i \in 1 .. m + 1 |-> IF i = 1 THEN d ELSE q[i - 1]]
    <3>6. m \in Nat \ {0} /\ \A i \in 1 .. m : q[i] \in C
      BY <3>5, EmptySeq
    <3>7. p \in Seq(C) /\ Len(p) = m + 1 /\ p[1] = d
      <4> HIDE DEF m
      <4>1. \A i \in 1 .. m + 1 : i # 1 => i - 1 \in 1 .. m
        BY <3>6
      <4>2. p \in [1 .. m + 1 -> C]
        BY <2>3, <3>6, <4>1
      <4>3. p[1] = d
        BY <3>6
      <4> HIDE DEF p
      <4>4. QED BY <3>6, <4>2, <4>3
    <3>8. ASSUME NEW i \in 1 .. m PROVE p[i + 1] \in steps[p[i]]
      <4>1. i + 1 \in 1 .. m + 1 /\ i + 1 # 1 /\ i + 1 - 1 = i /\ i \in 1 .. m + 1
        BY <3>6
      <4>2. p[i + 1] = q[i]
        BY <4>1
      <4>3. CASE i = 1
        BY <3>1, <3>4, <3>7, <4>2, <4>3
      <4>4. CASE i # 1
        <5>1. i - 1 \in 1 .. m - 1 /\ i - 1 + 1 = i
          BY <3>6, <4>4
        <5>2. p[i] = q[i - 1]
          BY <4>1, <4>4
        <5>3. q[i - 1 + 1] \in steps[q[i - 1]]
          BY <3>5, <5>1
        <5>4. QED BY <4>2, <5>1, <5>2, <5>3
      <4>5. QED BY <4>3, <4>4
    <3>9. p # <<>>
      <4> HIDE DEF p
      <4>1. QED BY <3>6, <3>7, EmptySeq
    <3>10. p \in Climbings(steps)
      <4> HIDE DEF p
      <4>1. m + 1 - 1 = m
        BY <3>6
      <4>2. QED BY <3>7, <3>8, <3>9, <4>1 DEF Climbings
    <3> HIDE DEF p
    <3>11. QED BY <2>3, <3>1, <3>4, <3>7, <3>10
  <2>6. QED BY <2>4, <2>5
<1>2. QED BY <1>1

-----------------------------------------------------------------------------
(* What the longest increasing path has found, against the longest climbs. *)

(* The lengths of the longest climbs of an engine's grid. *)
Longest(s) == CHOOSE f : SolvedOn(Climbs(s), Cells(s), f)

(* The cells whose entry of the memo is set; the higher cells a frame has
   tried; the cell of the frame above the i-th. *)
Known(s) == {c \in Cells(s) : s.memo[c] # 0}
Tried(s, f) ==
  {n \in Climbs(s)[f.cur] :
     \E i \in 0 .. s.degree - 1 :
       i < f.next /\ HasNeighbor(s, f.cur, i) /\ n = Neighbor(s, f.cur, i)}
Child(s, i) == IF i < Len(s.frames) THEN {s.frames[i + 1].cur} ELSE {}

(* A frame holds the best of the higher cells it has tried, P left out; with
   the memo on, m, their entries are set. *)
Best(s, f, P, m) ==
  /\ f.best \in Nat \ {0}
  /\ \A n \in Tried(s, f) \ P : Longest(s)[n] < f.best
  /\ f.best = 1 \/ \E n \in Climbs(s)[f.cur] : f.best = Longest(s)[n] + 1
  /\ m => Tried(s, f) \ P \subseteq Known(s)

Climbing(s, m) ==
  \A i \in 1 .. Len(s.frames) :
    Child(s, i) \subseteq Climbs(s)[s.frames[i].cur] /\ Best(s, s.frames[i], Child(s, i), m)

(* v is the most of the cells before k. *)
LongestSoFar(s, k, v) ==
  /\ k \in Nat /\ v \in Nat
  /\ \A c \in Cells(s) : c < k => Longest(s)[c] <= v
  /\ v = 0 \/ \E c \in Cells(s) : v = Longest(s)[c]

Remembered(s) ==
  /\ \A c \in Cells(s) : s.memo[c] \in {0, Longest(s)[c]}
  /\ Closed(Climbs(s), Known(s))

(* A climb from k ends with its length in r. *)
From(s, k, r) == IF s.frames = <<>> THEN r = Longest(s)[k] ELSE s.frames[1].cur = k

Climbed(p, s, j, k, v, r) ==
  /\ p \in {"increasing", "increasing_walk"} =>
       Loaded(s, j) /\ Remembered(s) /\ LongestSoFar(s, k, v)
  /\ p = "increasing_walk" => k \in Cells(s) /\ Climbing(s, j.memo) /\ From(s, k, r)

LInv == Climbed(pc, e, job, scan, value, ret)

(* Every grid has longest climbs. *)
LEMMA LongestSolves ==
  ASSUME NEW s \in EngineType, Sized(s)
  PROVE  /\ Ascends(Cells(s), s.grid, Climbs(s))
         /\ SolvedOn(Climbs(s), Cells(s), Longest(s))
<1>1. Cells(s) \subseteq Cell /\ IsFiniteSet(Cells(s))
  BY CellsFit DEF Cell
<1>2. \A c \in Cells(s) : s.grid[c] \in Int
  BY <1>1 DEF EngineType
<1>3. \A c \in Cells(s) : Around(s, c) \subseteq Cells(s)
  BY AroundOf
<1>4. \A c \in Cells(s) : Climbs(s)[c] = {n \in Around(s, c) : s.grid[n] > s.grid[c]}
  BY DEF Climbs
<1>5. Ascends(Cells(s), s.grid, Climbs(s))
  BY <1>1, <1>2, <1>3, <1>4 DEF Ascends
<1>6. \E f : SolvedOn(Climbs(s), Cells(s), f)
  BY <1>5, SolutionExists
<1>7. QED BY <1>5, <1>6 DEF Longest

(* Engines alike have the same climbs. *)
LEMMA SameClimbs ==
  ASSUME NEW s, NEW t, Alike(s, t)
  PROVE  /\ Cells(t) = Cells(s) /\ Climbs(t) = Climbs(s) /\ Longest(t) = Longest(s)
         /\ \A f : Tried(t, f) = Tried(s, f)
<1>1. t.rows = s.rows /\ t.cols = s.cols /\ t.degree = s.degree /\ t.grid = s.grid
  BY DEF Alike
<1>2. Cells(t) = Cells(s)
  BY <1>1 DEF Cells
<1>3. \A c : Around(t, c) = Around(s, c)
  BY <1>1 DEF Around, HasNeighbor, Neighbor
<1>4. Climbs(t) = Climbs(s)
  BY <1>1, <1>2, <1>3 DEF Climbs
<1>5. Longest(t) = Longest(s)
  BY <1>2, <1>4 DEF Longest
<1>6. \A f : Tried(t, f) = Tried(s, f)
  BY <1>1, <1>4 DEF Tried, HasNeighbor, Neighbor
<1>7. QED BY <1>2, <1>4, <1>5, <1>6

(* f.next++, frame by frame. *)
LEMMA AdvanceFrames ==
  ASSUME NEW s \in EngineType, s.frames # <<>>
  PROVE  LET t == advance(s)
             L == Len(s.frames)
         IN  /\ t.memo = s.memo /\ Len(t.frames) = L
             /\ t.frames[L] = [Top(s) EXCEPT !.next = Top(s).next + 1]
             /\ \A j \in 1 .. L : j # L => t.frames[j] = s.frames[j]
<1> DEFINE L == Len(s.frames)
           f == [s.frames[L] EXCEPT !.next = s.frames[L].next + 1]
           q == [s.frames EXCEPT ![L] = f]
<1>1. s.frames \in Seq(FrameType) /\ L \in Nat \ {0} /\ s.frames[L] \in FrameType /\ Top(s) = s.frames[L]
  BY TopOf DEF EngineType
<1>2. f \in FrameType /\ f = [Top(s) EXCEPT !.next = Top(s).next + 1]
  <2>1. s.frames[L].next \in Nat
    BY <1>1 DEF FrameType
  <2>2. s.frames[L].next + 1 \in Nat
    BY <2>1
  <2>3. QED BY <1>1, <2>2 DEF FrameType
<1>3. advance(s) = [s EXCEPT !.frames = q]
  BY DEF advance
<1> HIDE DEF f
<1>4. L \in 1 .. L
  BY <1>1
<1>5. /\ q \in Seq(FrameType) /\ Len(q) = L
      /\ \A j \in 1 .. L : q[j] = IF j = L THEN f ELSE s.frames[j]
  BY <1>1, <1>2, <1>4, ExceptSeq
<1> HIDE DEF q
<1>6. advance(s).frames = q /\ advance(s).memo = s.memo
  BY <1>3 DEF EngineType
<1>7. QED BY <1>2, <1>4, <1>5, <1>6

(* What the other operations on frames leave of the memo. *)
LEMMA FramesKeepMemo ==
  ASSUME NEW s \in EngineType, NEW f, NEW v
  PROVE  /\ push_frame(s, f).memo = s.memo /\ pop_frame(s).memo = s.memo
         /\ propagate_best(s, v).memo = s.memo
BY DEF EngineType, push_frame, note_depth, pop_frame, propagate_best

(* The best of the innermost frame becomes one more than the child's, if that
   is more. *)
LEMMA PropagateFrames ==
  ASSUME NEW s \in EngineType, s.frames # <<>>, NEW v \in Int
  PROVE  LET t == propagate_best(s, v)
             L == Len(s.frames)
         IN  /\ Len(t.frames) = L
             /\ t.frames[L] = [Top(s) EXCEPT !.best = IF v + 1 > Top(s).best THEN v + 1 ELSE Top(s).best]
             /\ \A j \in 1 .. L : j # L => t.frames[j] = s.frames[j]
<1> DEFINE L == Len(s.frames)
           t == propagate_best(s, v)
           b == v + 1
<1>1. s.frames \in Seq(FrameType) /\ L \in Nat \ {0} /\ s.frames[L] \in FrameType /\ Top(s) = s.frames[L]
  BY TopOf DEF EngineType
<1>2. Top(s).best \in Int /\ Top(s) = [Top(s) EXCEPT !.best = Top(s).best]
  BY <1>1 DEF FrameType
<1>3. CASE ~(b > Top(s).best)
  <2>1. t = s
    BY <1>3 DEF propagate_best
  <2>2. QED BY <1>1, <1>2, <1>3, <2>1
<1>4. CASE b > Top(s).best
  <2> DEFINE f == [s.frames[L] EXCEPT !.best = b]
             q == [s.frames EXCEPT ![L] = f]
  <2>1. t = [s EXCEPT !.frames = q]
    BY <1>4 DEF propagate_best
  <2>2. b \in Int
    OBVIOUS
  <2> HIDE DEF b
  <2>3. f \in FrameType /\ f = [Top(s) EXCEPT !.best = b]
    BY <1>1, <2>2 DEF FrameType
  <2> HIDE DEF f
  <2>4. L \in 1 .. L
    BY <1>1
  <2>5. /\ Len(q) = L
        /\ \A j \in 1 .. L : q[j] = IF j = L THEN f ELSE s.frames[j]
    BY <1>1, <2>3, <2>4, ExceptSeq
  <2> HIDE DEF q, t
  <2>6. t.frames = q
    BY <2>1 DEF EngineType
  <2>7. QED BY <1>4, <2>3, <2>4, <2>5, <2>6 DEF t, b
<1>5. QED BY <1>3, <1>4

(* What a frame knows it knows of any engine with the same grid and at least
   the memo. *)
LEMMA BestStays ==
  ASSUME NEW s, NEW t, Alike(s, t), Known(s) \subseteq Known(t), NEW f, NEW P, NEW m, Best(s, f, P, m)
  PROVE  Best(t, f, P, m)
<1>1. Climbs(t) = Climbs(s) /\ Longest(t) = Longest(s) /\ Tried(t, f) = Tried(s, f)
  BY SameClimbs
<1>2. QED BY <1>1 DEF Best

(* A finished frame holds the length of the longest climb from its cell. *)
LEMMA FrameDone ==
  ASSUME NEW s \in EngineType, Sized(s), NEW f, f.cur \in Cells(s), f.next \in Nat, ~(f.next < s.degree),
         NEW m, Best(s, f, {}, m)
  PROVE  f.best = Longest(s)[f.cur] /\ (m => Climbs(s)[f.cur] \subseteq Known(s))
<1> DEFINE h == Longest(s)
           c == f.cur
           b == f.best
           up == Climbs(s)[c]
<1>1. SolvedOn(Climbs(s), Cells(s), h) /\ Ascends(Cells(s), s.grid, Climbs(s))
  BY LongestSolves
<1>2. /\ h[c] \in Nat \ {0} /\ \A n \in up : h[n] \in 1 .. h[c] - 1
      /\ h[c] = 1 \/ \E n \in up : h[c] = h[n] + 1
  BY <1>1 DEF SolvedOn, Solved
<1>3. Tried(s, f) = up
  <2>1. s.degree \in {4, 8}
    BY DEF EngineType
  <2>2. \A i \in 0 .. s.degree - 1 : i < f.next
    BY <2>1
  <2>3. \A n \in up : \E i \in 0 .. s.degree - 1 : HasNeighbor(s, c, i) /\ n = Neighbor(s, c, i)
    BY DEF Climbs, Around
  <2>4. QED BY <2>2, <2>3 DEF Tried
<1>4. /\ b \in Nat \ {0} /\ \A n \in up : h[n] < b
      /\ b = 1 \/ \E n \in up : b = h[n] + 1
      /\ m => up \subseteq Known(s)
  BY <1>3 DEF Best
<1> HIDE DEF h, c, b, up
<1>5. ~(b > h[c])
  <2>1. b = 1 => ~(b > h[c])
    BY <1>2
  <2>2. ASSUME NEW n \in up, b = h[n] + 1 PROVE ~(b > h[c])
    BY <1>2, <2>2
  <2>3. QED BY <1>4, <2>1, <2>2
<1>6. ~(h[c] > b)
  <2>1. h[c] = 1 => ~(h[c] > b)
    BY <1>4
  <2>2. ASSUME NEW n \in up, h[c] = h[n] + 1 PROVE ~(h[c] > b)
    BY <1>2, <1>4, <2>2
  <2>3. QED BY <1>2, <2>1, <2>2
<1>7. b = h[c]
  BY <1>2, <1>4, <1>5, <1>6
<1>8. QED BY <1>4, <1>7 DEF h, c, b, up

-----------------------------------------------------------------------------
(* The steps of a climb. *)

(* Only a frame's cell and next direction say what it has tried. *)
LEMMA TriedOf ==
  ASSUME NEW s, NEW f, NEW g, g.cur = f.cur, g.next = f.next
  PROVE  Tried(s, g) = Tried(s, f)
BY DEF Tried

(* One direction more is one higher cell more, or none. *)
LEMMA TriedNext ==
  ASSUME NEW s \in EngineType, NEW f \in FrameType, f.next < s.degree, f.cur \in Cells(s),
         NEW g \in FrameType, g.cur = f.cur, g.next = f.next + 1
  PROVE  Tried(s, g) = Tried(s, f) \cup
           {n \in {Neighbor(s, f.cur, f.next)} :
              HasNeighbor(s, f.cur, f.next) /\ s.grid[n] > s.grid[f.cur]}
<1> DEFINE c == f.cur
           k == f.next
           up == Climbs(s)[c]
<1>1. k \in 0 .. s.degree - 1 /\ \A i \in 0 .. s.degree - 1 : i < k + 1 <=> i < k \/ i = k
  <2>1. s.degree \in {4, 8} /\ k \in Nat
    BY DEF EngineType, FrameType
  <2>2. QED BY <2>1
<1>2. up = {n \in Around(s, c) : s.grid[n] > s.grid[c]}
  BY DEF Climbs
<1>3. HasNeighbor(s, c, k) => Neighbor(s, c, k) \in Around(s, c)
  BY <1>1 DEF Around
<1>4. Tried(s, g) = {n \in up : \E i \in 0 .. s.degree - 1 :
                       i < k + 1 /\ HasNeighbor(s, c, i) /\ n = Neighbor(s, c, i)}
  BY DEF Tried
<1>5. Tried(s, f) = {n \in up : \E i \in 0 .. s.degree - 1 :
                       i < k /\ HasNeighbor(s, c, i) /\ n = Neighbor(s, c, i)}
  BY DEF Tried
<1> HIDE DEF c, k, up
<1>6. Tried(s, g) = Tried(s, f) \cup
        {n \in up : HasNeighbor(s, c, k) /\ n = Neighbor(s, c, k)}
  BY <1>1, <1>4, <1>5
<1>7. {n \in up : HasNeighbor(s, c, k) /\ n = Neighbor(s, c, k)} =
      {n \in {Neighbor(s, c, k)} : HasNeighbor(s, c, k) /\ s.grid[n] > s.grid[c]}
  BY <1>2, <1>3
<1>8. QED BY <1>6, <1>7 DEF c, k

(* A frame just pushed has tried nothing. *)
LEMMA NewFrame ==
  ASSUME NEW s, NEW c, NEW m
  PROVE  Frame(c).cur = c /\ Best(s, Frame(c), {}, m)
<1>1. Frame(c).cur = c /\ Frame(c).next = 0 /\ Frame(c).best = 1
  BY DEF Frame
<1>2. \A i \in 0 .. s.degree - 1 : ~(i < 0)
  OBVIOUS
<1>3. Tried(s, Frame(c)) = {}
  BY <1>1, <1>2 DEF Tried
<1>4. QED BY <1>1, <1>3 DEF Best

(* b is the larger of a and old. *)
Larger(a, old, b) == b = IF a > old THEN a ELSE old

(* The child's length handed down makes good what the child left out. *)
LEMMA BestPropagates ==
  ASSUME NEW s \in EngineType, Sized(s), NEW f \in FrameType, f.cur \in Cells(s),
         NEW c \in Climbs(s)[f.cur], NEW m, Best(s, f, {c}, m), m => c \in Known(s),
         NEW g, g.cur = f.cur, g.next = f.next, Larger(Longest(s)[c] + 1, f.best, g.best)
  PROVE  Best(s, g, {}, m)
<1> DEFINE h == Longest(s)
           v == h[c]
           b == IF v + 1 > f.best THEN v + 1 ELSE f.best
           T == Tried(s, f)
           up == Climbs(s)[f.cur]
<1>1. SolvedOn(Climbs(s), Cells(s), h) /\ Ascends(Cells(s), s.grid, Climbs(s))
  BY LongestSolves
<1>2. up \subseteq Cells(s) /\ \A n \in Cells(s) : h[n] \in Nat \ {0}
  BY <1>1 DEF Ascends, SolvedOn
<1>3. /\ f.best \in Nat \ {0} /\ \A n \in T \ {c} : h[n] < f.best
      /\ f.best = 1 \/ \E n \in up : f.best = h[n] + 1
      /\ m => T \ {c} \subseteq Known(s)
  BY DEF Best
<1>4. v \in Nat \ {0}
  BY <1>2
<1> HIDE DEF v
<1>5. b \in Nat \ {0} /\ v < b /\ f.best <= b /\ b \in {f.best, v + 1}
  BY <1>3, <1>4
<1> HIDE DEF b
<1>6. g.best = b
  BY DEF b, v, Larger
<1>7. Tried(s, g) = T
  BY <1>6, TriedOf
<1>8. T \subseteq up
  BY DEF Tried
<1> HIDE DEF h, T, up
<1>9. \A n \in T : h[n] < b
  <2>1. \A n \in T \ {c} : h[n] < b
    <3>1. \A n \in T : h[n] \in Nat
      BY <1>2, <1>8
    <3>2. QED BY <1>3, <1>5, <3>1
  <2>2. h[c] < b
    BY <1>5 DEF v
  <2>3. QED BY <2>1, <2>2
<1>10. b = 1 \/ \E n \in up : b = h[n] + 1
  <2>1. b = v + 1 => \E n \in up : b = h[n] + 1
    BY DEF v, up
  <2>2. QED BY <1>3, <1>5, <2>1
<1>11. m => T \subseteq Known(s)
  BY <1>3
<1>12. QED BY <1>5, <1>6, <1>7, <1>9, <1>10, <1>11 DEF Best, h, up

(* A frame removed once its cell is known: the value goes to the frame below,
   or is that of the source. *)
LEMMA ClimbGoesBack ==
  ASSUME NEW s \in EngineType, Sized(s), OnCells(s), s.frames # <<>>, NEW m, Climbing(s, m),
         m => Top(s).cur \in Known(s), NEW k, NEW r, From(s, k, r),
         NEW v, v = Longest(s)[Top(s).cur], NEW t, t = propagate_best(pop_frame(s), v)
  PROVE  Alike(s, t) /\ t.memo = s.memo /\ Climbing(t, m) /\ From(t, k, v)
<1> DEFINE L == Len(s.frames)
           c == Top(s).cur
           u == pop_frame(s)
<1>1. /\ L \in Nat \ {0} /\ Top(s) = s.frames[L] /\ L \in 1 .. L
      /\ \A i \in 1 .. L : s.frames[i] \in FrameType /\ s.frames[i].cur \in Cells(s)
  <2>1. L \in Nat \ {0} /\ Top(s) = s.frames[L]
    BY TopOf
  <2>2. s.frames \in Seq(FrameType)
    BY DEF EngineType
  <2>3. QED BY <2>1, <2>2 DEF OnCells
<1>2. c \in Cells(s) /\ v \in Nat
  <2>1. c \in Cells(s)
    BY <1>1
  <2>2. QED BY <2>1, LongestSolves DEF SolvedOn
<1>3. /\ u \in EngineType /\ Alike(s, u) /\ u.frames = Front(s.frames) /\ u.memo = s.memo
  BY PopFrame, FramesKeepMemo
<1>4. Len(u.frames) = L - 1 /\ \A i \in 1 .. L - 1 : u.frames[i] = s.frames[i]
  BY <1>3, TopOf
<1> HIDE DEF u
<1>5. t = propagate_best(u, v) /\ v \in Int
  BY <1>2 DEF u
<1>6. t \in EngineType /\ Alike(u, t) /\ SameCurs(u, t) /\ t.memo = s.memo
  <2> DEFINE z == propagate_best(u, v)
  <2>1. z \in EngineType /\ Alike(u, z) /\ SameCurs(u, z)
    BY <1>3, <1>5, PropagateBest
  <2>2. z.memo = s.memo
    BY <1>3, FramesKeepMemo
  <2>3. t = z
    BY <1>5
  <2> HIDE DEF z
  <2>4. QED BY <2>1, <2>2, <2>3
<1>7. Alike(s, t)
  BY <1>3, <1>6 DEF Alike
<1>8. Cells(t) = Cells(s) /\ Climbs(t) = Climbs(s) /\ Longest(t) = Longest(s) /\ Known(t) = Known(s)
  BY <1>6, <1>7, SameClimbs DEF Known
<1>9. s.frames[1].cur = k
  BY DEF From
<1>10. CASE L = 1
  <2>1. Len(t.frames) = 0 /\ u.frames = <<>>
    <3>1. u.frames \in Seq(FrameType) /\ t.frames \in Seq(FrameType)
      BY <1>3, <1>6 DEF EngineType
    <3>2. Len(u.frames) = 0 /\ Len(t.frames) = 0
      BY <1>4, <1>6, <1>10 DEF SameCurs
    <3>3. QED BY <3>1, <3>2, EmptySeq
  <2>2. t = u
    BY <1>5, <2>1 DEF propagate_best
  <2>3. Climbing(t, m)
    BY <2>1 DEF Climbing
  <2>4. From(t, k, v)
    BY <1>1, <1>8, <1>9, <1>10, <2>1, <2>2 DEF From
  <2>5. QED BY <1>6, <1>7, <2>3, <2>4
<1>11. CASE L # 1
  <2> DEFINE K == L - 1
             b == IF v + 1 > Top(u).best THEN v + 1 ELSE Top(u).best
             g == [s.frames[K] EXCEPT !.best = b]
  <2>1. K \in 1 .. L /\ K \in Nat \ {0} /\ K < L /\ K + 1 = L /\ K \in 1 .. K
    <3>1. L \in Nat \ {0} /\ L # 1
      BY <1>1, <1>11
    <3> HIDE DEF L
    <3>2. QED BY <3>1
  <2>2. u.frames # <<>> /\ Len(u.frames) = K
    BY <1>4, <2>1
  <2>3. Top(u) = s.frames[K]
    <3>1. Top(u) = u.frames[K]
      BY <1>3, <2>2, TopOf
    <3>2. QED BY <1>4, <2>1, <3>1
  <2>4. /\ Len(t.frames) = K /\ t.frames[K] = g
        /\ \A i \in 1 .. K : i # K => t.frames[i] = s.frames[i]
    <3>1. /\ Len(t.frames) = K /\ t.frames[K] = [Top(u) EXCEPT !.best = b]
          /\ \A i \in 1 .. K : i # K => t.frames[i] = u.frames[i]
      <4> DEFINE z == propagate_best(u, v)
                 M == Len(u.frames)
      <4>1. /\ Len(z.frames) = M /\ z.frames[M] = [Top(u) EXCEPT !.best = b]
            /\ \A i \in 1 .. M : i # M => z.frames[i] = u.frames[i]
        BY <1>3, <1>5, <2>2, PropagateFrames
      <4>2. t = z /\ M = K
        BY <1>5, <2>2
      <4> HIDE DEF z, M, K, b
      <4>3. QED BY <4>1, <4>2
    <3>2. QED BY <1>4, <2>1, <2>3, <3>1
  <2>5. Child(s, K) = {c} /\ \A i \in 1 .. K : i # K => Child(s, i) = {s.frames[i + 1].cur}
    BY <1>1, <2>1 DEF Child
  <2>6. c \in Climbs(s)[s.frames[K].cur] /\ Best(s, s.frames[K], {c}, m)
    BY <2>1, <2>5 DEF Climbing
  <2>7. g.cur = s.frames[K].cur /\ Best(s, g, {}, m)
    <3> DEFINE f == s.frames[K]
    <3>1. f \in FrameType /\ f.cur \in Cells(s) /\ c \in Climbs(s)[f.cur] /\ Best(s, f, {c}, m)
      BY <1>1, <2>1, <2>6
    <3>2. m => c \in Known(s)
      OBVIOUS
    <3>3. g.cur = f.cur /\ g.next = f.next /\ Larger(Longest(s)[c] + 1, f.best, g.best)
      <4>1. f \in FrameType /\ b = IF Longest(s)[c] + 1 > f.best THEN Longest(s)[c] + 1 ELSE f.best
        BY <2>3, <3>1
      <4>2. g = [f EXCEPT !.best = b]
        OBVIOUS
      <4> HIDE DEF b, f, g
      <4>3. g.cur = f.cur /\ g.next = f.next /\ g.best = b
        BY <4>1, <4>2 DEF FrameType
      <4>4. QED BY <4>1, <4>3 DEF Larger
    <3> HIDE DEF f, c, g, b, K, L
    <3>4. g.cur = f.cur /\ Best(s, g, {}, m)
      BY <3>1, <3>2, <3>3, BestPropagates
    <3>5. QED BY <3>4 DEF f
  <2> HIDE DEF g, b
  <2>8. \A i \in 1 .. K : t.frames[i].cur = s.frames[i].cur
    BY <2>4, <2>7
  <2>9. ASSUME NEW i \in 1 .. K
        PROVE  Child(t, i) \subseteq Climbs(t)[t.frames[i].cur] /\ Best(t, t.frames[i], Child(t, i), m)
    <3>1. CASE i = K
      <4>1. Child(t, i) = {}
        BY <2>1, <2>4, <3>1 DEF Child
      <4>2. Best(t, t.frames[i], {}, m)
        BY <1>7, <1>8, <2>4, <2>7, <3>1, BestStays
      <4>3. QED BY <4>1, <4>2
    <3>2. CASE i # K
      <4>1. i \in 1 .. L /\ i < K /\ i + 1 \in 1 .. K
        BY <2>1, <3>2
      <4>2. Child(t, i) = Child(s, i)
        BY <2>4, <2>5, <2>8, <3>2, <4>1 DEF Child
      <4>3. Child(s, i) \subseteq Climbs(s)[s.frames[i].cur] /\ Best(s, s.frames[i], Child(s, i), m)
        BY <4>1 DEF Climbing
      <4>4. Best(t, s.frames[i], Child(s, i), m)
        BY <1>7, <1>8, <4>3, BestStays
      <4>5. QED BY <1>8, <2>4, <3>2, <4>2, <4>3, <4>4
    <3>3. QED BY <3>1, <3>2
  <2>10. Climbing(t, m)
    BY <2>4, <2>9 DEF Climbing
  <2>11. From(t, k, v)
    <3>1. t.frames # <<>> /\ 1 \in 1 .. K
      BY <2>1, <2>4
    <3>2. QED BY <1>9, <2>8, <3>1 DEF From
  <2>12. QED BY <1>6, <1>7, <2>10, <2>11
<1>12. QED BY <1>10, <1>11

(* A cell whose higher neighbours are known becomes known. *)
LEMMA Remembers ==
  ASSUME NEW s \in EngineType, Sized(s), Remembered(s), NEW c \in Cells(s),
         Climbs(s)[c] \subseteq Known(s), NEW v, v = Longest(s)[c], NEW t, t = [s EXCEPT !.memo[c] = v]
  PROVE  /\ Alike(s, t) /\ t.frames = s.frames /\ Remembered(t)
         /\ Known(s) \subseteq Known(t) /\ c \in Known(t)
<1>1. Alike(s, t) /\ t.frames = s.frames /\ t.memo = [s.memo EXCEPT ![c] = v]
  BY DEF EngineType, Alike
<1>2. Cells(t) = Cells(s) /\ Climbs(t) = Climbs(s) /\ Longest(t) = Longest(s)
  BY <1>1, SameClimbs
<1>3. c \in Cell /\ Cells(s) \subseteq Cell /\ v \in Nat \ {0}
  <2>1. SolvedOn(Climbs(s), Cells(s), Longest(s))
    BY LongestSolves
  <2>2. QED BY <2>1, CellsFit DEF Cell, SolvedOn
<1>4. t.memo[c] = v /\ \A d \in Cells(s) : d # c => t.memo[d] = s.memo[d]
  BY <1>1, <1>3 DEF EngineType
<1>5. Known(t) = Known(s) \cup {c}
  BY <1>2, <1>3, <1>4 DEF Known
<1>6. Remembered(t)
  BY <1>2, <1>4, <1>5 DEF Remembered, Closed
<1>7. QED BY <1>1, <1>5, <1>6

-----------------------------------------------------------------------------
(* The actions of the longest increasing path, and its result. *)

(* What is remembered, and how far, only depends on grid and memo. *)
LEMMA SameLongest ==
  ASSUME NEW s, NEW t, Alike(s, t), t.memo = s.memo
  PROVE  /\ Known(t) = Known(s) /\ (Remembered(s) => Remembered(t))
         /\ \A k, v : LongestSoFar(s, k, v) => LongestSoFar(t, k, v)
         /\ \A j : Loaded(s, j) => Loaded(t, j)
<1>1. Cells(t) = Cells(s) /\ Climbs(t) = Climbs(s) /\ Longest(t) = Longest(s)
  BY SameClimbs
<1>2. Known(t) = Known(s)
  BY <1>1 DEF Known
<1>3. QED BY <1>1, <1>2, SameGraph DEF Remembered, LongestSoFar

(* The search starts with nothing in the memo and nothing found. *)
LEMMA CallClimbs == ASSUME IInv, NEW j \in Jobs, Call(j) PROVE LInv'
<1> DEFINE s == Load(j)
<1>1. FitsEngine(j) /\ e' = Cleared(j, s) /\ pc' = Loop(j) /\ job' = j /\ scan' = 0 /\ value' = 0
  BY DEF Call
<1>2. s \in EngineType /\ Sized(s) /\ Loaded(s, j)
  BY <1>1, LoadOf, LoadFinds
<1> HIDE DEF s
<1>3. CASE j.mode = "increasing"
  <2> DEFINE m == [c \in DOMAIN s.memo |-> IF c \in Cells(s) THEN 0 ELSE s.memo[c]]
             t == [s EXCEPT !.memo = m]
  <2>1. e' = t /\ pc' = "increasing"
    BY <1>1, <1>3 DEF Cleared, Loop
  <2>2. DOMAIN s.memo = Cell /\ Cells(s) \subseteq Cell
    BY <1>2, CellsFit DEF EngineType, Cell
  <2>3. \A c \in Cells(s) : m[c] = 0
    BY <2>2
  <2> HIDE DEF m
  <2>4. Alike(s, t) /\ t.memo = m
    BY <1>2 DEF EngineType, Alike
  <2> HIDE DEF t
  <2>5. Cells(t) = Cells(s) /\ Loaded(t, j)
    BY <1>2, <2>4, SameGraph
  <2>6. Known(t) = {} /\ Remembered(t)
    BY <2>3, <2>4, <2>5 DEF Known, Remembered, Closed
  <2>7. LongestSoFar(t, 0, 0)
    <3>1. \A c \in Cells(t) : ~(c < 0)
      BY <1>2, <2>5, CellsFit
    <3>2. QED BY <3>1 DEF LongestSoFar
  <2>8. QED BY <1>1, <2>1, <2>5, <2>6, <2>7 DEF LInv, Climbed
<1>4. CASE j.mode \in {"islands", "pacific", "paths", "words", "other"}
  <2>1. pc' \notin {"increasing", "increasing_walk"}
    BY <1>1, <1>4 DEF Loop
  <2>2. QED BY <2>1 DEF LInv, Climbed
<1>5. j.mode \in {"islands", "pacific", "paths", "increasing", "words", "other"}
  BY JobsAssumption
<1>6. QED BY <1>3, <1>4, <1>5

(* What the invariants say while frames stand. *)
LEMMA WhileClimbing ==
  ASSUME IInv, LInv, pc = "increasing_walk"
  PROVE  /\ e \in EngineType /\ Sized(e) /\ OnCells(e)
         /\ Loaded(e, job) /\ Remembered(e) /\ LongestSoFar(e, scan, value)
         /\ scan \in Cells(e) /\ Climbing(e, job.memo) /\ From(e, scan, ret)
BY DEF IInv, Shape, Spreads, Walks, LInv, Climbed

(* The same in the next state. *)
LEMMA GoesOnClimbing ==
  ASSUME Alike(e, e'), pc' = "increasing_walk", UNCHANGED <<job, scan, value>>,
         Loaded(e, job), Remembered(e'), LongestSoFar(e, scan, value), scan \in Cells(e),
         Climbing(e', job.memo), From(e', scan, ret')
  PROVE  LInv'
<1>1. Cells(e') = Cells(e) /\ Climbs(e') = Climbs(e) /\ Longest(e') = Longest(e)
  BY SameClimbs
<1>2. LongestSoFar(e', scan, value)
  BY <1>1 DEF LongestSoFar
<1>3. Loaded(e', job)
  BY SameGraph
<1>4. QED BY <1>1, <1>2, <1>3 DEF LInv, Climbed

(* A climb begins with one frame, on its source. *)
LEMMA IncreasingSourceClimbs == IInv /\ LInv /\ IncreasingSource => LInv'
<1> SUFFICES ASSUME IInv, LInv, IncreasingSource PROVE LInv'
  OBVIOUS
<1> DEFINE f == Frame(scan)
<1>1. /\ e \in EngineType /\ Sized(e) /\ e.frames = <<>> /\ scan \in Cells(e)
      /\ pc' = "increasing_walk" /\ e' = push_frame(e, f) /\ UNCHANGED <<job, scan, value>>
      /\ Loaded(e, job) /\ Remembered(e) /\ LongestSoFar(e, scan, value)
  BY DEF IInv, Shape, Spreads, Walks, LInv, Climbed, IncreasingSource, call
<1>2. scan \in Nat
  BY <1>1, CellsFit
<1>3. f \in FrameType /\ f.cur = scan
  BY <1>2, FrameIs
<1> DEFINE t == push_frame(e, f)
<1>4. Alike(e, t) /\ t.memo = e.memo /\ t.frames = Append(e.frames, f)
  BY <1>1, <1>3, PushFrame, FramesKeepMemo
<1>5. Len(t.frames) = 1 /\ t.frames[1] = f /\ t.frames # <<>>
  BY <1>1, <1>3, <1>4
<1>6. e' = t
  BY <1>1
<1>7. \A m : Best(t, f, {}, m)
  BY NewFrame
<1> HIDE DEF f, t
<1>8. Remembered(t)
  BY <1>1, <1>4, SameLongest
<1>9. Climbing(t, job.memo)
  <2>1. Child(t, 1) = {}
    BY <1>5 DEF Child
  <2>2. 1 .. Len(t.frames) = {1}
    BY <1>5
  <2>3. Child(t, 1) \subseteq Climbs(t)[t.frames[1].cur] /\ Best(t, t.frames[1], Child(t, 1), job.memo)
    BY <1>5, <1>7, <2>1
  <2>4. QED BY <2>2, <2>3, Zenon DEF Climbing
<1>10. From(t, scan, ret')
  BY <1>3, <1>5 DEF From
<1>11. QED BY <1>1, <1>4, <1>6, <1>8, <1>9, <1>10, GoesOnClimbing

(* It goes back from a cell the memo knows. *)
LEMMA IncreasingHitClimbs == IInv /\ LInv /\ IncreasingHit => LInv'
<1> SUFFICES ASSUME IInv, LInv, IncreasingHit PROVE LInv'
  OBVIOUS
<1> DEFINE v == e.memo[cur]
           t == propagate_best(pop_frame(e), v)
<1>1. /\ pc = "increasing_walk" /\ pc' = pc /\ e.frames # <<>> /\ v # 0
      /\ e' = t /\ ret' = v /\ UNCHANGED <<job, scan, value>>
  BY DEF IncreasingHit, MemoHit, Walking, call
<1>2. /\ e \in EngineType /\ Sized(e) /\ OnCells(e)
      /\ Loaded(e, job) /\ Remembered(e) /\ LongestSoFar(e, scan, value)
      /\ scan \in Cells(e) /\ Climbing(e, job.memo) /\ From(e, scan, ret)
  BY <1>1, WhileClimbing
<1>3. cur \in Cells(e)
  BY <1>1, <1>2, AtTop DEF cur
<1>4. v = Longest(e)[Top(e).cur] /\ Top(e).cur \in Known(e)
  BY <1>1, <1>2, <1>3 DEF Remembered, Known, cur
<1> HIDE DEF v
<1>5. Alike(e, t) /\ t.memo = e.memo /\ Climbing(t, job.memo) /\ From(t, scan, v)
  BY <1>1, <1>2, <1>4, ClimbGoesBack
<1> HIDE DEF t
<1>6. Remembered(t)
  BY <1>2, <1>5, SameLongest
<1>7. QED BY <1>1, <1>2, <1>5, <1>6, GoesOnClimbing

(* It goes back from a cell all of whose directions have been tried. *)
LEMMA IncreasingBackClimbs == IInv /\ LInv /\ IncreasingBack => LInv'
<1> SUFFICES ASSUME IInv, LInv, IncreasingBack PROVE LInv'
  OBVIOUS
<1> DEFINE v == Top(e).best
           w == [e EXCEPT !.memo[cur] = v]
           s == IF job.memo THEN w ELSE e
           t == propagate_best(pop_frame(s), v)
           L == Len(e.frames)
<1>1. /\ pc = "increasing_walk" /\ pc' = pc /\ e.frames # <<>> /\ ~(Top(e).next < e.degree)
      /\ e' = t /\ ret' = v /\ UNCHANGED <<job, scan, value>>
  BY DEF IncreasingBack, MoreDirs, Walking, call
<1>2. /\ e \in EngineType /\ Sized(e) /\ OnCells(e)
      /\ Loaded(e, job) /\ Remembered(e) /\ LongestSoFar(e, scan, value)
      /\ scan \in Cells(e) /\ Climbing(e, job.memo) /\ From(e, scan, ret)
  BY <1>1, WhileClimbing
<1>3. cur \in Cells(e) /\ cur = Top(e).cur /\ Top(e).next \in Nat
  BY <1>1, <1>2, AtTop DEF cur
<1>4. L \in 1 .. L /\ Top(e) = e.frames[L] /\ Child(e, L) = {}
  <2>1. L \in Nat \ {0} /\ Top(e) = e.frames[L]
    BY <1>1, <1>2, TopOf
  <2>2. QED BY <2>1 DEF Child
<1>5. Best(e, Top(e), {}, job.memo)
  BY <1>2, <1>4 DEF Climbing
<1>6. v = Longest(e)[cur] /\ (job.memo => Climbs(e)[cur] \subseteq Known(e))
  <2> DEFINE f == Top(e)
  <2>1. /\ f.cur \in Cells(e) /\ f.cur = cur /\ f.next \in Nat /\ ~(f.next < e.degree)
        /\ Best(e, f, {}, job.memo)
    BY <1>1, <1>3, <1>5
  <2> HIDE DEF f
  <2>2. f.best = Longest(e)[f.cur] /\ (job.memo => Climbs(e)[f.cur] \subseteq Known(e))
    BY <1>2, <2>1, FrameDone
  <2>3. QED BY <2>1, <2>2 DEF f
<1>7. v \in Int
  BY <1>1, <1>2, AtTop
<1> HIDE DEF v, L
<1>8. /\ s \in EngineType /\ Alike(e, s) /\ s.frames = e.frames /\ Remembered(s)
      /\ Known(e) \subseteq Known(s) /\ (job.memo => cur \in Known(s))
  <2>1. CASE job.memo
    <3> DEFINE c == cur
    <3>1. c \in Cells(e) /\ Climbs(e)[c] \subseteq Known(e) /\ v = Longest(e)[c] /\ w = [e EXCEPT !.memo[c] = v]
      BY <1>3, <1>6, <2>1
    <3> HIDE DEF c, w
    <3>2. /\ Alike(e, w) /\ w.frames = e.frames /\ Remembered(w)
          /\ Known(e) \subseteq Known(w) /\ c \in Known(w)
      BY <1>2, <3>1, Remembers
    <3>3. w \in EngineType
      <4>1. c \in Cell
        BY <1>2, <3>1, CellsFit DEF Cell
      <4>2. QED BY <1>2, <1>7, <3>1, <4>1 DEF EngineType
    <3>4. QED BY <2>1, <3>2, <3>3 DEF c
  <2>2. CASE ~job.memo
    BY <1>2, <2>2 DEF Alike
  <2>3. QED BY <2>1, <2>2
<1> HIDE DEF w, s
<1>9. Sized(s) /\ OnCells(s) /\ Climbs(s) = Climbs(e) /\ Longest(s) = Longest(e) /\ Cells(s) = Cells(e)
  BY <1>2, <1>8, SizedAlike, SameClimbs DEF OnCells
<1>10. Top(s).cur = cur /\ s.frames # <<>>
  BY <1>1, <1>3, <1>8 DEF Top
<1>11. Climbing(s, job.memo) /\ From(s, scan, ret)
  <2>1. \A i : Child(s, i) = Child(e, i)
    BY <1>8 DEF Child
  <2>2. \A i \in 1 .. Len(e.frames) : Best(s, e.frames[i], Child(e, i), job.memo)
    BY <1>2, <1>8, BestStays DEF Climbing
  <2>3. Climbing(s, job.memo)
    BY <1>2, <1>8, <1>9, <2>1, <2>2 DEF Climbing
  <2>4. From(s, scan, ret)
    BY <1>2, <1>8, <1>9 DEF From
  <2>5. QED BY <2>3, <2>4
<1>12. Alike(s, t) /\ t.memo = s.memo /\ Climbing(t, job.memo) /\ From(t, scan, v)
  <2>1. v = Longest(s)[Top(s).cur] /\ (job.memo => Top(s).cur \in Known(s))
    BY <1>6, <1>8, <1>9, <1>10
  <2>2. QED BY <1>8, <1>9, <1>10, <1>11, <2>1, ClimbGoesBack
<1> HIDE DEF t
<1>13. Remembered(t) /\ Alike(e, t)
  <2>1. Alike(s, t) /\ t.memo = s.memo /\ Remembered(s) /\ Alike(e, s)
    BY <1>8, <1>12
  <2>2. Remembered(t)
    BY <2>1, SameLongest
  <2>3. QED BY <2>1, <2>2 DEF Alike
<1>14. QED BY <1>1, <1>2, <1>12, <1>13, GoesOnClimbing

(* One direction more of the innermost frame, and nothing entered by it. *)
LEMMA DirectionTried ==
  ASSUME NEW s \in EngineType, Sized(s), OnCells(s), s.frames # <<>>, Top(s).next < s.degree,
         NEW m, Climbing(s, m), NEW P, P = {n \in {Neighbor(s, Top(s).cur, Top(s).next)} :
                   HasNeighbor(s, Top(s).cur, Top(s).next) /\ s.grid[n] > s.grid[Top(s).cur]}
  PROVE  LET t == advance(s)
             L == Len(s.frames)
         IN  /\ t.memo = s.memo /\ Alike(s, t) /\ t.frames # <<>> /\ Len(t.frames) = L
             /\ L \in Nat \ {0} /\ Top(s).cur = t.frames[L].cur /\ P \subseteq Climbs(s)[t.frames[L].cur]
             /\ Best(t, t.frames[L], P, m)
             /\ \A i \in 1 .. L : t.frames[i].cur = s.frames[i].cur
             /\ \A i \in 1 .. L : i # L => /\ Child(s, i) = {s.frames[i + 1].cur}
                                           /\ Child(s, i) \subseteq Climbs(s)[s.frames[i].cur]
                                           /\ Best(t, t.frames[i], Child(s, i), m)
<1> DEFINE t == advance(s)
           L == Len(s.frames)
           f == Top(s)
           g == t.frames[L]
<1>1. L \in Nat \ {0} /\ L \in 1 .. L /\ f = s.frames[L] /\ f \in FrameType /\ f.cur \in Cells(s)
  <2>1. L \in Nat \ {0} /\ f = s.frames[L] /\ f \in FrameType
    BY TopOf
  <2>2. QED BY <2>1 DEF OnCells
<1>2. t \in EngineType /\ Alike(s, t) /\ t.frames # <<>> /\ SameCurs(s, t)
  BY Advance
<1>3. /\ t.memo = s.memo /\ Len(t.frames) = L /\ g = [f EXCEPT !.next = f.next + 1]
      /\ \A j \in 1 .. L : j # L => t.frames[j] = s.frames[j]
  BY AdvanceFrames
<1> HIDE DEF t, L
<1>4. f.next \in Nat /\ f.best \in Int /\ f.next + 1 \in Nat
  <2>1. f.next \in Nat /\ f.best \in Int
    BY <1>1 DEF FrameType
  <2>2. QED BY <2>1
<1>5. g \in FrameType /\ g.cur = f.cur /\ g.next = f.next + 1 /\ g.best = f.best
  <2> HIDE DEF f, g
  <2>1. QED BY <1>1, <1>3, <1>4 DEF FrameType
<1>6. Tried(s, g) = Tried(s, f) \cup P
  <2> HIDE DEF g
  <2>1. QED BY <1>1, <1>5, TriedNext
<1>7. Child(s, L) = {}
  BY <1>1 DEF Child, L
<1>8. Best(s, f, {}, m)
  BY <1>1, <1>7 DEF Climbing, L
<1> HIDE DEF g
<1>9. Best(s, g, P, m)
  BY <1>5, <1>6, <1>8 DEF Best
<1>10. Known(t) = Known(s) /\ Climbs(t) = Climbs(s)
  BY <1>2, <1>3, SameLongest, SameClimbs
<1>11. Best(t, g, P, m)
  BY <1>2, <1>9, <1>10, BestStays
<1>12. P \subseteq Climbs(s)[g.cur]
  <2>1. P \subseteq Tried(s, g)
    BY <1>6
  <2>2. QED BY <2>1 DEF Tried
<1>13. ASSUME NEW i \in 1 .. L, i # L
       PROVE  /\ Child(s, i) = {s.frames[i + 1].cur}
              /\ Child(s, i) \subseteq Climbs(s)[s.frames[i].cur]
              /\ Best(t, t.frames[i], Child(s, i), m)
  <2>1. i < L
    BY <1>1, <1>13
  <2>2. Child(s, i) = {s.frames[i + 1].cur}
    BY <2>1 DEF Child, L
  <2>3. Child(s, i) \subseteq Climbs(s)[s.frames[i].cur] /\ Best(s, s.frames[i], Child(s, i), m)
    BY DEF Climbing, L
  <2>4. Best(t, s.frames[i], Child(s, i), m)
    BY <1>2, <1>10, <2>3, BestStays
  <2>5. QED BY <1>3, <1>13, <2>2, <2>3, <2>4
<1>14. \A i \in 1 .. L : t.frames[i].cur = s.frames[i].cur
  BY <1>2 DEF SameCurs, L
<1>15. QED BY <1>1, <1>2, <1>3, <1>5, <1>11, <1>12, <1>13, <1>14 DEF t, L, g

(* A direction that leads nowhere higher. *)
LEMMA ClimbsPast ==
  ASSUME NEW s \in EngineType, Sized(s), OnCells(s), s.frames # <<>>, Top(s).next < s.degree,
         NEW m, Climbing(s, m), NEW k, NEW r, From(s, k, r),
         ~(/\ HasNeighbor(s, Top(s).cur, Top(s).next)
           /\ s.grid[Neighbor(s, Top(s).cur, Top(s).next)] > s.grid[Top(s).cur]),
         NEW t, t = advance(s), NEW q
  PROVE  Alike(s, t) /\ t.memo = s.memo /\ Climbing(t, m) /\ From(t, k, q)
<1> DEFINE L == Len(s.frames)
           P == {n \in {Neighbor(s, Top(s).cur, Top(s).next)} :
                   HasNeighbor(s, Top(s).cur, Top(s).next) /\ s.grid[n] > s.grid[Top(s).cur]}
<1>1. P = {}
  OBVIOUS
<1> HIDE DEF P
<1>2. /\ t.memo = s.memo /\ Alike(s, t) /\ t.frames # <<>> /\ Len(t.frames) = L /\ L \in Nat \ {0}
      /\ Best(t, t.frames[L], {}, m)
      /\ \A i \in 1 .. L : t.frames[i].cur = s.frames[i].cur
      /\ \A i \in 1 .. L : i # L => /\ Child(s, i) = {s.frames[i + 1].cur}
                                    /\ Child(s, i) \subseteq Climbs(s)[s.frames[i].cur]
                                    /\ Best(t, t.frames[i], Child(s, i), m)
  BY <1>1, DirectionTried DEF P
<1> HIDE DEF L
<1>3. Climbs(t) = Climbs(s)
  BY <1>2, SameClimbs
<1>4. Climbing(t, m)
  <2>1. ASSUME NEW i \in 1 .. L
        PROVE  Child(t, i) \subseteq Climbs(t)[t.frames[i].cur] /\ Best(t, t.frames[i], Child(t, i), m)
    <3>1. CASE i = L
      <4>1. Child(t, i) = {}
        BY <1>2, <3>1 DEF Child
      <4>2. QED BY <1>2, <3>1, <4>1
    <3>2. CASE i # L
      <4>1. i < Len(t.frames) /\ i + 1 \in 1 .. L
        BY <1>2, <3>2
      <4>2. Child(t, i) = Child(s, i)
        BY <1>2, <3>2, <4>1 DEF Child
      <4>3. QED BY <1>2, <1>3, <3>2, <4>2
    <3>3. QED BY <3>1, <3>2
  <2>2. QED BY <1>2, <2>1 DEF Climbing
<1>5. From(t, k, q)
  <2>1. 1 \in 1 .. L
    BY <1>2
  <2>2. QED BY <1>2, <2>1 DEF From
<1>6. QED BY <1>2, <1>4, <1>5

(* A direction that leads to a higher cell, whose frame is pushed. *)
LEMMA ClimbsTo ==
  ASSUME NEW s \in EngineType, Sized(s), OnCells(s), s.frames # <<>>, Top(s).next < s.degree,
         NEW m, Climbing(s, m), NEW k, NEW r, From(s, k, r),
         NEW n \in Nat, n = Neighbor(s, Top(s).cur, Top(s).next),
         HasNeighbor(s, Top(s).cur, Top(s).next), s.grid[n] > s.grid[Top(s).cur],
         NEW t, t = push_frame(advance(s), Frame(n)), NEW q
  PROVE  Alike(s, t) /\ t.memo = s.memo /\ Climbing(t, m) /\ From(t, k, q)
<1> DEFINE L == Len(s.frames)
           P == {d \in {Neighbor(s, Top(s).cur, Top(s).next)} :
                   HasNeighbor(s, Top(s).cur, Top(s).next) /\ s.grid[d] > s.grid[Top(s).cur]}
           u == advance(s)
           f == Frame(n)
<1>1. P = {n}
  OBVIOUS
<1> HIDE DEF P
<1>2. /\ u.memo = s.memo /\ Alike(s, u) /\ u.frames # <<>> /\ Len(u.frames) = L /\ L \in Nat \ {0}
      /\ {n} \subseteq Climbs(s)[u.frames[L].cur] /\ Best(u, u.frames[L], {n}, m)
      /\ \A i \in 1 .. L : u.frames[i].cur = s.frames[i].cur
      /\ \A i \in 1 .. L : i # L => /\ Child(s, i) = {s.frames[i + 1].cur}
                                    /\ Child(s, i) \subseteq Climbs(s)[s.frames[i].cur]
                                    /\ Best(u, u.frames[i], Child(s, i), m)
  BY <1>1, DirectionTried DEF P
<1>3. u \in EngineType /\ t = push_frame(u, f)
  BY Advance
<1>4. f \in FrameType /\ f.cur = n
  BY FrameIs
<1>5. \A z : Best(z, f, {}, m)
  BY NewFrame
<1> HIDE DEF L, u, f
<1>6. Alike(u, t) /\ t.memo = u.memo /\ t.frames = Append(u.frames, f)
  <2> DEFINE z == push_frame(u, f)
  <2>1. Alike(u, z) /\ z.memo = u.memo /\ z.frames = Append(u.frames, f)
    BY <1>3, <1>4, PushFrame, FramesKeepMemo
  <2>2. t = z
    BY <1>3
  <2> HIDE DEF z
  <2>3. QED BY <2>1, <2>2
<1>7. /\ Len(t.frames) = L + 1 /\ t.frames[L + 1] = f
      /\ \A i \in 1 .. L : t.frames[i] = u.frames[i]
  BY <1>2, <1>3, <1>4, <1>6, Appended
<1>8. Alike(s, t)
  BY <1>2, <1>6 DEF Alike
<1>9. Climbs(t) = Climbs(s) /\ Known(t) = Known(u)
  BY <1>6, <1>8, SameClimbs, SameLongest
<1>10. \A g, p : Best(u, g, p, m) => Best(t, g, p, m)
  BY <1>6, <1>9, BestStays
<1>11. ASSUME NEW i \in 1 .. L + 1
       PROVE  Child(t, i) \subseteq Climbs(t)[t.frames[i].cur] /\ Best(t, t.frames[i], Child(t, i), m)
  <2>1. CASE i = L + 1
    <3>1. Child(t, i) = {}
      BY <1>2, <1>7, <2>1 DEF Child
    <3>2. QED BY <1>5, <1>7, <2>1, <3>1
  <2>2. CASE i = L
    <3>1. L \in 1 .. L /\ L < L + 1
      BY <1>2
    <3>2. Child(t, i) = {n} /\ t.frames[i] = u.frames[L]
      BY <1>4, <1>7, <2>2, <3>1 DEF Child
    <3>3. QED BY <1>2, <1>9, <1>10, <3>2
  <2>3. CASE i \in 1 .. L /\ i # L
    <3>1. i < L + 1 /\ i + 1 \in 1 .. L
      BY <1>2, <2>3
    <3>2. Child(t, i) = Child(s, i) /\ t.frames[i] = u.frames[i]
      BY <1>2, <1>7, <2>3, <3>1 DEF Child
    <3>3. QED BY <1>2, <1>9, <1>10, <2>3, <3>2
  <2>4. i = L + 1 \/ i = L \/ (i \in 1 .. L /\ i # L)
    BY <1>2
  <2>5. QED BY <2>1, <2>2, <2>3, <2>4
<1>12. Climbing(t, m)
  BY <1>7, <1>11 DEF Climbing
<1>13. From(t, k, q)
  <2>1. 1 \in 1 .. L /\ Len(t.frames) # 0
    BY <1>2, <1>7
  <2>2. t.frames # <<>>
    BY <2>1
  <2>3. t.frames[1].cur = s.frames[1].cur
    BY <1>2, <1>7, <2>1
  <2>4. QED BY <2>2, <2>3 DEF From
<1>14. QED BY <1>2, <1>6, <1>8, <1>12, <1>13

(* It tries a direction. *)
LEMMA IncreasingStepClimbs == IInv /\ LInv /\ IncreasingStep => LInv'
<1> SUFFICES ASSUME IInv, LInv, IncreasingStep PROVE LInv'
  OBVIOUS
<1> DEFINE c == Top(e).cur
           i == Top(e).next
           n == Neighbor(e, c, i)
           Higher == HasNeighbor(e, c, i) /\ e.grid[n] > e.grid[c]
<1>1. /\ pc = "increasing_walk" /\ pc' = pc /\ e.frames # <<>> /\ i < e.degree
      /\ UNCHANGED <<job, scan, value>>
  BY DEF IncreasingStep, MoreDirs, Walking, call
<1>2. e' = IF Higher THEN push_frame(advance(e), Frame(n)) ELSE advance(e)
  BY DEF IncreasingStep, TryNext, cur
<1>3. /\ e \in EngineType /\ Sized(e) /\ OnCells(e)
      /\ Loaded(e, job) /\ Remembered(e) /\ LongestSoFar(e, scan, value)
      /\ scan \in Cells(e) /\ Climbing(e, job.memo) /\ From(e, scan, ret)
  BY <1>1, WhileClimbing
<1>4. Higher => n \in Nat
  <2>1. i \in Nat /\ (HasNeighbor(e, c, i) => n \in Cells(e))
    BY <1>1, <1>3, AtTop
  <2>2. \A d \in Cells(e) : d \in Nat
    BY <1>3, CellsFit
  <2>3. QED BY <2>1, <2>2
<1> DEFINE t == e'
<1>5. Alike(e, t) /\ t.memo = e.memo /\ Climbing(t, job.memo) /\ From(t, scan, ret')
  <2>1. CASE Higher
    <3>1. t = push_frame(advance(e), Frame(n))
      BY <1>2, <2>1
    <3> HIDE DEF t
    <3>2. QED BY <1>1, <1>3, <1>4, <2>1, <3>1, ClimbsTo
  <2>2. CASE ~Higher
    <3>1. t = advance(e)
      BY <1>2, <2>2
    <3> HIDE DEF t
    <3>2. QED BY <1>1, <1>3, <2>2, <3>1, ClimbsPast
  <2>3. QED BY <2>1, <2>2
<1>6. Remembered(t)
  BY <1>3, <1>5, SameLongest
<1>7. QED BY <1>1, <1>3, <1>5, <1>6, GoesOnClimbing

(* It keeps the most of the sources so far. *)
LEMMA IncreasingNextClimbs == IInv /\ LInv /\ IncreasingNext => LInv'
<1> SUFFICES ASSUME IInv, LInv, IncreasingNext PROVE LInv'
  OBVIOUS
<1> DEFINE h == Longest(e)
           v == IF ret > value THEN ret ELSE value
<1>1. /\ pc = "increasing_walk" /\ pc' = "increasing" /\ e.frames = <<>>
      /\ e' = e /\ value' = v /\ scan' = scan + 1 /\ job' = job
  BY DEF IncreasingNext, Walking, call
<1>2. /\ e \in EngineType /\ Sized(e)
      /\ Loaded(e, job) /\ Remembered(e) /\ LongestSoFar(e, scan, value)
      /\ scan \in Cells(e) /\ From(e, scan, ret)
  BY <1>1, WhileClimbing
<1>3. ret = h[scan] /\ \A c \in Cells(e) : c \in Nat /\ h[c] \in Nat \ {0}
  BY <1>1, <1>2, LongestSolves, CellsFit DEF From, SolvedOn
<1>4. /\ scan \in Nat /\ value \in Nat /\ \A c \in Cells(e) : c < scan => h[c] <= value
      /\ value = 0 \/ \E c \in Cells(e) : value = h[c]
  BY <1>2 DEF LongestSoFar
<1> HIDE DEF h
<1>5. v \in Nat /\ ret <= v /\ value <= v /\ v \in {ret, value} /\ v # 0
  BY <1>2, <1>3, <1>4
<1> HIDE DEF v
<1>6. \A c \in Cells(e) : c < scan + 1 => h[c] <= v
  <2>1. ASSUME NEW c \in Cells(e), c < scan + 1 PROVE h[c] <= v
    <3>1. c = scan \/ c < scan
      BY <1>3, <1>4, <2>1
    <3>2. QED BY <1>3, <1>4, <1>5, <3>1
  <2>2. QED BY <2>1
<1>7. \E c \in Cells(e) : v = h[c]
  BY <1>2, <1>3, <1>4, <1>5
<1>8. LongestSoFar(e, scan + 1, v)
  BY <1>4, <1>5, <1>6, <1>7 DEF LongestSoFar, h
<1>9. QED BY <1>1, <1>2, <1>8 DEF LInv, Climbed

(* Nothing is claimed outside the search. *)
LEMMA ElsewhereClimbs == pc' \notin {"increasing", "increasing_walk"} => LInv'
BY DEF LInv, Climbed

(* Nor before the first call. *)
LEMMA InitLInv == Init => LInv
BY DEF Init, LInv, Climbed

(* Every step of every search keeps what the longest increasing path has
   found. *)
LEMMA StepLInv == IInv /\ LInv /\ [Next]_vars => LInv'
<1> SUFFICES ASSUME IInv, LInv, [Next]_vars PROVE LInv'
  OBVIOUS
<1>1. CASE IncreasingSource \/ IncreasingHit \/ IncreasingStep \/ IncreasingBack \/ IncreasingNext
  BY <1>1, IncreasingSourceClimbs, IncreasingHitClimbs, IncreasingStepClimbs, IncreasingBackClimbs,
     IncreasingNextClimbs
<1>2. CASE \/ IslandsSource \/ IslandsSpread \/ FloodSources \/ FloodSpread \/ KeepPacific
           \/ PathsStart \/ PathsTarget \/ PathsStep \/ PathsBack
           \/ TrieSource \/ TrieStep \/ TrieBack \/ MatchSource \/ MatchStep \/ MatchBack \/ MatchWord
  <2>1. pc' \in {"islands", "pacific_flood", "atlantic_flood", "atlantic", "paths", "trie", "match"}
    BY <1>2 DEF IslandsSource, IslandsSpread, FloodSources, FloodSpread, KeepPacific,
       PathsStart, PathsTarget, PathsStep, PathsBack,
       TrieSource, TrieStep, TrieBack, MatchSource, MatchStep, MatchBack, MatchWord
  <2>2. QED BY <2>1, ElsewhereClimbs
<1>3. CASE \/ IslandsReturn \/ PacificReturn \/ PathsReturn \/ IncreasingReturn \/ TrieReturn
           \/ MatchReturn \/ UnknownMode
  <2>1. pc' = "idle"
    BY <1>3 DEF IslandsReturn, PacificReturn, PathsReturn, IncreasingReturn, TrieReturn,
       MatchReturn, UnknownMode, Return
  <2>2. QED BY <2>1, ElsewhereClimbs
<1>4. CASE pc = "idle" /\ \E j \in Jobs : Call(j) \/ Refuse(j)
  <2>1. ASSUME NEW j \in Jobs, Refuse(j) PROVE LInv'
    <3>1. pc' = "idle"
      BY <1>4, <2>1 DEF Refuse
    <3>2. QED BY <3>1, ElsewhereClimbs
  <2>2. QED BY <1>4, <2>1, CallClimbs
<1>5. CASE UNCHANGED vars
  BY <1>5 DEF vars, LInv
<1>6. QED
  BY <1>1, <1>2, <1>3, <1>4, <1>5 DEF Next, dfs_accel

(* In every state of every run, while the longest increasing path is
   searched: an entry of the memo is 0 or the length of the longest climb
   from its cell, and set only after those of all higher neighbours; a frame
   holds the best of what it has tried; and value is the most of the sources
   before scan. *)
THEOREM ClimbFindings == Spec => [](IInv /\ LInv)
<1>1. QED BY InitIInv, InitLInv, StepIInv, StepLInv, PTL DEF Spec

(* For every engine, set of jobs and number of calls: no entry of the memo of
   run_longest_increasing_path is provisional, or left from another grid. *)
THEOREM MemoIsAlwaysRight == Spec => []MemoIsRight
<1>1. IInv /\ LInv => MemoIsRight
  <2> SUFFICES ASSUME IInv, LInv, pc \in {"increasing", "increasing_walk"}, NEW c \in Cells(e), e.memo[c] # 0
               PROVE  Solved(Climbs(e), e.memo, c)
    BY DEF MemoIsRight
  <2>1. e \in EngineType /\ Sized(e) /\ Remembered(e)
    BY DEF IInv, Shape, LInv, Climbed
  <2>2. SolvedOn(Climbs(e), Cells(e), Longest(e)) /\ Ascends(Cells(e), e.grid, Climbs(e))
    BY <2>1, LongestSolves
  <2>3. Solved(Climbs(e), Longest(e), c) /\ Climbs(e)[c] \subseteq Cells(e)
    BY <2>2 DEF SolvedOn, Ascends
  <2>4. Climbs(e)[c] \subseteq Known(e) /\ c \in Known(e)
    BY <2>1 DEF Remembered, Closed, Known
  <2>5. \A d \in Known(e) : e.memo[d] = Longest(e)[d]
    BY <2>1 DEF Remembered, Known
  <2>6. QED BY <2>3, <2>4, <2>5 DEF Solved
<1>2. QED BY <1>1, ClimbFindings, PTL

(* The search returns what Problems asks for, with the memo or without,
   whatever ran on the engine before. *)
LongestFound == [][IncreasingReturn => result'.value = LongestIncrease(job)]_vars
(* A climb gets higher with every step, so it meets no cell twice. *)
LEMMA ClimbRises ==
  ASSUME NEW s \in EngineType, Sized(s), NEW p \in Climbings(Climbs(s))
  PROVE  p \in Seq(Cells(s)) /\ p # <<>> /\ Distinct(p)
<1> DEFINE n == Len(p)
           g == s.grid
           steps == Climbs(s)
<1>1. Ascends(Cells(s), g, steps)
  BY LongestSolves
<1>2. p \in Seq(Cells(s)) /\ p # <<>> /\ \A i \in 1 .. n - 1 : p[i + 1] \in steps[p[i]]
  <2>1. DOMAIN steps = Cells(s)
    BY DEF Climbs
  <2>2. QED BY <2>1 DEF Climbings
<1> DEFINE C == Cells(s)
<1>3. \A c \in C : g[c] \in Int /\ \A d \in steps[c] : g[d] > g[c]
  BY <1>1 DEF Ascends
<1> HIDE DEF C, g, steps
<1>4. n \in Nat /\ \A i \in 1 .. n : p[i] \in C
  BY <1>2 DEF C
<1> HIDE DEF n
<1>5. ASSUME NEW i \in 1 .. n, NEW k \in 1 .. n, i < k PROVE g[p[i]] < g[p[k]]
  <2> DEFINE m == n - i
             D == {d \in 0 .. m : d = 0 \/ g[p[i]] < g[p[i + d]]}
  <2>1. m \in Nat /\ 0 \in D /\ D \in SUBSET (0 .. m)
    BY <1>4
  <2>2. ASSUME NEW d \in 0 .. m - 1, d \in D PROVE d + 1 \in D
    <3>1. i + d \in 1 .. n - 1 /\ i + d \in 1 .. n /\ i + d + 1 \in 1 .. n
          /\ i + (d + 1) = i + d + 1 /\ d + 1 \in 0 .. m
      BY <1>4
    <3>2. g[p[i + d]] < g[p[i + d + 1]]
      BY <1>2, <1>3, <1>4, <3>1
    <3>3. d = 0 => i + d = i
      OBVIOUS
    <3>4. g[p[i]] \in Int /\ g[p[i + d]] \in Int /\ g[p[i + d + 1]] \in Int
      BY <1>3, <1>4, <3>1
    <3>5. g[p[i]] < g[p[i + d + 1]]
      BY <2>2, <3>2, <3>3, <3>4
    <3>6. QED BY <3>1, <3>5
  <2>3. D = 0 .. m
    <3> HIDE DEF m, D
    <3>1. QED BY <2>1, <2>2, UpTo
  <2>4. k - i \in 0 .. m /\ k - i # 0 /\ i + (k - i) = k
    BY <1>4, <1>5
  <2>5. k - i \in D
    BY <2>3, <2>4
  <2>6. QED BY <2>4, <2>5
<1>6. Distinct(p)
  <2>1. ASSUME NEW i \in 1 .. n, NEW k \in 1 .. n, p[i] = p[k] PROVE i = k
    <3>1. g[p[i]] \in Int
      BY <1>3, <1>4
    <3>2. ~(i < k) /\ ~(k < i)
      BY <1>5, <2>1, <3>1
    <3>3. QED BY <1>4, <3>2
  <2>2. QED BY <2>1 DEF Distinct, n
<1>7. QED BY <1>2, <1>6

(* The longest of the routes that rise is the longest climb. *)
LEMMA LongestAsked ==
  ASSUME NEW s \in EngineType, Sized(s), NEW j, Loaded(s, j), NEW v,
         \E p \in Climbings(Climbs(s)) : Len(p) = v,
         \A p \in Climbings(Climbs(s)) : Len(p) <= v
  PROVE  LongestIncrease(j) = v
<1> DEFINE up == [c \in Area(j) |-> {n \in Near(j, c) : j.cells[n] > j.cells[c]}]
           lengths == {k \in 1 .. Cardinality(Area(j)) : Routes(up, Area(j), k) # {}}
           steps == Climbs(s)
           C == Cells(s)
<1>1. LongestIncrease(j) = CHOOSE k \in lengths : \A i \in lengths : i <= k
  BY DEF LongestIncrease
<1>2. Area(j) = C
  BY NearIsAround
<1>3. DOMAIN steps = C /\ \A c \in C : steps[c] \subseteq C
  <2>1. \A c \in C : Around(s, c) \subseteq C
    BY AroundOf
  <2>2. QED BY <2>1 DEF Climbs
<1>4. up = steps
  <2>1. \A c \in C : Around(s, c) \subseteq C
    BY AroundOf
  <2>2. \A c \in C : {n \in Near(j, c) : j.cells[n] > j.cells[c]} =
                     {n \in Around(s, c) : s.grid[n] > s.grid[c]}
    BY <2>1, NearIsAround
  <2>3. QED BY <1>2, <2>2 DEF Climbs
<1>5. IsFiniteSet(C) /\ Cardinality(C) \in Nat
  BY CellsFit, FS_CardinalityType
<1> HIDE DEF up, steps, C
<1>6. ASSUME NEW k \in Nat
      PROVE  k \in lengths <=> \E p \in Climbings(steps) : Len(p) = k
  <2>1. k \in lengths <=> k \in 1 .. Cardinality(C) /\ Routes(steps, C, k) # {}
    BY <1>2, <1>4
  <2>2. \A w : w \in Routes(steps, C, k) <=> k # 0 /\ Route(steps, C, k, w)
    <3>1. C \in SUBSET DOMAIN steps /\ \A c \in DOMAIN steps : steps[c] \subseteq DOMAIN steps
      BY <1>3
    <3>2. QED BY <3>1, RoutesAre
  <2>3. ASSUME k # 0, NEW w, Route(steps, C, k, w) PROVE w \in Climbings(steps) /\ Len(w) = k
    <3>1. w \in Seq(DOMAIN steps) /\ Len(w) = k /\ \A i \in 1 .. k - 1 : w[i + 1] \in steps[w[i]]
      BY <2>3 DEF Route
    <3>2. w # <<>>
      BY <2>3, <3>1
    <3>3. QED BY <3>1, <3>2 DEF Climbings
  <2>4. ASSUME NEW p \in Climbings(steps), Len(p) = k
        PROVE  k # 0 /\ k <= Cardinality(C) /\ Route(steps, C, k, p)
    <3>1. p \in Seq(C) /\ p # <<>> /\ Distinct(p)
      BY ClimbRises DEF C, steps
    <3>2. k # 0 /\ p[1] \in C
      BY <2>4, <3>1, EmptySeq
    <3>3. \A i \in 1 .. k - 1 : p[i + 1] \in steps[p[i]]
      BY <2>4 DEF Climbings
    <3>4. Route(steps, C, k, p)
      BY <1>3, <2>4, <3>1, <3>2, <3>3 DEF Route
    <3>5. Entries(p) \in SUBSET C /\ Cardinality(Entries(p)) = k
      BY <2>4, <3>1, EntriesCount
    <3>6. k <= Cardinality(C)
      BY <1>5, <3>5, FS_Subset
    <3>7. QED BY <3>2, <3>4, <3>6
  <2> HIDE DEF lengths
  <2>5. QED BY <1>5, <2>1, <2>2, <2>3, <2>4
<1>7. lengths \in SUBSET Nat
  BY <1>2, <1>5
<1> HIDE DEF lengths
<1>8. \A p \in Climbings(steps) : Len(p) \in Nat
  BY DEF Climbings
<1>9. v \in lengths /\ \A i \in lengths : i <= v
  BY <1>6, <1>7, <1>8 DEF steps
<1>10. \A k \in lengths : (\A i \in lengths : i <= k) => k = v
  BY <1>7, <1>9
<1>11. QED BY <1>1, <1>9, <1>10

(* The value of the search, by its invariant: some climb is as long and none
   is longer. *)
LEMMA IncreasingReturnRight ==
  ASSUME IInv, LInv, IncreasingReturn
  PROVE  result'.value = LongestIncrease(job)
<1> DEFINE steps == Climbs(e)
           h == Longest(e)
<1>1. /\ e \in EngineType /\ Sized(e) /\ Loaded(e, job) /\ LongestSoFar(e, scan, value)
      /\ scan \notin Cells(e) /\ result'.value = value
  BY DEF IInv, Shape, LInv, Climbed, IncreasingReturn, Return
<1>2. DOMAIN steps = Cells(e)
  BY DEF Climbs
<1>3. SolvedOn(steps, DOMAIN steps, h) /\ Ascends(DOMAIN steps, e.grid, steps)
  BY <1>1, <1>2, LongestSolves
<1>4. 0 \in Cells(e) /\ \A c \in Cells(e) : c < scan /\ h[c] \in Nat \ {0}
  <2>1. e.rows * e.cols \in Nat /\ 0 \in Cells(e) /\ scan \in Nat
    BY <1>1, CellsFit DEF LongestSoFar
  <2>2. \A c \in Cells(e) : c < scan
    BY <1>1, <2>1 DEF Cells
  <2>3. QED BY <1>2, <1>3, <2>1, <2>2 DEF SolvedOn
<1>5. value \in Nat /\ \A c \in Cells(e) : h[c] <= value
  BY <1>1, <1>4 DEF LongestSoFar
<1>6. PICK c \in Cells(e) : value = h[c]
  <2>1. value # 0
    BY <1>4, <1>5
  <2>2. QED BY <1>1, <2>1 DEF LongestSoFar
<1> HIDE DEF steps, h
<1>7. \E p \in Climbings(steps) : Len(p) = value
  BY <1>2, <1>3, <1>6, AsLong
<1>8. ASSUME NEW p \in Climbings(steps) PROVE Len(p) <= value
  <2>1. Len(p) <= h[p[1]]
    BY <1>3, NoLonger
  <2>2. p \in Seq(Cells(e)) /\ p # <<>>
    BY <1>2 DEF Climbings
  <2>3. p[1] \in Cells(e) /\ Len(p) \in Nat
    BY <2>2, EmptySeq
  <2>4. QED BY <1>4, <1>5, <2>1, <2>3
<1>9. QED BY <1>1, <1>7, <1>8, LongestAsked DEF steps

(* The value run_longest_increasing_path returns is the length of the longest
   strictly increasing path of the job's grid. *)
THEOREM LongestIsFound == Spec => LongestFound
<1>1. IInv /\ LInv /\ [Next]_vars => [IncreasingReturn => result'.value = LongestIncrease(job)]_vars
  BY IncreasingReturnRight
<1>2. QED BY <1>1, ClimbFindings, PTL DEF Spec, LongestFound

-----------------------------------------------------------------------------
(* The searches that backtrack, as walks of a tree of trails. *)

(* A trail steps from cell to neighbour and meets no cell twice. *)
Trail(s, p) ==
  /\ p \in Seq(Cells(s)) /\ p # <<>> /\ Distinct(p)
  /\ \A i \in 1 .. Len(p) - 1 : p[i + 1] \in Around(s, p[i])

(* The trail p goes on where q ends, or ends there too. *)
Begins(p, q) == Len(q) <= Len(p) /\ \A i \in 1 .. Len(q) : p[i] = q[i]

(* A search that stands at the end of q, and has turned from the first i
   cells of q to those of T[i], is done with p: p leaves q for a cell that
   was turned to and is not the next of q. *)
Passed(q, T, p) ==
  \E i \in 0 .. Len(q) :
    /\ i < Len(p) /\ \A k \in 1 .. i : p[k] = q[k]
    /\ p[i + 1] \in T[i] /\ (i < Len(q) => p[i + 1] # q[i + 1])

(* The cells of the frames, and what has been turned to from each of them;
   from no frame to the cells of A. *)
Curs(s) == [i \in 1 .. Len(s.frames) |-> s.frames[i].cur]

TurnedFrom(s, f) ==
  {n \in Around(s, f.cur) :
     \E i \in 0 .. s.degree - 1 : i < f.next /\ HasNeighbor(s, f.cur, i) /\ n = Neighbor(s, f.cur, i)}

Turned(s, A) ==
  [i \in 0 .. Len(s.frames) |-> IF i = 0 THEN A ELSE TurnedFrom(s, s.frames[i])]

(* Each frame is on a cell the frame below has turned to. *)
Threaded(s, A) == \A i \in 1 .. Len(s.frames) : s.frames[i].cur \in Turned(s, A)[i - 1]

Done(s, A, p) == Passed(Curs(s), Turned(s, A), p)

(* The trails unique paths is after: from the start over free cells to a
   target, through every free cell. *)
FreeCells(s) == {c \in Cells(s) : s.grid[c] # -1}
Ones(s) == {c \in Cells(s) : s.grid[c] = 1}
StartOf(s) == IF Ones(s) = {} THEN 0 ELSE CHOOSE c \in Ones(s) : \A d \in Ones(s) : d <= c

FullPath(s, p) ==
  /\ Trail(s, p) /\ p[1] = StartOf(s) /\ Len(p) = Cardinality(FreeCells(s))
  /\ \A i \in 1 .. Len(p) : /\ i # 1 => s.grid[p[i]] # -1
                            /\ s.grid[p[i]] = 2 <=> i = Len(p)

(* The paths counted are those the search is done with. *)
Counts(s, v) ==
  \E S : /\ IsFiniteSet(S) /\ v = Cardinality(S)
         /\ \A p : p \in S <=> FullPath(s, p) /\ Done(s, {StartOf(s)}, p)

(* The frames of unique paths. *)
Strides(s) ==
  \A i \in 1 .. Len(s.frames) :
    /\ s.frames[i].walked = i
    /\ i # 1 => s.grid[s.frames[i].cur] # -1
    /\ i # Len(s.frames) => s.grid[s.frames[i].cur] # 2

(* A trail that spells the letters W. *)
Spells(s, W, p) ==
  Trail(s, p) /\ Len(p) = Len(W) /\ \A i \in 1 .. Len(p) : s.grid[p[i]] = W[i]

Spellable(s, W) == \E p \in Seq(Cells(s)) : Spells(s, W, p)

Before(s, k) == {c \in Cells(s) : c < k}

(* The frames of the search for W spell its first letters, not all. *)
Spelling(s, W) ==
  /\ Len(s.frames) = 0 \/ Len(s.frames) < Len(W)
  /\ \A i \in 1 .. Len(s.frames) :
       s.frames[i].char_index = i - 1 /\ s.grid[s.frames[i].cur] = W[i]

(* While nothing is found no trail the search is done with spells W. *)
Matching(s, W, k, r) ==
  /\ Spelling(s, W)
  /\ r = 1 => Spellable(s, W)
  /\ r = 0 => \A p : Spells(s, W, p) => ~Done(s, Before(s, k), p)

(* The frames of the search with a trie. *)
Letters(s, q) == [i \in 1 .. Len(q) |-> s.grid[q[i]]]
Noted(s) ==
  \A i \in 1 .. Len(s.frames) :
    /\ s.frames[i].node = [k \in 1 .. i |-> s.grid[s.frames[k].cur]]

(* Words spelt alike have one owner, the last. *)
Owner(s, w) == \A v \in DOMAIN s.words : s.words[v] = s.words[w] => v <= w

(* The words found are those spelt by what the search stands on or is done
   with. *)
Met(s, k, p) == Done(s, Before(s, k), p) \/ Begins(Curs(s), p)

Finds(s, k) ==
  \A w : w \in s.word_found <=>
    /\ w \in DOMAIN s.words /\ Owner(s, w)
    /\ \E p \in Seq(Cells(s)) : Spells(s, s.words[w], p) /\ Met(s, k, p)

(* The search's words are those of the job, as many as fit. *)
WordsOf(j) == SubSeq(j.words, 1, IF Len(j.words) > MaxWords THEN MaxWords ELSE Len(j.words))

(* What each of the three has found. *)
Walked(p, s, j, k, w, r, v) ==
  /\ p \in {"start", "paths", "trie", "match"} => Loaded(s, j) /\ s.words = WordsOf(j)
  /\ p = "start" => v = 0
  /\ p = "paths" => Threaded(s, {StartOf(s)}) /\ Strides(s) /\ Counts(s, v)
  /\ p = "trie"  => k \in Nat /\ Threaded(s, Before(s, k)) /\ Noted(s) /\ Finds(s, k)
  /\ p = "match" =>
       /\ k \in Nat /\ Threaded(s, Before(s, k)) /\ r \in {0, 1}
       /\ w \in 1 .. Len(s.words) + 1
       /\ v = Cardinality({i \in 1 .. w - 1 : Spellable(s, s.words[i])})
       /\ w <= Len(s.words) => Matching(s, s.words[w], k, r)
       /\ w > Len(s.words) => s.frames = <<>> /\ r = 0

WInv == Walked(pc, e, job, scan, word, ret, value)

-----------------------------------------------------------------------------
(* What passes with a direction, an entry, a return. *)

(* A turn that is not taken passes the trails that begin with it. *)
LEMMA TurnPasses ==
  ASSUME NEW q, NEW T, NEW U, NEW n, NEW p, Len(q) \in Nat, Len(p) \in Nat,
         U[Len(q)] = T[Len(q)] \cup {n}, \A i \in 0 .. Len(q) - 1 : U[i] = T[i],
         NEW z, Len(z) = Len(q) + 1, z[Len(q) + 1] = n, \A k \in 1 .. Len(q) : z[k] = q[k]
  PROVE  Passed(q, U, p) <=> Passed(q, T, p) \/ Begins(p, z)
<1> DEFINE L == Len(q)
           m == Len(p)
<1> HIDE DEF L, m
<1>0. L \in Nat /\ m \in Nat
  BY DEF L, m
<1>1. 0 .. L = 0 .. L - 1 \cup {L} /\ L \in 0 .. L
  BY <1>0
<1>2. ASSUME Passed(q, T, p) PROVE Passed(q, U, p)
  <2>1. \A i \in 0 .. L : T[i] \subseteq U[i]
    BY <1>1 DEF L
  <2>2. QED BY <1>2, <2>1 DEF Passed, L
<1>3. ASSUME Begins(p, z) PROVE Passed(q, U, p)
  <2>1. L + 1 <= m /\ \A k \in 1 .. L + 1 : p[k] = z[k]
    BY <1>3 DEF Begins, L, m
  <2>2. L < m /\ L + 1 \in 1 .. L + 1 /\ \A k \in 1 .. L : k \in 1 .. L + 1
    BY <1>0, <2>1
  <2>3. p[L + 1] = n /\ \A k \in 1 .. L : p[k] = q[k]
    BY <2>1, <2>2 DEF L
  <2>4. p[L + 1] \in U[L] /\ ~(L < L)
    BY <1>0, <2>3 DEF L
  <2>5. QED BY <1>1, <2>2, <2>3, <2>4 DEF Passed, L, m
<1>4. ASSUME Passed(q, U, p) PROVE Passed(q, T, p) \/ Begins(p, z)
  <2>1. PICK i \in 0 .. L : /\ i < m /\ \A k \in 1 .. i : p[k] = q[k]
                            /\ p[i + 1] \in U[i] /\ (i < L => p[i + 1] # q[i + 1])
    BY <1>4 DEF Passed, L, m
  <2>2. CASE p[i + 1] \in T[i]
    BY <2>1, <2>2 DEF Passed, L, m
  <2>3. CASE p[i + 1] \notin T[i]
    <3>1. i = L
      BY <1>1, <2>1, <2>3 DEF L
    <3>2. p[L + 1] = n /\ L < m /\ \A k \in 1 .. L : p[k] = q[k]
      BY <2>1, <2>3, <3>1 DEF L
    <3>3. L + 1 <= m /\ 1 .. L + 1 = 1 .. L \cup {L + 1}
      BY <1>0, <3>2
    <3>4. \A k \in 1 .. L + 1 : p[k] = z[k]
      BY <3>2, <3>3 DEF L
    <3>5. QED BY <3>3, <3>4 DEF Begins, L, m
  <2>4. QED BY <2>2, <2>3
<1>5. QED BY <1>2, <1>3, <1>4

(* A cell turned to for the first time and entered passes none. *)
LEMMA EntryPasses ==
  ASSUME NEW q, NEW T, NEW U, NEW n, NEW p, Len(q) \in Nat, Len(p) \in Nat,
         U[Len(q)] = T[Len(q)] \cup {n}, n \notin T[Len(q)], \A i \in 0 .. Len(q) - 1 : U[i] = T[i],
         U[Len(q) + 1] = {},
         NEW z, Len(z) = Len(q) + 1, z[Len(q) + 1] = n, \A k \in 1 .. Len(q) : z[k] = q[k]
  PROVE  Passed(z, U, p) <=> Passed(q, T, p)
<1> DEFINE L == Len(q)
           m == Len(p)
<1> HIDE DEF L, m
<1>0. L \in Nat /\ m \in Nat
  BY DEF L, m
<1>1. /\ 0 .. L = 0 .. L - 1 \cup {L} /\ 0 .. L + 1 = 0 .. L \cup {L + 1} /\ L \in 0 .. L
      /\ \A i \in 0 .. L : i < L + 1
      /\ \A i \in 0 .. L : 1 .. i \subseteq 1 .. L
      /\ \A i \in 0 .. L : i < L => i + 1 \in 1 .. L /\ i \in 0 .. L - 1
      /\ \A i \in 0 .. L : ~(i < L) => i = L
  BY <1>0
<1>2. \A k \in 1 .. L : z[k] = q[k]
  BY DEF L
<1>3. ASSUME NEW i \in 0 .. L, \A k \in 1 .. i : p[k] = z[k] PROVE \A k \in 1 .. i : p[k] = q[k]
  BY <1>1, <1>2, <1>3
<1>4. ASSUME NEW i \in 0 .. L, \A k \in 1 .. i : p[k] = q[k] PROVE \A k \in 1 .. i : p[k] = z[k]
  BY <1>1, <1>2, <1>4
<1>5. ASSUME NEW i \in 0 .. L
      PROVE  (p[i + 1] \in U[i] /\ p[i + 1] # z[i + 1])
             <=> (p[i + 1] \in T[i] /\ (i < L => p[i + 1] # q[i + 1]))
  <2>1. CASE i < L
    <3>1. U[i] = T[i] /\ z[i + 1] = q[i + 1]
      BY <1>1, <1>2, <2>1 DEF L
    <3>2. QED BY <2>1, <3>1
  <2>2. CASE ~(i < L)
    <3>1. i = L
      BY <1>1, <2>2
    <3>2. U[i] = T[i] \cup {n} /\ z[i + 1] = n /\ n \notin T[i]
      BY <3>1 DEF L
    <3>3. QED BY <2>2, <3>2
  <2>3. QED BY <2>1, <2>2
<1>6. U[L + 1] = {}
  BY DEF L
<1>7. ASSUME Passed(z, U, p) PROVE Passed(q, T, p)
  <2>1. PICK i \in 0 .. L + 1 : /\ i < m /\ \A k \in 1 .. i : p[k] = z[k]
                                /\ p[i + 1] \in U[i] /\ (i < L + 1 => p[i + 1] # z[i + 1])
    BY <1>7 DEF Passed, L, m
  <2>2. i \in 0 .. L
    BY <1>1, <1>6, <2>1
  <2>3. i < m /\ \A k \in 1 .. i : p[k] = q[k]
    BY <1>3, <2>1, <2>2
  <2>4. p[i + 1] \in T[i] /\ (i < L => p[i + 1] # q[i + 1])
    BY <1>1, <1>5, <2>1, <2>2
  <2>5. QED BY <2>2, <2>3, <2>4 DEF Passed, L, m
<1>8. ASSUME Passed(q, T, p) PROVE Passed(z, U, p)
  <2>1. PICK i \in 0 .. L : /\ i < m /\ \A k \in 1 .. i : p[k] = q[k]
                            /\ p[i + 1] \in T[i] /\ (i < L => p[i + 1] # q[i + 1])
    BY <1>8 DEF Passed, L, m
  <2>2. i < m /\ \A k \in 1 .. i : p[k] = z[k]
    BY <1>4, <2>1
  <2>3. p[i + 1] \in U[i] /\ p[i + 1] # z[i + 1] /\ i \in 0 .. L + 1
    BY <1>1, <1>5, <2>1
  <2>4. QED BY <2>2, <2>3 DEF Passed, L, m
<1>9. QED BY <1>7, <1>8

(* A return passes the trails that begin with the one it returns from. *)
LEMMA ReturnPasses ==
  ASSUME NEW q, NEW T, NEW U, NEW p, Len(q) \in Nat \ {0}, Len(p) \in Nat,
         \A i \in 0 .. Len(q) - 1 : U[i] = T[i], q[Len(q)] \in T[Len(q) - 1],
         NEW r, Len(r) = Len(q) - 1, \A k \in 1 .. Len(q) - 1 : r[k] = q[k]
  PROVE  Passed(r, U, p) <=> Passed(q, T, p) \/ Begins(p, q)
<1> DEFINE L == Len(q)
           m == Len(p)
<1> HIDE DEF L, m
<1>0. L \in Nat \ {0} /\ m \in Nat
  BY DEF L, m
<1>1. /\ 0 .. L = 0 .. L - 1 \cup {L} /\ L - 1 \in 0 .. L - 1 /\ L - 1 + 1 = L /\ L \in 1 .. L
      /\ \A i \in 0 .. L - 1 : 1 .. i \subseteq 1 .. L - 1 /\ i < L
      /\ \A i \in 0 .. L - 1 : i < L - 1 => i + 1 \in 1 .. L - 1
      /\ \A i \in 0 .. L - 1 : ~(i < L - 1) => i = L - 1
      /\ 1 .. L = 1 .. L - 1 \cup {L}
  BY <1>0
<1>2. (\A k \in 1 .. L - 1 : r[k] = q[k]) /\ (\A i \in 0 .. L - 1 : U[i] = T[i])
  BY DEF L
<1>3. q[L] \in T[L - 1]
  BY DEF L
<1>4. ASSUME Passed(r, U, p) PROVE Passed(q, T, p) \/ Begins(p, q)
  <2>1. PICK i \in 0 .. L - 1 : /\ i < m /\ \A k \in 1 .. i : p[k] = r[k]
                                /\ p[i + 1] \in U[i] /\ (i < L - 1 => p[i + 1] # r[i + 1])
    BY <1>4 DEF Passed, L, m
  <2>2. \A k \in 1 .. i : p[k] = q[k]
    BY <1>1, <1>2, <2>1
  <2>3. p[i + 1] \in T[i] /\ i \in 0 .. L
    BY <1>1, <1>2, <2>1
  <2>4. CASE i < L - 1
    <3>1. p[i + 1] # q[i + 1]
      BY <1>1, <1>2, <2>1, <2>4
    <3>2. QED BY <2>1, <2>2, <2>3, <3>1 DEF Passed, L, m
  <2>5. CASE ~(i < L - 1)
    <3>1. i = L - 1
      BY <1>1, <2>5
    <3>2. CASE p[L] # q[L]
      <4>1. p[i + 1] # q[i + 1]
        BY <1>1, <3>1, <3>2
      <4>2. QED BY <2>1, <2>2, <2>3, <4>1 DEF Passed, L, m
    <3>3. CASE p[L] = q[L]
      <4>1. \A k \in 1 .. L : p[k] = q[k]
        BY <1>1, <2>2, <3>1, <3>3
      <4>2. L <= m
        BY <1>0, <2>1, <3>1
      <4>3. QED BY <4>1, <4>2 DEF Begins, L, m
    <3>4. QED BY <3>2, <3>3
  <2>6. QED BY <2>4, <2>5
<1>5. ASSUME L <= m, \A k \in 1 .. L : p[k] = q[k] PROVE Passed(r, U, p)
  <2>1. L - 1 < m /\ \A k \in 1 .. L - 1 : p[k] = r[k]
    BY <1>0, <1>1, <1>2, <1>5
  <2>2. p[L - 1 + 1] \in U[L - 1] /\ ~(L - 1 < L - 1)
    BY <1>0, <1>1, <1>2, <1>3, <1>5
  <2>3. QED BY <1>1, <2>1, <2>2 DEF Passed, L, m
<1>6. ASSUME Passed(q, T, p) PROVE Passed(r, U, p)
  <2>1. PICK i \in 0 .. L : /\ i < m /\ \A k \in 1 .. i : p[k] = q[k]
                            /\ p[i + 1] \in T[i] /\ (i < L => p[i + 1] # q[i + 1])
    BY <1>6 DEF Passed, L, m
  <2>2. CASE i = L
    <3>1. L <= m /\ \A k \in 1 .. L : p[k] = q[k]
      BY <1>0, <2>1, <2>2
    <3>2. QED BY <1>5, <3>1
  <2>3. CASE i \in 0 .. L - 1
    <3>1. p[i + 1] \in U[i] /\ \A k \in 1 .. i : p[k] = r[k]
      BY <1>1, <1>2, <2>1, <2>3
    <3>2. i < L - 1 => p[i + 1] # r[i + 1]
      BY <1>1, <1>2, <2>1, <2>3
    <3>3. QED BY <2>1, <2>3, <3>1, <3>2 DEF Passed, L, m
  <2>4. QED BY <1>1, <2>1, <2>2, <2>3
<1>7. Begins(p, q) => Passed(r, U, p)
  BY <1>5 DEF Begins, L, m
<1>8. QED BY <1>4, <1>6, <1>7

(* The cells of the frames, in order. *)
LEMMA CursOf ==
  ASSUME NEW s \in EngineType
  PROVE  /\ Len(s.frames) \in Nat /\ Len(Curs(s)) = Len(s.frames)
         /\ \A i \in 1 .. Len(s.frames) : Curs(s)[i] = s.frames[i].cur /\ s.frames[i] \in FrameType
         /\ s.frames = <<>> <=> Len(s.frames) = 0
<1>1. s.frames \in Seq(FrameType)
  BY DEF EngineType
<1> DEFINE n == Len(s.frames)
<1>2. n \in Nat /\ \A i \in 1 .. n : s.frames[i] \in FrameType
  BY <1>1
<1>3. s.frames = <<>> <=> n = 0
  BY <1>1, EmptySeq
<1> HIDE DEF n
<1>4. Curs(s) = [i \in 1 .. n |-> s.frames[i].cur]
  BY DEF Curs, n
<1>5. Len(Curs(s)) = n /\ \A i \in 1 .. n : Curs(s)[i] = s.frames[i].cur
  BY <1>2, <1>4
<1>6. QED BY <1>2, <1>3, <1>5 DEF n

(* The cells turned to, frame by frame. *)
LEMMA TurnedOf ==
  ASSUME NEW s \in EngineType, NEW A
  PROVE  /\ Turned(s, A)[0] = A
         /\ \A i \in 1 .. Len(s.frames) : Turned(s, A)[i] = TurnedFrom(s, s.frames[i])
<1> DEFINE n == Len(s.frames)
<1>1. n \in Nat
  BY CursOf
<1> HIDE DEF n
<1>2. Turned(s, A) = [i \in 0 .. n |-> IF i = 0 THEN A ELSE TurnedFrom(s, s.frames[i])]
  BY DEF Turned, n
<1>3. 0 \in 0 .. n /\ \A i \in 1 .. n : i \in 0 .. n /\ i # 0
  BY <1>1
<1>4. QED BY <1>2, <1>3 DEF n

(* Engines alike have the same trails. *)
LEMMA SameTrails ==
  ASSUME NEW s, NEW t, Alike(s, t)
  PROVE  /\ Cells(t) = Cells(s) /\ \A c : Around(t, c) = Around(s, c)
         /\ \A p : Trail(t, p) <=> Trail(s, p)
         /\ \A p, W : Spells(t, W, p) <=> Spells(s, W, p)
         /\ \A p : FullPath(t, p) <=> FullPath(s, p)
         /\ \A W : Spellable(t, W) <=> Spellable(s, W)
         /\ StartOf(t) = StartOf(s) /\ \A k : Before(t, k) = Before(s, k)
         /\ \A f : TurnedFrom(t, f) = TurnedFrom(s, f)
<1>1. t.rows = s.rows /\ t.cols = s.cols /\ t.degree = s.degree /\ t.grid = s.grid
  BY DEF Alike
<1>2. Cells(t) = Cells(s)
  BY <1>1 DEF Cells
<1>3. \A c : Around(t, c) = Around(s, c)
  BY <1>1 DEF Around, HasNeighbor, Neighbor
<1>4. \A f : TurnedFrom(t, f) = TurnedFrom(s, f)
  BY <1>1, <1>3 DEF TurnedFrom, HasNeighbor, Neighbor
<1>5. \A p : Trail(t, p) <=> Trail(s, p)
  BY <1>2, <1>3 DEF Trail
<1>6. StartOf(t) = StartOf(s) /\ FreeCells(t) = FreeCells(s)
  <2>1. Ones(t) = Ones(s)
    BY <1>1, <1>2 DEF Ones
  <2>2. QED BY <1>1, <1>2, <2>1 DEF StartOf, FreeCells
<1>7. \A p : FullPath(t, p) <=> FullPath(s, p)
  BY <1>1, <1>5, <1>6 DEF FullPath
<1>8. \A p, W : Spells(t, W, p) <=> Spells(s, W, p)
  BY <1>1, <1>5 DEF Spells
<1>9. \A W : Spellable(t, W) <=> Spellable(s, W)
  BY <1>2, <1>8 DEF Spellable
<1>10. \A k : Before(t, k) = Before(s, k)
  BY <1>2 DEF Before
<1>11. QED BY <1>2, <1>3, <1>4, <1>5, <1>6, <1>7, <1>8, <1>9, <1>10

(* What is done with depends on grid and frames. *)
LEMMA SameDone ==
  ASSUME NEW s, NEW t, Alike(s, t), t.frames = s.frames, NEW A
  PROVE  /\ Curs(t) = Curs(s) /\ \A p : Done(t, A, p) <=> Done(s, A, p)
         /\ Threaded(t, A) <=> Threaded(s, A)
<1>1. Curs(t) = Curs(s)
  BY DEF Curs
<1>2. Turned(t, A) = Turned(s, A)
  BY SameTrails DEF Turned
<1>3. QED BY <1>1, <1>2 DEF Done, Threaded

(* t is s with one direction more tried by its innermost frame. *)
Moved(s, t) ==
  /\ Alike(s, t) /\ t \in EngineType /\ Len(t.frames) = Len(s.frames)
  /\ t.frames[Len(s.frames)] = [Top(s) EXCEPT !.next = Top(s).next + 1]
  /\ \A i \in 1 .. Len(s.frames) : i # Len(s.frames) => t.frames[i] = s.frames[i]

(* f.next++ does that. *)
LEMMA AdvanceMoves ==
  ASSUME NEW s \in EngineType, s.frames # <<>>
  PROVE  Moved(s, advance(s)) /\ advance(s).visited = s.visited
BY Advance, AdvanceFrames DEF Moved

(* What a frame has turned to one direction later. *)
LEMMA TurnedNext ==
  ASSUME NEW s \in EngineType, Sized(s), NEW f \in FrameType, f.next < s.degree, f.cur \in Cells(s),
         NEW g \in FrameType, g.cur = f.cur, g.next = f.next + 1
  PROVE  /\ HasNeighbor(s, f.cur, f.next) =>
              /\ TurnedFrom(s, g) = TurnedFrom(s, f) \cup {Neighbor(s, f.cur, f.next)}
              /\ Neighbor(s, f.cur, f.next) \notin TurnedFrom(s, f)
              /\ Neighbor(s, f.cur, f.next) \in Cells(s)
         /\ ~HasNeighbor(s, f.cur, f.next) => TurnedFrom(s, g) = TurnedFrom(s, f)
<1> DEFINE c == f.cur
           k == f.next
           N(i) == Neighbor(s, c, i)
           H(i) == HasNeighbor(s, c, i)
           dirs == 0 .. s.degree - 1
<1>1. /\ k \in dirs /\ dirs \subseteq 0 .. 7 /\ ~(k < k)
      /\ \A i \in dirs : i < k + 1 <=> i < k \/ i = k
  <2>1. s.degree \in {4, 8} /\ k \in Nat
    BY DEF EngineType, FrameType
  <2>2. QED BY <2>1
<1>2. TurnedFrom(s, g) = {n \in Around(s, c) : \E i \in dirs : i < k + 1 /\ H(i) /\ n = N(i)}
  BY DEF TurnedFrom
<1>3. TurnedFrom(s, f) = {n \in Around(s, c) : \E i \in dirs : i < k /\ H(i) /\ n = N(i)}
  BY DEF TurnedFrom
<1>4. H(k) => N(k) \in Around(s, c)
  BY <1>1 DEF Around
<1>5. H(k) => N(k) \in Cells(s) /\ \A i \in dirs : H(i) /\ N(i) = N(k) => i = k
  BY <1>1, NeighborOf
<1> HIDE DEF c, k, N, H, dirs
<1>6. H(k) => TurnedFrom(s, g) = TurnedFrom(s, f) \cup {N(k)} /\ N(k) \notin TurnedFrom(s, f)
  <2>1. ASSUME H(k) PROVE TurnedFrom(s, g) = TurnedFrom(s, f) \cup {N(k)}
    BY <1>1, <1>2, <1>3, <1>4, <2>1
  <2>2. ASSUME H(k), N(k) \in TurnedFrom(s, f) PROVE FALSE
    <3>1. PICK i \in dirs : i < k /\ H(i) /\ N(k) = N(i)
      BY <1>3, <2>2
    <3>2. i = k
      BY <1>5, <2>2, <3>1
    <3>3. QED BY <1>1, <3>1, <3>2
  <2>3. QED BY <2>1, <2>2
<1>7. ~H(k) => TurnedFrom(s, g) = TurnedFrom(s, f)
  BY <1>1, <1>2, <1>3
<1>8. QED BY <1>5, <1>6, <1>7 DEF c, k, N, H

(* The frames of an engine that has moved on. *)
FramesMoved(s, t, A) ==
  LET L == Len(s.frames)
      n == Neighbor(s, Top(s).cur, Top(s).next)
  IN  /\ L \in Nat \ {0} /\ Len(t.frames) = L
      /\ \A i \in 1 .. L : t.frames[i].cur = s.frames[i].cur
      /\ \A i \in 0 .. L - 1 : Turned(t, A)[i] = Turned(s, A)[i]
      /\ HasNeighbor(s, Top(s).cur, Top(s).next) =>
           /\ Turned(t, A)[L] = Turned(s, A)[L] \cup {n}
           /\ n \notin Turned(s, A)[L] /\ n \in Cells(s)
      /\ ~HasNeighbor(s, Top(s).cur, Top(s).next) => Turned(t, A)[L] = Turned(s, A)[L]

(* f.next++ changes only what the innermost frame has turned to. *)
LEMMA MovedFrames ==
  ASSUME NEW s \in EngineType, Sized(s), OnCells(s), s.frames # <<>>, Top(s).next < s.degree,
         NEW t, Moved(s, t), NEW A
  PROVE  FramesMoved(s, t, A)
<1> DEFINE L == Len(s.frames)
           f == Top(s)
           g == t.frames[L]
<1>1. L \in Nat \ {0} /\ f = s.frames[L] /\ f \in FrameType /\ f.cur \in Cells(s)
  BY TopOf, AtTop
<1>2. L \in 1 .. L /\ \A i \in 0 .. L - 1 : i = 0 \/ (i \in 1 .. L /\ i # L)
  BY <1>1
<1>3. t \in EngineType /\ Len(t.frames) = L /\ g = [f EXCEPT !.next = f.next + 1]
      /\ \A i \in 1 .. L : i # L => t.frames[i] = s.frames[i]
  BY DEF Moved
<1>4. g \in FrameType /\ g.cur = f.cur /\ g.next = f.next + 1
  <2>1. g \in FrameType
    BY <1>2, <1>3, CursOf
  <2> DEFINE h == f.next + 1
  <2>2. g = [f EXCEPT !.next = h]
    BY <1>3
  <2> HIDE DEF h, f, g
  <2>3. g.cur = f.cur /\ g.next = h
    BY <1>1, <2>2 DEF FrameType
  <2>4. QED BY <2>1, <2>3 DEF h
<1>5. \A i \in 1 .. L : t.frames[i].cur = s.frames[i].cur
  BY <1>1, <1>3, <1>4
<1>6. \A h : TurnedFrom(t, h) = TurnedFrom(s, h)
  BY SameTrails DEF Moved
<1>7. /\ Turned(s, A)[0] = A /\ Turned(t, A)[0] = A
      /\ \A i \in 1 .. L : Turned(s, A)[i] = TurnedFrom(s, s.frames[i])
      /\ \A i \in 1 .. L : Turned(t, A)[i] = TurnedFrom(s, t.frames[i])
  BY <1>3, <1>6, TurnedOf
<1>8. f.next < s.degree
  OBVIOUS
<1>9. Turned(s, A)[L] = TurnedFrom(s, f) /\ Turned(t, A)[L] = TurnedFrom(s, g)
  BY <1>1, <1>2, <1>7
<1> HIDE DEF L, f, g
<1>10. /\ HasNeighbor(s, f.cur, f.next) =>
            /\ TurnedFrom(s, g) = TurnedFrom(s, f) \cup {Neighbor(s, f.cur, f.next)}
            /\ Neighbor(s, f.cur, f.next) \notin TurnedFrom(s, f)
            /\ Neighbor(s, f.cur, f.next) \in Cells(s)
       /\ ~HasNeighbor(s, f.cur, f.next) => TurnedFrom(s, g) = TurnedFrom(s, f)
  BY <1>1, <1>4, <1>8, TurnedNext
<1>11. \A i \in 0 .. L - 1 : Turned(t, A)[i] = Turned(s, A)[i]
  BY <1>2, <1>3, <1>7
<1>12. QED BY <1>1, <1>3, <1>5, <1>9, <1>10, <1>11 DEF FramesMoved, L, f

(* The frames are a sequence of cells, and a cell more is one too. *)
LEMMA CursSeq ==
  ASSUME NEW s \in EngineType, OnCells(s)
  PROVE  /\ Curs(s) \in Seq(Cells(s))
         /\ \A c \in Cells(s) :
              /\ Append(Curs(s), c) \in Seq(Cells(s))
              /\ Len(Append(Curs(s), c)) = Len(s.frames) + 1
              /\ Append(Curs(s), c)[Len(s.frames) + 1] = c
              /\ \A k \in 1 .. Len(s.frames) : Append(Curs(s), c)[k] = Curs(s)[k]
<1> DEFINE n == Len(s.frames)
           q == Curs(s)
<1>1. n \in Nat /\ Len(q) = n /\ \A i \in 1 .. n : q[i] = s.frames[i].cur
  BY CursOf
<1>2. q = [i \in 1 .. n |-> s.frames[i].cur]
  BY DEF Curs
<1>3. \A i \in 1 .. n : s.frames[i].cur \in Cells(s)
  BY DEF OnCells
<1> HIDE DEF n, q
<1>4. q \in Seq(Cells(s))
  BY <1>1, <1>2, <1>3
<1>5. \A c \in Cells(s) :
        /\ Append(q, c) \in Seq(Cells(s)) /\ Len(Append(q, c)) = n + 1
        /\ Append(q, c)[n + 1] = c /\ \A k \in 1 .. n : Append(q, c)[k] = q[k]
  BY <1>1, <1>4
<1>6. QED BY <1>4, <1>5 DEF n, q

(* How a step moves the walk: nothing is done with, the trails are that go on
   to c, c is entered, or the innermost cell is left. *)
Stands(s, A, t) ==
  /\ Alike(s, t) /\ Curs(t) = Curs(s) /\ Threaded(t, A)
  /\ \A p \in Seq(Cells(s)) : Done(t, A, p) <=> Done(s, A, p)

Skips(s, A, t, B, c) ==
  /\ Alike(s, t) /\ Curs(t) = Curs(s) /\ Threaded(t, B)
  /\ \A p \in Seq(Cells(s)) : Done(t, B, p) <=> Done(s, A, p) \/ Begins(p, Append(Curs(s), c))

Grows(s, A, t, B, c) ==
  /\ Alike(s, t) /\ Curs(t) = Append(Curs(s), c) /\ Threaded(t, B)
  /\ \A p \in Seq(Cells(s)) : Done(t, B, p) <=> Done(s, A, p)

Shrinks(s, A, t) ==
  /\ Alike(s, t) /\ Len(Curs(t)) = Len(Curs(s)) - 1
  /\ \A i \in 1 .. Len(Curs(t)) : Curs(t)[i] = Curs(s)[i]
  /\ Threaded(t, A)
  /\ \A p \in Seq(Cells(s)) : Done(t, A, p) <=> Done(s, A, p) \/ Begins(p, Curs(s))

(* The innermost frame's next direction leads to n. *)
Leads(s, n) == HasNeighbor(s, Top(s).cur, Top(s).next) /\ n = Neighbor(s, Top(s).cur, Top(s).next)

(* A direction off the grid turns to nothing. *)
LEMMA TurnsOff ==
  ASSUME NEW s \in EngineType, Sized(s), OnCells(s), s.frames # <<>>, Top(s).next < s.degree,
         NEW t, Moved(s, t), NEW A, Threaded(s, A), ~HasNeighbor(s, Top(s).cur, Top(s).next)
  PROVE  Stands(s, A, t)
<1> DEFINE L == Len(s.frames)
<1>1. /\ L \in Nat \ {0} /\ Len(t.frames) = L
      /\ \A i \in 1 .. L : t.frames[i].cur = s.frames[i].cur
      /\ \A i \in 0 .. L - 1 : Turned(t, A)[i] = Turned(s, A)[i]
      /\ (~HasNeighbor(s, Top(s).cur, Top(s).next) => Turned(t, A)[L] = Turned(s, A)[L])
  <2>1. FramesMoved(s, t, A)
    BY MovedFrames
  <2>2. QED BY <2>1 DEF FramesMoved
<1>2. Alike(s, t)
  BY DEF Moved
<1>3. Len(Curs(s)) = L
  BY CursOf
<1> HIDE DEF L
<1>4. Curs(t) = Curs(s)
  <2>1. Curs(t) = [i \in 1 .. L |-> t.frames[i].cur] /\ Curs(s) = [i \in 1 .. L |-> s.frames[i].cur]
    BY <1>1 DEF Curs, L
  <2>2. QED BY <1>1, <2>1
<1>5. \A i \in 0 .. L : Turned(t, A)[i] = Turned(s, A)[i]
  <2>1. 0 .. L = 0 .. L - 1 \cup {L}
    BY <1>1
  <2>2. QED BY <1>1, <2>1
<1>6. \A p : Done(t, A, p) <=> Done(s, A, p)
  BY <1>3, <1>4, <1>5 DEF Done, Passed
<1>7. Threaded(t, A)
  <2>1. \A i \in 1 .. L : i - 1 \in 0 .. L
    BY <1>1
  <2>2. QED BY <1>1, <1>5, <2>1 DEF Threaded, L
<1>8. QED BY <1>2, <1>4, <1>6, <1>7 DEF Stands

(* A direction that is not gone turns to its neighbour. *)
LEMMA TurnsTo ==
  ASSUME NEW s \in EngineType, Sized(s), OnCells(s), s.frames # <<>>, Top(s).next < s.degree,
         NEW t, Moved(s, t), NEW A, Threaded(s, A), NEW n, Leads(s, n)
  PROVE  Skips(s, A, t, A, n)
<1> DEFINE L == Len(s.frames)
           z == Append(Curs(s), n)
<1>1. /\ L \in Nat \ {0} /\ Len(t.frames) = L
      /\ \A i \in 1 .. L : t.frames[i].cur = s.frames[i].cur
      /\ \A i \in 0 .. L - 1 : Turned(t, A)[i] = Turned(s, A)[i]
      /\ Turned(t, A)[L] = Turned(s, A)[L] \cup {n} /\ n \in Cells(s)
  <2>1. FramesMoved(s, t, A)
    BY MovedFrames
  <2>2. HasNeighbor(s, Top(s).cur, Top(s).next) /\ n = Neighbor(s, Top(s).cur, Top(s).next)
    BY DEF Leads
  <2>3. QED BY <2>1, <2>2 DEF FramesMoved
<1>2. Alike(s, t)
  BY DEF Moved
<1>3. Len(Curs(s)) = L
  BY CursOf
<1>4. Len(z) = L + 1 /\ z[L + 1] = n /\ \A k \in 1 .. L : z[k] = Curs(s)[k]
  BY <1>1, CursSeq
<1> HIDE DEF L, z
<1>5. Curs(t) = Curs(s)
  <2>1. Curs(t) = [i \in 1 .. L |-> t.frames[i].cur] /\ Curs(s) = [i \in 1 .. L |-> s.frames[i].cur]
    BY <1>1 DEF Curs, L
  <2>2. QED BY <1>1, <2>1
<1>6. ASSUME NEW p \in Seq(Cells(s)) PROVE Done(t, A, p) <=> Done(s, A, p) \/ Begins(p, z)
  <2> DEFINE q == Curs(s)
             T == Turned(s, A)
             U == Turned(t, A)
  <2>1. Len(q) \in Nat /\ Len(p) \in Nat /\ U[Len(q)] = T[Len(q)] \cup {n}
        /\ \A i \in 0 .. Len(q) - 1 : U[i] = T[i]
    BY <1>1, <1>3
  <2>2. Len(z) = Len(q) + 1 /\ z[Len(q) + 1] = n /\ \A k \in 1 .. Len(q) : z[k] = q[k]
    BY <1>3, <1>4
  <2> HIDE DEF q, T, U
  <2>3. Passed(q, U, p) <=> Passed(q, T, p) \/ Begins(p, z)
    BY <2>1, <2>2, TurnPasses
  <2>4. QED BY <1>5, <2>3 DEF Done, q, T, U
<1>7. Threaded(t, A)
  <2>1. \A i \in 1 .. L : i - 1 \in 0 .. L - 1
    BY <1>1
  <2>2. QED BY <1>1, <2>1 DEF Threaded, L
<1>8. QED BY <1>2, <1>5, <1>6, <1>7 DEF Skips, z

(* A frame pushed on a walk that has moved enters the neighbour. *)
LEMMA GoesTo ==
  ASSUME NEW s \in EngineType, Sized(s), OnCells(s), s.frames # <<>>, Top(s).next < s.degree,
         NEW u, Moved(s, u), NEW A, Threaded(s, A), NEW n, Leads(s, n),
         NEW t \in EngineType, Alike(u, t), NEW f \in FrameType, f.cur = n, f.next = 0,
         t.frames = Append(u.frames, f)
  PROVE  Grows(s, A, t, A, n)
<1> DEFINE L == Len(s.frames)
           z == Append(Curs(s), n)
<1>1. /\ L \in Nat \ {0} /\ Len(u.frames) = L
      /\ \A i \in 1 .. L : u.frames[i].cur = s.frames[i].cur
      /\ \A i \in 0 .. L - 1 : Turned(u, A)[i] = Turned(s, A)[i]
      /\ Turned(u, A)[L] = Turned(s, A)[L] \cup {n} /\ n \notin Turned(s, A)[L] /\ n \in Cells(s)
  <2>1. FramesMoved(s, u, A)
    BY MovedFrames
  <2>2. HasNeighbor(s, Top(s).cur, Top(s).next) /\ n = Neighbor(s, Top(s).cur, Top(s).next)
    BY DEF Leads
  <2>3. QED BY <2>1, <2>2 DEF FramesMoved
<1>2. Alike(s, u) /\ Alike(s, t) /\ u \in EngineType
  BY DEF Moved, Alike
<1>3. Len(Curs(s)) = L /\ \A i \in 1 .. L : Curs(s)[i] = s.frames[i].cur
  BY CursOf
<1>4. z \in Seq(Cells(s)) /\ Len(z) = L + 1 /\ z[L + 1] = n /\ \A k \in 1 .. L : z[k] = Curs(s)[k]
  BY <1>1, CursSeq
<1>5. /\ Len(t.frames) = L + 1 /\ t.frames[L + 1] = f
      /\ \A i \in 1 .. L : t.frames[i] = u.frames[i]
  BY <1>1, <1>2, Appended
<1> HIDE DEF L
<1>6. 1 .. L + 1 = 1 .. L \cup {L + 1} /\ L + 1 \in 1 .. L + 1
  BY <1>1
<1>7. Curs(t) = z
  <2>1. Curs(t) = [i \in 1 .. L + 1 |-> t.frames[i].cur]
    BY <1>5 DEF Curs
  <2>2. \A i \in 1 .. L + 1 : t.frames[i].cur = z[i]
    BY <1>1, <1>3, <1>4, <1>5, <1>6
  <2> HIDE DEF z
  <2>3. z = [i \in 1 .. L + 1 |-> z[i]]
    BY <1>4
  <2>4. QED BY <2>1, <2>2, <2>3
<1> HIDE DEF z
<1>8. /\ \A i \in 0 .. L : Turned(t, A)[i] = Turned(u, A)[i]
      /\ Turned(t, A)[L + 1] = {}
  <2>1. \A g : TurnedFrom(t, g) = TurnedFrom(u, g)
    BY SameTrails
  <2>2. /\ Turned(u, A)[0] = A /\ Turned(t, A)[0] = A
        /\ \A i \in 1 .. L : Turned(u, A)[i] = TurnedFrom(u, u.frames[i])
        /\ \A i \in 1 .. L + 1 : Turned(t, A)[i] = TurnedFrom(t, t.frames[i])
    <3>1. Turned(u, A)[0] = A /\ \A i \in 1 .. L : Turned(u, A)[i] = TurnedFrom(u, u.frames[i])
      <4>1. Turned(u, A)[0] = A /\ \A i \in 1 .. Len(u.frames) :
                                      Turned(u, A)[i] = TurnedFrom(u, u.frames[i])
        BY <1>2, TurnedOf
      <4>2. QED BY <1>1, <4>1
    <3>2. Turned(t, A)[0] = A /\ \A i \in 1 .. L + 1 : Turned(t, A)[i] = TurnedFrom(t, t.frames[i])
      BY <1>5, TurnedOf
    <3>3. QED BY <3>1, <3>2
  <2>3. \A i \in 0 .. L : i = 0 \/ i \in 1 .. L
    BY <1>1
  <2>4. TurnedFrom(t, f) = {}
    BY DEF TurnedFrom
  <2>5. QED BY <1>5, <1>6, <2>1, <2>2, <2>3, <2>4
<1>9. ASSUME NEW p \in Seq(Cells(s)) PROVE Done(t, A, p) <=> Done(s, A, p)
  <2> DEFINE q == Curs(s)
             T == Turned(s, A)
             U == Turned(t, A)
  <2>1. Len(q) \in Nat /\ Len(p) \in Nat /\ U[Len(q)] = T[Len(q)] \cup {n} /\ n \notin T[Len(q)]
        /\ (\A i \in 0 .. Len(q) - 1 : U[i] = T[i]) /\ U[Len(q) + 1] = {}
    <3>1. L \in 0 .. L /\ \A i \in 0 .. L - 1 : i \in 0 .. L
      BY <1>1
    <3>2. QED BY <1>1, <1>3, <1>8, <3>1
  <2>2. Len(z) = Len(q) + 1 /\ z[Len(q) + 1] = n /\ \A k \in 1 .. Len(q) : z[k] = q[k]
    BY <1>3, <1>4
  <2> HIDE DEF q, T, U
  <2>3. Passed(z, U, p) <=> Passed(q, T, p)
    BY <2>1, <2>2, EntryPasses
  <2>4. QED BY <1>7, <2>3 DEF Done, q, T, U
<1>10. Threaded(t, A)
  <2>1. \A i \in 1 .. L : i - 1 \in 0 .. L - 1 /\ i - 1 \in 0 .. L
    BY <1>1
  <2>2. \A i \in 1 .. L : s.frames[i].cur \in Turned(s, A)[i - 1]
    BY DEF Threaded, L
  <2>3. \A i \in 1 .. L : t.frames[i].cur \in Turned(t, A)[i - 1]
    BY <1>1, <1>5, <1>8, <2>1, <2>2
  <2>4. t.frames[L + 1].cur \in Turned(t, A)[L]
    <3>1. L \in 0 .. L
      BY <1>1
    <3>2. QED BY <1>1, <1>5, <1>8, <3>1
  <2>5. \A i \in 1 .. L + 1 : t.frames[i].cur \in Turned(t, A)[i - 1]
    <3>1. ASSUME NEW i \in 1 .. L + 1 PROVE t.frames[i].cur \in Turned(t, A)[i - 1]
      <4>1. CASE i = L + 1
        <5>1. i - 1 = L
          BY <1>1, <4>1
        <5>2. QED BY <2>4, <4>1, <5>1
      <4>2. CASE i \in 1 .. L
        BY <2>3, <4>2
      <4>3. QED BY <1>6, <4>1, <4>2
    <3>2. QED BY <3>1
  <2>6. QED BY <1>5, <2>5 DEF Threaded
<1>11. QED BY <1>2, <1>7, <1>9, <1>10 DEF Grows, z

(* A frame removed: the walk is done with all that begins as it stood. *)
LEMMA Returns ==
  ASSUME NEW s \in EngineType, s.frames # <<>>, NEW A, Threaded(s, A),
         NEW t \in EngineType, Alike(s, t), t.frames = Front(s.frames)
  PROVE  Shrinks(s, A, t)
<1> DEFINE L == Len(s.frames)
           q == Curs(s)
           r == Curs(t)
           T == Turned(s, A)
           U == Turned(t, A)
<1>1. /\ L \in Nat \ {0} /\ Len(t.frames) = L - 1
      /\ \A i \in 1 .. L - 1 : t.frames[i] = s.frames[i]
  BY TopOf
<1>2. Len(q) = L /\ \A i \in 1 .. L : q[i] = s.frames[i].cur
  BY CursOf
<1>3. Len(r) = L - 1 /\ \A i \in 1 .. L - 1 : r[i] = t.frames[i].cur
  BY <1>1, CursOf
<1>4. /\ T[0] = A /\ U[0] = A
      /\ \A i \in 1 .. L : T[i] = TurnedFrom(s, s.frames[i])
      /\ \A i \in 1 .. L - 1 : U[i] = TurnedFrom(t, t.frames[i])
  BY <1>1, TurnedOf
<1>5. \A g : TurnedFrom(t, g) = TurnedFrom(s, g)
  BY SameTrails
<1>6. \A i \in 1 .. L : s.frames[i].cur \in T[i - 1]
  BY DEF Threaded
<1> HIDE DEF L, q, r, T, U
<1>7. /\ \A i \in 1 .. L - 1 : i \in 1 .. L /\ i - 1 \in 0 .. L - 1
      /\ \A i \in 0 .. L - 1 : i = 0 \/ i \in 1 .. L - 1
      /\ L \in 1 .. L
  BY <1>1
<1>8. \A i \in 0 .. L - 1 : U[i] = T[i]
  <2>1. ASSUME NEW i \in 0 .. L - 1 PROVE U[i] = T[i]
    <3>1. CASE i = 0
      BY <1>4, <3>1
    <3>2. CASE i \in 1 .. L - 1
      BY <1>1, <1>4, <1>5, <1>7, <3>2
    <3>3. QED BY <1>7, <3>1, <3>2
  <2>2. QED BY <2>1
<1>9. \A k \in 1 .. L - 1 : r[k] = q[k]
  BY <1>1, <1>2, <1>3, <1>7
<1>10. q[L] \in T[L - 1]
  BY <1>2, <1>6, <1>7
<1>11. ASSUME NEW p \in Seq(Cells(s)) PROVE Passed(r, U, p) <=> Passed(q, T, p) \/ Begins(p, q)
  <2>1. /\ Len(q) \in Nat \ {0} /\ Len(p) \in Nat /\ (\A i \in 0 .. Len(q) - 1 : U[i] = T[i])
        /\ q[Len(q)] \in T[Len(q) - 1]
        /\ Len(r) = Len(q) - 1 /\ \A k \in 1 .. Len(q) - 1 : r[k] = q[k]
    BY <1>1, <1>2, <1>3, <1>8, <1>9, <1>10
  <2>2. QED BY <2>1, ReturnPasses
<1>12. \A p \in Seq(Cells(s)) : Done(t, A, p) <=> Done(s, A, p) \/ Begins(p, q)
  BY <1>11 DEF Done, q, r, T, U
<1>13. Threaded(t, A)
  <2>1. \A i \in 1 .. L - 1 : t.frames[i].cur \in U[i - 1]
    BY <1>1, <1>6, <1>7, <1>8
  <2>2. QED BY <1>1, <2>1 DEF Threaded, U
<1>14. Len(r) = Len(q) - 1 /\ \A i \in 1 .. Len(r) : r[i] = q[i]
  BY <1>2, <1>3, <1>9
<1>15. QED BY <1>12, <1>13, <1>14 DEF Shrinks, q, r

(* With no frame: a source passed over. *)
LEMMA FirstSkipped ==
  ASSUME NEW s \in EngineType, s.frames = <<>>, NEW t \in EngineType, Alike(s, t), t.frames = <<>>,
         NEW A, NEW c \in Cells(s)
  PROVE  Skips(s, A, t, A \cup {c}, c)
<1> DEFINE B == A \cup {c}
           q == Curs(s)
           z == Append(Curs(s), c)
           T == Turned(s, A)
           U == Turned(t, B)
<1>1. Len(s.frames) = 0 /\ Len(t.frames) = 0
  OBVIOUS
<1>2. Len(q) = 0 /\ OnCells(s)
  BY <1>1, CursOf DEF OnCells
<1>3. Len(z) = 1 /\ z[1] = c
  <2>1. Len(z) = 0 + 1 /\ z[0 + 1] = c
    BY <1>1, <1>2, CursSeq
  <2>2. QED BY <2>1
<1>4. Curs(t) = Curs(s)
  BY DEF Curs
<1>5. T[0] = A /\ U[0] = B
  BY TurnedOf
<1> HIDE DEF q, z, T, U
<1>6. ASSUME NEW p \in Seq(Cells(s)) PROVE Passed(q, U, p) <=> Passed(q, T, p) \/ Begins(p, z)
  <2>1. /\ Len(q) \in Nat /\ Len(p) \in Nat /\ U[Len(q)] = T[Len(q)] \cup {c}
        /\ (\A i \in 0 .. Len(q) - 1 : U[i] = T[i])
        /\ Len(z) = Len(q) + 1 /\ z[Len(q) + 1] = c /\ \A k \in 1 .. Len(q) : z[k] = q[k]
    BY <1>2, <1>3, <1>5
  <2>2. QED BY <2>1, TurnPasses
<1>7. \A p \in Seq(Cells(s)) : Done(t, B, p) <=> Done(s, A, p) \/ Begins(p, z)
  BY <1>4, <1>6 DEF Done, q, T, U
<1>8. Threaded(t, B)
  BY <1>1 DEF Threaded
<1>9. QED BY <1>4, <1>7, <1>8 DEF Skips, z

(* A source entered. *)
LEMMA FirstEntered ==
  ASSUME NEW s \in EngineType, s.frames = <<>>, NEW t \in EngineType, Alike(s, t),
         NEW A, NEW c \in Cells(s), c \notin A,
         NEW f \in FrameType, f.cur = c, f.next = 0, t.frames = Append(s.frames, f)
  PROVE  Grows(s, A, t, A \cup {c}, c)
<1> DEFINE B == A \cup {c}
           q == Curs(s)
           z == Append(Curs(s), c)
           T == Turned(s, A)
           U == Turned(t, B)
<1>1. Len(s.frames) = 0
  OBVIOUS
<1>2. Len(q) = 0 /\ OnCells(s)
  BY <1>1, CursOf DEF OnCells
<1>3. z \in Seq(Cells(s)) /\ Len(z) = 1 /\ z[1] = c
  <2>1. z \in Seq(Cells(s)) /\ Len(z) = 0 + 1 /\ z[0 + 1] = c
    BY <1>1, <1>2, CursSeq
  <2>2. QED BY <2>1
<1>4. Len(t.frames) = 1 /\ t.frames[1] = f
  <2>1. Len(t.frames) = 0 + 1 /\ t.frames[0 + 1] = f
    BY <1>1, Appended
  <2>2. QED BY <2>1
<1>5. Curs(t) = z
  <2>1. Curs(t) = [i \in 1 .. 1 |-> t.frames[i].cur]
    BY <1>4 DEF Curs
  <2>2. \A i \in 1 .. 1 : t.frames[i].cur = z[i]
    BY <1>3, <1>4
  <2> HIDE DEF z
  <2>3. z = [i \in 1 .. 1 |-> z[i]]
    BY <1>3
  <2>4. QED BY <2>1, <2>2, <2>3
<1>6. T[0] = A /\ U[0] = B /\ U[1] = {}
  <2>1. T[0] = A /\ U[0] = B /\ 1 \in 1 .. 1
    BY TurnedOf
  <2>2. U[1] = TurnedFrom(t, f)
    <3>1. \A i \in 1 .. Len(t.frames) : Turned(t, B)[i] = TurnedFrom(t, t.frames[i])
      BY TurnedOf
    <3>2. QED BY <1>4, <2>1, <3>1
  <2>3. TurnedFrom(t, f) = {}
    BY DEF TurnedFrom
  <2>4. QED BY <2>1, <2>2, <2>3
<1> HIDE DEF q, z, T, U
<1>7. ASSUME NEW p \in Seq(Cells(s)) PROVE Passed(z, U, p) <=> Passed(q, T, p)
  <2>1. /\ Len(q) \in Nat /\ Len(p) \in Nat /\ U[Len(q)] = T[Len(q)] \cup {c} /\ c \notin T[Len(q)]
        /\ (\A i \in 0 .. Len(q) - 1 : U[i] = T[i]) /\ U[Len(q) + 1] = {}
        /\ Len(z) = Len(q) + 1 /\ z[Len(q) + 1] = c /\ \A k \in 1 .. Len(q) : z[k] = q[k]
    BY <1>2, <1>3, <1>6
  <2>2. QED BY <2>1, EntryPasses
<1>8. \A p \in Seq(Cells(s)) : Done(t, B, p) <=> Done(s, A, p)
  BY <1>5, <1>7 DEF Done, q, T, U
<1>9. Threaded(t, B)
  <2>1. \A i \in 1 .. 1 : t.frames[i].cur \in U[i - 1]
    BY <1>4, <1>6
  <2>2. QED BY <1>4, <2>1 DEF Threaded, U
<1>10. QED BY <1>5, <1>8, <1>9 DEF Grows, z

(* What the walk stands on it is not done with. *)
LEMMA NotOwn ==
  ASSUME NEW s \in EngineType, NEW A, NEW p, Len(p) \in Nat, Begins(Curs(s), p)
  PROVE  ~Done(s, A, p)
<1> DEFINE q == Curs(s)
           T == Turned(s, A)
           m == Len(p)
           L == Len(q)
<1>1. L \in Nat /\ m \in Nat
  BY CursOf
<1>2. m <= L /\ \A i \in 1 .. m : q[i] = p[i]
  BY DEF Begins
<1> HIDE DEF q, T, m, L
<1>3. ASSUME NEW i \in 0 .. L, i < m, i < L => p[i + 1] # q[i + 1] PROVE FALSE
  <2>1. i < L /\ i + 1 \in 1 .. m
    BY <1>1, <1>2, <1>3
  <2>2. QED BY <1>2, <1>3, <2>1
<1>4. ~Passed(q, T, p)
  BY <1>3 DEF Passed, m, L
<1>5. QED BY <1>4 DEF Done, q, T

(* When the innermost frame has no direction left, the walk is done with the
   trails that go on from where it stands. *)
LEMMA AllTurned ==
  ASSUME NEW s \in EngineType, s.frames # <<>>, ~(Top(s).next < s.degree),
         NEW A, NEW p, Trail(s, p), Begins(p, Curs(s)), Len(p) # Len(s.frames)
  PROVE  Done(s, A, p)
<1> DEFINE L == Len(s.frames)
           q == Curs(s)
           T == Turned(s, A)
           m == Len(p)
           f == Top(s)
<1>1. L \in Nat \ {0} /\ f = s.frames[L] /\ f \in FrameType
  BY TopOf
<1>2. Len(q) = L /\ \A i \in 1 .. L : q[i] = s.frames[i].cur
  BY CursOf
<1>3. p \in Seq(Cells(s))
  BY DEF Trail
<1>4. m \in Nat /\ L <= m /\ \A i \in 1 .. L : p[i] = q[i]
  BY <1>2, <1>3 DEF Begins
<1>5. L \in 1 .. L /\ L \in 1 .. m - 1 /\ L < m /\ L \in 0 .. L
  BY <1>1, <1>4
<1>6. p[L + 1] \in Around(s, p[L])
  BY <1>5 DEF Trail
<1>7. T[L] = TurnedFrom(s, f)
  BY <1>1, <1>5, TurnedOf
<1>8. p[L] = f.cur
  BY <1>1, <1>2, <1>4, <1>5
<1> HIDE DEF L, q, T, m, f
<1>9. p[L + 1] \in TurnedFrom(s, f)
  <2>1. PICK i \in 0 .. s.degree - 1 : HasNeighbor(s, f.cur, i) /\ p[L + 1] = Neighbor(s, f.cur, i)
    BY <1>6, <1>8 DEF Around
  <2>2. i < f.next
    <3>1. s.degree \in {4, 8} /\ f.next \in Nat /\ ~(f.next < s.degree)
      BY <1>1 DEF EngineType, FrameType, f
    <3>2. QED BY <3>1
  <2>3. QED BY <1>6, <1>8, <2>1, <2>2 DEF TurnedFrom
<1>10. ~(L < L)
  BY <1>1
<1>11. Passed(q, T, p)
  BY <1>2, <1>4, <1>5, <1>7, <1>9, <1>10 DEF Passed, m
<1>12. QED BY <1>11 DEF Done, q, T

(* A sequence that begins with one as long is the same. *)
LEMMA BeginsAlike ==
  ASSUME NEW S, NEW p \in Seq(S), NEW q \in Seq(S), Begins(p, q), Len(p) = Len(q)
  PROVE  p = q
<1> DEFINE m == Len(q)
<1>1. m \in Nat /\ p = [i \in 1 .. m |-> p[i]] /\ q = [i \in 1 .. m |-> q[i]]
  OBVIOUS
<1>2. \A i \in 1 .. m : p[i] = q[i]
  BY DEF Begins
<1> HIDE DEF m
<1>3. QED BY <1>1, <1>2

(* The cells of the frames are a trail. *)
LEMMA WalkTrail ==
  ASSUME NEW s \in EngineType, Path(s), s.frames # <<>>, NEW A, Threaded(s, A)
  PROVE  Trail(s, Curs(s)) /\ Curs(s)[1] \in A
<1> DEFINE L == Len(s.frames)
           q == Curs(s)
<1>1. L \in Nat \ {0} /\ Len(q) = L /\ \A i \in 1 .. L : q[i] = s.frames[i].cur
  BY TopOf, CursOf
<1>2. q \in Seq(Cells(s))
  BY CursSeq DEF Path
<1>3. q # <<>>
  BY <1>1, <1>2, EmptySeq
<1>4. Distinct(q)
  BY <1>1 DEF Path, Apart, Distinct
<1>5. \A i \in 1 .. L : s.frames[i].cur \in Turned(s, A)[i - 1]
  BY DEF Threaded
<1>6. Turned(s, A)[0] = A /\ \A i \in 1 .. L : Turned(s, A)[i] = TurnedFrom(s, s.frames[i])
  BY TurnedOf
<1> HIDE DEF L, q
<1>7. ASSUME NEW i \in 1 .. L - 1 PROVE q[i + 1] \in Around(s, q[i])
  <2>1. i \in 1 .. L /\ i + 1 \in 1 .. L /\ i + 1 - 1 = i
    BY <1>1
  <2>2. s.frames[i + 1].cur \in Turned(s, A)[i + 1 - 1]
    BY <1>5, <2>1
  <2>3. s.frames[i + 1].cur \in TurnedFrom(s, s.frames[i])
    BY <1>6, <2>1, <2>2
  <2>4. QED BY <1>1, <2>1, <2>3 DEF TurnedFrom
<1>8. q[1] \in A
  <2>1. 1 \in 1 .. L /\ 1 - 1 = 0
    BY <1>1
  <2>2. QED BY <1>1, <1>5, <1>6, <2>1
<1>9. QED BY <1>1, <1>2, <1>3, <1>4, <1>7, <1>8 DEF Trail, q

(* A cell more, not marked and next to the innermost, and they still are. *)
LEMMA WalkOn ==
  ASSUME NEW s \in EngineType, Path(s), NEW A, Threaded(s, A), NEW c \in Cells(s), ~s.visited[c],
         s.frames # <<>> => c \in Around(s, Top(s).cur)
  PROVE  Trail(s, Append(Curs(s), c))
<1> DEFINE L == Len(s.frames)
           q == Curs(s)
           z == Append(Curs(s), c)
<1>1. L \in Nat /\ Len(q) = L /\ \A i \in 1 .. L : q[i] = s.frames[i].cur
  BY CursOf
<1>2. z \in Seq(Cells(s)) /\ Len(z) = L + 1 /\ z[L + 1] = c /\ \A k \in 1 .. L : z[k] = q[k]
  BY CursSeq DEF Path
<1>3. \A i \in 1 .. L : q[i] # c
  BY <1>1 DEF Path
<1>4. \A i, j \in 1 .. L : q[i] = q[j] => i = j
  BY <1>1 DEF Path, Apart
<1>5. L # 0 => Trail(s, q) /\ c \in Around(s, q[L])
  <2> SUFFICES ASSUME L # 0 PROVE Trail(s, q) /\ c \in Around(s, q[L])
    OBVIOUS
  <2>1. s.frames # <<>>
    BY CursOf
  <2>2. Top(s) = s.frames[L] /\ L \in 1 .. L
    BY <1>1, <2>1, TopOf
  <2>3. QED BY <1>1, <2>1, <2>2, WalkTrail
<1> HIDE DEF L, q, z
<1>6. 1 .. L + 1 = 1 .. L \cup {L + 1} /\ L + 1 - 1 = L
  BY <1>1
<1>7. Distinct(z)
  <2>1. ASSUME NEW i \in 1 .. L + 1, NEW j \in 1 .. L + 1, z[i] = z[j] PROVE i = j
    BY <1>2, <1>3, <1>4, <1>6, <2>1
  <2>2. QED BY <1>2, <2>1 DEF Distinct
<1>8. z # <<>>
  BY <1>1, <1>2, EmptySeq
<1>9. ASSUME NEW i \in 1 .. L PROVE z[i + 1] \in Around(s, z[i])
  <2>1. CASE i = L
    BY <1>1, <1>2, <1>5, <1>9, <2>1
  <2>2. CASE i # L
    <3>1. i \in 1 .. L - 1 /\ i + 1 \in 1 .. L /\ L # 0
      BY <1>1, <1>9, <2>2
    <3>2. q[i + 1] \in Around(s, q[i])
      BY <1>1, <1>5, <3>1 DEF Trail
    <3>3. QED BY <1>2, <3>1, <3>2
  <2>3. QED BY <2>1, <2>2
<1>10. \A i \in 1 .. Len(z) - 1 : z[i + 1] \in Around(s, z[i])
  BY <1>2, <1>6, <1>9
<1>11. QED BY <1>2, <1>7, <1>8, <1>10 DEF Trail, z

(* No trail goes on over a marked cell. *)
LEMMA NoTrailThrough ==
  ASSUME NEW s \in EngineType, Path(s), NEW c \in Cells(s), s.visited[c], NEW p, Trail(s, p)
  PROVE  ~Begins(p, Append(Curs(s), c))
<1> DEFINE L == Len(s.frames)
           q == Curs(s)
           z == Append(Curs(s), c)
<1>1. L \in Nat /\ Len(q) = L /\ \A i \in 1 .. L : q[i] = s.frames[i].cur
  BY CursOf
<1>2. Len(z) = L + 1 /\ z[L + 1] = c /\ \A k \in 1 .. L : z[k] = q[k]
  BY CursSeq DEF Path
<1>3. PICK i \in 1 .. L : q[i] = c
  BY <1>1 DEF Path
<1>4. p \in Seq(Cells(s)) /\ Distinct(p)
  BY DEF Trail
<1> HIDE DEF L, q, z
<1>5. ASSUME Begins(p, z) PROVE FALSE
  <2>1. L + 1 <= Len(p) /\ \A k \in 1 .. L + 1 : p[k] = z[k]
    BY <1>2, <1>5 DEF Begins
  <2>2. i \in 1 .. L + 1 /\ L + 1 \in 1 .. L + 1 /\ i \in 1 .. Len(p) /\ L + 1 \in 1 .. Len(p)
        /\ i # L + 1
    BY <1>1, <1>3, <1>4, <2>1
  <2>3. p[i] = p[L + 1]
    BY <1>2, <1>3, <2>1, <2>2
  <2>4. QED BY <1>4, <2>2, <2>3 DEF Distinct
<1>6. QED BY <1>5 DEF z

(* The cell a direction leads to. *)
LEMMA LeadsAround ==
  ASSUME NEW s \in EngineType, Sized(s), OnCells(s), s.frames # <<>>, Top(s).next < s.degree,
         NEW n, Leads(s, n)
  PROVE  n \in Around(s, Top(s).cur) /\ n \in Cells(s) /\ n \in Cell /\ n \in Nat
<1>1. Top(s).next \in Nat /\ Top(s).cur \in Cells(s)
  BY AtTop
<1>2. Top(s).next \in 0 .. s.degree - 1
  <2>1. s.degree \in {4, 8}
    BY DEF EngineType
  <2>2. QED BY <1>1, <2>1
<1>3. n \in Around(s, Top(s).cur)
  BY <1>2 DEF Leads, Around
<1>4. n \in Cells(s)
  BY <1>1, <1>3, AroundOf
<1>5. n \in Cell /\ n \in Nat
  BY <1>4, CellsFit, MaxCellsIsNat DEF Cell
<1>6. QED BY <1>3, <1>4, <1>5

(* The next frame of the frames, and how far along it is. *)
LEMMA NewFrames ==
  ASSUME NEW c \in Nat
  PROVE  /\ \A n \in Nat : LET f == [Frame(c) EXCEPT !.walked = n]
                           IN  f \in FrameType /\ f.cur = c /\ f.next = 0 /\ f.walked = n
         /\ \A n \in Nat : LET f == [Frame(c) EXCEPT !.char_index = n]
                           IN  f \in FrameType /\ f.cur = c /\ f.next = 0 /\ f.char_index = n
         /\ \A n \in Seq(Int) : LET f == [Frame(c) EXCEPT !.node = n]
                                IN  f \in FrameType /\ f.cur = c /\ f.next = 0 /\ f.node = n
<1>1. Frame(c) = [cur |-> c, next |-> 0, char_index |-> 0, node |-> <<>>, best |-> 1, walked |-> 0]
  BY DEF Frame
<1>2. ASSUME NEW n \in Nat
      PROVE  LET f == [Frame(c) EXCEPT !.walked = n] IN f.cur = c /\ f.next = 0 /\ f.walked = n
  BY <1>1
<1>3. ASSUME NEW n \in Nat
      PROVE  LET f == [Frame(c) EXCEPT !.char_index = n]
             IN  f.cur = c /\ f.next = 0 /\ f.char_index = n
  BY <1>1
<1>4. ASSUME NEW n \in Seq(Int)
      PROVE  LET f == [Frame(c) EXCEPT !.node = n] IN f.cur = c /\ f.next = 0 /\ f.node = n
  BY <1>1
<1>5. QED BY <1>2, <1>3, <1>4, FrameIs

(* What the first m frames of both hold is the same. *)
Kept(s, t, m) ==
  \A i \in 1 .. m :
    /\ t.frames[i].cur = s.frames[i].cur /\ t.frames[i].walked = s.frames[i].walked
    /\ t.frames[i].char_index = s.frames[i].char_index /\ t.frames[i].node = s.frames[i].node

(* A direction tried changes nothing else. *)
LEMMA MovedKeeps ==
  ASSUME NEW s \in EngineType, s.frames # <<>>, NEW t, Moved(s, t)
  PROVE  Kept(s, t, Len(s.frames))
<1> DEFINE L == Len(s.frames)
           f == Top(s)
           k == f.next + 1
<1>1. L \in Nat \ {0} /\ f = s.frames[L] /\ f \in FrameType
  BY TopOf
<1>2. t.frames[L] = [f EXCEPT !.next = k] /\ \A i \in 1 .. L : i # L => t.frames[i] = s.frames[i]
  BY DEF Moved
<1> HIDE DEF L, k, f
<1>3. /\ t.frames[L].cur = f.cur /\ t.frames[L].walked = f.walked
      /\ t.frames[L].char_index = f.char_index /\ t.frames[L].node = f.node
  BY <1>1, <1>2 DEF FrameType
<1>4. QED BY <1>1, <1>2, <1>3 DEF Kept, L

(* Nor does a frame pushed, or one popped. *)
LEMMA AppendKeeps ==
  ASSUME NEW s \in EngineType, NEW t, NEW f \in FrameType, t.frames = Append(s.frames, f)
  PROVE  Kept(s, t, Len(s.frames)) /\ Len(t.frames) = Len(s.frames) + 1
         /\ t.frames[Len(s.frames) + 1] = f
BY Appended DEF Kept

(* A popped frame leaves those below it as they were. *)
LEMMA FrontKeeps ==
  ASSUME NEW s \in EngineType, s.frames # <<>>, NEW t, t.frames = Front(s.frames)
  PROVE  Kept(s, t, Len(s.frames) - 1) /\ Len(t.frames) = Len(s.frames) - 1
BY TopOf DEF Kept

(* Unique paths walks on over frames that hold what they held. *)
LEMMA StridesKept ==
  ASSUME NEW s \in EngineType, Strides(s), NEW t \in EngineType, Alike(s, t),
         Len(t.frames) <= Len(s.frames), Kept(s, t, Len(t.frames))
  PROVE  Strides(t)
<1> DEFINE n == Len(s.frames)
           m == Len(t.frames)
<1>1. n \in Nat /\ m \in Nat /\ m <= n /\ t.grid = s.grid
  BY CursOf DEF Alike
<1>2. \A i \in 1 .. n : /\ s.frames[i].walked = i
                        /\ i # 1 => s.grid[s.frames[i].cur] # -1
                        /\ i # n => s.grid[s.frames[i].cur] # 2
  BY DEF Strides
<1>3. \A i \in 1 .. m : t.frames[i].cur = s.frames[i].cur /\ t.frames[i].walked = s.frames[i].walked
  BY DEF Kept
<1> HIDE DEF n, m
<1>4. \A i \in 1 .. m : i \in 1 .. n /\ (i # m => i # n)
  BY <1>1
<1>5. QED BY <1>1, <1>2, <1>3, <1>4 DEF Strides, m

(* A frame pushed on a free cell keeps unique paths striding. *)
LEMMA StridesGrow ==
  ASSUME NEW s \in EngineType, Strides(s), s.frames # <<>>, NEW t, Alike(s, t),
         Len(t.frames) = Len(s.frames) + 1, Kept(s, t, Len(s.frames)),
         t.frames[Len(s.frames) + 1].walked = Top(s).walked + 1,
         s.grid[t.frames[Len(s.frames) + 1].cur] # -1, s.grid[Top(s).cur] # 2
  PROVE  Strides(t)
<1> DEFINE n == Len(s.frames)
<1>1. n \in Nat \ {0} /\ t.grid = s.grid /\ Top(s) = s.frames[n]
  BY TopOf DEF Alike
<1>2. \A i \in 1 .. n : /\ s.frames[i].walked = i
                        /\ i # 1 => s.grid[s.frames[i].cur] # -1
                        /\ i # n => s.grid[s.frames[i].cur] # 2
  BY DEF Strides
<1>3. \A i \in 1 .. n : t.frames[i].cur = s.frames[i].cur /\ t.frames[i].walked = s.frames[i].walked
  BY DEF Kept
<1>4. Len(t.frames) = n + 1
  OBVIOUS
<1> DEFINE g == t.frames[n + 1]
<1>5. g.walked = Top(s).walked + 1 /\ s.grid[g.cur] # -1
  OBVIOUS
<1>6. g = t.frames[n + 1]
  OBVIOUS
<1> HIDE DEF n, g
<1>7. n \in 1 .. n /\ 1 .. n + 1 = 1 .. n \cup {n + 1} /\ n + 1 # 1
  BY <1>1
<1>8. g.walked = n + 1
  BY <1>1, <1>2, <1>5, <1>7
<1>9. ASSUME NEW i \in 1 .. n + 1
      PROVE  /\ t.frames[i].walked = i
             /\ i # 1 => t.grid[t.frames[i].cur] # -1
             /\ i # n + 1 => t.grid[t.frames[i].cur] # 2
  <2>1. CASE i = n + 1
    BY <1>1, <1>5, <1>6, <1>7, <1>8, <2>1
  <2>2. CASE i \in 1 .. n
    <3>1. /\ s.frames[i].walked = i
          /\ i # 1 => s.grid[s.frames[i].cur] # -1
          /\ i # n => s.grid[s.frames[i].cur] # 2
      BY <1>2, <2>2
    <3>2. t.frames[i].cur = s.frames[i].cur /\ t.frames[i].walked = s.frames[i].walked
      BY <1>3, <2>2
    <3>3. s.grid[s.frames[n].cur] # 2
      BY <1>1
    <3>4. QED BY <1>1, <3>1, <3>2, <3>3
  <2>3. QED BY <1>7, <2>1, <2>2
<1>10. QED BY <1>4, <1>9 DEF Strides

(* The number of paths counted stays, or grows by the one that was walked. *)
LEMMA CountsOn ==
  ASSUME NEW s, NEW v, Counts(s, v), NEW t, Alike(s, t),
         \A p : FullPath(s, p) => (Done(t, {StartOf(s)}, p) <=> Done(s, {StartOf(s)}, p))
  PROVE  Counts(t, v)
<1>1. StartOf(t) = StartOf(s) /\ \A p : FullPath(t, p) <=> FullPath(s, p)
  BY SameTrails
<1>2. PICK S : /\ IsFiniteSet(S) /\ v = Cardinality(S)
               /\ \A p : p \in S <=> FullPath(s, p) /\ Done(s, {StartOf(s)}, p)
  BY DEF Counts
<1>3. \A p : p \in S <=> FullPath(t, p) /\ Done(t, {StartOf(t)}, p)
  BY <1>1, <1>2
<1>4. QED BY <1>2, <1>3 DEF Counts

(* One full path more that the search is done with is one more counted. *)
LEMMA CountsOne ==
  ASSUME NEW s, NEW v, Counts(s, v), NEW t, Alike(s, t),
         NEW z, FullPath(s, z), ~Done(s, {StartOf(s)}, z),
         \A p : FullPath(s, p) => (Done(t, {StartOf(s)}, p) <=> Done(s, {StartOf(s)}, p) \/ p = z)
  PROVE  Counts(t, v + 1)
<1>1. StartOf(t) = StartOf(s) /\ \A p : FullPath(t, p) <=> FullPath(s, p)
  BY SameTrails
<1>2. PICK S : /\ IsFiniteSet(S) /\ v = Cardinality(S)
               /\ \A p : p \in S <=> FullPath(s, p) /\ Done(s, {StartOf(s)}, p)
  BY DEF Counts
<1>3. z \notin S
  BY <1>2
<1>4. IsFiniteSet(S \cup {z}) /\ Cardinality(S \cup {z}) = v + 1
  BY <1>2, <1>3, FS_AddElement
<1>5. \A p : p \in S \cup {z} <=> FullPath(t, p) /\ Done(t, {StartOf(t)}, p)
  BY <1>1, <1>2
<1>6. QED BY <1>4, <1>5 DEF Counts

(* A path ends on the first target it meets. *)
LEMMA AtTarget ==
  ASSUME NEW s \in EngineType, NEW p, FullPath(s, p), NEW i \in 1 .. Len(p), s.grid[p[i]] = 2
  PROVE  i = Len(p)
BY DEF FullPath

(* The frames on a target are a path, if they are as many as there are free
   cells. *)
LEMMA WalkedPath ==
  ASSUME NEW s \in EngineType, Path(s), s.frames # <<>>, Threaded(s, {StartOf(s)}), Strides(s),
         s.grid[Top(s).cur] = 2
  PROVE  FullPath(s, Curs(s)) <=> Top(s).walked = Cardinality(FreeCells(s))
<1> DEFINE L == Len(s.frames)
           q == Curs(s)
<1>1. L \in Nat \ {0} /\ Top(s) = s.frames[L] /\ Len(q) = L
      /\ \A i \in 1 .. L : q[i] = s.frames[i].cur
  BY TopOf, CursOf
<1>2. Trail(s, q) /\ q[1] = StartOf(s)
  BY WalkTrail
<1>3. \A i \in 1 .. L : /\ s.frames[i].walked = i
                        /\ i # 1 => s.grid[s.frames[i].cur] # -1
                        /\ i # L => s.grid[s.frames[i].cur] # 2
  BY DEF Strides
<1> HIDE DEF L, q
<1>4. L \in 1 .. L
  BY <1>1
<1>5. Top(s).walked = L
  BY <1>1, <1>3, <1>4
<1>6. \A i \in 1 .. L : /\ i # 1 => s.grid[q[i]] # -1
                        /\ s.grid[q[i]] = 2 <=> i = L
  BY <1>1, <1>3, <1>4
<1>7. QED BY <1>1, <1>2, <1>5, <1>6 DEF FullPath, q

(* What the invariants say in the loop of unique paths, and what keeps it. *)
LEMMA WhilePaths ==
  ASSUME IInv, WInv, pc = "paths", e.frames # <<>>
  PROVE  /\ e \in EngineType /\ Sized(e) /\ OnCells(e) /\ Path(e)
         /\ Loaded(e, job) /\ e.words = WordsOf(job)
         /\ Threaded(e, {StartOf(e)}) /\ Strides(e) /\ Counts(e, value)
<1>1. e \in EngineType /\ Sized(e) /\ OnCells(e) /\ Path(e)
  BY OnPath
<1>2. QED BY <1>1 DEF WInv, Walked

(* What keeps the invariant in that loop. *)
LEMMA PathsWalkOn ==
  ASSUME Alike(e, e'), pc' = "paths", job' = job, Loaded(e, job), e.words = WordsOf(job),
         Threaded(e', {StartOf(e)}), Strides(e'), Counts(e', value')
  PROVE  WInv'
<1>1. StartOf(e') = StartOf(e)
  BY SameTrails
<1>2. Loaded(e', job')
  BY SameGraph
<1>3. e'.words = WordsOf(job')
  BY DEF Alike
<1>4. Threaded(e', {StartOf(e')})
  BY <1>1
<1>5. QED BY <1>2, <1>3, <1>4 DEF WInv, Walked

(* Unique paths enters its start with nothing walked. *)
LEMMA PathsStartWalks == IInv /\ WInv /\ PathsStart => WInv'
<1> SUFFICES ASSUME IInv, WInv, PathsStart PROVE WInv'
  OBVIOUS
<1> DEFINE c == StartOf(e)
           f == [Frame(c) EXCEPT !.walked = 1]
           m == mark_visited(e, c)
<1>1. /\ e \in EngineType /\ Sized(e) /\ e.stack = <<>> /\ e.frames = <<>>
      /\ Loaded(e, job) /\ e.words = WordsOf(job) /\ value = 0
  BY DEF IInv, Shape, Spreads, Walks, PathsStart, WInv, Walked
<1>2. Start = c
  BY DEF Start, StartOf, Ones
<1>3. c \in Cells(e) /\ c \in Cell /\ c \in Nat
  BY <1>1, <1>2, StartIsCell, CellsFit, MaxCellsIsNat DEF Cell
<1>4. f \in FrameType /\ f.cur = c /\ f.next = 0 /\ f.walked = 1
  <2>1. 1 \in Nat /\ c \in Nat
    BY <1>3
  <2> HIDE DEF c
  <2>2. QED BY <2>1, NewFrames
<1>5. pc' = "paths" /\ job' = job /\ value' = value /\ e' = push_frame(m, f)
  BY <1>2 DEF PathsStart, call
<1> HIDE DEF c, f
<1>6. m \in EngineType /\ Alike(e, m) /\ m.frames = e.frames
  BY <1>1, <1>3, MarkVisited
<1> HIDE DEF m
<1>7. e' \in EngineType /\ Alike(m, e') /\ e'.frames = Append(m.frames, f)
  BY <1>4, <1>5, <1>6, PushFrame
<1>8. Alike(e, e') /\ e'.frames = Append(e.frames, f)
  BY <1>6, <1>7 DEF Alike
<1>9. Grows(e, {}, e', {} \cup {c}, c)
  BY <1>1, <1>3, <1>4, <1>7, <1>8, FirstEntered
<1>10. {} \cup {c} = {c}
  OBVIOUS
<1>11. Len(e.frames) = 0
  BY <1>1
<1>12. Strides(e')
  <2>1. Len(e'.frames) = 1 /\ e'.frames[1] = f
    <3>1. Len(e'.frames) = 0 + 1 /\ e'.frames[0 + 1] = f
      BY <1>1, <1>4, <1>8, <1>11, AppendKeeps
    <3>2. QED BY <3>1
  <2>2. QED BY <1>4, <2>1 DEF Strides
<1>13. \A p \in Seq(Cells(e)) : ~Done(e', {c}, p)
  <2>1. Turned(e, {})[0] = {} /\ Len(Curs(e)) = 0
    BY <1>1, <1>11, TurnedOf, CursOf
  <2>2. \A p : ~Passed(Curs(e), Turned(e, {}), p)
    BY <2>1 DEF Passed
  <2>3. QED BY <1>9, <1>10, <2>2 DEF Grows, Done
<1>14. Counts(e', 0)
  <2>1. StartOf(e') = c /\ Cells(e') = Cells(e)
    BY <1>8, SameTrails DEF c
  <2>2. \A p : p \in {} <=> FullPath(e', p) /\ Done(e', {StartOf(e')}, p)
    <3>1. \A p : FullPath(e', p) => p \in Seq(Cells(e))
      BY <2>1 DEF FullPath, Trail
    <3>2. QED BY <1>13, <2>1, <3>1
  <2>3. IsFiniteSet({}) /\ Cardinality({}) = 0
    BY FS_EmptySet
  <2>4. QED BY <2>2, <2>3 DEF Counts
<1>15. Threaded(e', {StartOf(e)})
  BY <1>9, <1>10 DEF Grows, c
<1>16. QED BY <1>1, <1>5, <1>8, <1>12, <1>14, <1>15, PathsWalkOn

(* A full path is a sequence of cells. *)
LEMMA FullIsTrail ==
  ASSUME NEW s, NEW p, FullPath(s, p)
  PROVE  Trail(s, p) /\ p \in Seq(Cells(s))
BY DEF FullPath, Trail

(* It tries a direction. *)
LEMMA PathsStepWalks == IInv /\ WInv /\ PathsStep => WInv'
<1> SUFFICES ASSUME IInv, WInv, PathsStep PROVE WInv'
  OBVIOUS
<1> DEFINE u == advance(e)
           n == Neighbor(e, cur, Top(e).next)
           H == HasNeighbor(e, cur, Top(e).next)
           k == Top(e).walked + 1
           f == [Frame(n) EXCEPT !.walked = k]
           A == {StartOf(e)}
           L == Len(e.frames)
<1>1. /\ pc = "paths" /\ pc' = "paths" /\ e.frames # <<>> /\ Top(e).next < e.degree
      /\ e.grid[Top(e).cur] # 2 /\ job' = job /\ value' = value
  BY DEF PathsStep, Walking, MoreDirs, cur, call
<1>2. /\ e \in EngineType /\ Sized(e) /\ OnCells(e) /\ Path(e)
      /\ Loaded(e, job) /\ e.words = WordsOf(job)
      /\ Threaded(e, A) /\ Strides(e) /\ Counts(e, value)
  BY <1>1, WhilePaths
<1>3. e' = IF H /\ e.grid[n] # -1 /\ ~e.visited[n]
           THEN push_frame(mark_visited(u, n), f) ELSE u
  BY DEF PathsStep, TryNext, Free
<1>4. H => Leads(e, n)
  BY DEF Leads, cur
<1>5. H => n \in Cells(e) /\ n \in Cell /\ n \in Nat
  BY <1>1, <1>2, <1>4, LeadsAround
<1>6. k \in Nat /\ L \in Nat \ {0}
  BY <1>1, <1>2, AtTop, TopOf
<1>7. Moved(e, u) /\ u.visited = e.visited
  BY <1>1, <1>2, AdvanceMoves
<1>8. u \in EngineType /\ Alike(e, u) /\ Len(u.frames) = L
  BY <1>7 DEF Moved
<1>9. Kept(e, u, L)
  BY <1>1, <1>2, <1>7, MovedKeeps
<1>10. H <=> HasNeighbor(e, Top(e).cur, Top(e).next)
  BY DEF cur
<1> HIDE DEF u, n, H, A
<1>11. CASE e' = u
  <2> HIDE DEF k, f
  <2>1. Strides(u)
    <3>1. L <= L
      BY <1>6
    <3>2. QED BY <1>2, <1>8, <1>9, <3>1, StridesKept
  <2>2. CASE ~H
    <3>1. Stands(e, A, u)
      BY <1>1, <1>2, <1>7, <1>10, <2>2, TurnsOff
    <3>2. \A p : FullPath(e, p) => (Done(u, A, p) <=> Done(e, A, p))
      BY <3>1, FullIsTrail DEF Stands
    <3>3. Counts(u, value) /\ Threaded(u, A)
      BY <1>2, <1>8, <3>1, <3>2, CountsOn DEF A, Stands
    <3>4. QED BY <1>1, <1>2, <1>8, <1>11, <2>1, <3>3, PathsWalkOn DEF A
  <2>3. CASE H
    <3>1. Skips(e, A, u, A, n)
      BY <1>1, <1>2, <1>4, <1>7, <2>3, TurnsTo
    <3>2. e.grid[n] = -1 \/ e.visited[n]
      <4>1. CASE e.grid[n] # -1 /\ ~e.visited[n]
        <5> DEFINE m == mark_visited(u, n)
        <5>1. e' = push_frame(m, f)
          BY <1>3, <2>3, <4>1
        <5>2. m \in EngineType /\ Alike(u, m) /\ m.frames = u.frames
          BY <1>5, <1>8, <2>3, MarkVisited
        <5>3. f \in FrameType
          BY <1>5, <1>6, <2>3, NewFrames DEF f
        <5> HIDE DEF m
        <5>4. e'.frames = Append(m.frames, f)
          BY <5>1, <5>2, <5>3, PushFrame
        <5>5. Len(e'.frames) = L + 1
          BY <1>8, <5>2, <5>3, <5>4, Appended
        <5>6. QED BY <1>6, <1>8, <1>11, <5>5
      <4>2. QED BY <4>1
    <3>3. ASSUME NEW p, FullPath(e, p) PROVE ~Begins(p, Append(Curs(e), n))
      <4>1. Trail(e, p) /\ p \in Seq(Cells(e))
        BY <3>3, FullIsTrail
      <4>2. CASE e.visited[n]
        BY <1>2, <1>5, <2>3, <4>1, <4>2, NoTrailThrough
      <4>3. CASE e.grid[n] = -1
        <5>1. Len(Append(Curs(e), n)) = L + 1 /\ Append(Curs(e), n)[L + 1] = n
          BY <1>2, <1>5, <2>3, CursSeq
        <5>2. ASSUME Begins(p, Append(Curs(e), n)) PROVE FALSE
          <6>1. L + 1 <= Len(p) /\ L + 1 \in 1 .. L + 1 /\ L + 1 # 1
            BY <1>6, <5>1, <5>2 DEF Begins
          <6>2. p[L + 1] = n
            BY <5>1, <5>2, <6>1 DEF Begins
          <6>3. L + 1 \in 1 .. Len(p)
            BY <1>6, <4>1, <6>1
          <6>4. QED BY <3>3, <4>3, <6>1, <6>2, <6>3 DEF FullPath
        <5>3. QED BY <5>2
      <4>4. QED BY <3>2, <4>2, <4>3
    <3>4. \A p : FullPath(e, p) => (Done(u, A, p) <=> Done(e, A, p))
      BY <3>1, <3>3, FullIsTrail DEF Skips
    <3>5. Counts(u, value) /\ Threaded(u, A)
      BY <1>2, <1>8, <3>1, <3>4, CountsOn DEF A, Skips
    <3>6. QED BY <1>1, <1>2, <1>8, <1>11, <2>1, <3>5, PathsWalkOn DEF A
  <2>4. QED BY <2>2, <2>3
<1>12. CASE H /\ e.grid[n] # -1 /\ ~e.visited[n] /\ e' = push_frame(mark_visited(u, n), f)
  <2> DEFINE m == mark_visited(u, n)
  <2>1. f \in FrameType /\ f.cur = n /\ f.next = 0 /\ f.walked = k
    <3> HIDE DEF k
    <3>1. n \in Nat /\ k \in Nat
      BY <1>5, <1>6, <1>12
    <3>2. QED BY <3>1, NewFrames
  <2> HIDE DEF f
  <2>2. m \in EngineType /\ Alike(u, m) /\ m.frames = u.frames
    BY <1>5, <1>8, <1>12, MarkVisited
  <2>3. e' = push_frame(m, f)
    BY <1>12
  <2> HIDE DEF m
  <2>4. e' \in EngineType /\ Alike(m, e') /\ e'.frames = Append(m.frames, f)
    BY <2>1, <2>2, <2>3, PushFrame
  <2>5. Alike(u, e') /\ Alike(e, e') /\ e'.frames = Append(u.frames, f)
    BY <1>8, <2>2, <2>4 DEF Alike
  <2>6. Grows(e, A, e', A, n)
    BY <1>1, <1>2, <1>4, <1>7, <1>12, <2>1, <2>4, <2>5, GoesTo
  <2>7. \A p : FullPath(e, p) => (Done(e', A, p) <=> Done(e, A, p))
    BY <2>6, FullIsTrail DEF Grows
  <2>8. Counts(e', value) /\ Threaded(e', A)
    BY <1>2, <2>5, <2>6, <2>7, CountsOn DEF A, Grows
  <2>9. Kept(u, e', L) /\ Len(e'.frames) = L + 1 /\ e'.frames[L + 1] = f
    <3>1. u \in EngineType /\ f \in FrameType /\ Len(u.frames) = L
      BY <1>8, <2>1
    <3>2. e'.frames = Append(u.frames, f)
      BY <2>5
    <3> HIDE DEF L
    <3>3. Kept(u, e', Len(u.frames)) /\ Len(e'.frames) = Len(u.frames) + 1
          /\ e'.frames[Len(u.frames) + 1] = f
      BY <3>1, <3>2, AppendKeeps
    <3>4. QED BY <3>1, <3>3
  <2>10. Kept(e, e', L)
    BY <1>9, <2>9 DEF Kept
  <2>11. Strides(e')
    BY <1>1, <1>2, <1>12, <2>1, <2>5, <2>9, <2>10, StridesGrow
  <2>12. QED BY <1>1, <1>2, <2>5, <2>8, <2>11, PathsWalkOn DEF A
<1>13. QED BY <1>3, <1>11, <1>12

(* Backtrack drops the innermost frame. *)
LEMMA BacktrackDrops ==
  ASSUME NEW s \in EngineType, Sized(s), OnCells(s), s.frames # <<>>, NEW t, t = Backtrack(s)
  PROVE  t \in EngineType /\ Alike(s, t) /\ t.frames = Front(s.frames)
<1>1. CASE Len(s.frames) = 1
  <2>1. t = pop_frame(s)
    BY <1>1 DEF Backtrack
  <2>2. QED BY <2>1, PopFrame
<1>2. CASE Len(s.frames) # 1
  <2>1. t = unmark_visited(pop_frame(s), Top(s).cur)
    BY <1>2 DEF Backtrack
  <2>2. t \in EngineType /\ Leaves(s, t)
    BY <2>1, LeaveFrame
  <2>3. QED BY <2>2 DEF Leaves
<1>3. QED BY <1>1, <1>2

(* It goes back from a cell with no direction left: the paths that go on from
   there are counted. *)
LEMMA PathsBackWalks == IInv /\ WInv /\ PathsBack => WInv'
<1> SUFFICES ASSUME IInv, WInv, PathsBack PROVE WInv'
  OBVIOUS
<1> DEFINE A == {StartOf(e)}
           L == Len(e.frames)
<1>1. /\ pc = "paths" /\ pc' = "paths" /\ e.frames # <<>> /\ ~(Top(e).next < e.degree)
      /\ e.grid[Top(e).cur] # 2 /\ job' = job /\ value' = value /\ e' = Backtrack(e)
  BY DEF PathsBack, Walking, MoreDirs, cur, call
<1>2. /\ e \in EngineType /\ Sized(e) /\ OnCells(e) /\ Path(e)
      /\ Loaded(e, job) /\ e.words = WordsOf(job)
      /\ Threaded(e, A) /\ Strides(e) /\ Counts(e, value)
  BY <1>1, WhilePaths
<1>3. e' \in EngineType /\ Alike(e, e') /\ e'.frames = Front(e.frames)
  BY <1>1, <1>2, BacktrackDrops
<1>4. Shrinks(e, A, e')
  BY <1>1, <1>2, <1>3, Returns
<1>5. L \in Nat \ {0} /\ Top(e) = e.frames[L] /\ Len(Curs(e)) = L
      /\ \A i \in 1 .. L : Curs(e)[i] = e.frames[i].cur
  BY <1>1, <1>2, TopOf, CursOf
<1> HIDE DEF A
<1>6. ASSUME NEW p, FullPath(e, p), Begins(p, Curs(e)) PROVE Done(e, A, p)
  <2>1. Trail(e, p) /\ p \in Seq(Cells(e))
    BY <1>6, FullIsTrail
  <2>2. Len(p) # L
    <3>1. ASSUME Len(p) = L PROVE FALSE
      <4>1. L \in 1 .. L
        BY <1>5
      <4>2. p[L] = Top(e).cur
        BY <1>5, <1>6, <4>1 DEF Begins
      <4>3. e.grid[p[L]] = 2
        BY <1>6, <3>1, <4>1 DEF FullPath
      <4>4. QED BY <1>1, <4>2, <4>3
    <3>2. QED BY <3>1
  <2>3. QED BY <1>1, <1>2, <1>6, <2>1, <2>2, AllTurned
<1>7. \A p : FullPath(e, p) => (Done(e', A, p) <=> Done(e, A, p))
  BY <1>4, <1>6, FullIsTrail DEF Shrinks
<1>8. Counts(e', value') /\ Threaded(e', A)
  BY <1>1, <1>2, <1>3, <1>4, <1>7, CountsOn DEF A, Shrinks
<1>9. Strides(e')
  <2>1. Kept(e, e', L - 1) /\ Len(e'.frames) = L - 1
    BY <1>1, <1>2, <1>3, FrontKeeps
  <2>2. L - 1 <= L
    BY <1>5
  <2>3. QED BY <1>2, <1>3, <2>1, <2>2, StridesKept
<1>10. QED BY <1>1, <1>2, <1>3, <1>8, <1>9, PathsWalkOn DEF A

(* It goes back from a target: the one path that ends there is counted, if it
   is one. *)
LEMMA PathsTargetWalks == IInv /\ WInv /\ PathsTarget => WInv'
<1> SUFFICES ASSUME IInv, WInv, PathsTarget PROVE WInv'
  OBVIOUS
<1> DEFINE A == {StartOf(e)}
           L == Len(e.frames)
           z == Curs(e)
<1>1. /\ pc = "paths" /\ pc' = "paths" /\ e.frames # <<>>
      /\ e.grid[Top(e).cur] = 2 /\ job' = job /\ e' = Backtrack(e)
      /\ value' = IF Top(e).walked = Walkable THEN value + 1 ELSE value
  BY DEF PathsTarget, Walking, cur, call
<1>2. /\ e \in EngineType /\ Sized(e) /\ OnCells(e) /\ Path(e)
      /\ Loaded(e, job) /\ e.words = WordsOf(job)
      /\ Threaded(e, A) /\ Strides(e) /\ Counts(e, value)
  BY <1>1, WhilePaths
<1>3. e' \in EngineType /\ Alike(e, e') /\ e'.frames = Front(e.frames)
  BY <1>1, <1>2, BacktrackDrops
<1>4. Shrinks(e, A, e')
  BY <1>1, <1>2, <1>3, Returns
<1>5. L \in Nat \ {0} /\ Top(e) = e.frames[L] /\ Len(z) = L /\ z \in Seq(Cells(e))
      /\ \A i \in 1 .. L : z[i] = e.frames[i].cur
  BY <1>1, <1>2, TopOf, CursOf, CursSeq
<1>6. FullPath(e, z) <=> Top(e).walked = Walkable
  BY <1>1, <1>2, WalkedPath DEF Walkable, FreeCells
<1>7. ~Done(e, A, z)
  <2>1. Begins(z, z) /\ Len(z) \in Nat
    BY <1>5 DEF Begins
  <2>2. QED BY <1>2, <2>1, NotOwn
<1>8. ASSUME NEW p, FullPath(e, p), Begins(p, z) PROVE p = z
  <2>1. p \in Seq(Cells(e))
    BY <1>8, FullIsTrail
  <2>2. L \in 1 .. L /\ L \in 1 .. Len(p)
    BY <1>5, <1>8, <2>1 DEF Begins
  <2>3. p[L] = Top(e).cur
    BY <1>5, <1>8, <2>2 DEF Begins
  <2>4. Len(p) = L
    BY <1>1, <1>2, <1>8, <2>2, <2>3, AtTarget
  <2>5. QED BY <1>5, <1>8, <2>1, <2>4, BeginsAlike
<1>9. Begins(z, z)
  BY <1>5 DEF Begins
<1>10. \A p : FullPath(e, p) => (Done(e', A, p) <=> Done(e, A, p) \/ p = z)
  BY <1>4, <1>8, <1>9, FullIsTrail DEF Shrinks
<1> HIDE DEF A, z
<1>11. Counts(e', value')
  <2>1. CASE FullPath(e, z)
    <3>1. Counts(e', value + 1)
      BY <1>2, <1>3, <1>7, <1>10, <2>1, CountsOne DEF A
    <3>2. QED BY <1>1, <1>6, <2>1, <3>1
  <2>2. CASE ~FullPath(e, z)
    <3>1. \A p : FullPath(e, p) => (Done(e', A, p) <=> Done(e, A, p))
      BY <1>10, <2>2
    <3>2. Counts(e', value)
      BY <1>2, <1>3, <3>1, CountsOn DEF A
    <3>3. QED BY <1>1, <1>6, <2>2, <3>2
  <2>3. QED BY <2>1, <2>2
<1>12. Strides(e')
  <2>1. Kept(e, e', L - 1) /\ Len(e'.frames) = L - 1
    BY <1>1, <1>2, <1>3, FrontKeeps
  <2>2. L - 1 <= L
    BY <1>5
  <2>3. QED BY <1>2, <1>3, <2>1, <2>2, StridesKept
<1>13. Threaded(e', {StartOf(e)})
  BY <1>4 DEF Shrinks, A
<1>14. QED BY <1>1, <1>2, <1>3, <1>11, <1>12, <1>13, PathsWalkOn

(* Neither writes the words found. *)
LEMMA FoundStays ==
  ASSUME NEW s \in EngineType, NEW d, NEW c
  PROVE  /\ note_depth(s, d).word_found = s.word_found
         /\ mark_visited(s, c).word_found = s.word_found
         /\ [s EXCEPT !.expanded_nodes = @ + 1].word_found = s.word_found
BY DEF note_depth, mark_visited, EngineType

(* What enter_trie does at a node and off the trie. *)
EntersAs(s, t, c, nxt) ==
  \E f \in FrameType : f.cur = c /\ f.next = 0 /\ f.node = nxt /\ t.frames = Append(s.frames, f)

(* enter_trie pushes a frame and notes the words of a node, or neither. *)
LEMMA EnterTrieAt ==
  ASSUME e \in EngineType, NEW s \in EngineType, NEW c \in Cell, NEW node \in Seq(Int),
         NEW nxt, nxt = Append(node, e.grid[c]), NEW t, t = enter_trie(s, c, node)
  PROVE  /\ t \in EngineType /\ Alike(s, t) /\ nxt \in Seq(Int)
         /\ nxt \notin Trie => t.frames = s.frames /\ t.word_found = s.word_found
         /\ nxt \in Trie => /\ EntersAs(s, t, c, nxt)
                            /\ t.word_found = s.word_found \cup trie_word(nxt)
<1> DEFINE x == [s EXCEPT !.expanded_nodes = @ + 1]
           u == note_depth(x, Len(s.frames) + 1)
           N == Append(node, e.grid[c])
           f == [Frame(c) EXCEPT !.node = N]
           w == [mark_visited(u, c) EXCEPT !.word_found = @ \cup trie_word(N),
                                           !.frames = Append(@, f)]
<1>1. u \in EngineType /\ Same(s, u)
  BY CountAndNote
<1>2. u.word_found = s.word_found
  <2>1. x \in EngineType
    BY CountNode
  <2>2. x.word_found = s.word_found
    BY FoundStays
  <2> HIDE DEF x
  <2>3. QED BY <2>1, <2>2, FoundStays
<1>3. N \in Seq(Int) /\ nxt = N
  <2>1. e.grid[c] \in Int
    BY DEF EngineType
  <2>2. QED BY <2>1
<1>4. trie_word(N) \in SUBSET Nat
  <2>1. e.words \in Seq(Seq(Int))
    BY DEF EngineType
  <2>2. DOMAIN e.words \subseteq Nat
    BY <2>1
  <2>3. QED BY <2>2 DEF trie_word
<1>5. c \in Nat
  BY MaxCellsIsNat DEF Cell
<1>6. f \in FrameType /\ f.cur = c /\ f.next = 0 /\ f.node = N
  BY <1>3, <1>5, NewFrames
<1>7. t = IF N \notin Trie THEN u ELSE w
  BY DEF enter_trie
<1> HIDE DEF u, N, f
<1> DEFINE m == mark_visited(u, c)
<1>8. /\ m \in EngineType /\ Alike(u, m) /\ m.frames = u.frames /\ m.word_found = u.word_found
  BY <1>1, MarkVisited, FoundStays
<1> HIDE DEF m
<1> DEFINE q == Append(m.frames, f)
           k == m.word_found \cup trie_word(N)
<1>9. q \in Seq(FrameType) /\ k \in SUBSET Nat
  <2>1. m.word_found \in SUBSET Nat
    BY <1>8 DEF EngineType
  <2>2. QED BY <1>4, <1>6, <1>8, <2>1, Appended
<1>10. w = [m EXCEPT !.word_found = k, !.frames = q]
  BY DEF m
<1> HIDE DEF q, k, w
<1>11. w \in EngineType /\ Alike(m, w) /\ w.frames = q /\ w.word_found = k
  BY <1>8, <1>9, <1>10 DEF EngineType, Alike
<1>12. CASE N \notin Trie
  <2>1. t = u
    BY <1>7, <1>12
  <2>2. QED BY <1>1, <1>2, <1>3, <1>12, <2>1 DEF Same
<1>13. CASE N \in Trie
  <2>1. t = w
    BY <1>7, <1>13
  <2>2. Alike(s, t)
    BY <1>1, <1>8, <1>11, <2>1 DEF Same, Alike
  <2>3. t.word_found = s.word_found \cup trie_word(N)
    BY <1>2, <1>8, <1>11, <2>1 DEF k
  <2>4. t.frames = Append(s.frames, f)
    BY <1>1, <1>8, <1>11, <2>1 DEF Same, q
  <2>5. EntersAs(s, t, c, N)
    BY <1>6, <2>4 DEF EntersAs
  <2>6. QED BY <1>3, <1>11, <1>13, <2>1, <2>2, <2>3, <2>5
<1>14. QED BY <1>12, <1>13

(* The words of an engine. *)
LEMMA WordsAre ==
  ASSUME NEW s \in EngineType
  PROVE  /\ s.words \in Seq(Seq(Int)) /\ DOMAIN s.words = 1 .. Len(s.words) /\ Len(s.words) \in Nat
         /\ \A w \in DOMAIN s.words : w \in Nat /\ s.words[w] \in Seq(Int)
<1>1. s.words \in Seq(Seq(Int))
  BY DEF EngineType
<1>2. QED BY <1>1

(* The words a node owns. *)
LEMMA OwnedBy ==
  ASSUME e \in EngineType, NEW nxt
  PROVE  \A w : w \in trie_word(nxt) <=> w \in DOMAIN e.words /\ Owner(e, w) /\ e.words[w] = nxt
<1>1. \A w \in DOMAIN e.words : w \in Nat
  BY WordsAre
<1>2. \A w, v \in DOMAIN e.words : v > w <=> ~(v <= w)
  BY <1>1
<1>3. QED BY <1>2 DEF trie_word, Owner

(* What a trail spells, letter by letter, and what its beginnings do. *)
LEMMA SpellsLetters ==
  ASSUME NEW s \in EngineType, NEW z, Trail(s, z), NEW W \in Seq(Int)
  PROVE  Spells(s, W, z) <=> W = Letters(s, z)
<1> DEFINE m == Len(z)
<1>1. m \in Nat
  BY DEF Trail
<1>2. W = [i \in 1 .. Len(W) |-> W[i]] /\ Len(W) \in Nat
  OBVIOUS
<1> HIDE DEF m
<1>3. Letters(s, z) = [i \in 1 .. m |-> s.grid[z[i]]]
  BY DEF Letters, m
<1>4. ASSUME Spells(s, W, z) PROVE W = Letters(s, z)
  <2>1. Len(W) = m /\ \A i \in 1 .. m : s.grid[z[i]] = W[i]
    BY <1>4 DEF Spells, m
  <2>2. QED BY <1>2, <1>3, <2>1
<1>5. ASSUME W = Letters(s, z) PROVE Spells(s, W, z)
  <2>1. Len(W) = m /\ \A i \in 1 .. m : s.grid[z[i]] = W[i]
    <3>0. DOMAIN Letters(s, z) = 1 .. m
      BY <1>3
    <3>4. DOMAIN W = 1 .. Len(W)
      OBVIOUS
    <3>1. DOMAIN W = 1 .. m /\ DOMAIN W = 1 .. Len(W)
      BY <1>5, <3>0, <3>4
    <3>2. Len(W) = m
      BY <1>1, <1>2, <3>1
    <3>3. QED BY <1>3, <1>5, <3>2
  <2>2. QED BY <2>1 DEF Spells, m
<1>6. QED BY <1>4, <1>5

(* A trail that spells a word begins with a prefix of it. *)
LEMMA PrefixInTrie ==
  ASSUME e \in EngineType, NEW w \in DOMAIN e.words, NEW p, Spells(e, e.words[w], p),
         NEW z \in Seq(Cells(e)), Begins(p, z)
  PROVE  Letters(e, z) \in Trie
<1> DEFINE W == e.words[w]
           m == Len(z)
<1>1. W \in Seq(Int) /\ m \in Nat /\ Len(W) \in Nat
  BY WordsAre
<1>2. m <= Len(W) /\ \A i \in 1 .. m : p[i] = z[i] /\ e.grid[p[i]] = W[i]
  <2>1. Len(p) = Len(W) /\ \A i \in 1 .. Len(p) : e.grid[p[i]] = W[i]
    BY DEF Spells
  <2>2. m <= Len(p) /\ \A i \in 1 .. m : p[i] = z[i]
    BY DEF Begins
  <2> HIDE DEF W, m
  <2>3. \A i \in 1 .. m : i \in 1 .. Len(p)
    BY <1>1, <2>1, <2>2
  <2>4. QED BY <2>1, <2>2, <2>3
<1>3. Letters(e, z) = [i \in 1 .. m |-> e.grid[z[i]]]
  BY DEF Letters
<1> HIDE DEF W, m
<1>4. SubSeq(W, 1, m) = [i \in 1 .. m |-> W[i]]
  BY <1>1, <1>2
<1>5. SubSeq(W, 1, m) = Letters(e, z)
  BY <1>2, <1>3, <1>4
<1>6. m \in 0 .. Len(W)
  BY <1>1, <1>2
<1>7. SubSeq(W, 1, m) \in {SubSeq(W, 1, k) : k \in 0 .. Len(W)}
  BY <1>6
<1>8. SubSeq(W, 1, m) \in Trie
  BY <1>7 DEF Trie, W
<1>9. QED BY <1>5, <1>8

(* How the trails met change with a step. *)
LEMMA MetStands ==
  ASSUME NEW s, NEW k, NEW t, Stands(s, Before(s, k), t), NEW p \in Seq(Cells(s))
  PROVE  Met(t, k, p) <=> Met(s, k, p)
<1>1. Before(t, k) = Before(s, k)
  BY SameTrails DEF Stands
<1>2. QED BY <1>1 DEF Stands, Met

(* A cell passed by changes it for no trail that does not begin there. *)
LEMMA MetSkips ==
  ASSUME NEW s, NEW k, NEW t, NEW l, NEW c, Skips(s, Before(s, k), t, Before(s, l), c),
         NEW p \in Seq(Cells(s)), ~Begins(p, Append(Curs(s), c))
  PROVE  Met(t, l, p) <=> Met(s, k, p)
<1>1. Before(t, l) = Before(s, l)
  BY SameTrails DEF Skips
<1>2. QED BY <1>1 DEF Skips, Met

(* A cell entered adds the one trail that ends on it. *)
LEMMA MetGrows ==
  ASSUME NEW s \in EngineType, OnCells(s), NEW k, NEW t, NEW l, NEW c \in Cells(s),
         Grows(s, Before(s, k), t, Before(s, l), c), NEW p \in Seq(Cells(s))
  PROVE  Met(t, l, p) <=> Met(s, k, p) \/ p = Append(Curs(s), c)
<1> DEFINE L == Len(s.frames)
           q == Curs(s)
           z == Append(Curs(s), c)
           m == Len(p)
<1>1. Before(t, l) = Before(s, l)
  BY SameTrails DEF Grows
<1>2. L \in Nat /\ Len(q) = L /\ m \in Nat
  BY CursOf
<1>3. /\ z \in Seq(Cells(s)) /\ Len(z) = L + 1 /\ \A i \in 1 .. L : z[i] = q[i]
  BY CursSeq
<1>4. Curs(t) = z /\ (Done(t, Before(s, l), p) <=> Done(s, Before(s, k), p))
  BY DEF Grows
<1> HIDE DEF L, q, z, m
<1>5. ASSUME Begins(z, p) PROVE Begins(q, p) \/ p = z
  <2>1. m <= L + 1 /\ \A i \in 1 .. m : z[i] = p[i]
    BY <1>3, <1>5 DEF Begins, m
  <2>2. CASE m = L + 1
    <3>1. Begins(p, z) /\ Len(p) = Len(z)
      BY <1>2, <1>3, <2>1, <2>2 DEF Begins, m
    <3>2. QED BY <1>3, <3>1, BeginsAlike
  <2>3. CASE m # L + 1
    <3>1. m <= L /\ \A i \in 1 .. m : i \in 1 .. L
      BY <1>2, <2>1, <2>3
    <3>2. Begins(q, p)
      BY <1>2, <1>3, <2>1, <3>1 DEF Begins, m
    <3>3. QED BY <3>2
  <2>4. QED BY <2>2, <2>3
<1>6. ASSUME Begins(q, p) PROVE Begins(z, p)
  <2>1. m <= L /\ \A i \in 1 .. m : q[i] = p[i]
    BY <1>2, <1>6 DEF Begins, m
  <2>2. m <= L + 1 /\ \A i \in 1 .. m : i \in 1 .. L
    BY <1>2, <2>1
  <2>3. QED BY <1>3, <2>1, <2>2 DEF Begins, m
<1>7. Begins(z, z)
  BY <1>2, <1>3 DEF Begins
<1>8. Begins(z, p) <=> Begins(q, p) \/ p = z
  BY <1>5, <1>6, <1>7
<1>9. QED BY <1>1, <1>4, <1>8 DEF Met, q, z

(* A cell left adds and takes away nothing. *)
LEMMA MetShrinks ==
  ASSUME NEW s \in EngineType, OnCells(s), s.frames # <<>>, ~(Top(s).next < s.degree), NEW k,
         NEW t, Shrinks(s, Before(s, k), t), NEW p, Trail(s, p)
  PROVE  Met(t, k, p) <=> Met(s, k, p)
<1> DEFINE L == Len(s.frames)
           q == Curs(s)
           r == Curs(t)
           m == Len(p)
           A == Before(s, k)
<1>1. Before(t, k) = A
  BY SameTrails DEF Shrinks
<1>2. L \in Nat \ {0} /\ Len(q) = L /\ p \in Seq(Cells(s)) /\ m \in Nat /\ q \in Seq(Cells(s))
  BY TopOf, CursOf, CursSeq DEF Trail
<1>3. /\ Len(r) = L - 1 /\ \A i \in 1 .. L - 1 : r[i] = q[i]
      /\ Done(t, A, p) <=> Done(s, A, p) \/ Begins(p, q)
  BY <1>2 DEF Shrinks
<1>4. m # L /\ Begins(p, q) => Done(s, A, p)
  BY AllTurned
<1>5. m = L /\ Begins(p, q) => p = q
  BY <1>2, BeginsAlike
<1> HIDE DEF L, q, r, m, A
<1>6. Begins(q, q)
  BY <1>2 DEF Begins
<1>7. ASSUME Begins(r, p) PROVE Begins(q, p)
  <2>1. m <= L - 1 /\ \A i \in 1 .. m : r[i] = p[i]
    BY <1>3, <1>7 DEF Begins, m
  <2>2. m <= L /\ \A i \in 1 .. m : i \in 1 .. L - 1
    BY <1>2, <2>1
  <2>3. QED BY <1>2, <1>3, <2>1, <2>2 DEF Begins, m
<1>8. ASSUME Begins(q, p) PROVE Begins(r, p) \/ Begins(p, q)
  <2>1. m <= L /\ \A i \in 1 .. m : q[i] = p[i]
    BY <1>2, <1>8 DEF Begins, m
  <2>2. CASE m = L
    BY <1>2, <2>1, <2>2 DEF Begins, m
  <2>3. CASE m # L
    <3>1. m <= L - 1 /\ \A i \in 1 .. m : i \in 1 .. L - 1
      BY <1>2, <2>1, <2>3
    <3>2. QED BY <1>3, <2>1, <3>1 DEF Begins, m
  <2>4. QED BY <2>2, <2>3
<1>9. Begins(p, q) => Done(s, A, p) \/ Begins(q, p)
  BY <1>4, <1>5, <1>6
<1>10. Done(t, A, p) \/ Begins(r, p) <=> Done(s, A, p) \/ Begins(q, p)
  BY <1>3, <1>7, <1>8, <1>9
<1>11. QED BY <1>1, <1>10 DEF Met, q, r, A

(* The words found stay, or are joined by those the walk now spells. *)
LEMMA FindsOn ==
  ASSUME NEW s, NEW k, Finds(s, k), NEW t, NEW l, Alike(s, t), t.word_found = s.word_found,
         \A w \in DOMAIN s.words, p \in Seq(Cells(s)) :
           Spells(s, s.words[w], p) => (Met(t, l, p) <=> Met(s, k, p))
  PROVE  Finds(t, l)
<1>1. Cells(t) = Cells(s) /\ \A p, W : Spells(t, W, p) <=> Spells(s, W, p)
  BY SameTrails
<1>2. t.words = s.words /\ \A w : Owner(t, w) <=> Owner(s, w)
  BY DEF Alike, Owner
<1>3. QED BY <1>1, <1>2 DEF Finds

(* The words new are those of the trail z, and t meets z besides what s
   met. *)
Adds(s, k, t, l, new, z) ==
  /\ t.word_found = s.word_found \cup new /\ z \in Seq(Cells(s))
  /\ \A w : w \in new <=> w \in DOMAIN s.words /\ Owner(s, w) /\ Spells(s, s.words[w], z)
  /\ \A w \in DOMAIN s.words, p \in Seq(Cells(s)) : Met(t, l, p) <=> Met(s, k, p) \/ p = z

(* What the search finds grows by the words of one trail. *)
LEMMA FindsMore ==
  ASSUME NEW s, NEW k, Finds(s, k), NEW t, NEW l, Alike(s, t), NEW new, NEW z, Adds(s, k, t, l, new, z)
  PROVE  Finds(t, l)
<1>0. /\ t.word_found = s.word_found \cup new /\ z \in Seq(Cells(s))
      /\ \A w : w \in new <=> w \in DOMAIN s.words /\ Owner(s, w) /\ Spells(s, s.words[w], z)
      /\ \A w \in DOMAIN s.words, p \in Seq(Cells(s)) : Met(t, l, p) <=> Met(s, k, p) \/ p = z
  BY DEF Adds
<1>1. Cells(t) = Cells(s) /\ \A p, W : Spells(t, W, p) <=> Spells(s, W, p)
  BY SameTrails
<1>2. t.words = s.words /\ \A w : Owner(t, w) <=> Owner(s, w)
  BY DEF Alike, Owner
<1>3. ASSUME NEW w
      PROVE  w \in t.word_found <=>
               /\ w \in DOMAIN s.words /\ Owner(s, w)
               /\ \E p \in Seq(Cells(s)) : Spells(s, s.words[w], p) /\ Met(t, l, p)
  <2>1. CASE w \notin DOMAIN s.words \/ ~Owner(s, w)
    BY <1>0, <2>1 DEF Finds
  <2>2. CASE w \in DOMAIN s.words /\ Owner(s, w)
    <3>1. w \in s.word_found <=> \E p \in Seq(Cells(s)) : Spells(s, s.words[w], p) /\ Met(s, k, p)
      BY <2>2 DEF Finds
    <3>2. w \in new <=> Spells(s, s.words[w], z)
      BY <1>0, <2>2
    <3>3. \A p \in Seq(Cells(s)) : Met(t, l, p) <=> Met(s, k, p) \/ p = z
      BY <1>0, <2>2
    <3>4. (\E p \in Seq(Cells(s)) : Spells(s, s.words[w], p) /\ Met(t, l, p)) <=>
            \/ \E p \in Seq(Cells(s)) : Spells(s, s.words[w], p) /\ Met(s, k, p)
            \/ Spells(s, s.words[w], z)
      BY <1>0, <3>3
    <3>5. QED BY <1>0, <2>2, <3>1, <3>2, <3>4
  <2>3. QED BY <2>1, <2>2
<1>4. QED BY <1>1, <1>2, <1>3 DEF Finds

(* The node of the innermost frame, the root without one; and the node a
   letter further. *)
NodeOf(s) == IF s.frames = <<>> THEN <<>> ELSE Top(s).node

(* The node of a cell entered spells the walk to it. *)
LEMMA LettersNext ==
  ASSUME NEW s \in EngineType, Sized(s), OnCells(s), Noted(s), NEW c \in Cells(s)
  PROVE  /\ NodeOf(s) \in Seq(Int)
         /\ Append(NodeOf(s), s.grid[c]) = Letters(s, Append(Curs(s), c))
<1> DEFINE L == Len(s.frames)
           q == Curs(s)
           z == Append(Curs(s), c)
           d == NodeOf(s)
<1>1. L \in Nat /\ Len(q) = L /\ \A i \in 1 .. L : q[i] = s.frames[i].cur
  BY CursOf
<1>2. z \in Seq(Cells(s)) /\ Len(z) = L + 1 /\ z[L + 1] = c /\ \A i \in 1 .. L : z[i] = q[i]
  BY CursSeq
<1>3. \A i \in 1 .. L : s.frames[i].cur \in Cells(s)
  BY DEF OnCells
<1>4. s.grid[c] \in Int /\ \A i \in Cells(s) : s.grid[i] \in Int
  <2>1. Cells(s) \subseteq Cell
    BY CellsFit DEF Cell
  <2>2. QED BY <2>1 DEF EngineType
<1>5. d = [i \in 1 .. L |-> s.grid[s.frames[i].cur]]
  <2>1. CASE s.frames = <<>>
    <3>1. L = 0 /\ d = <<>>
      BY <2>1 DEF NodeOf
    <3>2. d = [i \in 1 .. 0 |-> s.grid[s.frames[i].cur]]
      BY <3>1
    <3>3. QED BY <3>1, <3>2
  <2>2. CASE s.frames # <<>>
    <3>1. L \in Nat \ {0} /\ Top(s) = s.frames[L] /\ d = Top(s).node
      BY <2>2, TopOf DEF NodeOf
    <3>2. L \in 1 .. L
      BY <3>1
    <3>3. QED BY <3>1, <3>2 DEF Noted
  <2>3. QED BY <2>1, <2>2
<1> HIDE DEF L, q, z, d
<1>6. d \in Seq(Int) /\ Len(d) = L
  BY <1>1, <1>3, <1>4, <1>5
<1> DEFINE x == s.grid[c]
           a == Append(d, x)
<1>7. x \in Int /\ x = s.grid[c]
  BY <1>4
<1> HIDE DEF x
<1>8. a \in Seq(Int) /\ Len(a) = L + 1 /\ a[L + 1] = x /\ \A i \in 1 .. L : a[i] = d[i]
  BY <1>1, <1>6, <1>7
<1> HIDE DEF a
<1>9. a = [i \in 1 .. L + 1 |-> a[i]]
  BY <1>1, <1>8
<1>10. ASSUME NEW i \in 1 .. L + 1 PROVE a[i] = s.grid[z[i]]
  <2>1. CASE i = L + 1
    BY <1>2, <1>7, <1>8, <2>1
  <2>2. CASE i # L + 1
    <3>1. i \in 1 .. L
      BY <1>1, <1>10, <2>2
    <3>2. a[i] = s.grid[s.frames[i].cur]
      BY <1>5, <1>8, <3>1
    <3>3. QED BY <1>1, <1>2, <3>1, <3>2
  <2>3. QED BY <2>1, <2>2
<1>11. Letters(s, z) = [i \in 1 .. L + 1 |-> s.grid[z[i]]]
  BY <1>2 DEF Letters
<1>12. a = Letters(s, z)
  BY <1>9, <1>10, <1>11
<1>13. QED BY <1>6, <1>12 DEF a, x, d, z

(* Frames that hold what they held are at the nodes they were at. *)
LEMMA NotedKept ==
  ASSUME NEW s \in EngineType, Noted(s), NEW t \in EngineType, Alike(s, t),
         Len(t.frames) <= Len(s.frames), Kept(s, t, Len(t.frames))
  PROVE  Noted(t)
<1> DEFINE n == Len(s.frames)
           m == Len(t.frames)
<1>1. n \in Nat /\ m \in Nat /\ m <= n /\ t.grid = s.grid
  BY CursOf DEF Alike
<1>2. \A i \in 1 .. n : s.frames[i].node = [j \in 1 .. i |-> s.grid[s.frames[j].cur]]
  BY DEF Noted
<1>3. \A i \in 1 .. m : t.frames[i].cur = s.frames[i].cur /\ t.frames[i].node = s.frames[i].node
  BY DEF Kept
<1> HIDE DEF n, m
<1>4. ASSUME NEW i \in 1 .. m PROVE t.frames[i].node = [j \in 1 .. i |-> t.grid[t.frames[j].cur]]
  <2>1. i \in 1 .. n /\ \A j \in 1 .. i : j \in 1 .. m
    BY <1>1, <1>4
  <2>2. \A j \in 1 .. i : t.grid[t.frames[j].cur] = s.grid[s.frames[j].cur]
    BY <1>1, <1>3, <2>1
  <2>3. QED BY <1>2, <1>3, <2>1, <2>2
<1>5. QED BY <1>4 DEF Noted, m

(* So the frame pushed there notes it. *)
LEMMA NotedGrow ==
  ASSUME NEW s \in EngineType, OnCells(s), Noted(s), NEW t \in EngineType, Alike(s, t),
         NEW c \in Cells(s), Curs(t) = Append(Curs(s), c),
         Len(t.frames) = Len(s.frames) + 1, Kept(s, t, Len(s.frames)),
         t.frames[Len(s.frames) + 1].node = Letters(s, Append(Curs(s), c))
  PROVE  Noted(t)
<1> DEFINE n == Len(s.frames)
           z == Append(Curs(s), c)
<1>1. n \in Nat /\ t.grid = s.grid /\ Len(z) = n + 1 /\ Len(t.frames) = n + 1
  BY CursOf, CursSeq DEF Alike
<1>2. \A i \in 1 .. n : s.frames[i].node = [j \in 1 .. i |-> s.grid[s.frames[j].cur]]
  BY DEF Noted
<1>3. \A i \in 1 .. n : t.frames[i].cur = s.frames[i].cur /\ t.frames[i].node = s.frames[i].node
  BY DEF Kept
<1>4. \A i \in 1 .. n + 1 : t.frames[i].cur = z[i]
  BY <1>1, CursOf
<1>5. t.frames[n + 1].node = Letters(s, z)
  OBVIOUS
<1> HIDE DEF n, z
<1>6. Letters(s, z) = [j \in 1 .. n + 1 |-> s.grid[z[j]]]
  BY <1>1 DEF Letters
<1>7. ASSUME NEW i \in 1 .. n + 1 PROVE t.frames[i].node = [j \in 1 .. i |-> t.grid[t.frames[j].cur]]
  <2>1. CASE i = n + 1
    BY <1>1, <1>4, <1>5, <1>6, <2>1
  <2>2. CASE i # n + 1
    <3>1. i \in 1 .. n /\ \A j \in 1 .. i : j \in 1 .. n
      BY <1>1, <1>7, <2>2
    <3>2. \A j \in 1 .. i : t.grid[t.frames[j].cur] = s.grid[s.frames[j].cur]
      BY <1>1, <1>3, <3>1
    <3>3. QED BY <1>2, <1>3, <3>1, <3>2
  <2>3. QED BY <2>1, <2>2
<1>8. QED BY <1>1, <1>7 DEF Noted

(* One source more is one cell more. *)
LEMMA BeforeNext ==
  ASSUME NEW s, Sized(s), NEW c \in Cells(s)
  PROVE  /\ Before(s, c + 1) = Before(s, c) \cup {c} /\ c \notin Before(s, c)
         /\ c \in Nat /\ c + 1 \in Nat
<1>1. \A d \in Cells(s) : d \in Nat
  BY CellsFit
<1>2. \A d \in Cells(s) : d < c + 1 <=> d < c \/ d = c
  BY <1>1
<1>3. ~(c < c) /\ c \in Nat /\ c + 1 \in Nat
  BY <1>1
<1>4. QED BY <1>2, <1>3 DEF Before

(* What the invariants say in the loop with a trie, and what keeps it. *)
LEMMA WhileTrie ==
  ASSUME IInv, WInv, pc = "trie"
  PROVE  /\ e \in EngineType /\ Sized(e) /\ OnCells(e) /\ Path(e)
         /\ Loaded(e, job) /\ e.words = WordsOf(job) /\ scan \in Nat
         /\ Threaded(e, Before(e, scan)) /\ Noted(e) /\ Finds(e, scan)
<1>1. e \in EngineType /\ Sized(e) /\ OnCells(e) /\ Path(e)
  BY OnPath
<1>2. QED BY <1>1 DEF WInv, Walked

(* What keeps the invariant in that loop. *)
LEMMA TrieWalkOn ==
  ASSUME Alike(e, e'), pc' = "trie", job' = job, Loaded(e, job), e.words = WordsOf(job),
         scan' \in Nat, Threaded(e', Before(e, scan')), Noted(e'), Finds(e', scan')
  PROVE  WInv'
<1>1. Before(e', scan') = Before(e, scan')
  BY SameTrails
<1>2. Loaded(e', job')
  BY SameGraph
<1>3. e'.words = WordsOf(job')
  BY DEF Alike
<1>4. Threaded(e', Before(e', scan'))
  BY <1>1
<1>5. QED BY <1>2, <1>3, <1>4 DEF WInv, Walked

(* From s, with u its frames as they are when enter_trie is called for the
   free cell c next to the innermost: if a frame is pushed the words its node
   owns are those the walk now spells, and if not, no word begins as the walk
   would. *)
LEMMA TrieEnters ==
  ASSUME e \in EngineType, Sized(e), Path(e), Noted(e),
         NEW k, Finds(e, k), Threaded(e, Before(e, k)),
         NEW c \in Cells(e), ~e.visited[c], e.frames # <<>> => c \in Around(e, Top(e).cur),
         NEW u \in EngineType, Alike(e, u), Len(u.frames) = Len(e.frames),
         Kept(e, u, Len(e.frames)), u.word_found = e.word_found,
         NEW t, t = enter_trie(u, c, NodeOf(e)), NEW l,
         t.frames = u.frames => Skips(e, Before(e, k), t, Before(e, l), c),
         EntersAs(u, t, c, Append(NodeOf(e), e.grid[c])) => Grows(e, Before(e, k), t, Before(e, l), c)
  PROVE  /\ Alike(e, t) /\ Threaded(t, Before(e, l)) /\ Noted(t) /\ Finds(t, l)
<1> DEFINE d == NodeOf(e)
           nxt == Append(d, e.grid[c])
           z == Append(Curs(e), c)
           L == Len(e.frames)
<1>1. OnCells(e) /\ c \in Cell /\ L \in Nat
  BY CellsFit, CursOf DEF Path, Cell
<1>2. d \in Seq(Int) /\ nxt = Letters(e, z)
  BY <1>1, LettersNext
<1>3. z \in Seq(Cells(e))
  BY <1>1, CursSeq
<1>4. Trail(e, z)
  BY WalkOn
<1> HIDE DEF d
<1>5. t = enter_trie(u, c, d)
  BY DEF d
<1>6. /\ t \in EngineType /\ Alike(u, t)
      /\ nxt \notin Trie => t.frames = u.frames /\ t.word_found = u.word_found
      /\ nxt \in Trie => EntersAs(u, t, c, nxt) /\ t.word_found = u.word_found \cup trie_word(nxt)
  BY <1>1, <1>2, <1>5, EnterTrieAt
<1>7. Alike(e, t)
  BY <1>6 DEF Alike
<1>8. (t.frames = u.frames => Skips(e, Before(e, k), t, Before(e, l), c))
      /\ (EntersAs(u, t, c, nxt) => Grows(e, Before(e, k), t, Before(e, l), c))
  BY DEF d
<1> HIDE DEF nxt, L
<1>9. CASE nxt \notin Trie
  <2>1. t.frames = u.frames /\ t.word_found = e.word_found
    BY <1>6, <1>9
  <2>2. Skips(e, Before(e, k), t, Before(e, l), c)
    BY <1>8, <2>1
  <2>3. ASSUME NEW w \in DOMAIN e.words, NEW p \in Seq(Cells(e)), Spells(e, e.words[w], p)
        PROVE  Met(t, l, p) <=> Met(e, k, p)
    <3>1. ~Begins(p, z)
      <4> HIDE DEF z
      <4>1. Begins(p, z) => nxt \in Trie
        BY <1>2, <1>3, <2>3, PrefixInTrie
      <4>2. QED BY <1>9, <4>1
    <3>2. QED BY <2>2, <2>3, <3>1, MetSkips
  <2>4. Finds(t, l)
    BY <1>7, <2>1, <2>3, FindsOn
  <2>5. Threaded(t, Before(e, l))
    BY <2>2 DEF Skips
  <2>6. Noted(t)
    <3>1. Len(t.frames) = L /\ Kept(e, t, L) /\ L <= L
      BY <1>1, <2>1 DEF Kept, L
    <3>2. QED BY <1>6, <1>7, <3>1, NotedKept DEF L
  <2>7. QED BY <1>7, <2>4, <2>5, <2>6
<1>10. CASE nxt \in Trie
  <2>1. EntersAs(u, t, c, nxt) /\ t.word_found = e.word_found \cup trie_word(nxt)
    BY <1>6, <1>10
  <2>2. Grows(e, Before(e, k), t, Before(e, l), c)
    BY <1>8, <2>1
  <2>3. \A w \in DOMAIN e.words, p \in Seq(Cells(e)) : Met(t, l, p) <=> Met(e, k, p) \/ p = z
    BY <1>1, <2>2, MetGrows
  <2>4. \A w : w \in trie_word(nxt) <=>
                 w \in DOMAIN e.words /\ Owner(e, w) /\ Spells(e, e.words[w], z)
    <3>1. \A w \in DOMAIN e.words : e.words[w] \in Seq(Int)
      BY WordsAre
    <3>2. \A w \in DOMAIN e.words : Spells(e, e.words[w], z) <=> e.words[w] = nxt
      BY <1>2, <1>4, <3>1, SpellsLetters
    <3>3. QED BY <3>2, OwnedBy
  <2>5. Finds(t, l)
    <3> DEFINE new == trie_word(nxt)
    <3> HIDE DEF new, z
    <3>1. t.word_found = e.word_found \cup new
      BY <2>1 DEF new
    <3>2. \A w : w \in new <=> w \in DOMAIN e.words /\ Owner(e, w) /\ Spells(e, e.words[w], z)
      BY <2>4 DEF new
    <3>3. Adds(e, k, t, l, new, z)
      BY <1>3, <2>3, <3>1, <3>2 DEF Adds
    <3>4. QED BY <1>7, <3>3, FindsMore
  <2>6. Threaded(t, Before(e, l)) /\ Curs(t) = z
    BY <2>2 DEF Grows
  <2>7. PICK f \in FrameType : f.cur = c /\ f.next = 0 /\ f.node = nxt /\ t.frames = Append(u.frames, f)
    BY <2>1 DEF EntersAs
  <2>8. Kept(u, t, L) /\ Len(t.frames) = L + 1 /\ t.frames[L + 1] = f
    <3>1. Kept(u, t, Len(u.frames)) /\ Len(t.frames) = Len(u.frames) + 1
          /\ t.frames[Len(u.frames) + 1] = f
      BY <2>7, AppendKeeps
    <3>2. QED BY <3>1 DEF L
  <2>9. Kept(e, t, L)
    BY <2>8 DEF Kept, L
  <2>10. t.frames[L + 1].node = Letters(e, z)
    BY <1>2, <2>7, <2>8
  <2>11. Noted(t)
    BY <1>1, <1>6, <1>7, <2>6, <2>8, <2>9, <2>10, NotedGrow DEF L
  <2>12. QED BY <1>7, <2>5, <2>6, <2>11
<1>11. QED BY <1>9, <1>10

(* A word search with a trie begins at a cell. *)
LEMMA TrieSourceWalks == IInv /\ WInv /\ TrieSource => WInv'
<1> SUFFICES ASSUME IInv, WInv, TrieSource PROVE WInv'
  OBVIOUS
<1>1. /\ pc = "trie" /\ pc' = "trie" /\ job' = job /\ e.frames = <<>> /\ scan \in Cells(e)
      /\ e' = enter_trie(e, scan, <<>>) /\ scan' = scan + 1
  BY DEF TrieSource, Walking, call
<1>2. /\ e \in EngineType /\ Sized(e) /\ OnCells(e) /\ Path(e)
      /\ Loaded(e, job) /\ e.words = WordsOf(job) /\ scan \in Nat
      /\ Threaded(e, Before(e, scan)) /\ Noted(e) /\ Finds(e, scan)
  BY <1>1, WhileTrie
<1>3. Before(e, scan + 1) = Before(e, scan) \cup {scan} /\ scan \notin Before(e, scan)
  BY <1>1, <1>2, BeforeNext
<1>4. NodeOf(e) = <<>>
  BY <1>1 DEF NodeOf
<1>5. scan \in Cell /\ <<>> \in Seq(Int)
  BY <1>1, <1>2, CellsFit DEF Cell
<1>6. ~e.visited[scan]
  <2>1. Len(e.frames) = 0 /\ 1 .. Len(e.frames) = {}
    BY <1>1
  <2>2. QED BY <1>1, <1>2, <2>1 DEF Path
<1> DEFINE t == enter_trie(e, scan, <<>>)
<1>7. t \in EngineType /\ Alike(e, t)
  BY <1>2, <1>5, EnterTrieAt
<1>8. e' = t /\ t = enter_trie(e, scan, NodeOf(e))
  BY <1>1, <1>4
<1> HIDE DEF t
<1>9. t.frames = e.frames => Skips(e, Before(e, scan), t, Before(e, scan + 1), scan)
  BY <1>1, <1>2, <1>3, <1>7, FirstSkipped
<1>10. EntersAs(e, t, scan, Append(NodeOf(e), e.grid[scan])) =>
         Grows(e, Before(e, scan), t, Before(e, scan + 1), scan)
  <2>1. SUFFICES ASSUME NEW f \in FrameType, f.cur = scan, f.next = 0,
                        t.frames = Append(e.frames, f)
                 PROVE  Grows(e, Before(e, scan), t, Before(e, scan + 1), scan)
    BY DEF EntersAs
  <2>2. Grows(e, Before(e, scan), t, Before(e, scan) \cup {scan}, scan)
    BY <1>1, <1>2, <1>3, <1>7, <2>1, FirstEntered
  <2>3. QED BY <1>3, <2>2
<1>11. Alike(e, e) /\ Kept(e, e, Len(e.frames))
  BY DEF Alike, Kept
<1> DEFINE l == scan + 1
<1>12. l \in Nat /\ scan' = l
  BY <1>1, <1>2
<1>13. (t.frames = e.frames => Skips(e, Before(e, scan), t, Before(e, l), scan))
       /\ (EntersAs(e, t, scan, Append(NodeOf(e), e.grid[scan])) =>
             Grows(e, Before(e, scan), t, Before(e, l), scan))
  BY <1>9, <1>10
<1> HIDE DEF l
<1>14. Alike(e, t) /\ Threaded(t, Before(e, l)) /\ Noted(t) /\ Finds(t, l)
  BY <1>1, <1>2, <1>6, <1>8, <1>11, <1>13, TrieEnters
<1>15. QED BY <1>1, <1>2, <1>8, <1>12, <1>14, TrieWalkOn

(* f.next++ and the way back leave the words found. *)
LEMMA FramesKeepFound ==
  ASSUME NEW s \in EngineType, NEW c
  PROVE  /\ advance(s).word_found = s.word_found
         /\ pop_frame(unmark_visited(s, c)).word_found = s.word_found
BY DEF advance, pop_frame, unmark_visited, EngineType

(* It tries a direction. *)
LEMMA TrieStepWalks == IInv /\ WInv /\ TrieStep => WInv'
<1> SUFFICES ASSUME IInv, WInv, TrieStep PROVE WInv'
  OBVIOUS
<1> DEFINE u == advance(e)
           n == Neighbor(e, cur, Top(e).next)
           H == HasNeighbor(e, cur, Top(e).next)
           t == enter_trie(u, n, Top(e).node)
           A == Before(e, scan)
           L == Len(e.frames)
<1>1. /\ pc = "trie" /\ pc' = "trie" /\ job' = job /\ scan' = scan
      /\ e.frames # <<>> /\ Top(e).next < e.degree
  BY DEF TrieStep, Walking, MoreDirs, call
<1>2. /\ e \in EngineType /\ Sized(e) /\ OnCells(e) /\ Path(e)
      /\ Loaded(e, job) /\ e.words = WordsOf(job) /\ scan \in Nat
      /\ Threaded(e, A) /\ Noted(e) /\ Finds(e, scan)
  BY <1>1, WhileTrie
<1>3. e' = IF H /\ ~e.visited[n] THEN t ELSE u
  BY DEF TrieStep, TryNext, Free
<1>4. H => Leads(e, n)
  BY DEF Leads, cur
<1>5. H => n \in Around(e, Top(e).cur) /\ n \in Cells(e) /\ n \in Cell /\ n \in Nat
  BY <1>1, <1>2, <1>4, LeadsAround
<1>6. L \in Nat \ {0} /\ Top(e).node \in Seq(Int)
  BY <1>1, <1>2, AtTop, TopOf
<1>7. Moved(e, u)
  BY <1>1, <1>2, AdvanceMoves
<1>8. u \in EngineType /\ Alike(e, u) /\ Len(u.frames) = L /\ u.word_found = e.word_found
  BY <1>2, <1>7, FramesKeepFound DEF Moved
<1>9. Kept(e, u, L)
  BY <1>1, <1>2, <1>7, MovedKeeps
<1>10. H <=> HasNeighbor(e, Top(e).cur, Top(e).next)
  BY DEF cur
<1>11. NodeOf(e) = Top(e).node
  BY <1>1 DEF NodeOf
<1> HIDE DEF u, n, H, A
<1>12. CASE ~(H /\ ~e.visited[n])
  <2>1. e' = u
    BY <1>3, <1>12
  <2>2. Noted(u)
    <3>1. L <= L
      BY <1>6
    <3>2. QED BY <1>2, <1>8, <1>9, <3>1, NotedKept
  <2>3. CASE ~H
    <3>1. Stands(e, A, u)
      BY <1>1, <1>2, <1>7, <1>10, <2>3, TurnsOff
    <3>2. \A p \in Seq(Cells(e)) : Met(u, scan, p) <=> Met(e, scan, p)
      BY <3>1, MetStands DEF A
    <3>3. Finds(u, scan) /\ Threaded(u, A)
      BY <1>2, <1>8, <3>1, <3>2, FindsOn DEF Stands
    <3>4. QED BY <1>1, <1>2, <1>8, <2>1, <2>2, <3>3, TrieWalkOn DEF A
  <2>4. CASE H /\ e.visited[n]
    <3>1. Skips(e, A, u, A, n)
      BY <1>1, <1>2, <1>4, <1>7, <2>4, TurnsTo
    <3>2. ASSUME NEW w \in DOMAIN e.words, NEW p \in Seq(Cells(e)), Spells(e, e.words[w], p)
          PROVE  Met(u, scan, p) <=> Met(e, scan, p)
      <4>1. Trail(e, p)
        BY <3>2 DEF Spells
      <4>2. ~Begins(p, Append(Curs(e), n))
        BY <1>2, <1>5, <2>4, <4>1, NoTrailThrough
      <4>3. QED BY <3>1, <3>2, <4>2, MetSkips DEF A
    <3>3. Finds(u, scan) /\ Threaded(u, A)
      BY <1>2, <1>8, <3>1, <3>2, FindsOn DEF Skips
    <3>4. QED BY <1>1, <1>2, <1>8, <2>1, <2>2, <3>3, TrieWalkOn DEF A
  <2>5. QED BY <1>12, <2>3, <2>4
<1>13. CASE H /\ ~e.visited[n]
  <2>1. e' = t
    BY <1>3, <1>13
  <2>2. t = enter_trie(u, n, NodeOf(e))
    BY <1>11
  <2>3. t \in EngineType /\ Alike(u, t)
    BY <1>2, <1>5, <1>6, <1>8, <1>13, EnterTrieAt
  <2> HIDE DEF t
  <2>4. Alike(e, t)
    BY <1>8, <2>3 DEF Alike
  <2>5. t.frames = u.frames => Skips(e, A, t, A, n)
    <3>1. t.frames = u.frames => Moved(e, t)
      BY <1>7, <2>3, <2>4 DEF Moved
    <3>2. QED BY <1>1, <1>2, <1>4, <1>13, <3>1, TurnsTo
  <2>6. EntersAs(u, t, n, Append(NodeOf(e), e.grid[n])) => Grows(e, A, t, A, n)
    BY <1>1, <1>2, <1>4, <1>7, <1>13, <2>3, GoesTo DEF EntersAs
  <2>7. Threaded(t, A) /\ Noted(t) /\ Finds(t, scan)
    <3>1. /\ e.frames # <<>> => n \in Around(e, Top(e).cur)
          /\ Kept(e, u, Len(e.frames)) /\ Len(u.frames) = Len(e.frames)
          /\ Threaded(e, Before(e, scan))
          /\ t.frames = u.frames => Skips(e, Before(e, scan), t, Before(e, scan), n)
          /\ EntersAs(u, t, n, Append(NodeOf(e), e.grid[n])) =>
               Grows(e, Before(e, scan), t, Before(e, scan), n)
      BY <1>2, <1>5, <1>8, <1>9, <1>13, <2>5, <2>6 DEF A
    <3>2. n \in Cells(e) /\ ~e.visited[n]
      BY <1>5, <1>13
    <3> HIDE DEF L
    <3>3. Threaded(t, Before(e, scan)) /\ Noted(t) /\ Finds(t, scan)
      BY <1>2, <1>8, <2>2, <3>1, <3>2, TrieEnters
    <3>4. QED BY <3>3 DEF A
  <2>8. QED BY <1>1, <1>2, <2>1, <2>4, <2>7, TrieWalkOn DEF A
<1>14. QED BY <1>12, <1>13

(* It goes back: the words that go on from there are found. *)
LEMMA TrieBackWalks == IInv /\ WInv /\ TrieBack => WInv'
<1> SUFFICES ASSUME IInv, WInv, TrieBack PROVE WInv'
  OBVIOUS
<1> DEFINE A == Before(e, scan)
           L == Len(e.frames)
<1>1. /\ pc = "trie" /\ pc' = "trie" /\ job' = job /\ scan' = scan
      /\ e.frames # <<>> /\ ~(Top(e).next < e.degree)
      /\ e' = pop_frame(unmark_visited(e, Top(e).cur))
  BY DEF TrieBack, Walking, MoreDirs, cur, call
<1>2. /\ e \in EngineType /\ Sized(e) /\ OnCells(e) /\ Path(e)
      /\ Loaded(e, job) /\ e.words = WordsOf(job) /\ scan \in Nat
      /\ Threaded(e, A) /\ Noted(e) /\ Finds(e, scan)
  BY <1>1, WhileTrie
<1>3. e'.word_found = e.word_found
  BY <1>1, <1>2, FramesKeepFound
<1>4. e' \in EngineType /\ Leaves(e, e')
  BY <1>1, <1>2, LeaveFrame
<1>5. Alike(e, e') /\ e'.frames = Front(e.frames)
  BY <1>4 DEF Leaves
<1>6. Shrinks(e, A, e')
  BY <1>1, <1>2, <1>4, <1>5, Returns
<1>7. ASSUME NEW w \in DOMAIN e.words, NEW p \in Seq(Cells(e)), Spells(e, e.words[w], p)
      PROVE  Met(e', scan, p) <=> Met(e, scan, p)
  <2>1. Trail(e, p)
    BY <1>7 DEF Spells
  <2>2. QED BY <1>1, <1>2, <1>6, <2>1, MetShrinks
<1>8. Finds(e', scan)
  BY <1>2, <1>3, <1>5, <1>7, FindsOn
<1>9. Threaded(e', A)
  BY <1>6 DEF Shrinks
<1>10. Noted(e')
  <2>1. Kept(e, e', L - 1) /\ Len(e'.frames) = L - 1
    BY <1>1, <1>2, <1>5, FrontKeeps
  <2>2. L \in Nat /\ L - 1 <= L
    BY <1>2, CursOf
  <2>3. QED BY <1>2, <1>4, <1>5, <2>1, <2>2, NotedKept
<1>11. QED BY <1>1, <1>2, <1>5, <1>8, <1>9, <1>10, TrieWalkOn

(* What enter_match does where the letter fits and the word goes on, and
   elsewhere. *)
EntersWith(s, t, c, k) ==
  \E f \in FrameType : f.cur = c /\ f.next = 0 /\ f.char_index = k /\ t.frames = Append(s.frames, f)

(* enter_match pushes a frame where the letter fits and the word goes on. *)
LEMMA EnterMatchAt ==
  ASSUME NEW s \in EngineType, NEW c \in Cell, NEW k \in Nat, NEW t, t = enter_match(s, c, k)
  PROVE  /\ t \in EngineType /\ Alike(s, t)
         /\ ~Spelt(c, k) \/ Ends(k) => t.frames = s.frames
         /\ Spelt(c, k) /\ ~Ends(k) => EntersWith(s, t, c, k)
<1> DEFINE u == note_depth([s EXCEPT !.expanded_nodes = @ + 1], Len(s.frames) + 1)
           f == [Frame(c) EXCEPT !.char_index = k]
           w == [mark_visited(u, c) EXCEPT !.frames = Append(@, f)]
           B == ~Spelt(c, k) \/ Ends(k)
<1>1. u \in EngineType /\ Same(s, u)
  BY CountAndNote
<1>2. c \in Nat
  BY MaxCellsIsNat DEF Cell
<1>3. f \in FrameType /\ f.cur = c /\ f.next = 0 /\ f.char_index = k
  BY <1>2, NewFrames
<1>4. t = IF B THEN u ELSE w
  BY DEF enter_match
<1> HIDE DEF u, f, B
<1> DEFINE m == mark_visited(u, c)
<1> HIDE DEF m
<1>5. m \in EngineType /\ Alike(u, m) /\ m.frames = u.frames
  BY <1>1, MarkVisited DEF m
<1> DEFINE q == Append(m.frames, f)
<1>6. q \in Seq(FrameType)
  BY <1>3, <1>5, Appended
<1>7. w = [m EXCEPT !.frames = q]
  BY DEF m
<1> HIDE DEF q, w
<1>8. w \in EngineType /\ Alike(m, w) /\ w.frames = q
  BY <1>5, <1>6, <1>7, WithFrames
<1>9. CASE B
  <2>1. t = u
    BY <1>4, <1>9
  <2>2. QED BY <1>1, <1>9, <2>1 DEF Same, B
<1>10. CASE ~B
  <2>1. t = w
    BY <1>4, <1>10
  <2>2. Alike(s, t)
    BY <1>1, <1>5, <1>8, <2>1 DEF Same, Alike
  <2>3. t.frames = Append(s.frames, f)
    BY <1>1, <1>5, <1>8, <2>1 DEF Same, q
  <2>4. EntersWith(s, t, c, k)
    BY <1>3, <2>3 DEF EntersWith
  <2>5. QED BY <1>8, <1>10, <2>1, <2>2, <2>4 DEF B
<1>11. QED BY <1>9, <1>10

(* Frames that hold what they held spell what they spelt. *)
LEMMA SpellingKept ==
  ASSUME NEW s \in EngineType, NEW W \in Seq(Int), Spelling(s, W), NEW t \in EngineType, Alike(s, t),
         Len(t.frames) <= Len(s.frames), Kept(s, t, Len(t.frames))
  PROVE  Spelling(t, W)
<1> DEFINE n == Len(s.frames)
           m == Len(t.frames)
<1>1. n \in Nat /\ m \in Nat /\ m <= n /\ t.grid = s.grid /\ Len(W) \in Nat
  BY CursOf DEF Alike
<1>2. /\ n = 0 \/ n < Len(W)
      /\ \A i \in 1 .. n : s.frames[i].char_index = i - 1 /\ s.grid[s.frames[i].cur] = W[i]
  BY DEF Spelling
<1>3. \A i \in 1 .. m : /\ t.frames[i].cur = s.frames[i].cur
                        /\ t.frames[i].char_index = s.frames[i].char_index
  BY DEF Kept
<1> HIDE DEF n, m
<1>4. (m = 0 \/ m < Len(W)) /\ \A i \in 1 .. m : i \in 1 .. n
  BY <1>1, <1>2
<1>5. \A i \in 1 .. m : t.frames[i].char_index = i - 1 /\ t.grid[t.frames[i].cur] = W[i]
  BY <1>1, <1>2, <1>3, <1>4
<1>6. QED BY <1>4, <1>5 DEF Spelling, m

(* A frame pushed on the next letter spells one letter more. *)
LEMMA SpellingGrows ==
  ASSUME NEW s \in EngineType, NEW W \in Seq(Int), Spelling(s, W), NEW t, Alike(s, t),
         Len(t.frames) = Len(s.frames) + 1, Kept(s, t, Len(s.frames)), Len(s.frames) + 1 < Len(W),
         t.frames[Len(s.frames) + 1].char_index = Len(s.frames),
         s.grid[t.frames[Len(s.frames) + 1].cur] = W[Len(s.frames) + 1]
  PROVE  Spelling(t, W)
<1> DEFINE n == Len(s.frames)
           g == t.frames[n + 1]
<1>1. n \in Nat /\ t.grid = s.grid /\ Len(t.frames) = n + 1 /\ n + 1 < Len(W)
  BY CursOf DEF Alike
<1>2. \A i \in 1 .. n : s.frames[i].char_index = i - 1 /\ s.grid[s.frames[i].cur] = W[i]
  BY DEF Spelling
<1>3. \A i \in 1 .. n : /\ t.frames[i].cur = s.frames[i].cur
                        /\ t.frames[i].char_index = s.frames[i].char_index
  BY DEF Kept
<1>4. g.char_index = n /\ s.grid[g.cur] = W[n + 1] /\ g = t.frames[n + 1]
  OBVIOUS
<1> HIDE DEF n, g
<1>5. ASSUME NEW i \in 1 .. n + 1
      PROVE  t.frames[i].char_index = i - 1 /\ t.grid[t.frames[i].cur] = W[i]
  <2>1. CASE i = n + 1
    <3>1. i - 1 = n
      BY <1>1, <2>1
    <3>2. QED BY <1>1, <1>4, <2>1, <3>1
  <2>2. CASE i # n + 1
    <3>1. i \in 1 .. n
      BY <1>1, <1>5, <2>2
    <3>2. QED BY <1>1, <1>2, <1>3, <3>1
  <2>3. QED BY <2>1, <2>2
<1>6. QED BY <1>1, <1>5 DEF Spelling

(* What the invariants say in the loop without a trie, and what keeps it. *)
LEMMA WhileMatch ==
  ASSUME IInv, WInv, pc = "match", word <= Len(e.words)
  PROVE  /\ e \in EngineType /\ Sized(e) /\ OnCells(e) /\ Path(e)
         /\ Loaded(e, job) /\ e.words = WordsOf(job) /\ scan \in Nat /\ ret \in {0, 1}
         /\ word \in 1 .. Len(e.words) /\ word \in Nat /\ e.words[word] \in Seq(Int)
         /\ value = Cardinality({i \in 1 .. word - 1 : Spellable(e, e.words[i])})
         /\ Threaded(e, Before(e, scan)) /\ Matching(e, e.words[word], scan, ret)
<1>1. e \in EngineType /\ Sized(e) /\ OnCells(e) /\ Path(e)
  BY OnPath
<1>2. Len(e.words) \in Nat /\ DOMAIN e.words = 1 .. Len(e.words)
      /\ \A w \in DOMAIN e.words : e.words[w] \in Seq(Int)
  BY <1>1, WordsAre
<1>3. word \in 1 .. Len(e.words) + 1
  BY DEF WInv, Walked
<1>4. word \in 1 .. Len(e.words) /\ word \in Nat
  BY <1>2, <1>3
<1>5. e.words[word] \in Seq(Int)
  BY <1>2, <1>4
<1>6. QED BY <1>1, <1>4, <1>5 DEF WInv, Walked

(* What keeps the invariant in that loop. *)
LEMMA MatchWalkOn ==
  ASSUME Alike(e, e'), e \in EngineType, pc' = "match", job' = job, word' = word, value' = value,
         Loaded(e, job), e.words = WordsOf(job), word \in 1 .. Len(e.words),
         value = Cardinality({i \in 1 .. word - 1 : Spellable(e, e.words[i])}),
         scan' \in Nat, ret' \in {0, 1}, Threaded(e', Before(e, scan')),
         Matching(e', e.words[word], scan', ret')
  PROVE  WInv'
<1>1. Before(e', scan') = Before(e, scan') /\ \A W : Spellable(e', W) <=> Spellable(e, W)
  BY SameTrails
<1>2. Loaded(e', job')
  BY SameGraph
<1>3. e'.words = e.words
  BY DEF Alike
<1>4. Threaded(e', Before(e', scan'))
  BY <1>1
<1>5. {i \in 1 .. word - 1 : Spellable(e', e'.words[i])} = {i \in 1 .. word - 1 : Spellable(e, e.words[i])}
  BY <1>1, <1>3
<1>6. Len(e.words) \in Nat
  BY WordsAre
<1>7. word \in 1 .. Len(e.words) + 1 /\ ~(word > Len(e.words))
  BY <1>6
<1>8. QED BY <1>2, <1>3, <1>4, <1>5, <1>7 DEF WInv, Walked

(* From e, with u its frames as they are when enter_match is called for the
   free cell c next to the innermost: the word is found if the walk now
   spells it, and if c is not its next letter, no trail over c does. *)
LEMMA MatchEnters ==
  ASSUME e \in EngineType, Sized(e), Path(e), NEW W \in Seq(Int), W = e.words[word], W # <<>>,
         NEW k, Matching(e, W, k, 0), Threaded(e, Before(e, k)),
         NEW c \in Cells(e), ~e.visited[c], e.frames # <<>> => c \in Around(e, Top(e).cur),
         NEW u \in EngineType, Alike(e, u), Len(u.frames) = Len(e.frames),
         Kept(e, u, Len(e.frames)),
         NEW i \in Nat, i = Len(e.frames), NEW t, t = enter_match(u, c, i), NEW l,
         t.frames = u.frames => Skips(e, Before(e, k), t, Before(e, l), c),
         EntersWith(u, t, c, i) => Grows(e, Before(e, k), t, Before(e, l), c)
  PROVE  /\ Alike(e, t) /\ Threaded(t, Before(e, l)) /\ Matched(c, i) \in {0, 1}
         /\ Matching(t, W, l, Matched(c, i))
<1> DEFINE z == Append(Curs(e), c)
<1>1. OnCells(e) /\ c \in Cell
  BY CellsFit DEF Path, Cell
<1>2. z \in Seq(Cells(e)) /\ Len(z) = i + 1 /\ z[i + 1] = c /\ \A j \in 1 .. i : z[j] = Curs(e)[j]
  BY <1>1, CursSeq
<1>3. \A j \in 1 .. i : Curs(e)[j] = e.frames[j].cur
  BY CursOf
<1>4. Trail(e, z)
  BY WalkOn
<1>5. /\ t \in EngineType /\ Alike(u, t)
      /\ ~Spelt(c, i) \/ Ends(i) => t.frames = u.frames
      /\ Spelt(c, i) /\ ~Ends(i) => EntersWith(u, t, c, i)
  BY <1>1, EnterMatchAt
<1>6. Alike(e, t) /\ t.words = e.words
  BY <1>5 DEF Alike
<1>7. /\ Len(W) \in Nat /\ i < Len(W)
      /\ \A j \in 1 .. i : e.grid[e.frames[j].cur] = W[j]
  <2>1. Spelling(e, W)
    BY DEF Matching
  <2>2. Len(W) \in Nat /\ Len(W) # 0
    BY EmptySeq
  <2>3. i = 0 \/ i < Len(W)
    BY <2>1 DEF Spelling
  <2>4. QED BY <2>1, <2>2, <2>3 DEF Spelling
<1>8. (Spelt(c, i) <=> e.grid[c] = W[i + 1]) /\ (Ends(i) <=> i + 1 = Len(W))
  BY DEF Spelt, Ends
<1>9. Matched(c, i) = IF Spelt(c, i) /\ Ends(i) THEN 1 ELSE 0
  BY DEF Matched
<1> HIDE DEF z
<1>10. t.frames = u.frames => Spelling(t, W)
  <2> SUFFICES ASSUME t.frames = u.frames PROVE Spelling(t, W)
    OBVIOUS
  <2>1. Len(t.frames) = i /\ i <= Len(e.frames) /\ Kept(e, t, i)
    BY DEF Kept
  <2>2. Spelling(e, W)
    BY DEF Matching
  <2>3. QED BY <1>5, <1>6, <2>1, <2>2, SpellingKept
<1>11. CASE Spelt(c, i) /\ Ends(i)
  <2>1. t.frames = u.frames /\ Matched(c, i) = 1
    BY <1>5, <1>9, <1>11
  <2>2. \A j \in 1 .. i + 1 : e.grid[z[j]] = W[j]
    <3>1. ASSUME NEW j \in 1 .. i + 1 PROVE e.grid[z[j]] = W[j]
      <4>1. CASE j = i + 1
        BY <1>2, <1>8, <1>11, <4>1
      <4>2. CASE j # i + 1
        <5>1. j \in 1 .. i
          BY <3>1, <4>2
        <5>2. z[j] = e.frames[j].cur /\ e.grid[e.frames[j].cur] = W[j]
          BY <1>2, <1>3, <1>7, <5>1
        <5>3. QED BY <5>2
      <4>3. QED BY <4>1, <4>2
    <3>2. QED BY <3>1
  <2>3. Spells(e, W, z)
    BY <1>2, <1>4, <1>8, <1>11, <2>2 DEF Spells
  <2>4. Spellable(e, W)
    BY <1>2, <2>3 DEF Spellable
  <2>5. Spellable(t, W)
    BY <1>6, <2>4, SameTrails
  <2>6. Threaded(t, Before(e, l))
    BY <2>1 DEF Skips
  <2>7. Matching(t, W, l, 1)
    BY <1>10, <2>1, <2>5 DEF Matching
  <2>8. QED BY <1>6, <2>1, <2>6, <2>7
<1>12. CASE ~Spelt(c, i)
  <2>1. t.frames = u.frames /\ Matched(c, i) = 0
    BY <1>5, <1>9, <1>12
  <2>2. Skips(e, Before(e, k), t, Before(e, l), c)
    BY <2>1
  <2>3. ASSUME NEW p, Spells(e, W, p) PROVE ~Done(t, Before(e, l), p)
    <3>1. p \in Seq(Cells(e)) /\ Len(p) = Len(W) /\ \A j \in 1 .. Len(p) : e.grid[p[j]] = W[j]
      BY <2>3 DEF Spells, Trail
    <3>2. ~Done(e, Before(e, k), p)
      BY <2>3 DEF Matching
    <3>3. ~Begins(p, z)
      <4>1. ASSUME Begins(p, z) PROVE FALSE
        <5>1. i + 1 <= Len(p) /\ \A j \in 1 .. i + 1 : p[j] = z[j]
          BY <1>2, <4>1 DEF Begins
        <5>2. i + 1 \in 1 .. i + 1 /\ i + 1 \in 1 .. Len(p)
          BY <1>7, <3>1, <5>1
        <5>3. p[i + 1] = c
          BY <1>2, <5>1, <5>2
        <5>4. e.grid[c] = W[i + 1]
          BY <3>1, <5>2, <5>3
        <5>5. QED BY <1>8, <1>12, <5>4
      <4>2. QED BY <4>1
    <3>4. QED BY <2>2, <3>1, <3>2, <3>3 DEF Skips, z
  <2>4. Before(t, l) = Before(e, l) /\ \A p : Spells(t, W, p) <=> Spells(e, W, p)
    BY <1>6, SameTrails
  <2>5. Threaded(t, Before(e, l))
    BY <2>2 DEF Skips
  <2>6. Matching(t, W, l, 0)
    BY <1>10, <2>1, <2>3, <2>4 DEF Matching
  <2>7. QED BY <1>6, <2>1, <2>5, <2>6
<1>13. CASE Spelt(c, i) /\ ~Ends(i)
  <2>1. EntersWith(u, t, c, i) /\ Matched(c, i) = 0
    BY <1>5, <1>9, <1>13
  <2>2. Grows(e, Before(e, k), t, Before(e, l), c)
    BY <2>1
  <2>3. ASSUME NEW p, Spells(e, W, p) PROVE ~Done(t, Before(e, l), p)
    <3>1. p \in Seq(Cells(e)) /\ ~Done(e, Before(e, k), p)
      BY <2>3 DEF Spells, Trail, Matching
    <3>2. QED BY <2>2, <3>1 DEF Grows
  <2>4. Before(t, l) = Before(e, l) /\ \A p : Spells(t, W, p) <=> Spells(e, W, p)
    BY <1>6, SameTrails
  <2>5. Threaded(t, Before(e, l))
    BY <2>2 DEF Grows
  <2>6. PICK f \in FrameType : f.cur = c /\ f.next = 0 /\ f.char_index = i /\ t.frames = Append(u.frames, f)
    BY <2>1 DEF EntersWith
  <2>7. Kept(u, t, i) /\ Len(t.frames) = i + 1 /\ t.frames[i + 1] = f
    <3>1. Kept(u, t, Len(u.frames)) /\ Len(t.frames) = Len(u.frames) + 1
          /\ t.frames[Len(u.frames) + 1] = f
      BY <2>6, AppendKeeps
    <3>2. QED BY <3>1
  <2>8. Kept(e, t, i)
    <3>1. Kept(e, u, i) /\ Kept(u, t, i)
      BY <2>7
    <3>2. QED BY <3>1 DEF Kept
  <2>9. Spelling(t, W)
    <3>1. Spelling(e, W)
      BY DEF Matching
    <3>2. i + 1 < Len(W)
      BY <1>7, <1>8, <1>13
    <3>3. f.char_index = i /\ e.grid[f.cur] = W[i + 1]
      BY <1>8, <1>13, <2>6
    <3>4. QED BY <1>6, <2>7, <2>8, <3>1, <3>2, <3>3, SpellingGrows
  <2>10. Matching(t, W, l, 0)
    BY <2>3, <2>4, <2>9 DEF Matching
  <2>11. QED BY <1>6, <2>1, <2>5, <2>10
<1>14. QED BY <1>11, <1>12, <1>13

(* A search for a word begins at a cell. *)
LEMMA MatchSourceWalks == IInv /\ WInv /\ MatchSource => WInv'
<1> SUFFICES ASSUME IInv, WInv, MatchSource PROVE WInv'
  OBVIOUS
<1> DEFINE W == e.words[word]
           t == enter_match(e, scan, 0)
           l == scan + 1
           A == Before(e, scan)
<1>1. /\ pc = "match" /\ pc' = "match" /\ job' = job /\ word' = word /\ value' = value
      /\ e.frames = <<>> /\ word <= Len(e.words)
      /\ e' = t /\ ret' = Matched(scan, 0) /\ scan' = l
      /\ W # <<>> /\ ret # 1 /\ scan \in Cells(e)
  BY DEF MatchSource, Walking, WordOver, call
<1>2. /\ e \in EngineType /\ Sized(e) /\ OnCells(e) /\ Path(e)
      /\ Loaded(e, job) /\ e.words = WordsOf(job) /\ scan \in Nat /\ ret \in {0, 1}
      /\ word \in 1 .. Len(e.words) /\ word \in Nat /\ W \in Seq(Int)
      /\ value = Cardinality({i \in 1 .. word - 1 : Spellable(e, e.words[i])})
      /\ Threaded(e, A) /\ Matching(e, W, scan, ret)
  BY <1>1, WhileMatch
<1>3. Before(e, l) = A \cup {scan} /\ scan \notin A /\ l \in Nat
  BY <1>1, <1>2, BeforeNext
<1>4. scan \in Cell /\ 0 \in Nat /\ Len(e.frames) = 0
  BY <1>1, <1>2, CellsFit DEF Cell
<1>5. ~e.visited[scan]
  <2>1. 1 .. Len(e.frames) = {}
    BY <1>4
  <2>2. QED BY <1>1, <1>2, <2>1 DEF Path
<1>6. t \in EngineType /\ Alike(e, t)
  BY <1>2, <1>4, EnterMatchAt
<1>7. Alike(e, e) /\ Kept(e, e, Len(e.frames))
  BY DEF Alike, Kept
<1>8. Matching(e, W, scan, 0)
  BY <1>1, <1>2
<1>9. t = enter_match(e, scan, 0) /\ W = e.words[word]
  OBVIOUS
<1> HIDE DEF t, W, l, A
<1>10. t.frames = e.frames => Skips(e, A, t, Before(e, l), scan)
  BY <1>1, <1>2, <1>3, <1>6, FirstSkipped
<1>11. EntersWith(e, t, scan, 0) => Grows(e, A, t, Before(e, l), scan)
  BY <1>1, <1>2, <1>3, <1>6, FirstEntered DEF EntersWith
<1>12. /\ t.frames = e.frames => Skips(e, Before(e, scan), t, Before(e, l), scan)
       /\ EntersWith(e, t, scan, 0) => Grows(e, Before(e, scan), t, Before(e, l), scan)
       /\ Threaded(e, Before(e, scan))
  BY <1>2, <1>10, <1>11 DEF A
<1>13. /\ Alike(e, t) /\ Threaded(t, Before(e, l)) /\ Matched(scan, 0) \in {0, 1}
       /\ Matching(t, W, l, Matched(scan, 0))
  BY <1>1, <1>2, <1>4, <1>5, <1>7, <1>8, <1>9, <1>12, MatchEnters
<1>14. Matching(e', e.words[word], scan', ret') /\ Threaded(e', Before(e, scan'))
  BY <1>1, <1>13 DEF W
<1>15. scan' \in Nat /\ ret' \in {0, 1} /\ Alike(e, e')
  BY <1>1, <1>3, <1>13
<1>16. QED BY <1>1, <1>2, <1>14, <1>15, MatchWalkOn

(* It tries a direction. *)
LEMMA MatchStepWalks == IInv /\ WInv /\ MatchStep => WInv'
<1> SUFFICES ASSUME IInv, WInv, MatchStep PROVE WInv'
  OBVIOUS
<1> DEFINE W == e.words[word]
           u == advance(e)
           k == Top(e).char_index + 1
           n == Neighbor(e, cur, Top(e).next)
           H == HasNeighbor(e, cur, Top(e).next)
           t == enter_match(u, n, k)
           A == Before(e, scan)
           L == Len(e.frames)
<1>1. /\ pc = "match" /\ pc' = "match" /\ job' = job /\ word' = word /\ value' = value
      /\ scan' = scan /\ ret = 0 /\ e.frames # <<>> /\ Top(e).next < e.degree
      /\ ret' = IF H /\ ~e.visited[n] THEN Matched(n, k) ELSE 0
  BY DEF MatchStep, Walking, MoreDirs, Free, call
<1>2. word <= Len(e.words)
  <2>1. word > Len(e.words) => e.frames = <<>>
    BY <1>1 DEF WInv, Walked
  <2>2. word \in 1 .. Len(e.words) + 1 /\ e \in EngineType
    BY <1>1, OnPath DEF WInv, Walked
  <2>3. QED BY <1>1, <2>1, <2>2, WordsAre
<1>3. /\ e \in EngineType /\ Sized(e) /\ OnCells(e) /\ Path(e)
      /\ Loaded(e, job) /\ e.words = WordsOf(job) /\ scan \in Nat
      /\ word \in 1 .. Len(e.words) /\ word \in Nat /\ W \in Seq(Int)
      /\ value = Cardinality({i \in 1 .. word - 1 : Spellable(e, e.words[i])})
      /\ Threaded(e, A) /\ Matching(e, W, scan, 0)
  BY <1>1, <1>2, WhileMatch
<1>4. e' = IF H /\ ~e.visited[n] THEN t ELSE u
  BY DEF MatchStep, TryNext, Free
<1>5. H => Leads(e, n)
  BY DEF Leads, cur
<1>6. H => n \in Around(e, Top(e).cur) /\ n \in Cells(e) /\ n \in Cell /\ n \in Nat
  BY <1>1, <1>3, <1>5, LeadsAround
<1>7. L \in Nat \ {0} /\ L < Len(W) /\ k = L
  <2>1. L \in Nat \ {0} /\ Top(e) = e.frames[L]
    BY <1>1, <1>3, TopOf
  <2>2. L \in 1 .. L
    BY <2>1
  <2>3. e.frames[L].char_index = L - 1 /\ (L = 0 \/ L < Len(W))
    BY <1>3, <2>2 DEF Matching, Spelling
  <2>4. k = L - 1 + 1
    BY <2>1, <2>3
  <2>5. QED BY <2>1, <2>3, <2>4
<1>8. W # <<>>
  BY <1>7
<1>9. Moved(e, u)
  BY <1>1, <1>3, AdvanceMoves
<1>10. u \in EngineType /\ Alike(e, u) /\ Len(u.frames) = L
  BY <1>9 DEF Moved
<1>11. Kept(e, u, L)
  BY <1>1, <1>3, <1>9, MovedKeeps
<1>12. H <=> HasNeighbor(e, Top(e).cur, Top(e).next)
  BY DEF cur
<1>13. k \in Nat /\ k = Len(e.frames) /\ W = e.words[word] /\ t = enter_match(u, n, k)
  BY <1>7
<1> HIDE DEF u, n, H, A, W, t, k
<1>14. CASE ~(H /\ ~e.visited[n])
  <2>1. e' = u /\ ret' = 0
    BY <1>1, <1>4, <1>14
  <2>2. Spelling(u, W)
    <3>1. L <= L /\ Spelling(e, W)
      BY <1>3, <1>7 DEF Matching
    <3>2. QED BY <1>3, <1>10, <1>11, <3>1, SpellingKept
  <2>3. /\ \A p : Spells(u, W, p) <=> Spells(e, W, p)
        /\ Before(u, scan) = A
    BY <1>10, SameTrails DEF A
  <2>4. \A p : Spells(e, W, p) => p \in Seq(Cells(e)) /\ Trail(e, p) /\ ~Done(e, A, p)
    BY <1>3 DEF Matching, Spells, Trail, A
  <2>5. Threaded(u, A) /\ \A p : Spells(e, W, p) => ~Done(u, A, p)
    <3>1. CASE ~H
      <4>1. Stands(e, A, u)
        BY <1>1, <1>3, <1>9, <1>12, <3>1, TurnsOff
      <4>2. QED BY <2>4, <4>1 DEF Stands
    <3>2. CASE H /\ e.visited[n]
      <4>1. Skips(e, A, u, A, n)
        BY <1>1, <1>3, <1>5, <1>9, <3>2, TurnsTo
      <4>2. \A p : Trail(e, p) => ~Begins(p, Append(Curs(e), n))
        BY <1>3, <1>6, <3>2, NoTrailThrough
      <4>3. QED BY <2>4, <4>1, <4>2 DEF Skips
    <3>3. QED BY <1>14, <3>1, <3>2
  <2>6. Matching(u, W, scan, 0)
    BY <2>2, <2>3, <2>5 DEF Matching
  <2>7. Matching(e', e.words[word], scan', ret') /\ Threaded(e', Before(e, scan'))
    BY <1>1, <2>1, <2>5, <2>6 DEF A, W
  <2>8. scan' \in Nat /\ ret' \in {0, 1} /\ Alike(e, e')
    BY <1>1, <1>3, <1>10, <2>1
  <2>9. QED BY <1>1, <1>3, <2>7, <2>8, MatchWalkOn
<1>15. CASE H /\ ~e.visited[n]
  <2>1. e' = t /\ ret' = Matched(n, k)
    BY <1>1, <1>4, <1>15
  <2>2. t \in EngineType /\ Alike(u, t)
    BY <1>6, <1>10, <1>13, <1>15, EnterMatchAt
  <2>3. Alike(e, t)
    BY <1>10, <2>2 DEF Alike
  <2>4. t.frames = u.frames => Skips(e, A, t, A, n)
    <3>1. t.frames = u.frames => Moved(e, t)
      BY <1>9, <2>2, <2>3 DEF Moved
    <3>2. QED BY <1>1, <1>3, <1>5, <1>15, <3>1, TurnsTo
  <2>5. EntersWith(u, t, n, k) => Grows(e, A, t, A, n)
    BY <1>1, <1>3, <1>5, <1>9, <1>15, <2>2, GoesTo DEF EntersWith
  <2>6. /\ e.frames # <<>> => n \in Around(e, Top(e).cur)
        /\ Kept(e, u, Len(e.frames)) /\ Len(u.frames) = Len(e.frames)
        /\ Threaded(e, Before(e, scan)) /\ Matching(e, W, scan, 0)
        /\ t.frames = u.frames => Skips(e, Before(e, scan), t, Before(e, scan), n)
        /\ EntersWith(u, t, n, k) => Grows(e, Before(e, scan), t, Before(e, scan), n)
    BY <1>3, <1>6, <1>10, <1>11, <1>15, <2>4, <2>5 DEF A
  <2>7. n \in Cells(e) /\ ~e.visited[n]
    BY <1>6, <1>15
  <2> HIDE DEF L
  <2>8. /\ Alike(e, t) /\ Threaded(t, Before(e, scan)) /\ Matched(n, k) \in {0, 1}
        /\ Matching(t, W, scan, Matched(n, k))
    BY <1>3, <1>8, <1>10, <1>13, <2>6, <2>7, MatchEnters
  <2>9. Matching(e', e.words[word], scan', ret') /\ Threaded(e', Before(e, scan'))
    BY <1>1, <2>1, <2>8 DEF W
  <2>10. scan' \in Nat /\ ret' \in {0, 1} /\ Alike(e, e')
    BY <1>1, <1>3, <2>1, <2>8
  <2>11. QED BY <1>1, <1>3, <2>9, <2>10, MatchWalkOn
<1>16. QED BY <1>14, <1>15

(* It goes back: found, or no trail that goes on from there spells the word,
   for the word is longer than the walk. *)
LEMMA MatchBackWalks == IInv /\ WInv /\ MatchBack => WInv'
<1> SUFFICES ASSUME IInv, WInv, MatchBack PROVE WInv'
  OBVIOUS
<1> DEFINE W == e.words[word]
           A == Before(e, scan)
           L == Len(e.frames)
<1>1. /\ pc = "match" /\ pc' = "match" /\ job' = job /\ word' = word /\ value' = value
      /\ scan' = scan /\ ret' = ret /\ e.frames # <<>> /\ (ret = 1 \/ ~(Top(e).next < e.degree))
      /\ e' = pop_frame(unmark_visited(e, Top(e).cur))
  BY DEF MatchBack, Walking, MoreDirs, cur, call
<1>2. word <= Len(e.words)
  <2>1. word > Len(e.words) => e.frames = <<>>
    BY <1>1 DEF WInv, Walked
  <2>2. word \in 1 .. Len(e.words) + 1 /\ e \in EngineType
    BY <1>1, OnPath DEF WInv, Walked
  <2>3. QED BY <1>1, <2>1, <2>2, WordsAre
<1>3. /\ e \in EngineType /\ Sized(e) /\ OnCells(e) /\ Path(e)
      /\ Loaded(e, job) /\ e.words = WordsOf(job) /\ scan \in Nat /\ ret \in {0, 1}
      /\ word \in 1 .. Len(e.words) /\ word \in Nat /\ W \in Seq(Int)
      /\ value = Cardinality({i \in 1 .. word - 1 : Spellable(e, e.words[i])})
      /\ Threaded(e, A) /\ Matching(e, W, scan, ret)
  BY <1>1, <1>2, WhileMatch
<1>4. e' \in EngineType /\ Leaves(e, e')
  BY <1>1, <1>3, LeaveFrame
<1>5. Alike(e, e') /\ e'.frames = Front(e.frames)
  BY <1>4 DEF Leaves
<1>6. Shrinks(e, A, e')
  BY <1>1, <1>3, <1>4, <1>5, Returns
<1>7. Kept(e, e', L - 1) /\ Len(e'.frames) = L - 1 /\ L \in Nat
  BY <1>1, <1>3, <1>5, FrontKeeps, CursOf
<1> HIDE DEF W, A, L
<1>8. Spelling(e', W)
  <2>1. L - 1 <= L /\ Spelling(e, W)
    BY <1>3, <1>7 DEF Matching
  <2>2. QED BY <1>3, <1>4, <1>5, <1>7, <2>1, SpellingKept DEF L
<1>9. \A p : Spells(e', W, p) <=> Spells(e, W, p)
  BY <1>5, SameTrails
<1>10. Spellable(e', W) <=> Spellable(e, W)
  BY <1>5, SameTrails
<1>11. Before(e', scan) = A /\ Threaded(e', A)
  BY <1>5, <1>6, SameTrails DEF A, Shrinks
<1>12. ret = 1 => Spellable(e, W)
  BY <1>3 DEF Matching
<1>13. ASSUME ret = 0, NEW p, Spells(e, W, p) PROVE ~Done(e', A, p)
  <2>1. p \in Seq(Cells(e)) /\ Trail(e, p) /\ Len(p) = Len(W) /\ ~Done(e, A, p)
    BY <1>3, <1>13 DEF Matching, Spells, Trail, A
  <2>2. Len(W) # L
    <3>1. Spelling(e, W) /\ L # 0 /\ Len(W) \in Nat
      BY <1>1, <1>3, CursOf DEF Matching, L
    <3>2. L < Len(W)
      BY <3>1 DEF Spelling, L
    <3>3. QED BY <1>7, <3>1, <3>2
  <2>3. ~(Top(e).next < e.degree)
    BY <1>1, <1>13
  <2>4. Begins(p, Curs(e)) => Done(e, A, p)
    BY <1>1, <1>3, <2>1, <2>2, <2>3, AllTurned DEF L
  <2>5. QED BY <1>6, <2>1, <2>4 DEF Shrinks
<1>14. Matching(e', W, scan, ret)
  BY <1>8, <1>9, <1>10, <1>11, <1>12, <1>13 DEF Matching
<1>15. Matching(e', e.words[word], scan', ret') /\ Threaded(e', Before(e, scan'))
  BY <1>1, <1>11, <1>14 DEF A, W
<1>16. scan' \in Nat /\ ret' \in {0, 1}
  BY <1>1, <1>3
<1>17. QED BY <1>1, <1>3, <1>5, <1>15, <1>16, MatchWalkOn

(* Without frames the search is done with the trails that begin in A. *)
LEMMA DoneAtRest ==
  ASSUME NEW s \in EngineType, s.frames = <<>>, NEW A
  PROVE  /\ Threaded(s, A)
         /\ \A p : Len(p) \in Nat => (Done(s, A, p) <=> Len(p) # 0 /\ p[1] \in A)
<1>1. Len(s.frames) = 0 /\ Len(Curs(s)) = 0 /\ Turned(s, A)[0] = A
  BY CursOf, TurnedOf
<1>2. Threaded(s, A)
  <2>1. 1 .. Len(s.frames) = {}
    BY <1>1
  <2>2. QED BY <2>1 DEF Threaded
<1>3. ASSUME NEW p, Len(p) \in Nat PROVE Done(s, A, p) <=> Len(p) # 0 /\ p[1] \in A
  <2> DEFINE q == Curs(s)
             T == Turned(s, A)
  <2>1. Len(q) = 0 /\ T[0] = A
    BY <1>1
  <2> HIDE DEF q, T
  <2>2. Passed(q, T, p) <=> Len(p) # 0 /\ p[1] \in A
    <3>1. 0 .. Len(q) = {0} /\ 1 .. 0 = {} /\ 0 + 1 = 1
      BY <2>1
    <3>2. Passed(q, T, p) <=> 0 < Len(p) /\ p[0 + 1] \in T[0]
      BY <2>1, <3>1 DEF Passed
    <3>3. QED BY <1>3, <2>1, <3>1, <3>2
  <2>3. QED BY <2>2 DEF Done, q, T
<1>4. QED BY <1>2, <1>3

(* A trail has a first cell, and no trail begins before cell 0; all do before
   the number of cells. *)
LEMMA TrailsBegin ==
  ASSUME NEW s, Sized(s)
  PROVE  /\ \A p : Trail(s, p) => Len(p) \in Nat \ {0} /\ p[1] \in Cells(s) /\ p \in Seq(Cells(s))
         /\ Before(s, 0) = {}
         /\ \A k \in Nat : k \notin Cells(s) => Before(s, k) = Cells(s)
<1>1. ASSUME NEW p, Trail(s, p)
      PROVE  Len(p) \in Nat \ {0} /\ p[1] \in Cells(s) /\ p \in Seq(Cells(s))
  <2>1. p \in Seq(Cells(s)) /\ p # <<>>
    BY <1>1 DEF Trail
  <2> HIDE DEF Cells
  <2>2. QED BY <2>1
<1>2. s.rows * s.cols \in Int
  BY CellsFit
<1>3. Before(s, 0) = {}
  BY <1>2 DEF Before, Cells
<1>4. \A k \in Nat : k \notin Cells(s) => Before(s, k) = Cells(s)
  BY <1>2 DEF Before, Cells
<1>5. QED BY <1>1, <1>3, <1>4

(* A word is over: it is counted if it can be spelt, and the next begins. *)
LEMMA MatchWordWalks == IInv /\ WInv /\ MatchWord => WInv'
<1> SUFFICES ASSUME IInv, WInv, MatchWord PROVE WInv'
  OBVIOUS
<1> DEFINE W == e.words[word]
           A == Before(e, scan)
           N == Len(e.words)
           C == {i \in 1 .. word - 1 : Spellable(e, e.words[i])}
           D == {i \in 1 .. word : Spellable(e, e.words[i])}
<1>1. /\ pc = "match" /\ pc' = "match" /\ job' = job /\ word' = word + 1 /\ value' = value + ret
      /\ scan' = 0 /\ ret' = 0 /\ e' = e /\ e.frames = <<>> /\ word <= N
      /\ W = <<>> \/ ret = 1 \/ scan \notin Cells(e)
  BY DEF MatchWord, Walking, WordOver, call
<1>2. /\ e \in EngineType /\ Sized(e) /\ Loaded(e, job) /\ e.words = WordsOf(job)
      /\ scan \in Nat /\ ret \in {0, 1} /\ word \in 1 .. N /\ word \in Nat /\ W \in Seq(Int)
      /\ value = Cardinality(C) /\ Matching(e, W, scan, ret)
  BY <1>1, WhileMatch
<1>3. N \in Nat
  BY <1>2, WordsAre
<1>4. Spellable(e, W) <=> ret = 1
  <2>1. ret = 1 => Spellable(e, W)
    BY <1>2 DEF Matching
  <2>2. ASSUME Spellable(e, W), ret # 1 PROVE FALSE
    <3>1. PICK p \in Seq(Cells(e)) : Spells(e, W, p)
      BY <2>2 DEF Spellable
    <3>2. Trail(e, p) /\ Len(p) = Len(W)
      BY <3>1 DEF Spells
    <3>3. Len(p) \in Nat \ {0} /\ p[1] \in Cells(e)
      BY <1>2, <3>2, TrailsBegin
    <3>4. W # <<>>
      BY <3>2, <3>3
    <3>5. A = Cells(e)
      BY <1>1, <1>2, <2>2, <3>4, TrailsBegin
    <3>6. Done(e, A, p)
      BY <1>1, <1>2, <3>3, <3>5, DoneAtRest
    <3>7. ret = 0
      BY <1>2, <2>2
    <3>8. QED BY <1>2, <3>1, <3>6, <3>7 DEF Matching
  <2>3. QED BY <2>1, <2>2
<1> HIDE DEF W, A
<1>5. IsFiniteSet(C) /\ word \notin C /\ D = IF ret = 1 THEN C \cup {word} ELSE C
  <2>1. 1 .. word = (1 .. word - 1) \cup {word} /\ word \notin 1 .. word - 1
    BY <1>2
  <2>2. IsFiniteSet(1 .. word - 1)
    BY <1>2, FS_Interval
  <2>3. C \subseteq 1 .. word - 1
    OBVIOUS
  <2>4. IsFiniteSet(C)
    BY <2>2, <2>3, FS_Subset
  <2>5. D = IF ret = 1 THEN C \cup {word} ELSE C
    BY <1>4, <2>1 DEF W
  <2>6. QED BY <2>1, <2>3, <2>4, <2>5
<1> DEFINE x == Cardinality(C)
           y == Cardinality(D)
<1>6. value' = y
  <2>1. x \in Nat
    BY <1>5, FS_CardinalityType
  <2>2. CASE ret = 1
    <3>1. D = C \cup {word}
      BY <1>5, <2>2
    <3> HIDE DEF C, D
    <3>2. y = x + 1
      BY <1>5, <3>1, FS_AddElement
    <3> HIDE DEF x, y
    <3>3. QED BY <1>1, <1>2, <2>2, <3>2 DEF x
  <2>3. CASE ret # 1
    <3>1. D = C /\ ret = 0
      BY <1>2, <1>5, <2>3
    <3>2. y = x
      BY <3>1
    <3> HIDE DEF C, D, x, y
    <3>3. QED BY <1>1, <1>2, <2>1, <3>1, <3>2 DEF x
  <2>4. QED BY <2>2, <2>3
<1>7. word' \in 1 .. N + 1 /\ word' - 1 = word
  BY <1>1, <1>2, <1>3
<1>8. value' = Cardinality({i \in 1 .. word' - 1 : Spellable(e', e'.words[i])})
  BY <1>1, <1>6, <1>7
<1>9. Before(e, 0) = {} /\ Threaded(e, {})
      /\ \A p : Len(p) \in Nat => ~Done(e, {}, p)
  BY <1>1, <1>2, TrailsBegin, DoneAtRest
<1>10. ASSUME word' <= N PROVE Matching(e, e.words[word'], 0, 0)
  <2> DEFINE V == e.words[word']
  <2>1. 1 .. Len(e.frames) = {} /\ Len(e.frames) = 0
    BY <1>1
  <2> HIDE DEF V
  <2>2. Spelling(e, V)
    BY <2>1 DEF Spelling
  <2>3. \A p : Spells(e, V, p) => ~Done(e, Before(e, 0), p)
    <3>1. \A p : Spells(e, V, p) => Len(p) \in Nat
      BY <1>2, TrailsBegin DEF Spells
    <3>2. QED BY <1>9, <3>1
  <2>4. Matching(e, V, 0, 0)
    BY <2>2, <2>3 DEF Matching
  <2>5. QED BY <2>4 DEF V
<1>11. QED BY <1>1, <1>2, <1>7, <1>8, <1>9, <1>10 DEF WInv, Walked

(* A call loads the words of its job, and a search with a trie forgets
   those the last one found. *)
LEMMA LoadWords ==
  ASSUME IInv, NEW j \in Jobs, FitsEngine(j)
  PROVE  /\ Load(j).words = WordsOf(j)
         /\ j.mode = "words" /\ j.prune => Cleared(j, Load(j)).word_found = {}
<1> DEFINE m == IF Len(j.words) > MaxWords THEN MaxWords ELSE Len(j.words)
           d == IF j.eight THEN 8 ELSE 4
           g == [c \in DOMAIN e.grid |-> IF c < j.rows * j.cols THEN j.cells[c] ELSE e.grid[c]]
           w == SubSeq(j.words, 1, m)
           z == Zeroed
           t == Load(j)
<1>1. e \in EngineType
  BY DEF IInv
<1>2. {"rows", "cols", "degree", "grid", "words", "visited", "word_found"} \subseteq DOMAIN z
  BY <1>1 DEF Zeroed, EngineType
<1>3. t = [z EXCEPT !.rows = j.rows, !.cols = j.cols, !.degree = d, !.grid = g, !.words = w]
  BY DEF Load
<1>4. w = WordsOf(j)
  BY DEF WordsOf
<1>5. t \in EngineType
  BY LoadOf
<1> HIDE DEF z, w, g, d, t, m
<1>6. t.words = w
  BY <1>2, <1>3
<1>7. j.mode = "words" /\ j.prune => Cleared(j, t).word_found = {}
  <2>1. j.mode = "words" /\ j.prune => Cleared(j, t) = [clear_visited(t) EXCEPT !.word_found = {}]
    BY DEF Cleared
  <2>2. clear_visited(t) \in EngineType
    BY <1>5, ClearVisited
  <2> DEFINE u == clear_visited(t)
  <2> HIDE DEF u
  <2>3. "word_found" \in DOMAIN u
    BY <2>2 DEF EngineType, u
  <2>4. [u EXCEPT !.word_found = {}].word_found = {}
    BY <2>3
  <2>5. QED BY <2>1, <2>4 DEF u
<1>8. QED BY <1>4, <1>6, <1>7 DEF t

(* A call begins with nothing walked and nothing found. *)
LEMMA CallWalks == ASSUME IInv, NEW j \in Jobs, Call(j) PROVE WInv'
<1> DEFINE s == Load(j)
           t == Cleared(j, s)
<1>1. /\ FitsEngine(j) /\ e' = t /\ pc' = Loop(j) /\ job' = j
      /\ scan' = 0 /\ word' = 1 /\ ret' = 0 /\ value' = 0
  BY DEF Call
<1>2. /\ s \in EngineType /\ Sized(s) /\ s.frames = <<>> /\ Loaded(s, j) /\ s.words = WordsOf(j)
      /\ j.mode = "words" /\ j.prune => t.word_found = {}
  BY <1>1, LoadOf, LoadFinds, LoadWords
<1> HIDE DEF s
<1>3. t \in EngineType /\ Alike(s, t) /\ t.frames = <<>>
  BY <1>2, ClearedOf
<1> HIDE DEF t
<1>4. Sized(t) /\ Loaded(t, j) /\ t.words = WordsOf(j)
  BY <1>2, <1>3, SizedAlike, SameGraph DEF Alike
<1>5. /\ Before(t, 0) = {} /\ Threaded(t, {})
      /\ \A p : Len(p) \in Nat => ~Done(t, {}, p)
  BY <1>3, <1>4, TrailsBegin, DoneAtRest
<1>6. Len(t.frames) = 0 /\ 1 .. Len(t.frames) = {}
  BY <1>3
<1>7. CASE j.mode = "words" /\ j.prune
  <2>1. pc' = "trie"
    BY <1>1, <1>7 DEF Loop
  <2>2. Noted(t)
    BY <1>6 DEF Noted
  <2>3. \A p \in Seq(Cells(t)) : p # <<>> => ~Met(t, 0, p)
    <3>1. Curs(t) = <<>>
      BY <1>6, <1>3, CursOf DEF Curs
    <3>2. Len(Curs(t)) = 0
      BY <1>3, <1>6, CursOf
    <3>3. ASSUME NEW p \in Seq(Cells(t)), p # <<>> PROVE ~Met(t, 0, p)
      <4>1. Len(p) \in Nat \ {0}
        BY <3>3, EmptySeq
      <4>2. ~Begins(Curs(t), p)
        <5> DEFINE q == Curs(t)
        <5>1. Len(q) = 0
          BY <3>2
        <5> HIDE DEF q
        <5>2. ~Begins(q, p)
          BY <4>1, <5>1 DEF Begins
        <5>3. QED BY <5>2 DEF q
      <4>3. QED BY <1>5, <4>1, <4>2 DEF Met
    <3>4. QED BY <3>3
  <2>4. Finds(t, 0)
    <3>1. \A W, p : Spells(t, W, p) => p # <<>>
      BY DEF Spells, Trail
    <3>2. QED BY <1>2, <1>7, <2>3, <3>1 DEF Finds
  <2>5. QED BY <1>1, <1>4, <1>5, <2>1, <2>2, <2>4 DEF WInv, Walked
<1>8. CASE j.mode = "words" /\ ~j.prune
  <2>1. pc' = "match"
    BY <1>1, <1>8 DEF Loop
  <2>2. Len(t.words) \in Nat
    BY <1>3, WordsAre
  <2>3. 1 \in 1 .. Len(t.words) + 1
    BY <2>2
  <2>4. 0 = Cardinality({i \in 1 .. 1 - 1 : Spellable(t, t.words[i])})
    <3>1. 1 .. 1 - 1 = {}
      OBVIOUS
    <3>2. {i \in 1 .. 1 - 1 : Spellable(t, t.words[i])} = {}
      BY <3>1
    <3>3. QED BY <3>2, FS_EmptySet
  <2>5. Matching(t, t.words[1], 0, 0)
    <3> DEFINE V == t.words[1]
    <3> HIDE DEF V
    <3>1. Spelling(t, V)
      BY <1>6 DEF Spelling
    <3>2. \A p : Spells(t, V, p) => ~Done(t, Before(t, 0), p)
      <4>1. \A p : Spells(t, V, p) => Len(p) \in Nat
        BY <1>4, TrailsBegin DEF Spells
      <4>2. QED BY <1>5, <4>1
    <3>3. Matching(t, V, 0, 0)
      BY <3>1, <3>2 DEF Matching
    <3>4. QED BY <3>3 DEF V
  <2>6. QED BY <1>1, <1>3, <1>4, <1>5, <2>1, <2>3, <2>4, <2>5 DEF WInv, Walked
<1>9. CASE j.mode = "paths"
  <2>1. pc' = "start"
    BY <1>1, <1>9 DEF Loop
  <2>2. QED BY <1>1, <1>4, <2>1 DEF WInv, Walked
<1>10. CASE j.mode \in {"islands", "pacific", "increasing", "other"}
  <2>1. pc' \notin {"start", "paths", "trie", "match"}
    BY <1>1, <1>10 DEF Loop
  <2>2. QED BY <2>1 DEF WInv, Walked
<1>11. j.mode \in {"islands", "pacific", "paths", "increasing", "words", "other"}
  BY JobsAssumption
<1>12. QED BY <1>7, <1>8, <1>9, <1>10, <1>11

(* Nothing is claimed of the other searches. *)
LEMMA ElsewhereWalks == pc' \notin {"start", "paths", "trie", "match"} => WInv'
BY DEF WInv, Walked

(* Nor before the first call. *)
LEMMA InitWInv == Init => WInv
BY DEF Init, WInv, Walked

(* Every step of every search keeps what the searches that backtrack have
   found. *)
LEMMA StepWInv == IInv /\ WInv /\ [Next]_vars => WInv'
<1> SUFFICES ASSUME IInv, WInv, [Next]_vars PROVE WInv'
  OBVIOUS
<1>1. CASE PathsStart \/ PathsTarget \/ PathsStep \/ PathsBack
  BY <1>1, PathsStartWalks, PathsTargetWalks, PathsStepWalks, PathsBackWalks
<1>2. CASE TrieSource \/ TrieStep \/ TrieBack
  BY <1>2, TrieSourceWalks, TrieStepWalks, TrieBackWalks
<1>3. CASE MatchSource \/ MatchStep \/ MatchBack \/ MatchWord
  BY <1>3, MatchSourceWalks, MatchStepWalks, MatchBackWalks, MatchWordWalks
<1>4. CASE \/ IslandsSource \/ IslandsSpread \/ FloodSources \/ FloodSpread \/ KeepPacific
           \/ IncreasingSource \/ IncreasingHit \/ IncreasingStep \/ IncreasingBack \/ IncreasingNext
  <2>1. pc' \in {"islands", "pacific_flood", "atlantic_flood", "atlantic", "increasing_walk", "increasing"}
    BY <1>4 DEF IslandsSource, IslandsSpread, FloodSources, FloodSpread, KeepPacific,
       IncreasingSource, IncreasingHit, IncreasingStep, IncreasingBack, IncreasingNext
  <2>2. QED BY <2>1, ElsewhereWalks
<1>5. CASE \/ IslandsReturn \/ PacificReturn \/ PathsReturn \/ IncreasingReturn \/ TrieReturn
           \/ MatchReturn \/ UnknownMode
  <2>1. pc' = "idle"
    BY <1>5 DEF IslandsReturn, PacificReturn, PathsReturn, IncreasingReturn, TrieReturn,
       MatchReturn, UnknownMode, Return
  <2>2. QED BY <2>1, ElsewhereWalks
<1>6. CASE pc = "idle" /\ \E j \in Jobs : Call(j) \/ Refuse(j)
  <2>1. ASSUME NEW j \in Jobs, Refuse(j) PROVE WInv'
    <3>1. pc' = "idle"
      BY <1>6, <2>1 DEF Refuse
    <3>2. QED BY <3>1, ElsewhereWalks
  <2>2. QED BY <1>6, <2>1, CallWalks
<1>7. CASE UNCHANGED vars
  BY <1>7 DEF vars, WInv
<1>8. QED
  BY <1>1, <1>2, <1>3, <1>4, <1>5, <1>6, <1>7 DEF Next, dfs_accel

(* In every state of every run, while a search backtracks: the paths counted
   and the words found are exactly those of the trails the search is done
   with. *)
THEOREM WalkFindings == Spec => [](IInv /\ WInv)
<1>1. QED BY InitIInv, InitWInv, StepIInv, StepWInv, PTL DEF Spec

(* What unique paths III asks for: the paths that begin on the start, meet
   every free cell once, and are on a target at their end and nowhere else. *)
Covering(s, p) ==
  /\ Trail(s, p) /\ p[1] = StartOf(s) /\ Entries(p) = FreeCells(s)
  /\ \A i \in 1 .. Len(p) : s.grid[p[i]] = 2 <=> i = Len(p)

(* Where there is a start, the paths as long as there are free cells are
   those that meet every one of them. *)
LEMMA FullIsCovering ==
  ASSUME NEW s, Sized(s), Ones(s) # {}
  PROVE  \A p : FullPath(s, p) <=> Covering(s, p)
<1>1. IsFiniteSet(Cells(s)) /\ Cells(s) \subseteq Nat
  <2>1. s.rows * s.cols \in Nat
    BY CellsFit
  <2>2. IsFiniteSet(0 .. s.rows * s.cols - 1)
    BY <2>1, FS_Interval
  <2>3. QED BY <2>2, CellsFit DEF Cells
<1>2. IsFiniteSet(FreeCells(s)) /\ Cardinality(FreeCells(s)) \in Nat
  <2>1. FreeCells(s) \in SUBSET Cells(s)
    BY DEF FreeCells
  <2>2. IsFiniteSet(FreeCells(s))
    BY <1>1, <2>1, FS_Subset
  <2>3. QED BY <2>2, FS_CardinalityType
<1>3. s.grid[StartOf(s)] # -1
  <2>1. Ones(s) \in SUBSET Nat /\ Ones(s) \in SUBSET Cells(s)
    BY <1>1 DEF Ones
  <2>2. IsFiniteSet(Ones(s))
    BY <1>1, <2>1, FS_Subset
  <2>3. \E c \in Ones(s) : \A d \in Ones(s) : d <= c
    BY <2>1, <2>2, Largest
  <2>4. StartOf(s) \in Ones(s)
    BY <2>3 DEF StartOf
  <2>5. QED BY <2>4 DEF Ones
<1>4. ASSUME NEW p, Trail(s, p), p[1] = StartOf(s),
             \A i \in 1 .. Len(p) : s.grid[p[i]] = 2 <=> i = Len(p)
      PROVE  FullPath(s, p) <=> Covering(s, p)
  <2>1. p \in Seq(Cells(s)) /\ Distinct(p)
    BY <1>4 DEF Trail
  <2>2. Entries(p) \subseteq Cells(s) /\ IsFiniteSet(Entries(p)) /\ Cardinality(Entries(p)) = Len(p)
    BY <2>1, EntriesCount
  <2>3. \A c : c \in Entries(p) <=> \E i \in 1 .. Len(p) : p[i] = c
    <3>1. Entries(p) = {p[i] : i \in 1 .. Len(p)}
      BY DEF Entries
    <3>2. QED BY <3>1
  <2>4. ASSUME FullPath(s, p) PROVE Covering(s, p)
    <3>1. Len(p) = Cardinality(FreeCells(s)) /\ \A i \in 1 .. Len(p) : i # 1 => s.grid[p[i]] # -1
      BY <2>4 DEF FullPath
    <3>2. \A i \in 1 .. Len(p) : s.grid[p[i]] # -1
      BY <1>3, <1>4, <3>1
    <3>3. Entries(p) \in SUBSET FreeCells(s)
      BY <2>2, <2>3, <3>2 DEF FreeCells
    <3>4. Entries(p) = FreeCells(s)
      BY <1>2, <2>2, <3>1, <3>3, FS_Subset
    <3>5. QED BY <1>4, <3>4 DEF Covering
  <2>5. ASSUME Covering(s, p) PROVE FullPath(s, p)
    <3>1. Entries(p) = FreeCells(s)
      BY <2>5 DEF Covering
    <3>2. \A i \in 1 .. Len(p) : s.grid[p[i]] # -1
      BY <2>3, <3>1 DEF FreeCells
    <3>3. QED BY <1>4, <2>2, <3>1, <3>2 DEF FullPath
  <2>6. QED BY <2>4, <2>5
<1>5. \A p : FullPath(s, p) \/ Covering(s, p) =>
               /\ Trail(s, p) /\ p[1] = StartOf(s)
               /\ \A i \in 1 .. Len(p) : s.grid[p[i]] = 2 <=> i = Len(p)
  BY DEF FullPath, Covering
<1>6. QED BY <1>4, <1>5

(* The paths asked for are those that end well. *)
LEMMA PathsAsked ==
  ASSUME NEW s \in EngineType, Sized(s), NEW j, Loaded(s, j)
  PROVE  UniquePaths(j) = Cardinality({p \in Seq(Cells(s)) : FullPath(s, p)})
<1> DEFINE free == {c \in Area(j) : j.cells[c] # -1}
           edge == [c \in Area(j) |-> Near(j, c) \cap free]
           k == Cardinality(free)
           P == {w \in Routes(edge, {Entrance(j)}, k) :
                   \A i \in 1 .. k : j.cells[w[i]] = 2 <=> i = k}
           C == Cells(s)
<1>1. UniquePaths(j) = Cardinality(P)
  BY DEF UniquePaths
<1>2. Area(j) = C /\ free = FreeCells(s) /\ \A c \in C : j.cells[c] = s.grid[c]
  BY NearIsAround DEF FreeCells
<1>3. DOMAIN edge = C /\ \A c \in C : edge[c] = Around(s, c) \cap FreeCells(s)
  BY <1>2, NearIsAround
<1>4. \A c \in C : edge[c] \subseteq C
  BY <1>3 DEF FreeCells
<1>5. C \subseteq Nat /\ IsFiniteSet(C) /\ 0 \in C
  BY CellsFit
<1>6. k = Cardinality(FreeCells(s)) /\ k \in Nat
  <2>1. FreeCells(s) \in SUBSET C
    BY DEF FreeCells
  <2>2. IsFiniteSet(FreeCells(s))
    BY <1>5, <2>1, FS_Subset
  <2>3. QED BY <1>2, <2>2, FS_CardinalityType
<1>7. Entrance(j) = StartOf(s)
  <2> DEFINE ones == {c \in Area(j) : j.cells[c] = 1}
             Of(T) == IF T = {} THEN 0 ELSE CHOOSE c \in T : \A d \in T : d <= c
  <2>1. ones = Ones(s)
    BY <1>2 DEF Ones
  <2>2. Entrance(j) = Of(ones)
    BY DEF Entrance
  <2>3. StartOf(s) = Of(Ones(s))
    BY DEF StartOf
  <2> HIDE DEF ones, Of
  <2>4. QED BY <2>1, <2>2, <2>3
<1>8. StartOf(s) \in C
  <2>1. Ones(s) \in SUBSET C /\ Ones(s) \in SUBSET Nat
    BY <1>5 DEF Ones
  <2>2. IsFiniteSet(Ones(s))
    BY <1>5, <2>1, FS_Subset
  <2>3. Ones(s) # {} => \E c \in Ones(s) : \A d \in Ones(s) : d <= c
    BY <2>1, <2>2, Largest
  <2>4. QED BY <1>5, <2>1, <2>3 DEF StartOf
<1> DEFINE S == {StartOf(s)}
<1> HIDE DEF free, edge, k, C
<1>9. \A w : w \in Routes(edge, S, k) <=> k # 0 /\ Route(edge, S, k, w)
  <2>1. S \in SUBSET DOMAIN edge /\ \A c \in DOMAIN edge : edge[c] \subseteq DOMAIN edge
    BY <1>3, <1>4, <1>8
  <2>2. QED BY <1>6, <2>1, RoutesAre
<1>10. ASSUME NEW w
       PROVE  w \in P <=> k # 0 /\ Route(edge, S, k, w) /\ \A i \in 1 .. k : j.cells[w[i]] = 2 <=> i = k
  BY <1>7, <1>9
<1> HIDE DEF P
<1>11. ASSUME NEW w, w \in Seq(C), Len(w) = k, k # 0, \A i \in 1 .. k : w[i] \in C
       PROVE  w \in P <=> FullPath(s, w)
  <2>1. w # <<>> /\ 1 .. Len(w) = 1 .. k
    BY <1>6, <1>11
  <2>2. \A i \in 1 .. k : j.cells[w[i]] = s.grid[w[i]]
    BY <1>2, <1>11
  <2>3. ASSUME NEW i \in 1 .. k - 1
        PROVE  w[i + 1] \in edge[w[i]] <=> w[i + 1] \in Around(s, w[i]) /\ s.grid[w[i + 1]] # -1
    <3>1. i \in 1 .. k /\ i + 1 \in 1 .. k
      BY <1>6
    <3>2. w[i] \in C /\ w[i + 1] \in C
      BY <1>11, <3>1
    <3>3. QED BY <1>3, <3>2 DEF FreeCells, C
  <2>4. (\A i \in 1 .. k - 1 : s.grid[w[i + 1]] # -1) <=> \A i \in 1 .. k : i # 1 => s.grid[w[i]] # -1
    <3>1. \A i \in 1 .. k - 1 : i + 1 \in 1 .. k /\ i + 1 # 1
      BY <1>6
    <3>2. \A i \in 1 .. k : i # 1 => i - 1 \in 1 .. k - 1 /\ i - 1 + 1 = i
      BY <1>6
    <3>3. ASSUME \A i \in 1 .. k - 1 : s.grid[w[i + 1]] # -1, NEW i \in 1 .. k, i # 1
          PROVE  s.grid[w[i]] # -1
      <4>1. i - 1 \in 1 .. k - 1 /\ i - 1 + 1 = i
        BY <3>2, <3>3
      <4>2. s.grid[w[i - 1 + 1]] # -1
        BY <3>3, <4>1
      <4>3. QED BY <4>1, <4>2
    <3>4. QED BY <3>1, <3>3
  <2>5. Route(edge, S, k, w) <=>
          /\ w[1] = StartOf(s) /\ Distinct(w)
          /\ \A i \in 1 .. k - 1 : w[i + 1] \in Around(s, w[i])
          /\ \A i \in 1 .. k : i # 1 => s.grid[w[i]] # -1
    BY <1>3, <1>11, <2>3, <2>4 DEF Route
  <2>6. Trail(s, w) <=> Distinct(w) /\ \A i \in 1 .. k - 1 : w[i + 1] \in Around(s, w[i])
    BY <1>11, <2>1 DEF Trail, C
  <2>7. FullPath(s, w) <=>
          /\ Trail(s, w) /\ w[1] = StartOf(s)
          /\ \A i \in 1 .. k : (i # 1 => s.grid[w[i]] # -1) /\ (s.grid[w[i]] = 2 <=> i = k)
    BY <1>6, <1>11 DEF FullPath
  <2>8. QED BY <1>10, <1>11, <2>2, <2>5, <2>6, <2>7
<1>12. ASSUME NEW w, w \in P \/ FullPath(s, w)
       PROVE  w \in Seq(C) /\ Len(w) = k /\ k # 0 /\ \A i \in 1 .. k : w[i] \in C
  <2>1. CASE w \in P
    <3>1. k # 0 /\ w \in Seq(C) /\ Len(w) = k
      BY <1>3, <1>10, <2>1 DEF Route
    <3>2. QED BY <3>1
  <2>2. CASE FullPath(s, w)
    <3>1. w \in Seq(C) /\ w # <<>> /\ Len(w) = k
      BY <1>6, <2>2 DEF FullPath, Trail, C
    <3>2. QED BY <3>1, EmptySeq
  <2>3. QED BY <1>12, <2>1, <2>2
<1>13. \A w : w \in P <=> w \in {p \in Seq(C) : FullPath(s, p)}
  BY <1>11, <1>12
<1>14. QED BY <1>1, <1>13 DEF C

(* What unique paths III returns: how many paths there are from the start to
   a target that are as long as there are free cells, which, where there is a
   start, are those that meet each of them once. *)
PathsResult(v) ==
  /\ v = UniquePaths(job)
  /\ Ones(e) # {} => v = Cardinality({p \in Seq(Cells(e)) : Covering(e, p)})

PathsCounted == [][PathsReturn => PathsResult(result'.value)]_vars

(* The value of the search, by its invariant. *)
LEMMA PathsReturnRight ==
  ASSUME IInv, WInv, PathsReturn
  PROVE  PathsResult(result'.value)
<1> DEFINE S == {p \in Seq(Cells(e)) : FullPath(e, p)}
           U == {p \in Seq(Cells(e)) : Covering(e, p)}
<1>1. /\ pc = "paths" /\ e.frames = <<>> /\ e \in EngineType /\ Sized(e) /\ Loaded(e, job)
      /\ Counts(e, value) /\ result'.value = value
  BY DEF PathsReturn, Walking, Return, WInv, Walked, IInv, Shape, Spreads, Walks
<1>2. \A p : p \in S <=> FullPath(e, p) /\ Done(e, {StartOf(e)}, p)
  <2>1. ASSUME NEW p, FullPath(e, p) PROVE p \in Seq(Cells(e)) /\ Done(e, {StartOf(e)}, p)
    <3>1. Trail(e, p) /\ p[1] = StartOf(e)
      BY <2>1 DEF FullPath
    <3>2. Len(p) \in Nat \ {0} /\ p \in Seq(Cells(e))
      BY <1>1, <3>1, TrailsBegin
    <3>3. QED BY <1>1, <3>1, <3>2, DoneAtRest
  <2>2. QED BY <2>1
<1>3. value = Cardinality(S)
  <2>1. PICK T : /\ IsFiniteSet(T) /\ value = Cardinality(T)
                 /\ \A p : p \in T <=> FullPath(e, p) /\ Done(e, {StartOf(e)}, p)
    BY <1>1 DEF Counts
  <2>2. \A p : p \in T <=> p \in S
    BY <1>2, <2>1
  <2> HIDE DEF S
  <2>3. T = S
    BY <2>2
  <2>4. QED BY <2>1, <2>3
<1>4. Ones(e) # {} => S = U
  BY <1>1, FullIsCovering
<1>5. QED BY <1>1, <1>3, <1>4, PathsAsked DEF PathsResult

(* For every engine, set of jobs and number of calls, run_unique_paths_iii
   returns the number of paths that unique paths III asks for, each once. *)
THEOREM PathsAreCounted == Spec => PathsCounted
<1>1. IInv /\ WInv /\ [Next]_vars => [PathsReturn => PathsResult(result'.value)]_vars
  BY PathsReturnRight
<1>2. QED BY <1>1, WalkFindings, PTL DEF Spec, PathsCounted

(* Of words spelt alike one is the owner. *)
LEMMA OneOwner ==
  ASSUME NEW s \in EngineType, NEW w \in DOMAIN s.words
  PROVE  \E v \in DOMAIN s.words : s.words[v] = s.words[w] /\ Owner(s, v)
<1> DEFINE D == DOMAIN s.words
           S == {v \in D : s.words[v] = s.words[w]}
<1>1. D = 1 .. Len(s.words) /\ Len(s.words) \in Nat /\ \A v \in D : v \in Nat
  BY WordsAre
<1>2. IsFiniteSet(D)
  <2>1. IsFiniteSet(1 .. Len(s.words))
    BY <1>1, FS_Interval
  <2>2. QED BY <1>1, <2>1
<1> HIDE DEF D
<1>3. S \in SUBSET D /\ S \in SUBSET Nat /\ S # {}
  BY <1>1 DEF D
<1>4. IsFiniteSet(S)
  BY <1>2, <1>3, FS_Subset
<1>5. PICK v \in S : \A u \in S : u <= v
  BY <1>3, <1>4, Largest
<1>6. QED BY <1>5 DEF Owner, D

(* The owners of some words are as many as the words are. *)
LEMMA OwnersCount ==
  ASSUME NEW s \in EngineType, NEW F,
         \A w : w \in F <=> w \in DOMAIN s.words /\ Owner(s, w) /\ Spellable(s, s.words[w])
  PROVE  Cardinality(F) =
           Cardinality({s.words[w] : w \in {v \in DOMAIN s.words : Spellable(s, s.words[v])}})
<1> DEFINE T == {s.words[w] : w \in {v \in DOMAIN s.words : Spellable(s, s.words[v])}}
           f == [w \in F |-> s.words[w]]
<1>1. /\ DOMAIN s.words = 1 .. Len(s.words) /\ Len(s.words) \in Nat
      /\ \A v \in DOMAIN s.words : v \in Nat
  BY WordsAre
<1>2. IsFiniteSet(F)
  <2>1. IsFiniteSet(1 .. Len(s.words))
    BY <1>1, FS_Interval
  <2>2. F \in SUBSET (1 .. Len(s.words))
    BY <1>1
  <2>3. QED BY <2>1, <2>2, FS_Subset
<1>3. f \in [F -> T]
  OBVIOUS
<1>4. ASSUME NEW v \in F, NEW w \in F, f[v] = f[w] PROVE v = w
  <2>1. s.words[v] = s.words[w] /\ Owner(s, v) /\ Owner(s, w) /\ v \in DOMAIN s.words /\ w \in DOMAIN s.words
    BY <1>4
  <2>2. v <= w /\ w <= v
    BY <2>1 DEF Owner
  <2>3. v \in Nat /\ w \in Nat
    BY <1>1, <2>1
  <2>4. QED BY <2>2, <2>3
<1>5. ASSUME NEW W \in T PROVE \E v \in F : f[v] = W
  <2>1. PICK w \in DOMAIN s.words : W = s.words[w] /\ Spellable(s, s.words[w])
    OBVIOUS
  <2>2. PICK v \in DOMAIN s.words : s.words[v] = s.words[w] /\ Owner(s, v)
    BY OneOwner
  <2>3. QED BY <2>1, <2>2
<1> HIDE DEF T, f
<1>6. f \in Bijection(F, T)
  BY <1>3, <1>4, <1>5 DEF Bijection, Injection, IsInjective, Surjection
<1>7. Cardinality(T) = Cardinality(F)
  BY <1>2, <1>6, FS_Bijection DEF ExistsBijection
<1>8. QED BY <1>7 DEF T

(* The words to be found are those that some trail spells. *)
LEMMA WordsAsked ==
  ASSUME NEW s \in EngineType, Sized(s), NEW j, Loaded(s, j), NEW W, Len(W) \in Nat
  PROVE  Findable(j, W) <=> Spellable(s, W)
<1> DEFINE edge == [c \in Area(j) |-> Near(j, c)]
           C == Cells(s)
           n == Len(W)
<1>1. Findable(j, W) <=>
        \E walk \in Routes(edge, Area(j), n) : \A i \in 1 .. n : j.cells[walk[i]] = W[i]
  BY DEF Findable
<1>2. Area(j) = C /\ \A c \in C : j.cells[c] = s.grid[c]
  BY NearIsAround
<1>3. DOMAIN edge = C /\ \A c \in C : edge[c] = Around(s, c) /\ Around(s, c) \subseteq C
  BY NearIsAround, AroundOf
<1> HIDE DEF edge, C
<1>4. \A w : w \in Routes(edge, Area(j), n) <=> n # 0 /\ Route(edge, C, n, w)
  <2>1. C \in SUBSET DOMAIN edge /\ \A c \in DOMAIN edge : edge[c] \subseteq DOMAIN edge
    BY <1>3
  <2>2. QED BY <1>2, <2>1, RoutesAre
<1> HIDE DEF n
<1>5. n \in Nat
  BY DEF n
<1>6. ASSUME NEW w
      PROVE  n # 0 /\ Route(edge, C, n, w) <=> Trail(s, w) /\ Len(w) = n
  <2>1. ASSUME n # 0, Route(edge, C, n, w) PROVE Trail(s, w) /\ Len(w) = n
    <3>1. w \in Seq(C) /\ Len(w) = n /\ Distinct(w) /\ \A i \in 1 .. n - 1 : w[i + 1] \in edge[w[i]]
      BY <1>3, <2>1 DEF Route
    <3>2. w # <<>> /\ \A i \in 1 .. n - 1 : w[i] \in C
      BY <1>5, <2>1, <3>1
    <3>3. QED BY <1>3, <3>1, <3>2 DEF Trail, C
  <2>2. ASSUME Trail(s, w), Len(w) = n PROVE n # 0 /\ Route(edge, C, n, w)
    <3>1. w \in Seq(C) /\ w # <<>> /\ Distinct(w) /\ \A i \in 1 .. n - 1 : w[i + 1] \in Around(s, w[i])
      BY <2>2 DEF Trail, C
    <3>2. n # 0 /\ w[1] \in C /\ \A i \in 1 .. n - 1 : w[i] \in C
      BY <2>2, <3>1, EmptySeq
    <3>3. QED BY <1>3, <2>2, <3>1, <3>2 DEF Route
  <2>3. QED BY <2>1, <2>2
<1>7. ASSUME NEW w, Trail(s, w), Len(w) = n
      PROVE  (\A i \in 1 .. n : j.cells[w[i]] = W[i]) <=> \A i \in 1 .. Len(w) : s.grid[w[i]] = W[i]
  <2>1. w \in Seq(C)
    BY <1>7 DEF Trail, C
  <2>2. \A i \in 1 .. n : w[i] \in C
    BY <1>7, <2>1
  <2>3. QED BY <1>2, <1>7, <2>2
<1>8. \A w : Spells(s, W, w) <=> Trail(s, w) /\ Len(w) = n /\ \A i \in 1 .. Len(w) : s.grid[w[i]] = W[i]
  BY DEF Spells, n
<1>9. Spellable(s, W) <=> \E w : Spells(s, W, w)
  <2>1. \A w : Spells(s, W, w) => w \in Seq(Cells(s))
    BY DEF Spells, Trail
  <2>2. QED BY <2>1 DEF Spellable
<1>10. QED BY <1>1, <1>4, <1>6, <1>7, <1>8, <1>9

-----------------------------------------------------------------------------
(* The loops a job's search runs, and that no other search runs. *)
Loops(j) ==
  CASE j.mode = "islands"    -> {"islands"}
    [] j.mode = "pacific"    -> Flooding
    [] j.mode = "paths"      -> {"start", "paths"}
    [] j.mode = "increasing" -> {"increasing", "increasing_walk"}
    [] j.mode = "words"      -> IF j.prune THEN {"trie"} ELSE {"match"}
    [] OTHER                 -> {"other"}

(* While a call runs it is in a loop of its job. *)
JInv == pc # "idle" => job \in Jobs /\ FitsEngine(job) /\ pc \in Loops(job)

(* A search stays in its loops until it returns. *)
LEMMA StepJInv == JInv /\ [Next]_vars => JInv'
<1> SUFFICES ASSUME JInv, [Next]_vars PROVE JInv'
  OBVIOUS
<1>1. CASE \/ IslandsSource \/ IslandsSpread
           \/ PathsTarget \/ PathsStep \/ PathsBack \/ TrieSource \/ TrieStep \/ TrieBack
           \/ MatchSource \/ MatchStep \/ MatchBack \/ MatchWord \/ UNCHANGED vars
  <2>1. job' = job /\ pc' = pc
    BY <1>1 DEF IslandsSource, IslandsSpread, PathsTarget, PathsStep, PathsBack, TrieSource,
       TrieStep, TrieBack, MatchSource, MatchStep, MatchBack, MatchWord, call, vars
  <2>2. QED BY <2>1 DEF JInv, FitsEngine, Loops, Flooding
<1>2. CASE \/ FloodSources \/ FloodSpread \/ KeepPacific \/ PathsStart
           \/ IncreasingSource \/ IncreasingHit \/ IncreasingStep \/ IncreasingBack \/ IncreasingNext
  <2>1. /\ job' = job /\ pc # "idle"
        /\ \/ pc \in Flooding /\ pc' \in Flooding
           \/ pc \in {"start", "paths"} /\ pc' \in {"start", "paths"}
           \/ pc \in {"increasing", "increasing_walk"} /\ pc' \in {"increasing", "increasing_walk"}
    BY <1>2 DEF FloodSources, FloodSpread, KeepPacific, PathsStart, IncreasingSource,
       IncreasingHit, IncreasingStep, IncreasingBack, IncreasingNext, call, Flooding
  <2>2. job \in Jobs /\ FitsEngine(job) /\ pc \in Loops(job)
    BY <2>1 DEF JInv
  <2>3. pc' \in Loops(job)
    BY <2>1, <2>2 DEF Loops, Flooding
  <2>4. QED BY <2>1, <2>2, <2>3 DEF JInv
<1>3. CASE \/ IslandsReturn \/ PacificReturn \/ PathsReturn \/ IncreasingReturn \/ TrieReturn
           \/ MatchReturn \/ UnknownMode
  <2>1. pc' = "idle"
    BY <1>3 DEF IslandsReturn, PacificReturn, PathsReturn, IncreasingReturn, TrieReturn,
       MatchReturn, UnknownMode, Return
  <2>2. QED BY <2>1 DEF JInv
<1>4. ASSUME NEW j \in Jobs, Call(j) \/ Refuse(j) PROVE JInv'
  <2>1. CASE Refuse(j)
    <3>1. pc' = "idle"
      BY <2>1 DEF Refuse
    <3>2. QED BY <3>1 DEF JInv
  <2>2. CASE Call(j)
    <3>1. FitsEngine(j) /\ job' = j /\ pc' = Loop(j)
      BY <2>2 DEF Call
    <3>2. Loop(j) \in Loops(j)
      <4>1. j.mode \in {"islands", "pacific", "paths", "increasing", "words", "other"}
        BY JobsAssumption
      <4>2. QED BY <4>1 DEF Loop, Loops, Flooding
    <3>3. QED BY <3>1, <3>2 DEF JInv
  <2>3. QED BY <1>4, <2>1, <2>2
<1>5. QED BY <1>1, <1>2, <1>3, <1>4 DEF Next, dfs_accel

(* What the word searches return, from the job alone: with a trie, how many
   different words of the job there are that some trail spells; without, how
   many of its words, one given twice being counted twice. Only the first
   MaxWords words of the job are searched for. *)
WordsFound == [][TrieReturn \/ MatchReturn => result'.value = FindableWords(job, WordsOf(job))]_vars

(* The value of the two searches, by their invariant. *)
LEMMA WordsReturnRight ==
  ASSUME IInv, WInv, JInv, TrieReturn \/ MatchReturn
  PROVE  result'.value = FindableWords(job, WordsOf(job))
<1> DEFINE F == {v \in DOMAIN e.words : Spellable(e, e.words[v])}
<1>1. /\ pc \in {"trie", "match"} /\ pc \in Loops(job)
      /\ TrieReturn => pc = "trie"
      /\ MatchReturn => pc = "match"
  BY DEF TrieReturn, MatchReturn, JInv
<1>2. job.prune <=> pc = "trie"
  BY <1>1 DEF Loops, Flooding
<1>3. e \in EngineType /\ Sized(e) /\ Loaded(e, job) /\ e.words = WordsOf(job)
  BY <1>1, OnPath DEF WInv, Walked
<1>4. FindableWords(job, WordsOf(job)) =
        Cardinality(IF pc = "trie" THEN {e.words[v] : v \in F} ELSE F)
  <2>1. \A v \in DOMAIN e.words : Findable(job, e.words[v]) <=> Spellable(e, e.words[v])
    <3>1. \A v \in DOMAIN e.words : Len(e.words[v]) \in Nat
      BY <1>3, WordsAre
    <3>2. QED BY <1>3, <3>1, WordsAsked
  <2>2. {v \in DOMAIN e.words : Findable(job, e.words[v])} = F
    BY <2>1
  <2>3. QED BY <1>2, <1>3, <2>2 DEF FindableWords
<1>5. CASE TrieReturn
  <2>1. pc = "trie" /\ e.frames = <<>> /\ scan \notin Cells(e)
        /\ result'.value = Cardinality(e.word_found)
    BY <1>5 DEF TrieReturn, Walking, Return
  <2>2. /\ e \in EngineType /\ Sized(e) /\ scan \in Nat
        /\ Finds(e, scan)
    BY <2>1, WhileTrie
  <2>3. \A W : \A p : Spells(e, W, p) => Met(e, scan, p)
    <3>1. ASSUME NEW W, NEW p, Spells(e, W, p) PROVE Met(e, scan, p)
      <4>1. Trail(e, p)
        BY <3>1 DEF Spells
      <4>2. Len(p) \in Nat \ {0} /\ p[1] \in Before(e, scan)
        BY <2>1, <2>2, <4>1, TrailsBegin
      <4>3. QED BY <2>1, <2>2, <4>2, DoneAtRest DEF Met
    <3>2. QED BY <3>1
  <2>4. \A w : w \in e.word_found <=>
                 w \in DOMAIN e.words /\ Owner(e, w) /\ Spellable(e, e.words[w])
    BY <2>2, <2>3 DEF Finds, Spellable
  <2>5. Cardinality(e.word_found) =
          Cardinality({e.words[w] : w \in {v \in DOMAIN e.words : Spellable(e, e.words[v])}})
    BY <2>2, <2>4, OwnersCount
  <2>6. QED BY <1>4, <2>1, <2>5
<1>6. CASE MatchReturn
  <2>1. pc = "match" /\ result'.value = value /\ word > Len(e.words)
    BY <1>6 DEF MatchReturn, Return
  <2>2. e \in EngineType /\ Sized(e) /\ Loaded(e, job) /\ e.words = WordsOf(job)
        /\ word \in 1 .. Len(e.words) + 1
        /\ value = Cardinality({i \in 1 .. word - 1 : Spellable(e, e.words[i])})
    BY <2>1, OnPath DEF WInv, Walked
  <2>3. 1 .. word - 1 = DOMAIN e.words
    <3>1. DOMAIN e.words = 1 .. Len(e.words) /\ Len(e.words) \in Nat
      BY <2>2, WordsAre
    <3>2. word = Len(e.words) + 1
      BY <2>1, <2>2, <3>1
    <3>3. word - 1 = Len(e.words)
      BY <3>1, <3>2
    <3>4. QED BY <3>1, <3>3
  <2>4. QED BY <1>4, <2>1, <2>2, <2>3
<1>7. QED BY <1>5, <1>6

(* A call stays in the loops of its job. *)
LEMMA InLoops == Spec => []JInv
<1>1. Init => JInv
  BY DEF Init, JInv
<1>2. QED BY <1>1, StepJInv, PTL DEF Spec

(* For every engine, set of jobs and number of calls, the word searches
   return that, whatever the last call has left in the engine. *)
THEOREM WordsAreFound == Spec => WordsFound
<1>1. IInv /\ WInv /\ JInv /\ [Next]_vars =>
        [TrieReturn \/ MatchReturn => result'.value = FindableWords(job, WordsOf(job))]_vars
  BY WordsReturnRight
<1>2. QED BY <1>1, WalkFindings, InLoops, PTL DEF Spec, WordsFound

(* A step that returns a search's value returns its problem's answer. *)
LEMMA ReturnsAnswer ==
  ASSUME IInv, FInv, LInv, WInv, JInv, Len(job.words) <= MaxWords,
         \/ IslandsReturn \/ PacificReturn \/ PathsReturn \/ IncreasingReturn \/ TrieReturn
         \/ MatchReturn \/ UnknownMode
  PROVE  result'.value = Answer(job)
<1>1. pc # "idle" /\ job \in Jobs /\ FitsEngine(job) /\ pc \in Loops(job)
  BY DEF JInv, IslandsReturn, PacificReturn, PathsReturn, IncreasingReturn, TrieReturn,
     MatchReturn, UnknownMode
<1>2. /\ pc = "islands" => job.mode = "islands"
      /\ pc = "atlantic_flood" => job.mode = "pacific"
      /\ pc = "paths" => job.mode = "paths"
      /\ pc = "increasing" => job.mode = "increasing"
      /\ pc \in {"trie", "match"} => job.mode = "words"
      /\ pc = "other" => job.mode \notin {"islands", "pacific", "paths", "increasing", "words"}
  BY <1>1 DEF Loops, Flooding
<1>3. CASE IslandsReturn
  BY <1>2, <1>3, IslandsReturnRight DEF IslandsReturn, IslandsResult, Answer
<1>4. CASE PacificReturn
  BY <1>2, <1>4, PacificReturnRight DEF PacificReturn, OceansResult, Answer
<1>5. CASE PathsReturn
  BY <1>2, <1>5, PathsReturnRight DEF PathsReturn, PathsResult, Answer
<1>6. CASE IncreasingReturn
  BY <1>2, <1>6, IncreasingReturnRight DEF IncreasingReturn, Answer
<1>7. CASE TrieReturn \/ MatchReturn
  <2> DEFINE q == job.words
             n == Len(q)
  <2>1. q \in Seq(Seq(Int)) /\ n \in Nat
    BY <1>1, JobsAssumption
  <2>2. q = SubSeq(q, 1, n)
    BY <2>1
  <2>3. (IF n > MaxWords THEN MaxWords ELSE n) = n
    <3> HIDE DEF q, n
    <3>1. n \in Nat /\ n <= MaxWords /\ MaxWords \in Nat
      BY <2>1 DEF q, n
    <3>2. QED BY <3>1
  <2>4. WordsOf(job) = job.words
    BY <2>2, <2>3 DEF WordsOf
  <2>5. job.mode = "words"
    BY <1>2, <1>7 DEF TrieReturn, MatchReturn
  <2>6. QED BY <1>7, <2>4, <2>5, WordsReturnRight DEF Answer
<1>8. CASE UnknownMode
  BY <1>2, <1>8 DEF UnknownMode, Return, Answer
<1>9. QED BY <1>3, <1>4, <1>5, <1>6, <1>7, <1>8

(* A step keeps the value right: it returns an answer, refuses a job, or
   leaves the kernel running or idle. *)
LEMMA StepValue ==
  IInv /\ FInv /\ LInv /\ WInv /\ JInv /\ ValueIsRight /\ [Next]_vars => ValueIsRight'
<1> SUFFICES ASSUME IInv, FInv, LInv, WInv, JInv, ValueIsRight, [Next]_vars
             PROVE  ValueIsRight'
  OBVIOUS
<1>1. CASE UNCHANGED vars
  BY <1>1 DEF vars, ValueIsRight, FitsEngine
<1>2. CASE \/ IslandsReturn \/ PacificReturn \/ PathsReturn \/ IncreasingReturn \/ TrieReturn
           \/ MatchReturn \/ UnknownMode
  <2>1. job' = job
    BY <1>2 DEF IslandsReturn, PacificReturn, PathsReturn, IncreasingReturn, TrieReturn,
       MatchReturn, UnknownMode, Return
  <2>2. Len(job.words) <= MaxWords => result'.value = Answer(job)
    BY <1>2, ReturnsAnswer
  <2>3. QED BY <2>1, <2>2 DEF ValueIsRight
<1>3. CASE \/ IslandsSource \/ IslandsSpread \/ FloodSources \/ FloodSpread \/ KeepPacific
           \/ PathsStart \/ PathsTarget \/ PathsStep \/ PathsBack
           \/ IncreasingSource \/ IncreasingHit \/ IncreasingStep \/ IncreasingBack \/ IncreasingNext
           \/ TrieSource \/ TrieStep \/ TrieBack
           \/ MatchSource \/ MatchStep \/ MatchBack \/ MatchWord
  <2>1. pc' # "idle"
    BY <1>3 DEF IslandsSource, IslandsSpread, FloodSources, FloodSpread, KeepPacific,
       PathsStart, PathsTarget, PathsStep, PathsBack, IncreasingSource, IncreasingHit,
       IncreasingStep, IncreasingBack, IncreasingNext, TrieSource, TrieStep, TrieBack,
       MatchSource, MatchStep, MatchBack, MatchWord
  <2>2. QED BY <2>1 DEF ValueIsRight
<1>4. ASSUME NEW j \in Jobs, Call(j) \/ Refuse(j) PROVE ValueIsRight'
  <2>1. CASE Call(j)
    <3>1. pc' = Loop(j)
      BY <2>1 DEF Call
    <3>2. Loop(j) # "idle"
      <4>1. j.mode # "idle"
        BY JobsAssumption
      <4>2. QED BY <4>1 DEF Loop
    <3>3. QED BY <3>1, <3>2 DEF ValueIsRight
  <2>2. CASE Refuse(j)
    <3>1. ~FitsEngine(j) /\ job' = j
      BY <2>2 DEF Refuse
    <3>2. QED BY <3>1 DEF ValueIsRight, FitsEngine
  <2>3. QED BY <1>4, <2>1, <2>2
<1>5. QED BY <1>1, <1>2, <1>3, <1>4 DEF Next, dfs_accel

(* For every engine, set of jobs, and number and order of calls: each call of
   dfs_accel returns what its problem asks for, which Problems states over
   the grid as a graph and without a search.  Nothing an earlier call left in
   the static engine (marks, memo, reachable, found words) can change it. *)
THEOREM ValueIsAlwaysRight == Spec => []ValueIsRight
<1>1. Init => ValueIsRight
  BY DEF Init, ValueIsRight
<1>2. QED BY <1>1, StepValue, Findings, ClimbFindings, WalkFindings, InLoops, PTL DEF Spec
=============================================================================

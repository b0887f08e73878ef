--------------------------- MODULE SoftwareSearch ---------------------------
(***************************************************************************)
(* The five software searches (src/program/algorithms) on the software     *)
(* accelerator of the harness (src/program/harness): recursive functions   *)
(* that thread the accelerator's marks and the Counters through as one     *)
(* record s.  The cost counter ops is left out.  A problem p has the       *)
(* fields of a kernel job; a Coord is its index in the grid.               *)
(***************************************************************************)
EXTENDS Integers, Sequences, FiniteSets, SequencesExt

Delta4 == << <<-1, 0>>, <<1, 0>>, <<0, -1>>, <<0, 1>> >>
Delta8 == Delta4 \o << <<-1, -1>>, <<-1, 1>>, <<1, -1>>, <<1, 1>> >>

Area(p) == 0 .. p.rows * p.cols - 1
Scan(p) == [k \in 1 .. p.rows * p.cols |-> k - 1]

neighbors(p, c) ==
  LET in_bounds(d) == /\ (c \div p.cols) + d[1] \in 0 .. p.rows - 1
                      /\ (c % p.cols) + d[2] \in 0 .. p.cols - 1
      deltas == SelectSeq(IF p.eight THEN Delta8 ELSE Delta4, in_bounds)
  IN  [k \in 1 .. Len(deltas) |-> c + deltas[k][1] * p.cols + deltas[k][2]]

Fresh == [marked |-> {}, expanded_nodes |-> 0, visited_cells |-> 0, peak_stack_depth |-> 0,
          value |-> 0]

reset_visited(s) == [s EXCEPT !.marked = {}]

mark(s, c) ==
  IF c \in s.marked THEN s
  ELSE [s EXCEPT !.marked = @ \cup {c}, !.visited_cells = @ + 1]

unmark(s, c) == [s EXCEPT !.marked = @ \ {c}]

count_one(s) == [s EXCEPT !.value = @ + 1]

peak(s, depth) ==
  IF depth > s.peak_stack_depth THEN [s EXCEPT !.peak_stack_depth = depth] ELSE s

(* What every recursive search does first. *)
expand(s, depth) == peak([s EXCEPT !.expanded_nodes = @ + 1], depth)

-----------------------------------------------------------------------------
(* The loop over a CountedStack that both floods share; next[c] are the    *)
(* neighbours of c that may be entered from it.                            *)
RECURSIVE Drain(_, _, _)
Drain(next, stack, s) ==
  IF stack = <<>> THEN s
  ELSE LET reach == SelectSeq(next[Last(stack)], LAMBDA n : n \notin s.marked)
           deeper == Front(stack) \o reach
       IN  Drain(next, deeper,
                 peak(FoldLeft(mark, [s EXCEPT !.expanded_nodes = @ + 1], reach), Len(deeper)))

number_of_islands(p) ==
  LET next == [c \in Area(p) |-> SelectSeq(neighbors(p, c), LAMBDA n : p.cells[n] # 0)]
      Source(s, c) == IF p.cells[c] = 0 \/ c \in s.marked THEN s
                      ELSE Drain(next, <<c>>, mark(peak(count_one(s), 1), c))
  IN  FoldLeft(Source, Fresh, Scan(p))

pacific_atlantic(p) ==
  LET next == [c \in Area(p) |-> SelectSeq(neighbors(p, c), LAMBDA n : p.cells[n] >= p.cells[c])]
      flood(s, sources) ==
        Drain(next, sources,
              peak(FoldLeft(mark, reset_visited(s), sources), Len(sources)))
      one == flood(Fresh, SelectSeq(Scan(p), LAMBDA c : c < p.cols \/ c % p.cols = 0))
      two == flood(one, SelectSeq(Scan(p), LAMBDA c : \/ c \div p.cols = p.rows - 1
                                                      \/ c % p.cols = p.cols - 1))
  IN  [two EXCEPT !.value = Cardinality(one.marked \cap two.marked)]

-----------------------------------------------------------------------------
walkable(p) == {c \in Area(p) : p.cells[c] # -1}

start(p) == LET ones == SelectSeq(Scan(p), LAMBDA c : p.cells[c] = 1)
            IN  IF ones = <<>> THEN 0 ELSE Last(ones)

RECURSIVE paths_dfs(_, _, _, _, _)
paths_dfs(p, s, c, walked, depth) ==
  LET Try(t, n) == IF n \in t.marked \/ p.cells[n] = -1 THEN t
                   ELSE unmark(paths_dfs(p, mark(t, n), n, walked + 1, depth + 1), n)
      here == expand(s, depth)
  IN  IF p.cells[c] # 2 THEN FoldLeft(Try, here, neighbors(p, c))
      ELSE IF walked = Cardinality(walkable(p)) THEN count_one(here) ELSE here

unique_paths_iii(p) == paths_dfs(p, mark(Fresh, start(p)), start(p), 1, 1)

(* s.memo[c] = 0 is "not cached"; the length found is left in s.best. *)
RECURSIVE increasing_dfs(_, _, _, _)
increasing_dfs(p, s, c, depth) ==
  LET Try(t, n) ==
        IF p.cells[n] <= p.cells[c] THEN t
        ELSE LET u == increasing_dfs(p, t, n, depth + 1)
             IN  [u EXCEPT !.best = IF @ + 1 > t.best THEN @ + 1 ELSE t.best]
      here == expand(s, depth)
      out  == FoldLeft(Try, [here EXCEPT !.best = 1], neighbors(p, c))
  IN  IF s.memo[c] # 0 /\ p.memo THEN [here EXCEPT !.best = s.memo[c]]
      ELSE IF p.memo THEN [out EXCEPT !.memo[c] = out.best] ELSE out

longest_increasing_path(p) ==
  LET First == [memo |-> [c \in Area(p) |-> 0], best |-> 0] @@ Fresh
      Source(s, c) == LET t == increasing_dfs(p, s, c, 1)
                      IN  IF s.value < t.best THEN [t EXCEPT !.value = t.best] ELSE t
  IN  FoldLeft(Source, First, Scan(p))

-----------------------------------------------------------------------------
(* s.ok is what match returned. *)
RECURSIVE match(_, _, _, _, _)
match(p, s, c, w, i) ==
  LET here == [expand(s, i) EXCEPT !.ok = FALSE]
      Try(t, n) == IF t.ok \/ n \in t.marked THEN t ELSE match(p, t, n, w, i + 1)
  IN  IF p.cells[c] # w[i] THEN here
      ELSE IF i = Len(w) THEN [here EXCEPT !.ok = TRUE]
      ELSE unmark(FoldLeft(Try, mark(here, c), neighbors(p, c)), c)

search_no_pruning(p) ==
  LET Word(s, w) == IF w = <<>> THEN s
                    ELSE LET t == FoldLeft(LAMBDA u, c : IF u.ok THEN u ELSE match(p, u, c, w, 1),
                                           [s EXCEPT !.ok = FALSE], Scan(p))
                         IN  IF t.ok THEN count_one(t) ELSE t
  IN  FoldLeft(Word, [ok |-> FALSE] @@ Fresh, p.words)

(* s.trie is the trie, a node being the prefix it stands for, and s.found  *)
(* the words reported.                                                     *)
Trie(words) == UNION {{SubSeq(w, 1, k) : k \in 0 .. Len(w)} : w \in Range(words)}

RECURSIVE trie_dfs(_, _, _, _, _)
trie_dfs(p, s, c, node, depth) ==
  LET here == expand(s, depth)
      nxt  == Append(node, p.cells[c])
      seen == IF nxt \in Range(p.words) \ s.found
              THEN count_one([here EXCEPT !.found = @ \cup {nxt}]) ELSE here
      Try(t, n) == IF n \in t.marked THEN t ELSE trie_dfs(p, t, n, nxt, depth + 1)
  IN  IF nxt \notin s.trie THEN here
      ELSE unmark(FoldLeft(Try, mark(seen, c), neighbors(p, c)), c)

search_trie(p) ==
  LET Source(s, c) == trie_dfs(p, s, c, <<>>, 1)
  IN  FoldLeft(Source, [found |-> {}, trie |-> Trie(p.words)] @@ Fresh, Scan(p))

Software(p) ==
  CASE p.mode = "islands"    -> number_of_islands(p)
    [] p.mode = "pacific"    -> pacific_atlantic(p)
    [] p.mode = "paths"      -> unique_paths_iii(p)
    [] p.mode = "increasing" -> longest_increasing_path(p)
    [] p.mode = "words"      -> IF p.prune THEN search_trie(p) ELSE search_no_pruning(p)

=============================================================================

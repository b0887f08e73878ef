-------------------------------- MODULE Oracle -------------------------------
(***************************************************************************)
(* The repository's second implementation of four of the five problems     *)
(* (src/program/cases/oracle.cpp), which gives the generated cases their   *)
(* expected values.  It shares no code with the searches of                *)
(* SoftwareSearch: a flood over a stack that marks seeds itself, a queue   *)
(* for each ocean, one pass over the cells from high to low, and a search  *)
(* for one word at a time.  A problem p is that of SoftwareSearch.         *)
(***************************************************************************)
EXTENDS Integers, Sequences, FiniteSets, SequencesExt

kD == << <<-1, 0>>, <<1, 0>>, <<0, -1>>, <<0, 1>>, <<-1, -1>>, <<-1, 1>>, <<1, -1>>, <<1, 1>> >>

dir_count(p) == IF p.eight THEN 8 ELSE 4

Order(p) == [k \in 1 .. p.rows * p.cols |-> k - 1]

(* The cells one step from c that are in_bounds. *)
Around(p, c) ==
  LET inside == SelectSeq(SubSeq(kD, 1, dir_count(p)),
                          LAMBDA d : /\ (c \div p.cols) + d[1] \in 0 .. p.rows - 1
                                     /\ (c % p.cols) + d[2] \in 0 .. p.cols - 1)
  IN  [k \in DOMAIN inside |-> c + inside[k][1] * p.cols + inside[k][2]]

-----------------------------------------------------------------------------
RECURSIVE fill(_, _, _)
fill(p, stack, seen) ==
  IF stack = <<>> THEN seen
  ELSE LET land == SelectSeq(Around(p, Last(stack)), LAMBDA n : n \notin seen /\ p.cells[n] # 0)
       IN  fill(p, Front(stack) \o land, seen \cup Range(land))

oracle_number_of_islands(p) ==
  LET Source(s, c) == IF p.cells[c] = 0 \/ c \in s.seen THEN s
                      ELSE [islands |-> s.islands + 1, seen |-> fill(p, <<c>>, s.seen \cup {c})]
  IN  FoldLeft(Source, [islands |-> 0, seen |-> {}], Order(p)).islands

-----------------------------------------------------------------------------
(* The queue is kept whole; head is the next entry to expand. *)
RECURSIVE serve(_, _, _)
serve(p, queue, head) ==
  IF head > Len(queue) THEN Range(queue)
  ELSE LET c == queue[head]
           up == SelectSeq(Around(p, c), LAMBDA n : n \notin Range(queue) /\ p.cells[n] >= p.cells[c])
       IN  serve(p, queue \o up, head + 1)

on_border(p, c, pacific) ==
  IF pacific THEN c \div p.cols = 0 \/ c % p.cols = 0
             ELSE c \div p.cols = p.rows - 1 \/ c % p.cols = p.cols - 1

reach_from_border(p, pacific) ==
  serve(p, SelectSeq(Order(p), LAMBDA c : on_border(p, c, pacific)), 1)

oracle_pacific_atlantic(p) ==
  Cardinality(reach_from_border(p, TRUE) \cap reach_from_border(p, FALSE))

-----------------------------------------------------------------------------
FromLow(p) ==             \* mutant: the cells are sorted in ascending order
  SortSeq(Order(p), LAMBDA a, b : p.cells[a] < p.cells[b])

(* std::sort leaves the order of equal heights open; no cell is used by an *)
(* equal one, so one order stands for all.                                 *)
FromHigh(p) == SortSeq(Order(p), LAMBDA a, b : p.cells[a] > p.cells[b])

Highest(S) == CHOOSE m \in S : \A k \in S : k <= m

oracle_longest_increasing_path(p) ==
  LET Visit(best, c) ==
        LET higher == {n \in Range(Around(p, c)) : p.cells[n] > p.cells[c]}
        IN  [best EXCEPT ![c] = Highest({@} \cup {1 + best[n] : n \in higher})]
      best == FoldLeft(Visit, [c \in 0 .. p.rows * p.cols - 1 |-> 1], FromHigh(p))
  IN  Highest(Range(best))

-----------------------------------------------------------------------------
(* used is restored on both ways out of find_word, so it is passed down.   *)
RECURSIVE find_word(_, _, _, _, _)
find_word(p, word, c, i, used) ==
  /\ p.cells[c] = word[i]
  /\ \/ i = Len(word)
     \/ \E n \in Range(Around(p, c)) \ (used \cup {c}) : find_word(p, word, n, i + 1, used \cup {c})

(* unique holds each word once, the empty one never. *)
oracle_word_search_ii(p) ==
  LET unique == Range(p.words) \ {<<>>}
  IN  Cardinality({w \in unique : \E c \in Range(Order(p)) : find_word(p, w, c, 1, {})})

(* The problem is told apart by the algorithm's name; unique_paths_iii has *)
(* no oracle.                                                              *)
Oracle(algorithm, p) ==
  CASE algorithm = "number_of_islands"       -> oracle_number_of_islands(p)
    [] algorithm = "longest_increasing_path" -> oracle_longest_increasing_path(p)
    [] algorithm = "pacific_atlantic"        -> oracle_pacific_atlantic(p)
    [] algorithm = "word_search_ii"          -> oracle_word_search_ii(p)
=============================================================================

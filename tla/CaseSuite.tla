------------------------------- MODULE CaseSuite -----------------------------
(***************************************************************************)
(* The cases a program runs: the embedded data sets and, from tier Small   *)
(* on, generated grids (src/program/cases/synthetic.cpp, generators.cpp),  *)
(* with the expected value of each; and the algorithms that run them.      *)
(*                                                                         *)
(* The pseudo-random topologies are abstracted: what a seed gives is any   *)
(* of Draws(topology, bound, side).  The lists of specs are sets: no       *)
(* program's result depends on their order.                                *)
(***************************************************************************)
EXTENDS Datasets, Oracle

CONSTANTS
  Ladder,           (* the set of [side, tier], kLadder scaled down        *)
  Draws(_, _, _)    (* the cells a random topology may give                *)

Small  == 1
Medium == 2
Large  == 3

kWords ==
  << Letters(<<"a", "b">>), Letters(<<"a", "b", "c">>), Letters(<<"a", "b", "c", "d">>),
     Letters(<<"d", "c", "b", "a">>), Letters(<<"a", "a", "a", "a">>),
     Letters(<<"a", "b", "a", "b">>), Letters(<<"d", "d", "d", "d">>),
     Letters(<<"a", "c", "d", "b">>), Letters(<<"b", "b", "b", "b">>),
     Letters(<<"c", "c", "c", "c">>) >>

(* What the topologies that draw nothing put into row r, column c. *)
CellOf(topology, n, r, c) ==
  LET OneIf(b) == IF b THEN 1 ELSE 0
      connector == IF (r \div 2) % 2 = 0 THEN n - 1 ELSE 0
  IN  CASE topology = "Checkerboard"    -> OneIf((r + c) % 2 = 0)
        [] topology = "AllLand"         -> 1
        [] topology = "Serpentine"      -> OneIf(r % 2 = 0 \/ c = connector)
        [] topology = "DiagonalStripes" -> OneIf((r + c) % 4 < 2)
        [] topology = "Gradient"        -> r + c

Random == {"UniformRandom", "RandomHeights", "Letters"}

(* The grids of a GridSpec g: one, or one for each draw.  g.bound is       *)
(* levels, the alphabet, or 2 where only the density matters.              *)
generate_grid(g) ==
  {[rows |-> g.side, cols |-> g.side, cells |-> cells] :
     cells \in IF g.topology \in Random THEN Draws(g.topology, g.bound, g.side)
               ELSE {[c \in 0 .. g.side * g.side - 1 |->
                        CellOf(g.topology, g.side, c \div g.side, c % g.side)]}}

-----------------------------------------------------------------------------
Unknown == [value |-> 0, valid |-> FALSE]
Given(v) == [value |-> v, valid |-> TRUE]

Grid(topology, bound, n) == [topology |-> topology, bound |-> bound, side |-> n]

Spec(algorithm, grid, eight, words, expected) ==
  [algorithm |-> algorithm, grid |-> grid, eight |-> eight, words |-> words, expected |-> expected]

RoundedDown(n) ==         \* mutant: the closed form loses a corner of an odd side
  (n * n) \div 2

(* The closed form for a checkerboard, where no two cells of land touch.   *)
CheckerIslands(n) == (n * n + 1) \div 2

number_of_islands_specs(n) ==
  LET Noi(topology, eight, expected) ==
        Spec("number_of_islands", Grid(topology, 2, n), eight, <<>>, expected)
  IN  { Noi("UniformRandom", FALSE, Unknown),
        Noi("Checkerboard", FALSE, Given(CheckerIslands(n))),
        Noi("Checkerboard", TRUE, Given(1)),
        Noi("AllLand", FALSE, Given(1)),
        Noi("Serpentine", FALSE, Given(1)),
        Noi("DiagonalStripes", FALSE, Unknown) }

pacific_atlantic_specs(n) ==
  {Spec("pacific_atlantic", Grid("RandomHeights", 64, n), FALSE, <<>>, Unknown)}

longest_increasing_path_specs(n) ==
  { Spec("longest_increasing_path", Grid("RandomHeights", 1024, n), FALSE, <<>>, Unknown),
    Spec("longest_increasing_path", Grid("Gradient", 0, n), FALSE, <<>>, Given(n + n - 1)) }

word_search_ii_specs(n) ==
  {Spec("word_search_ii", Grid("Letters", 4, n), FALSE, kWords, Unknown)}

(* The steps of the ladder an algorithm's specs are made for. *)
Steps(algorithm, max_tier) ==
  {s \in Ladder : s.tier <= max_tier /\ (algorithm = "word_search_ii" => s.tier <= Medium)}

synthetic_specs(algorithm, max_tier) ==
  LET Of(n) == CASE algorithm = "number_of_islands"       -> number_of_islands_specs(n)
                 [] algorithm = "pacific_atlantic"        -> pacific_atlantic_specs(n)
                 [] algorithm = "longest_increasing_path" -> longest_increasing_path_specs(n)
                 [] algorithm = "word_search_ii"          -> word_search_ii_specs(n)
                 [] OTHER                                 -> {}
  IN  UNION {{[tier |-> s.tier] @@ spec : spec \in Of(s.side)} : s \in Steps(algorithm, max_tier)}

(* The cases of a spec, each with the value given or else the oracle's. *)
materialize(spec) ==
  {LET input == Input(grid, spec.eight, spec.words)
   IN  [name |-> spec.grid.topology, algorithm |-> spec.algorithm, tier |-> spec.tier, input |-> input,
        expected |-> IF spec.expected.valid THEN spec.expected
                     ELSE Given(Oracle(spec.algorithm, input))] :
   grid \in generate_grid(spec.grid)}

(* CaseLoader::specs, materialized. *)
specs(algorithm, max_tier) ==
  load(algorithm) \cup UNION {materialize(s) : s \in synthetic_specs(algorithm, max_tier)}

-----------------------------------------------------------------------------
(* What the algorithm is run as is named by the mode, and the option memo  *)
(* or prune, of SoftwareSearch.                                            *)
Entry(name, dataset_key, max_tier, mode, option) ==
  [name |-> name, dataset_key |-> dataset_key, max_tier |-> max_tier, mode |-> mode,
   option |-> option]

make_algorithms ==
  { Entry("number_of_islands", "number_of_islands", Large, "islands", FALSE),
    Entry("unique_paths_iii", "unique_paths_iii", Legacy, "paths", FALSE),
    Entry("word_search_ii", "word_search_ii", Medium, "words", TRUE),
    Entry("word_search_ii_nopruning", "word_search_ii", Legacy, "words", FALSE),
    Entry("longest_increasing_path", "longest_increasing_path", Large, "increasing", TRUE),
    Entry("longest_increasing_path_nomemo", "longest_increasing_path", Legacy, "increasing", FALSE),
    Entry("pacific_atlantic", "pacific_atlantic", Large, "pacific", FALSE) }

(* The cases of an algorithm up to a tier, by the rule of Harness::run_all.*)
Selected(algo, tier) ==
  LET limit == IF algo.max_tier < tier THEN algo.max_tier ELSE tier
  IN  {tc \in specs(algo.dataset_key, limit) : tc.tier <= limit}

(* What algo.run is given. *)
Problem(algo, input) ==
  [mode |-> algo.mode, memo |-> algo.option, prune |-> algo.option] @@ input
=============================================================================

------------------------------- MODULE Datasets ------------------------------
(***************************************************************************)
(* The embedded data sets (src/program/cases/datasets.cpp), which every    *)
(* program of the repository runs: the harness, the integration, the HLS   *)
(* testbench and, exported, the boards' tools.  A test case is             *)
(* [name, algorithm, tier, input, expected]; its input has the grid, the   *)
(* connectivity and the words, a letter being its character code.          *)
(***************************************************************************)
EXTENDS Integers, Sequences

Alphabet == <<"a", "b", "c", "d", "e", "f", "g", "h", "i", "j", "k", "l", "m", "n", "o", "p",
              "q", "r", "s", "t", "u", "v", "w", "x", "y", "z">>

Letters(word) == [i \in DOMAIN word |-> 96 + CHOOSE k \in DOMAIN Alphabet : Alphabet[k] = word[i]]

make_grid(rows) ==
  [rows |-> Len(rows), cols |-> Len(rows[1]),
   cells |-> [c \in 0 .. Len(rows) * Len(rows[1]) - 1 |->
                rows[(c \div Len(rows[1])) + 1][(c % Len(rows[1])) + 1]]]

make_letters(rows) == make_grid([r \in DOMAIN rows |-> Letters(rows[r])])

Input(grid, eight, words) ==
  [rows |-> grid.rows, cols |-> grid.cols, cells |-> grid.cells, eight |-> eight, words |-> words]

Legacy == 0     \* the tier of every embedded case

expect(name, algorithm, grid, eight, words, value) ==
  [name |-> name, algorithm |-> algorithm, tier |-> Legacy, input |-> Input(grid, eight, words),
   expected |-> [value |-> value, valid |-> TRUE]]

Four(name, algorithm, rows, value) ==
  expect(name, algorithm, make_grid(rows), FALSE, <<>>, value)

classic == make_grid(<< <<1, 1, 0, 0, 0>>, <<1, 1, 0, 0, 0>>, <<0, 0, 1, 0, 0>>, <<0, 0, 0, 1, 1>> >>)
checker == make_grid(<< <<1, 0, 1, 0>>, <<0, 1, 0, 1>>, <<1, 0, 1, 0>>, <<0, 1, 0, 1>> >>)

number_of_islands_cases ==
  LET noi == "number_of_islands"
  IN  { expect("noi_classic_4c", noi, classic, FALSE, <<>>, 3),
        expect("noi_classic_8c", noi, classic, TRUE, <<>>, 1),
        expect("noi_checker_4c", noi, checker, FALSE, <<>>, 8),
        expect("noi_checker_8c", noi, checker, TRUE, <<>>, 1),
        Four("noi_all_water", noi, << <<0, 0>>, <<0, 0>> >>, 0),
        Four("noi_all_land_4c", noi, << <<1, 1, 1>>, <<1, 1, 1>>, <<1, 1, 1>> >>, 1) }

unique_paths_iii_cases ==
  LET up3 == "unique_paths_iii"
  IN  { Four("up3_one_obstacle", up3, << <<1, 0, 0, 0>>, <<0, 0, 0, 0>>, <<0, 0, 2, -1>> >>, 2),
        Four("up3_open", up3, << <<1, 0, 0, 0>>, <<0, 0, 0, 0>>, <<0, 0, 0, 2>> >>, 4),
        Four("up3_no_path", up3, << <<0, 1>>, <<2, 0>> >>, 0) }

word_search_ii_cases ==
  { expect("ws2_classic", "word_search_ii",
           make_letters(<< <<"o", "a", "a", "n">>, <<"e", "t", "a", "e">>,
                           <<"i", "h", "k", "r">>, <<"i", "f", "l", "v">> >>), FALSE,
           << Letters(<<"o", "a", "t", "h">>), Letters(<<"p", "e", "a">>),
              Letters(<<"e", "a", "t">>), Letters(<<"r", "a", "i", "n">>) >>, 2),
    expect("ws2_small", "word_search_ii",
           make_letters(<< <<"a", "b">>, <<"c", "d">> >>), FALSE,
           << Letters(<<"a", "b">>), Letters(<<"a", "c">>), Letters(<<"a", "b", "d", "c">>),
              Letters(<<"a", "c", "d", "b">>), Letters(<<"x", "y", "z">>) >>, 4) }

longest_increasing_path_cases ==
  LET lip == "longest_increasing_path"
  IN  { Four("lip_desc", lip, << <<9, 9, 4>>, <<6, 6, 8>>, <<2, 1, 1>> >>, 4),
        Four("lip_zigzag", lip, << <<3, 4, 5>>, <<3, 2, 6>>, <<2, 2, 1>> >>, 4),
        Four("lip_single", lip, << <<1>> >>, 1) }

pacific_atlantic_cases ==
  { Four("pa_classic", "pacific_atlantic",
         << <<1, 2, 2, 3, 5>>, <<3, 2, 3, 4, 4>>, <<2, 4, 5, 3, 1>>, <<6, 7, 1, 4, 5>>,
            <<5, 1, 1, 2, 4>> >>, 7),
    Four("pa_single", "pacific_atlantic", << <<1>> >>, 1) }

load(algorithm) ==
  CASE algorithm = "number_of_islands"       -> number_of_islands_cases
    [] algorithm = "unique_paths_iii"        -> unique_paths_iii_cases
    [] algorithm = "word_search_ii"          -> word_search_ii_cases
    [] algorithm = "longest_increasing_path" -> longest_increasing_path_cases
    [] algorithm = "pacific_atlantic"        -> pacific_atlantic_cases
=============================================================================

-------------------------------- MODULE KernelIo -----------------------------
(***************************************************************************)
(* How a test case becomes a call of the HLS kernel, on the two ways the   *)
(* repository has: the testbench packs and calls (src/hls/kernel_io.h,     *)
(* src/hls/tb/dfs_accel_tb.cpp); export_cases.cpp writes an object of      *)
(* cases.json, which the boards' tools parse (dfs_accel_case_io.h) and     *)
(* hand to the kernel through buffers and registers.                       *)
(*                                                                         *)
(* A call is a job of HlsKernel with two fields more: case, the names of   *)
(* the algorithm and the case, and expect, the four numbers the caller     *)
(* compares the kernel's with.  The flag bits are a set, the keys of an    *)
(* object the domain of a record.                                          *)
(***************************************************************************)
EXTENDS CaseSuite

CONSTANTS MaxWords, MaxWordLen    (* kMaxWords, kMaxWordLen *)

Soft == INSTANCE SoftwareSearch

Config(mode, flags) == [mode |-> mode, flags |-> flags]

NoPruningPrunes ==        \* mutant: both word searches get kFlagPrune
  [number_of_islands              |-> Config("islands", {}),
   unique_paths_iii               |-> Config("paths", {}),
   word_search_ii                 |-> Config("words", {"prune"}),
   word_search_ii_nopruning       |-> Config("words", {"prune"}),
   longest_increasing_path        |-> Config("increasing", {"memo"}),
   longest_increasing_path_nomemo |-> Config("increasing", {}),
   pacific_atlantic               |-> Config("pacific", {})]

(* The names config_for knows. *)
config_for ==
  [number_of_islands              |-> Config("islands", {}),
   unique_paths_iii               |-> Config("paths", {}),
   word_search_ii                 |-> Config("words", {"prune"}),
   word_search_ii_nopruning       |-> Config("words", {}),
   longest_increasing_path        |-> Config("increasing", {"memo"}),
   longest_increasing_path_nomemo |-> Config("increasing", {}),
   pacific_atlantic               |-> Config("pacific", {})]

flags_for(algo, input) ==
  config_for[algo.name].flags \cup (IF input.eight THEN {"eight"} ELSE {})

(* Whether the grid and the words fit the kernel's types. *)
Packs(input) ==
  /\ \A c \in DOMAIN input.cells : input.cells[c] \in -128 .. 127
  /\ Len(input.words) <= MaxWords
  /\ \A w \in DOMAIN input.words : Len(input.words[w]) <= MaxWordLen

(* One row of MaxWordLen bytes for each word, zero where there is none.    *)
pack_words(words) ==
  [w \in 1 .. MaxWords |-> [k \in 1 .. MaxWordLen |->
     IF w \in DOMAIN words /\ k \in DOMAIN words[w] THEN words[w][k] ELSE 0]]

(* The kernel's reading of that: as many letters as there are non-zero     *)
(* bytes in the row, for num_words rows.                                   *)
WordsIn(bytes, num_words) ==
  [w \in 1 .. (IF num_words > MaxWords THEN MaxWords ELSE num_words) |->
     SubSeq(bytes[w], 1, Cardinality({k \in 1 .. MaxWordLen : bytes[w][k] # 0}))]

(* The kernel's arguments rows, cols, mode, flags and num_words, its grid  *)
(* and its words.                                                          *)
Arguments(rows, cols, mode, flags, num_words, grid, words) ==
  [rows |-> rows, cols |-> cols, cells |-> grid, words |-> WordsIn(words, num_words),
   mode |-> mode, eight |-> "eight" \in flags, memo |-> "memo" \in flags,
   prune |-> "prune" \in flags]

Expect(value, s) ==
  [value |-> value, expanded_nodes |-> s.expanded_nodes, visited_cells |-> s.visited_cells,
   peak_stack_depth |-> s.peak_stack_depth]

run_software(algo, tc) == Soft!Software(Problem(algo, tc.input))

(* Harness::run_one's verdict on a case. *)
passed(algo, tc) == tc.expected.valid /\ run_software(algo, tc).value = tc.expected.value

-----------------------------------------------------------------------------
(* The testbench's call for a case that packs: the kernel's value is       *)
(* compared with the expected one, its counters with the software's.  Only *)
(* the embedded cases are run.                                             *)
TestbenchCall(algo, tc) ==
  LET i == tc.input
  IN  [case |-> <<algo.name, tc.name>>,
       expect |-> Expect(tc.expected.value, run_software(algo, tc))] @@
      Arguments(i.rows, i.cols, config_for[algo.name].mode, flags_for(algo, i), Len(i.words),
                i.cells, pack_words(i.words))

Testbench ==
  UNION {{TestbenchCall(algo, tc) : tc \in {t \in load(algo.dataset_key) : Packs(t.input)}} :
         algo \in {a \in make_algorithms : a.name \in DOMAIN config_for}}

-----------------------------------------------------------------------------
(* The object export_cases writes for a case it does not refuse: one that  *)
(* packs and whose software value, sw.value, is the expected one.          *)
Written(algo, tc, sw) ==
  [algorithm |-> algo.name, case |-> tc.name,
   mode |-> config_for[algo.name].mode, flags |-> flags_for(algo, tc.input),
   rows |-> tc.input.rows, cols |-> tc.input.cols, num_words |-> Len(tc.input.words),
   grid |-> tc.input.cells, words |-> pack_words(tc.input.words),
   expected_value |-> tc.expected.value,
   expected_expanded_nodes   |-> sw.expanded_nodes,
   expected_visited_cells    |-> sw.visited_cells,
   expected_peak_stack_depth |-> sw.peak_stack_depth]

Export(algo, tc) ==
  LET sw == run_software(algo, tc)
  IN  IF Packs(tc.input) /\ sw.value = tc.expected.value THEN {Written(algo, tc, sw)} ELSE {}

export_cases(tier) ==
  UNION {UNION {Export(algo, tc) : tc \in Selected(algo, tier)} :
         algo \in {a \in make_algorithms : a.name \in DOMAIN config_for}}

-----------------------------------------------------------------------------
Keys == {"algorithm", "case", "mode", "flags", "rows", "cols", "num_words", "grid", "words",
         "expected_value", "expected_expanded_nodes", "expected_visited_cells",
         "expected_peak_stack_depth"}

(* A key that is missing leaves the default of the struct Case. *)
ParseCase(o) ==
  LET Field(key, default) == IF key \in DOMAIN o THEN o[key] ELSE default
  IN  [algorithm |-> Field("algorithm", ""), name |-> Field("case", ""),
       mode |-> Field("mode", "islands"), flags |-> Field("flags", {}),
       rows |-> Field("rows", 0), cols |-> Field("cols", 0),
       num_words |-> Field("num_words", 0), grid |-> Field("grid", <<>>),
       words |-> Field("words", <<>>), expected_value |-> Field("expected_value", 0),
       expected_expanded_nodes |-> Field("expected_expanded_nodes", 0),
       expected_visited_cells |-> Field("expected_visited_cells", 0),
       expected_peak_stack_depth |-> Field("expected_peak_stack_depth", 0)]

(* One object with an unknown key and the tool stops before any case. *)
ParseCases(file) ==
  IF \A o \in file : DOMAIN o \subseteq Keys THEN {ParseCase(o) : o \in file} ELSE {}

UnsignedCell(byte) == byte    \* mutant: the kernel's cell type is unsigned

(* cell_t is a signed byte. *)
AsCell(byte) == IF byte > 127 THEN byte - 256 ELSE byte

(* A tool casts each cell to uint8_t; the kernel reads it as a cell_t.     *)
BoardCall(c) ==
  [case |-> <<c.algorithm, c.name>>,
   expect |-> Expect(c.expected_value,
                     [expanded_nodes |-> c.expected_expanded_nodes,
                      visited_cells |-> c.expected_visited_cells,
                      peak_stack_depth |-> c.expected_peak_stack_depth])] @@
  Arguments(c.rows, c.cols, c.mode, c.flags, c.num_words,
            [i \in DOMAIN c.grid |-> AsCell(c.grid[i] % 256)], c.words)

Board(tier) == {BoardCall(c) : c \in ParseCases(export_cases(tier))}
=============================================================================

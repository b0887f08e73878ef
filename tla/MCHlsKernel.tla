---------------------------- MODULE MCHlsKernel -----------------------------
(***************************************************************************)
(* HlsKernel against SoftwareSearch, Oracle and the cases of CaseSuite:    *)
(* every job of MCJobs, on an engine that one call of Dirty has used.      *)
(***************************************************************************)
EXTENDS HlsKernel

Soft == INSTANCE SoftwareSearch

Job(m, r, c, cells, words, eight, flag) ==
  [rows |-> r, cols |-> c, cells |-> cells, words |-> words, mode |-> m, eight |-> eight,
   memo |-> flag, prune |-> flag]

Heights(r, c, V) == [0 .. r * c - 1 -> V]

(* One 1, one 2, and up to n obstacles. *)
Mazes(r, c, n) ==
  {g \in Heights(r, c, {-1, 0, 1, 2}) :
     LET Count(v) == Cardinality({a \in DOMAIN g : g[a] = v})
     IN  Count(1) = 1 /\ Count(2) = 1 /\ Count(-1) <= n}

(* Letters are 1 and 2: a word inside another, one that needs a cell again *)
(* when the grid has only one such letter, an empty one, one named twice.  *)
WordLists == { << <<1>>, <<1, 2>> >>, << <<1, 2, 1>>, <<>>, <<2, 2>> >>,
               << <<2>>, <<1, 2, 1, 2>>, <<2, 1>> >>,
               << <<1, 2>>, <<1, 2>>, <<2, 1>> >> }

-----------------------------------------------------------------------------
(* The ladder scaled down: a tiny side for which a random topology gives   *)
(* every grid of a few values, one of the engine's full size, for which it *)
(* gives one grid of its whole range (1024 levels do not pack, as for every*)
(* such case of the repository), and one only tier Medium may ask for.     *)
MCLadder == {[side |-> 2, tier |-> 1], [side |-> 5, tier |-> 1], [side |-> 6, tier |-> 2]}

MCDraws(topology, bound, side) ==
  LET area == 0 .. side * side - 1
      low  == IF topology = "Letters" THEN 97 ELSE 0
      few  == IF topology = "RandomHeights" THEN 3 ELSE 2
  IN  IF side = 2 THEN [area -> low .. low + few - 1]
                  ELSE {[c \in area |-> low + ((c * c + (c \div 3)) % bound)]}

Io == INSTANCE KernelIo WITH Ladder <- MCLadder, Draws <- MCDraws, MaxWordLen <- 4

MCJobs ==
  {Job("islands", 2, 3, g, <<>>, b, FALSE) : g \in Heights(2, 3, {0, 1}), b \in BOOLEAN}
  \cup {Job("pacific", 2, 2, g, <<>>, TRUE, FALSE) : g \in Heights(2, 2, {0, 1, 2})}
  \cup {Job("pacific", 1, 3, g, <<>>, FALSE, FALSE) : g \in Heights(1, 3, {0, 1, 2})}
  \cup {Job("paths", 2, 3, g, <<>>, FALSE, FALSE) : g \in Mazes(2, 3, 1)}
  \cup {Job("paths", 2, 2, g, <<>>, TRUE, FALSE) : g \in Mazes(2, 2, 2)}
  \cup {Job("increasing", 2, 2, g, <<>>, FALSE, FALSE) : g \in Heights(2, 2, {0, 1, 2})}
  \cup {Job("increasing", 3, 1, g, <<>>, TRUE, TRUE) : g \in Heights(3, 1, {0, 1, 2})}
  \cup {Job("words", 2, 2, g, ws, FALSE, b) : g \in Heights(2, 2, {1, 2}), ws \in WordLists,
                                              b \in BOOLEAN}
  \cup {Job("words", 1, 3, g, ws, FALSE, TRUE) : g \in Heights(1, 3, {1, 2}), ws \in WordLists}
  \cup Io!Testbench \cup Io!Board(Io!Small)

(* What src/onboard/cases.json gives for each case, in the order value,    *)
(* expanded_nodes, visited_cells, peak_stack_depth.                        *)
cases_json ==
  [number_of_islands |->
     [noi_classic_4c |-> <<3, 7, 7, 2>>, noi_classic_8c |-> <<1, 7, 7, 3>>,
      noi_checker_4c |-> <<8, 8, 8, 1>>, noi_checker_8c |-> <<1, 8, 8, 5>>,
      noi_all_water |-> <<0, 0, 0, 0>>, noi_all_land_4c |-> <<1, 9, 9, 3>>],
   unique_paths_iii |->
     [up3_one_obstacle |-> <<2, 95, 95, 11>>, up3_open |-> <<4, 195, 195, 12>>,
      up3_no_path |-> <<0, 5, 5, 3>>],
   word_search_ii |-> [ws2_classic |-> <<2, 41, 9, 5>>, ws2_small |-> <<4, 10, 7, 4>>],
   word_search_ii_nopruning |->
     [ws2_classic |-> <<2, 57, 7, 4>>, ws2_small |-> <<4, 18, 8, 4>>],
   longest_increasing_path |->
     [lip_desc |-> <<4, 18, 0, 2>>, lip_zigzag |-> <<4, 18, 0, 4>>, lip_single |-> <<1, 1, 0, 1>>],
   longest_increasing_path_nomemo |->
     [lip_desc |-> <<4, 23, 0, 4>>, lip_zigzag |-> <<4, 23, 0, 4>>, lip_single |-> <<1, 1, 0, 1>>],
   pacific_atlantic |-> [pa_classic |-> <<7, 32, 32, 9>>, pa_single |-> <<1, 2, 2, 1>>]]

(* Calls that leave marks, memo, reachable cells and words behind, one the *)
(* kernel refuses and one in no mode it knows.                             *)
Dirty ==
  { Job("islands", 2, 3, [a \in 0 .. 5 |-> 1], <<>>, FALSE, FALSE),
    Job("increasing", 3, 2, [a \in 0 .. 5 |-> a], <<>>, FALSE, TRUE),
    Job("pacific", 3, 2, [a \in 0 .. 5 |-> 1], <<>>, FALSE, FALSE),
    Job("words", 2, 2, [a \in 0 .. 3 |-> 1 + (a % 2)], << <<1>>, <<1, 2>> >>, FALSE, TRUE),
    Job("islands", 0, 3, <<>>, <<>>, FALSE, FALSE),
    Job("other", 1, 1, [a \in {0} |-> 1], <<>>, FALSE, FALSE) }

MCNext ==
  \/ dfs_accel
  \/ /\ pc = "idle" /\ calls < MaxCalls
     /\ \E j \in IF calls = 0 THEN Dirty ELSE Jobs : Call(j) \/ Refuse(j)

MCSpec == Init /\ [][MCNext]_vars /\ WF_vars(dfs_accel)

Answered == pc = "idle" /\ calls = MaxCalls

(* The kernel's explicit stacks and frames compute what the recursive      *)
(* software does, its three counters included, whatever was left in the    *)
(* static engine (the comparison of src/hls/tb/dfs_accel_tb.cpp).          *)
MatchesSoftware ==
  Answered => LET s == Soft!Software(job)
              IN  result = [value |-> s.value, expanded_nodes |-> s.expanded_nodes,
                            visited_cells |-> s.visited_cells,
                            peak_stack_depth |-> s.peak_stack_depth]

(* The golden reference of the generated cases agrees with the kernel and, *)
(* through it, with the software: on a repeated word, an empty one, a      *)
(* plateau, equal heights at both oceans.  The search without pruning      *)
(* counts a word as often as it is named, the oracle once                  *)
(* (cases/oracle.cpp:160-164), so of its jobs those that name one twice    *)
(* are left to MatchesSoftware and ValueIsRight.                           *)
OracleAgrees ==
  LET named == [islands |-> "number_of_islands", pacific |-> "pacific_atlantic",
                increasing |-> "longest_increasing_path", words |-> "word_search_ii"]
  IN  Answered /\ job.mode \in DOMAIN named /\ (job.prune \/ IsInjective(job.words)) =>
        result.value = Io!Oracle(named[job.mode], job)

(* The expected value of every case the harness runs is what the software  *)
(* finds: the closed forms and the oracle of synthetic.cpp give no case    *)
(* that export_cases.cpp would have to refuse.  It is asked once.          *)
GoldenValues ==
  pc = "idle" /\ calls = 0 =>
    \A algo \in Io!make_algorithms :
      \A tc \in Io!Selected(algo, Io!Medium) : Io!passed(algo, tc)

Case == "case" \in DOMAIN job

(* A case that the testbench or a board gives the kernel gets the numbers  *)
(* its caller expects: nothing of the input is lost in packing it, writing *)
(* it to the file, parsing it and casting it to the kernel's types.        *)
TestbenchPasses == Answered /\ Case => result = job.expect

(* And a case of the repository's cases.json gets what the file says.      *)
AgreesWithFixture ==
  Answered /\ Case =>
    LET of == cases_json[job.case[1]]
    IN  job.case[2] \in DOMAIN of =>
          of[job.case[2]] = <<result.value, result.expanded_nodes, result.visited_cells,
                              result.peak_stack_depth>>
=============================================================================

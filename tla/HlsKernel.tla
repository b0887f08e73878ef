------------------------------ MODULE HlsKernel -----------------------------
(***************************************************************************)
(* dfs_accel (src/hls/dfs_accel.cpp): a call loads a job into the engine,  *)
(* which keeps its memory from call to call, runs one of the five searches *)
(* and returns four numbers.  One action per iteration of the loops over   *)
(* sources, stack and frames; pc names the loop.                           *)
(*                                                                         *)
(* A job is [rows, cols, cells, words, mode, eight, memo, prune], the last *)
(* three being the flags.  Words and, in a word search, cells hold lower-  *)
(* case letters only, so the tests against kAlphabet are left out.         *)
(***************************************************************************)
EXTENDS HlsEngine, Problems

CONSTANTS
  Jobs,
  MaxCalls    (* bound: calls of the kernel *)

ASSUME MaxCallsAssumption == MaxCalls \in Nat

VARIABLES
  e,          (* the static engine                                    *)
  job, pc,
  scan,       (* the next source cell of the loops over r and c       *)
  word,       (* run_word_search_no_pruning's w                       *)
  ret,        (* ret of run_match and run_longest_increasing_path     *)
  value,      (* the search's own counter                             *)
  result,     (* result_out                                           *)
  calls

vars == <<e, job, pc, scan, word, ret, value, result, calls>>
call == <<job, result, calls>>

NoResult == [value |-> 0, expanded_nodes |-> 0, visited_cells |-> 0, peak_stack_depth |-> 0]

Init ==
  /\ e = Blank
  /\ job = (CHOOSE j \in Jobs : TRUE) /\ pc = "idle"
  /\ scan = 0 /\ word = 1 /\ ret = 0 /\ value = 0
  /\ result = NoResult /\ calls = 0

FitsEngine(j) == j.rows \in 1 .. MaxRows /\ j.cols \in 1 .. MaxCols

ASSUME JobsAssumption ==  \* the host gives every cell, and whole words
  \A j \in Jobs :
    /\ j.mode \in {"islands", "pacific", "paths", "increasing", "words", "other"}
    /\ FitsEngine(j) => /\ j.cells \in [0 .. j.rows * j.cols - 1 -> Int]
                        /\ j.words \in Seq(Seq(Int))

Zeroed == [e EXCEPT !.expanded_nodes = 0, !.visited_cells = 0, !.peak_stack_depth = 0,
                    !.stack = <<>>, !.frames = <<>>]

Load(j) ==
  [Zeroed EXCEPT
     !.rows = j.rows, !.cols = j.cols, !.degree = IF j.eight THEN 8 ELSE 4,
     !.grid = [c \in DOMAIN e.grid |-> IF c < j.rows * j.cols THEN j.cells[c] ELSE e.grid[c]],
     !.words = SubSeq(j.words, 1, IF Len(j.words) > MaxWords THEN MaxWords ELSE Len(j.words))]

Refuse(j) ==
  /\ pc = "idle" /\ calls < MaxCalls /\ ~FitsEngine(j)
  /\ calls' = calls + 1 /\ job' = j
  /\ e' = Zeroed /\ result' = NoResult
  /\ UNCHANGED <<pc, scan, word, ret, value>>

ClearedButMemo(j, s) ==   \* mutant: the memo of the last call is still there
  CASE j.mode \in {"islands", "paths"} -> clear_visited(s)
    [] j.mode = "words" -> [clear_visited(s) EXCEPT !.word_found = IF j.prune THEN {} ELSE @]
    [] OTHER -> s

(* What the top of each run_ function clears. *)
Cleared(j, s) ==
  CASE j.mode \in {"islands", "paths"} -> clear_visited(s)
    [] j.mode = "words" -> [clear_visited(s) EXCEPT !.word_found = IF j.prune THEN {} ELSE @]
    [] j.mode = "increasing" ->
         [s EXCEPT !.memo = [c \in DOMAIN @ |-> IF c \in Cells(s) THEN 0 ELSE s.memo[c]]]
    [] OTHER -> s

Loop(j) == CASE j.mode = "words" -> IF j.prune THEN "trie" ELSE "match"
             [] j.mode = "paths" -> "start"
             [] OTHER -> j.mode

Call(j) ==
  /\ pc = "idle" /\ calls < MaxCalls /\ FitsEngine(j)
  /\ calls' = calls + 1 /\ job' = j
  /\ e' = Cleared(j, Load(j))
  /\ pc' = Loop(j)
  /\ scan' = 0 /\ word' = 1 /\ ret' = 0 /\ value' = 0
  /\ UNCHANGED result

Return(v) ==
  /\ pc' = "idle"
  /\ result' = [value |-> v, expanded_nodes |-> e.expanded_nodes,
                visited_cells |-> e.visited_cells, peak_stack_depth |-> e.peak_stack_depth]
  /\ UNCHANGED <<e, job, scan, word, ret, value, calls>>

cur == Top(e).cur
Walking == e.frames # <<>>
MoreDirs == Top(e).next < e.degree
Free(n) == ~e.visited[n]

(* The innermost frame tries its next direction: Enter(s, n) is what the   *)
(* search makes of a neighbour n it accepts.                               *)
TryNext(Accepts(_), Enter(_, _)) ==
  LET i == Top(e).next
      n == Neighbor(e, cur, i)
  IN  e' = IF HasNeighbor(e, cur, i) /\ Accepts(n) THEN Enter(advance(e), n) ELSE advance(e)

(***************************************************************************)
(* run_number_of_islands and flood.                                        *)
(***************************************************************************)
(* The directions in which a cell not yet visited may be entered. *)
Fresh(from, Enters(_, _)) ==
  {i \in 0 .. e.degree - 1 :
     /\ HasNeighbor(e, from, i)
     /\ LET n == Neighbor(e, from, i) IN ~e.visited[n] /\ Enters(from, n)}

(* Pops a cell, marks and pushes the neighbours that may be entered.       *)
Spread(Enters(_, _)) ==
  LET from == Last(e.stack)
  IN  e' = visit_all([e EXCEPT !.stack = Front(@), !.expanded_nodes = @ + 1],
                     Toward(e, from, Fresh(from, Enters)))

SourceEarly ==            \* mutant: the scan does not wait for the stack to empty
  /\ pc = "islands" /\ scan \in Cells(e)
  /\ scan' = scan + 1
  /\ IF e.grid[scan] = 0 \/ e.visited[scan]
     THEN UNCHANGED <<e, value>>
     ELSE /\ value' = value + 1
          /\ e' = mark_visited(push(e, scan), scan)
  /\ UNCHANGED <<call, pc, word, ret>>

IslandsSource ==
  /\ pc = "islands" /\ e.stack = <<>> /\ scan \in Cells(e)
  /\ scan' = scan + 1
  /\ IF e.grid[scan] = 0 \/ e.visited[scan]
     THEN UNCHANGED <<e, value>>
     ELSE /\ value' = value + 1
          /\ e' = mark_visited(push(e, scan), scan)
  /\ UNCHANGED <<call, pc, word, ret>>

MarkOnPop ==              \* mutant: a neighbour is marked when it is popped
  /\ pc = "islands" /\ e.stack # <<>>
  /\ LET from == Last(e.stack)
     IN  e' = [mark_visited(e, from) EXCEPT
                 !.stack = Front(@) \o Toward(e, from, Fresh(from, LAMBDA c, n : e.grid[n] # 0)),
                 !.expanded_nodes = @ + 1]
  /\ UNCHANGED <<call, pc, scan, word, ret, value>>

IslandsSpread ==
  /\ pc = "islands" /\ e.stack # <<>>
  /\ Spread(LAMBDA c, n : e.grid[n] # 0)
  /\ UNCHANGED <<call, pc, scan, word, ret, value>>

ReturnOneShort ==         \* mutant: the scan ends at the last cell, not after it
  pc = "islands" /\ e.stack = <<>> /\ scan + 1 \notin Cells(e) /\ Return(value)

IslandsReturn ==
  pc = "islands" /\ e.stack = <<>> /\ scan \notin Cells(e) /\ Return(value)

(* The cells along an ocean. *)
Coast(s, ocean) ==
  {c \in Cells(s) :
     IF ocean = "pacific" THEN c < s.cols \/ c % s.cols = 0
                          ELSE (c \div s.cols) + 1 = s.rows \/ (c % s.cols) + 1 = s.cols}

FloodKeepsMarks ==        \* mutant: the flood starts on the marks of the last one
  /\ pc \in {"pacific", "atlantic"}
  /\ LET clean == [e EXCEPT !.stack = <<>>]
     IN  e' = visit_all(clean, InOrder({c \in Coast(e, pc) : ~clean.visited[c]}))
  /\ pc' = IF pc = "pacific" THEN "pacific_flood" ELSE "atlantic_flood"
  /\ UNCHANGED <<call, scan, word, ret, value>>

(* flood, up to its loop over the stack. *)
FloodSources ==
  /\ pc \in {"pacific", "atlantic"}
  /\ LET clean == [clear_visited(e) EXCEPT !.stack = <<>>]
     IN  e' = visit_all(clean, InOrder({c \in Coast(e, pc) : ~clean.visited[c]}))
  /\ pc' = IF pc = "pacific" THEN "pacific_flood" ELSE "atlantic_flood"
  /\ UNCHANGED <<call, scan, word, ret, value>>

FloodSpread ==
  /\ pc \in {"pacific_flood", "atlantic_flood"} /\ e.stack # <<>>
  /\ Spread(LAMBDA c, n : e.grid[n] >= e.grid[c])
  /\ UNCHANGED <<call, pc, scan, word, ret, value>>

KeepPacific ==
  /\ pc = "pacific_flood" /\ e.stack = <<>>
  /\ e' = [e EXCEPT !.reachable =
             [c \in DOMAIN @ |-> IF c \in Cells(e) THEN e.visited[c] ELSE e.reachable[c]]]
  /\ pc' = "atlantic"
  /\ UNCHANGED <<call, scan, word, ret, value>>

PacificReturn ==
  /\ pc = "atlantic_flood" /\ e.stack = <<>>
  /\ Return(Cardinality({c \in Cells(e) : e.reachable[c] /\ e.visited[c]}))

(***************************************************************************)
(* run_unique_paths_iii.                                                   *)
(***************************************************************************)
Walkable == Cardinality({c \in Cells(e) : e.grid[c] # -1})

(* The last cell that holds a 1, or cell 0. *)
Start == LET ones == {c \in Cells(e) : e.grid[c] = 1}
         IN  IF ones = {} THEN 0 ELSE CHOOSE c \in ones : \A d \in ones : d <= c

PathsStart ==
  /\ pc = "start" /\ pc' = "paths"
  /\ e' = push_frame(mark_visited(e, Start), [Frame(Start) EXCEPT !.walked = 1])
  /\ UNCHANGED <<call, scan, word, ret, value>>

KeepsMark(s) ==           \* mutant: the cell is not unmarked on the way back
  pop_frame(s)

(* The start is never unmarked. *)
Backtrack(s) ==
  IF Len(s.frames) = 1 THEN pop_frame(s) ELSE unmark_visited(pop_frame(s), Top(s).cur)

PathsTarget ==
  /\ pc = "paths" /\ Walking /\ e.grid[cur] = 2
  /\ value' = IF Top(e).walked = Walkable THEN value + 1 ELSE value
  /\ e' = Backtrack(e)
  /\ UNCHANGED <<call, pc, scan, word, ret>>

PathsStep ==
  /\ pc = "paths" /\ Walking /\ e.grid[cur] # 2 /\ MoreDirs
  /\ TryNext(LAMBDA n : e.grid[n] # -1 /\ Free(n),
             LAMBDA s, n : push_frame(mark_visited(s, n),
                                      [Frame(n) EXCEPT !.walked = Top(e).walked + 1]))
  /\ UNCHANGED <<call, pc, scan, word, ret, value>>

PathsBack ==
  /\ pc = "paths" /\ Walking /\ e.grid[cur] # 2 /\ ~MoreDirs
  /\ e' = Backtrack(e)
  /\ UNCHANGED <<call, pc, scan, word, ret, value>>

PathsReturn == pc = "paths" /\ ~Walking /\ Return(value)

(***************************************************************************)
(* run_longest_increasing_path.                                            *)
(***************************************************************************)
LastChild(s, child) ==    \* mutant: the last child's length replaces a longer one
  IF s.frames # <<>> THEN [s EXCEPT !.frames[Len(s.frames)].best = child + 1] ELSE s

propagate_best(s, child) ==
  IF s.frames # <<>> /\ child + 1 > Top(s).best
  THEN [s EXCEPT !.frames[Len(s.frames)].best = child + 1] ELSE s

IncreasingSource ==
  /\ pc = "increasing" /\ scan \in Cells(e)
  /\ e' = push_frame(e, Frame(scan)) /\ ret' = 0
  /\ pc' = "increasing_walk"
  /\ UNCHANGED <<call, scan, word, value>>

(* A frame is checked once, on the iteration that tries direction 0. *)
MemoHit == Top(e).next = 0 /\ job.memo /\ e.memo[cur] # 0

IncreasingHit ==
  /\ pc = "increasing_walk" /\ Walking /\ MemoHit
  /\ ret' = e.memo[cur]
  /\ e' = propagate_best(pop_frame(e), ret')
  /\ UNCHANGED <<call, pc, scan, word, value>>

IncreasingStep ==
  /\ pc = "increasing_walk" /\ Walking /\ ~MemoHit /\ MoreDirs
  /\ TryNext(LAMBDA n : e.grid[n] > e.grid[cur],
             LAMBDA s, n : push_frame(s, Frame(n)))
  /\ UNCHANGED <<call, pc, scan, word, ret, value>>

IncreasingBack ==
  /\ pc = "increasing_walk" /\ Walking /\ ~MemoHit /\ ~MoreDirs
  /\ ret' = Top(e).best
  /\ LET s == IF job.memo THEN [e EXCEPT !.memo[cur] = ret'] ELSE e
     IN  e' = propagate_best(pop_frame(s), ret')
  /\ UNCHANGED <<call, pc, scan, word, value>>

IncreasingNext ==
  /\ pc = "increasing_walk" /\ ~Walking
  /\ value' = IF ret > value THEN ret ELSE value
  /\ scan' = scan + 1
  /\ pc' = "increasing"
  /\ UNCHANGED <<e, call, word, ret>>

IncreasingReturn == pc = "increasing" /\ scan \notin Cells(e) /\ Return(value)

(***************************************************************************)
(* run_word_search_trie.  A node of the trie is the prefix it stands for,  *)
(* and word_found the set of the words found: count is its size.           *)
(***************************************************************************)
Trie == UNION {{SubSeq(e.words[w], 1, k) : k \in 0 .. Len(e.words[w])} : w \in DOMAIN e.words}

(* Of words spelt alike the last one owns the node. *)
trie_word(node) ==
  {w \in DOMAIN e.words : e.words[w] = node /\ \A v \in DOMAIN e.words : v > w => e.words[v] # node}

enter_trie(s, c, node) ==
  LET t   == note_depth([s EXCEPT !.expanded_nodes = @ + 1], Len(s.frames) + 1)
      nxt == Append(node, e.grid[c])
  IN  IF nxt \notin Trie THEN t
      ELSE [mark_visited(t, c) EXCEPT !.word_found = @ \cup trie_word(nxt),
                                      !.frames = Append(@, [Frame(c) EXCEPT !.node = nxt])]

TrieSource ==
  /\ pc = "trie" /\ ~Walking /\ scan \in Cells(e)
  /\ e' = enter_trie(e, scan, <<>>)
  /\ scan' = scan + 1
  /\ UNCHANGED <<call, pc, word, ret, value>>

TrieStep ==
  /\ pc = "trie" /\ Walking /\ MoreDirs
  /\ TryNext(Free, LAMBDA s, n : enter_trie(s, n, Top(e).node))
  /\ UNCHANGED <<call, pc, scan, word, ret, value>>

TrieBack ==
  /\ pc = "trie" /\ Walking /\ ~MoreDirs
  /\ e' = pop_frame(unmark_visited(e, cur))
  /\ UNCHANGED <<call, pc, scan, word, ret, value>>

TrieReturn ==
  pc = "trie" /\ ~Walking /\ scan \notin Cells(e) /\ Return(Cardinality(e.word_found))

(***************************************************************************)
(* run_word_search_no_pruning and run_match; ret is 1 once the word is     *)
(* found, and the frames then only unwind.                                 *)
(***************************************************************************)
Spelt(c, k) == e.grid[c] = e.words[word][k + 1]
Ends(k) == k + 1 = Len(e.words[word])

enter_match(s, c, k) ==
  LET t == note_depth([s EXCEPT !.expanded_nodes = @ + 1], Len(s.frames) + 1)
  IN  IF ~Spelt(c, k) \/ Ends(k) THEN t
      ELSE [mark_visited(t, c) EXCEPT !.frames = Append(@, [Frame(c) EXCEPT !.char_index = k])]

Matched(c, k) == IF Spelt(c, k) /\ Ends(k) THEN 1 ELSE 0

WordOver == e.words[word] = <<>> \/ ret = 1 \/ scan \notin Cells(e)

MatchSource ==
  /\ pc = "match" /\ ~Walking /\ word <= Len(e.words) /\ ~WordOver
  /\ e' = enter_match(e, scan, 0) /\ ret' = Matched(scan, 0)
  /\ scan' = scan + 1
  /\ UNCHANGED <<call, pc, word, value>>

MatchStep ==
  /\ pc = "match" /\ Walking /\ ret = 0 /\ MoreDirs
  /\ LET k == Top(e).char_index + 1
         i == Top(e).next
         n == Neighbor(e, cur, i)
     IN  /\ TryNext(Free, LAMBDA s, m : enter_match(s, m, k))
         /\ ret' = IF HasNeighbor(e, cur, i) /\ Free(n) THEN Matched(n, k) ELSE 0
  /\ UNCHANGED <<call, pc, scan, word, value>>

MatchBack ==
  /\ pc = "match" /\ Walking /\ (ret = 1 \/ ~MoreDirs)
  /\ e' = pop_frame(unmark_visited(e, cur))
  /\ UNCHANGED <<call, pc, scan, word, ret, value>>

MatchWord ==
  /\ pc = "match" /\ ~Walking /\ word <= Len(e.words) /\ WordOver
  /\ value' = value + ret
  /\ word' = word + 1 /\ scan' = 0 /\ ret' = 0
  /\ UNCHANGED <<e, call, pc>>

MatchReturn == pc = "match" /\ ~Walking /\ word > Len(e.words) /\ Return(value)

UnknownMode == pc = "other" /\ Return(0)

dfs_accel ==
  \/ IslandsSource \/ IslandsSpread \/ IslandsReturn
  \/ FloodSources \/ FloodSpread \/ KeepPacific \/ PacificReturn
  \/ PathsStart \/ PathsTarget \/ PathsStep \/ PathsBack \/ PathsReturn
  \/ IncreasingSource \/ IncreasingHit \/ IncreasingStep \/ IncreasingBack
  \/ IncreasingNext \/ IncreasingReturn
  \/ TrieSource \/ TrieStep \/ TrieBack \/ TrieReturn
  \/ MatchSource \/ MatchStep \/ MatchBack \/ MatchWord \/ MatchReturn
  \/ UnknownMode

Next ==
  \/ dfs_accel
  \/ pc = "idle" /\ \E j \in Jobs : Call(j) \/ Refuse(j)

Spec == Init /\ [][Next]_vars

(* Once started the kernel runs to its end. *)
FairSpec == Spec /\ WF_vars(dfs_accel)

-----------------------------------------------------------------------------
(* Neither array needs more entries than the grid has cells, so that       *)
(* stack[sp++] and frames[fp++], which test no bound, stay inside kMaxStack.*)
ArraysSuffice ==
  pc # "idle" => /\ Len(e.stack) <= Cardinality(Cells(e))
                 /\ Len(e.frames) <= Cardinality(Cells(e))

(* While a search backtracks, the marked cells are exactly those of its    *)
(* frames: every mark is undone with its frame, none too early.            *)
PathIsMarked ==
  pc \in {"paths", "trie", "match"} /\ (Walking \/ pc # "paths") =>
    {c \in Cells(e) : e.visited[c]} = {e.frames[i].cur : i \in DOMAIN e.frames}

(* The grid of an engine as a graph: the cells with land, the cells next   *)
(* to one, and the steps from a cell over land, to no lower a height, to a *)
(* higher one.                                                             *)
Land(s) == {c \in Cells(s) : s.grid[c] # 0}
Around(s, c) == {Neighbor(s, c, i) : i \in {i \in 0 .. s.degree - 1 : HasNeighbor(s, c, i)}}
OverLand(s) == [c \in Cells(s) |-> Around(s, c) \cap Land(s)]
Uphill(s) == [c \in Cells(s) |-> {n \in Around(s, c) : s.grid[n] >= s.grid[c]}]

Climbs(s) == [c \in Cells(s) |-> {n \in Around(s, c) : s.grid[n] > s.grid[c]}]

Closed(steps, S) == \A c \in S : steps[c] \subseteq S

Visited(s) == {c \in Cells(s) : s.visited[c]}
Reachable(s) == {c \in Cells(s) : s.reachable[c]}

(* A source that is counted as an island touches no cell marked before, so *)
(* no island is counted twice.                                             *)
NewIslandApart ==
  [][IslandsSource /\ value' # value => Around(e, scan) \cap Visited(e) = {}]_vars

(* When the island search returns, it has marked and expanded each cell    *)
(* with land once and no other, whatever the last call had left marked.    *)
IslandsSearched ==
  [][IslandsReturn => /\ Visited(e) = Land(e)
                      /\ e.visited_cells = Cardinality(Land(e))
                      /\ e.expanded_nodes = Cardinality(Land(e))]_vars

(* When a flood ends, its coast is marked and no step uphill leads out of  *)
(* what is marked; the counters hold the cells of both floods, each cell   *)
(* once per flood.                                                         *)
OceansReached ==
  [][KeepPacific \/ PacificReturn =>
       /\ Coast(e, IF pc = "pacific_flood" THEN "pacific" ELSE "atlantic") \subseteq Visited(e)
       /\ Closed(Uphill(e), Visited(e))
       /\ e.visited_cells = e.expanded_nodes
       /\ e.visited_cells = Cardinality(Visited(e)) +
                            (IF pc = "pacific_flood" THEN 0 ELSE Cardinality(Reachable(e)))]_vars

(* An entry of h is the longest climb from its cell, if those of the cells *)
(* one can climb to are.                                                   *)
Solved(steps, h, c) ==
  /\ \A n \in steps[c] : h[n] \in 1 .. h[c] - 1
  /\ h[c] = 1 \/ \E n \in steps[c] : h[c] = h[n] + 1

(* An entry of the memo is never provisional, nor of another grid: once it *)
(* is not 0, it is one more than the most of those it depends on, and none *)
(* of them is missing.                                                     *)
MemoIsRight ==
  pc \in {"increasing", "increasing_walk"} =>
    \A c \in Cells(e) : e.memo[c] # 0 => Solved(Climbs(e), e.memo, c)

(* A call returns what its problem asks for: the islands, the cells that   *)
(* reach both oceans, the covering paths, the longest rise, the words      *)
(* found; whatever an earlier call left in the static engine.              *)
ValueIsRight ==
  pc = "idle" /\ calls > 0 /\ FitsEngine(job) /\ Len(job.words) <= MaxWords =>
    result.value = Answer(job)

(* Every call returns. *)
KernelReturns == pc # "idle" ~> pc = "idle"
=============================================================================

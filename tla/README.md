# Verification of the DFS accelerator

TLA+ models of the RISC-V DFS accelerator of this repository, TLC runs over
small instances of them, and TLAPS proofs for every instance. Paths below are
relative to the repository; `modules/` is `src/src/model/modules/` and
`program/` is `src/src/program/` as the files are laid out beside this project.

## 1. The system

A grid search (number of islands) is offloaded to a clocked accelerator. The
SystemC model is the core of the repository: six modules wired into one, a
register file for the host, a driver that runs on the host, and a bus between
them.

| Component | State | Operations | Talks to |
|---|---|---|---|
| Stack Manager, `modules/stack_manager.h` | `storage_`, `sp_`, `peak_`; outputs top, empty, full, peak | clocked `commit` (clear, push, pop), combinational `preview` | FSM (requests, outputs), start pulse (clear) |
| Visited Memory, `modules/visited_memory.h` | one bit per cell | clocked `commit`, combinational `preview`; backdoor peek/poke/clear_all | FSM, start pulse, primitive bridge |
| Grid Memory, `modules/grid_memory.h` | one value per cell | backdoor `load_cell`, clocked `commit`, combinational `preview` | host (port and backdoor), FSM (read address) |
| Neighbor Generator, `modules/neighbor_generator.h` | the scan: active, next_dir, num_dirs, base cell | clocked `generate`, one neighbour per request | FSM, size and connectivity registers |
| Result Interface, `modules/result_interface.h` | the result register, valid | clocked `latch` | FSM (done, counters), Stack Manager (peak), host |
| DFS Controller, `modules/dfs_controller.h` | FSM state, current cell, latched neighbour, scan position, counters, overflow | clocked `run_fsm` | all of the above |
| DFS Accelerator, `modules/dfs_accelerator.h` | configuration, `start_requested_`, `run_pending_` | register reads and writes, `drive_start_pulse`, the wiring | host bus |
| Driver and bus, `program/driver/accelerator_driver.h`, `program/integration/tlm_bus.h` | position in `run` | load the grid, enable, start, poll done, read the result | register file |
| Primitive path, `program/integration/dfs_accelerator_bridge.h`, `tlm_accelerator.h` | grid pointer and connectivity, the memories through their backdoor | load, reset, is-visited, mark, unmark, neighbours | Visited and Grid Memory, algorithms |
| Harness, `program/harness/` | software marks, operation counts | the same primitives in software | algorithms |
| Algorithms, `program/algorithms/` | recursion | five grid searches | harness accelerator |
| HLS kernel, `src/src/hls/dfs_accel.cpp` | static grid, marks, stack and frames | the five searches with explicit stacks | buffers of the host |
| Test cases, `program/cases/` | none | embedded data sets, generated grids with closed forms or an oracle's values | every program below and above |
| Testbench, exporter and parser, `src/src/hls/tb/`, `src/src/hls/tools/`, `src/src/hls/kernel_io.h`, `src/src/onboard/dfs_accel_case_io.h` | `cases.json` | pack a case into the kernel's arguments, write it to the file or refuse it, parse it | HLS kernel, on-board hosts |
| On-board hosts, `src/src/onboard/` (four tools) | buffers shared with the board, register values and pointers, tallies | allocate, fill, flush, attach, start, wait, invalidate, read, judge | HLS kernel, CPU cache |

What is hard about it:

- **Registered commits with combinational previews.** Every memory and the
  stack answer before the edge that commits the request, from a SystemC method
  that is sensitive to the request signals only. A request held for two cycles,
  or a memory changed behind its port, leaves the output stale.
- **One-cycle requests between clocked processes.** The FSM acts on signals of
  the previous edge. The generator's answer of the previous request is still on
  the wires when the next request goes out (`ngen_wait_`).
- **The start handshake.** `start_requested_` and `run_pending_` are plain
  members that both the host's process and a clocked method write; Done is
  masked from the write of Start until Busy.
- **A full stack.** A neighbour is dropped, the scan has to find the rest of
  its region, and the result has to say so.
- **Re-use.** A second run, on another grid, on the same accelerator: the marks,
  the done level, the high-water mark and `is_new_island_start_` of the first
  one are still there.
- **One static engine.** The HLS kernel keeps its memory from call to call and
  clears only what the next search reads; its explicit stacks and frames, which
  test no bound, replace the recursion of the software.
- **Two paths to one answer.** The primitive path pokes the memories behind
  their ports, case after case, and must answer as the software accelerator.
- **A cache between host and kernel.** The board's buffers are cacheable and
  the kernel reads and writes memory past the cache, so each buffer must be
  pushed or pulled at the right moment; the scalars are read through pointers at
  every Start.
- **One case in many forms.** A case is a C++ value, packed bytes, JSON, parsed
  ints, bytes again, and the kernel's signed cells; its expected value comes
  from a table, a closed form or a second implementation.
- **Hosts without a protocol.** Registers can be written, and reset pulled, in
  the middle of a run.

What makes each part correct: the stack is a bounded LIFO whose outputs are
never stale (and whose pushes are never dropped unnoticed); the memories show
the cell that is asked for; the generator hands out each neighbour on the grid
once and ends; the bridge answers every call as the software does; a kernel
call returns what the recursive search and the oracle return, needs no more stack than the
grid has cells, and ends; a case gives the kernel the same input and the same
expected numbers on both ways; a board tool judges each case by the result of
that case's own run; a result read under Done is that of the run just started; a run
visits every passable cell, counts the islands exactly, says when it could not,
and returns.

## 2. The modules

| Module | Models | Correspondence |
|---|---|---|
| `StackManager` | `stack_manager.h` | `Commit` and `Preview` are the two SystemC methods; `Preview` reruns only when an input changed, as its sensitivity list says. `Spec` drives it with any pulsed requests, reset and clear. |
| `BoundedStack` | what the Stack Manager promises | a LIFO of at most `Depth` entries with a high-water mark. |
| `VisitedMemory`, `GridMemory` | the two memories | `Commit`, `Preview`, and `load_cell` behind the port; `seen` holds the inputs of Grid Memory's last preview. |
| `NeighborGenerator` | `generate` and `emit_next` | one action per outcome: reset, no request, a neighbour, exhausted. The loop over directions off the grid is the choice of the least one on it. |
| `ResultInterface` | `latch` | one action. |
| `DfsController` | `run_fsm` | one action per state and branch; the copy of the counters to their signals at the end of every call makes register and signal one variable. |
| `DfsAccelerator` | wiring, registers, `drive_start_pulse` | six INSTANCEs that share one variable per signal. `Tick` is a clock edge with the deltas after it: all clocked methods on the values from before the edge, then the previews. The host's accesses fall between edges. |
| `ScanMapping` | -- | reads a state of the accelerator as a state of `IslandScan`. A pending cell may be on the stack, on the push wires, in `cur_node_`, among the directions still to try, on the generator's output, or in `nbr_latch_`. The area is empty while the registers hold the rows of one grid and the columns of another whose product is more than the memory. |
| `IslandScan` | what a run promises | a work-list flood fill over any symmetric graph, seeds taken from a scan, pushes that may be lost. |
| `AcceleratorDriver`, `MCAcceleratorDriver` | `accelerator_driver.h`, `tlm_bus.h` | `run`, one bus access per action; `BusWaits` says whether TlmBus waits after each. The module states what the caller is owed (`Islands`) from the grid alone. |
| `FreeHost` | a host and testbench without a protocol | any register write, Start and reset at any time, up to `Budget` of them. |
| `PrimitivePath`, `MCPrimitivePath` | `dfs_accelerator_bridge.h`, `tlm_accelerator.h`, `BaseAccelerator` of `harness/accelerator.cpp` | one action per primitive, executed on the software accelerator and on the bridge at once; `answer` holds what both returned. Uses the backdoor operators of `VisitedMemory`. |
| `HlsEngine` | the `Engine` struct of `dfs_accel.cpp` | one operator per member function, from engine record to engine record. |
| `HlsKernel` | `dfs_accel` and its five searches | one action per iteration of the loops over sources, stack and frames; `Call` is the load of a job into the engine, `Refuse` the early return. The directions a cell may be entered in are a set (`Fresh`), pushed as the loop counts up (`Toward`). |
| `SoftwareSearch` | `program/algorithms/`, on the harness | recursive operators that thread marks and counters through. |
| `Problems` | what the five searches are asked for | `Answer`, over the grid as a graph, its closures (`Reach`) and walks (`Routes`); no marks, no stack, no order of cells. The result of a call is proved against it. |
| `Oracle` | `program/cases/oracle.cpp` | one operator per function: floods over a stack and a queue, one pass over the cells from high to low, a search word by word. Shares nothing with `SoftwareSearch` but the problem. |
| `Datasets`, `CaseSuite` | `datasets.cpp`; `synthetic.cpp`, `generators.cpp`, `dfs_algorithm.cpp`, `Harness::run_all` | the embedded cases value by value; topologies, specs, tiers, expected values, and which cases an algorithm is run on. |
| `KernelIo` | `kernel_io.h`, `dfs_accel_tb.cpp`, `export_cases.cpp`, `dfs_accel_case_io.h` | from a case to a call of the kernel: `TestbenchCall` on one way, `Export`, `ParseCase` and `BoardCall` on the other. |
| `MCHlsKernel` | -- | the jobs, and the comparison of kernel, software, oracle, definition, callers' expectations and the repository's `cases.json`. |
| `OnboardHost` | `driver.py`, `validate.ipynb`, `validate_cynq.cpp`, `benchmark_cynq.cpp`, `benchmark_batch_cynq.cpp` | each tool is a script of operations per stage of its loop; one action per kind of operation (`get_buffers`, `fill_grid`, `push_grid`, `attach_scalars`, `start`, `sync`, `pull`, `read`, ...), and the actions of what it talks to: `KernelFetch`, `KernelReturn`, `Evict`, `Prefetch`. |
| `JudgedCases` | what a board tool promises | every case judged once, in order, by its own result. |
| `StackManager_proofs`, `IslandScan_proofs`, `FreeHost_proofs`, `AcceleratorDriver_proofs`, `PrimitivePath_proofs`, `HlsKernel_proofs`, `OnboardHost_proofs` | -- | the theorems of section 5. |
| `DfsAccelerator_proofs` | -- | what an edge and an access do to the accelerator, for whichever host: types, freshness of the wires, handshake, and the step of each unit. `FreeHost_proofs` and `AcceleratorDriver_proofs` extend it. |

The sub-modules of the accelerator declare their input signals as variables and
constrain only what they drive; `DfsAccelerator` substitutes the signals. An
operator whose comment begins `mutant:` is a variant of the definition after it
with a plausible bug, used to see that a property notices; nothing else
uses it.

Abstractions of the kernel: `checked` of a frame is "its next is still 0" (it
is set on the iteration that tries direction 0); a node of the trie is the
prefix it stands for and `count` the number of words in `word_found`; words and
the cells of a word search are lowercase letters, here numbers, as in the data
sets, so the tests against `kAlphabet` (`dfs_accel.cpp:297`, `312`) never fail and
are not modelled: what is said of "every list of words" is of words of lowercase
letters; a word fits `kMaxWordLen`. A repeated word is counted as often as it is
named by `search_no_pruning`, in kernel and software alike, and once by
`search_trie` and the oracle; the runs name one twice for both searches, and
`OracleAgrees` leaves out the pairing that differs (no data set names one
twice). The cost counter `ops` is left out.

Abstractions of the cases: what a seed gives a random topology is any member of
`Draws`, for a small side every grid over a few values; the ladder of sizes is
scaled down to the kernel's scaled-down `kMaxRows`; generated cases are named
after their topology; lists whose order no result depends on are sets. The text
of `cases.json` is abstracted to records, its keys to field names; numbers keep
their conversions (a cell's cast to `uint8_t` and the kernel's reading of it as
a signed byte).

Abstractions of the on-board hosts: a buffer is one cache line and one block of
memory; a content is whose grid or words it is, or which run's result for which
case, so that a result of the right value from the wrong run is told apart; the
five scalars are one. How the kernel does on a case (`quality`) is arbitrary but
fixed. Timing, clocks and CSV output are left out. What CYNQ, PYNQ, the cache
and the kernel do is not in the repository; it is taken from what the tools'
comments say of it: Start reads the attached pointers anew
(`benchmark_cynq.cpp:58-65`), the kernel bypasses the cache
(`driver.py:67-71`, `:91-92`), it is not pipelined
(`benchmark_batch_cynq.cpp:13-15`). That reading AP_DONE clears it is the
convention of the generated AXI-Lite registers. A library that keeps an attached
buffer alive until the next one is attached only reuses blocks later than the
model allows. The cache holds no dirty line of a block before the tool first
uses it: what an earlier owner of the memory wrote is taken to be written back
when the tool starts. Lines of the tool's own earlier buffers stay as they are
when a block is allocated again.

Abstractions of the primitive path: an algorithm is any sequence of calls. It
sees of the accelerator only the answers, so while these agree both runs of it
make the same calls, and running them side by side loses nothing.

Abstractions of the accelerator: coordinates x and y are one pair; `wdata` of Visited Memory is
tied to true by the wiring; start_x and start_y are written and never read;
`TimingStats` is never read back; payload checks of `b_transport` and read-back
of the configuration change no state. Registers are unbounded naturals: the
32-bit widths are far above what small grids reach.

## 3. The runs

| Run | Question | Bounds |
|---|---|---|
| `stack` | Does the registered stack with its preview behave as a bounded LIFO under every pulsed request sequence? `TypeOK`, `OutputsFresh`, `ImplementsBoundedStack`. | depth 3, three coordinates: empty, partly filled and full are all distinct, and a wrong entry is told from a right one. Exhaustive, no other bound. |
| `island_scan` | Does scan and flood fill mark exactly the passable cells and count soundly with any frontier order and any lost push, and exactly when none is lost? `FinishComplete`, `FinishExact`, `NewIslandTouchesNone`, `OthersAttach`. | every symmetric graph on at most three cells: two islands, or one of three with a cell reached twice. |
| `driver_two_runs` | Does `AcceleratorDriver::run` return the exact result of its grid, twice on one accelerator? `TypeOK`, `PreviewsFresh`, `DoneIsThisRun`, `ReportExact`, `ImplementsIslandScan`, `RunReturns`. | all contents of 2x2, 1x3 (8-connected) and 2x1 grids, two runs in every combination; a memory larger than the grids, so that an old grid remains behind a new one; a stack that never fills (14). |
| `driver_small_stack` | What does a run promise when the stack fills up, under a host that does not wait between accesses? `OverflowReport`, `ImplementsIslandScan`. | all 2x3 grids with 4 and 8 neighbours, a stack of 3: pushes are dropped, regions are found in pieces. |
| `free_host` | What survives writes and resets in mid-run? `PreviewsFresh`, `NoPushLost`, `BusyOrDone`, `NeverHangs`. | two cells, sizes 0 to 2, so also empty grids, grids larger than the memory, and sizes that change under a running scan; three accesses or reset edges, enough for a start, a change and a second start. |
| `primitive_path` | Does any sequence of primitive calls get the same answers from software and bridge, from case to case and after the register path? `AnswersAgree`, `MemoriesMirror`. | a memory of four cells with arbitrary contents at first; grids that fill it, that leave part of it, an empty one; 4 and 8 neighbours. Exhaustive, no other bound. |
| `hls_kernel` | Do the kernel's searches, on an engine a call has used, return what the recursive software, the oracle and the problem's own definition say, counters included; does it keep on the way what those results rest on; and does every case reach the kernel unchanged? `ArraysSuffice`, `PathIsMarked`, `MemoIsRight`, `NewIslandApart`, `IslandsSearched`, `OceansReached`, `MatchesSoftware`, `ValueIsRight`, `OracleAgrees`, `GoldenValues`, `TestbenchPasses`, `AgreesWithFixture`, `KernelReturns`. | every grid of up to six cells (islands), four (oceans, rises, words, with three heights or two letters, in lists with a word inside another, an empty one and one named twice), every maze of 2x3 with one obstacle and of 2x2 with two; all embedded cases at full size through testbench and file, and the generated ones of sides 2 (every draw of a few values) and 5 (the scaled-down `kMaxRows`; one draw over the whole range), and of side 6, which only the harness may run; each after any of six first calls of other shapes and modes, one refused and one in an unknown mode. Two calls are enough: all that a call can leave is in the engine, and the first calls fill each array that a later one reads. |
| `on_board` | Do the four board tools give the kernel each case's own input, read that run's own result and judge it? `KernelReadsItsCase`, `CleanWhileRunning`, `ReadsOwnRun`, `NoStartBeforeDone`, `JudgesEachCase`, `ToolFinishes`. | two cases, so that the first one's buffers, registers and cached lines are there for the second; three blocks for three buffers, so that every allocation reuses all of them, in any roles; one warm-up and two iterations, so that a loop has a first and a last round; every quality of each case. Write-backs, evictions and loads of the cache at any point. |
| `driver_overcount`, `driver_overflow_window`, `free_host_start`, `free_host_reload` | the four disagreements of section 4, each one violated property | as small as shows them. |

Fairness. `Clock` is weakly fair: the SystemC kernel keeps the clock running.
`run` is weakly fair in the driver: its thread is resumed after each wait, and
the polling loop makes an access each time. Nothing else is assumed; in
particular no access of the free host is fair. Neither `NeverHangs` nor
`RunReturns` holds without the first.

`dfs_accel` is weakly fair in `hls_kernel`: a started kernel runs. The host's
calls are not. In `on_board` the tool runs (`Host`) and a started kernel ends
(`Kernel`), which is what `KernelReturns` establishes for the kernel itself; the
cache owes nothing, so no property rests on a lucky eviction.

Deadlock is checked everywhere but in `hls_kernel`, where the host stops after
`MaxCalls` calls, and in `on_board`, where the tool ends after its last case;
that neither stops half-way is `KernelReturns` and `ToolFinishes`.

`AgreesWithFixture` compares the kernel's model with the numbers of the committed
`src/src/onboard/cases.json` (21 cases, four numbers each), so it also tests the
model against the real program's output. `GoldenValues` is asked once, in the
initial state: it is about the cases and not about a run. `ReadsOwnRun` tells
apart runs of the same case: the batch tool compares the two results it has read
by value, and these are equal whether or not the second one is from its own run.

## 4. Where code and comments disagree

1. **An overflowed run over-counts** (`driver_overcount`). `memory_map.h:32`
   and `dfs_controller.h:33-35` say a dropped push makes the result
   under-count. The scan offers every cell again, so the rest of a region whose
   neighbour was dropped is found and counted as one more island. On a 2x3 grid
   with a stack of three the run reports 2 for 1. What does hold is
   `OverflowReport`: every passable cell is visited, the count is at least the
   true one, and it is larger only with overflow set.
2. **Overflow is visible in the pending window** (`driver_overflow_window`).
   `dfs_accelerator.h:236-237` says overflow needs no masking since it is
   cleared before that window. It is cleared by the start pulse, one or two
   edges after the write of Start.
3. **A Start while busy is no fresh traversal** (`free_host_start`).
   `dfs_accelerator.h:76` and `:110` wire the clears of stack and marks to the
   start pulse, which the FSM ignores unless it is in Idle or Done; scan and
   counters go on. The driver never does this.
4. **Grid Memory's preview can be stale** (`free_host_reload`). It is not
   sensitive to the cells, which `load_cell` changes. A host that loads a grid,
   yields, and loads another without yielding so that the write port ends as it
   was leaves `grid_value` of the old cell 0 for the first Visit. Hosts on
   TlmBus yield after each access and are safe (`PreviewsFresh` in `free_host`).

## 5. The proofs

All theorems hold for every value of the constants, from the named assumptions
of the modules only: depths and sizes are positive naturals, a grid given to the
accelerator has cells and fits it, a job of the kernel comes with all its cells.
TLC evaluates each assumption on the instance of a run. The freshness of the
previews, the refinement and what follows from it are about a bus that waits
(`BusWaits`, `Yields` in the free host), as TlmBus does: `access` ends with a
`wait` of the transport delay, one clock period. Without the wait they do not
hold: two runs on 2x1 grids can leave Grid Memory's preview of cell 0 stale
(section 4, item 4), and the second run's scan then passes a land cell by. For a
single run without waits `driver_small_stack` checks the refinement.

- **Stack Manager** (`StackManager_proofs`): `TypeCorrect`, `PeakIsHighWater`,
  `PreviewNeverStale`, `StackRefinesLifo`. `TypeOK` is not inductive: a stale
  output could show anything of the right type, and the peak could be below the
  depth. The invariant is `Registers /\ OutputsFresh`. Two facts carry it:
  an edge commits exactly what the preview had shown (`CommitReachesPreview`),
  and if no input changes, no request was on the wires, so nothing shown
  changes (`QuietKeepsShown`); this is where the peer's pulses are needed. The
  refinement maps the registers *with the present request applied* to the
  abstract stack.
- **The flood fill** (`IslandScan_proofs`): `FinishIsComplete`,
  `NewIslandIsNew`, `OthersAreAttached`, `FinishIsExact` over every set of cells
  and symmetric graph. The invariant adds to the types that every passable cell
  is marked, still to be offered, or the seed (`LandAccounted`); that without a
  loss the neighbours of a marked cell are marked or waiting (`MarkedClosed`);
  that what waits has a marked neighbour unless it is the seed
  (`FrontierAttached`); and that a seed waits alone (`SeedAlone`). Losing the
  seed itself would break the first; the FSM never does, since it seeds only an
  empty stack. `FinishExact` counts: a connected region is a smallest closed set
  of passable cells, the regions met so far are as many as the seeds while
  nothing is lost, and no more than the seeds otherwise.
- **The accelerator under a free host** (`FreeHost_proofs`): `TypesKept`,
  `PreviewsAreFresh`, `NoPushIsLost` and `NeverBusyAndDone`, for every grid
  size, stack depth and number of accesses. The invariant places each request in
  the state after the one that raised it (`Requests`), so none is up at two
  edges in a row; then the stack's preview is fresh (`StackFresh`), the FSM has
  seen the room its push needs (`PushFits`), and result_valid outlives done by
  one edge in which busy is still low (`DoneKept`).
- **The accelerator under its driver** (`AcceleratorDriver_proofs`): `TypesKept`,
  `PreviewsAreFresh`, `DoneIsOwn`, `Implements`, `ReportsIslands`,
  `ReportsExactly`, `SmallGridsAreExact`, in four layers, each inductive on top of
  the one before.
  `IInv` is the start handshake: a Start is in one place at a time, requested,
  on the pulse or taken (`Pending`), the FSM rests between runs (`Resting`), and
  a valid result without a pending Start is what the FSM stopped with
  (`Latched`). `Fill` is what a traversal keeps: the registers hold the job's
  grid as far as it is loaded, the port is settled before the FSM reads it, the
  scan and whatever is pending stay on the grid, and the generator works for
  the node the FSM is at. From these two each edge and each access is a step of
  `IslandScan` or a stutter under the mapping of `ScanMapping` (`Implements`),
  one lemma per FSM state. The theorems of `IslandScan_proofs`, instantiated at
  the mapping, then hold of the accelerator; `CInv` carries their conclusion
  from the FSM's last step through the result register to the driver's read:
  whatever the depth of the stack, a run visits exactly the passable cells,
  reports at least the islands, and shows overflow if it reports more
  (`ReportsIslands`), and exactly the islands when no push is dropped
  (`ReportsExactly`). `Roomy` says when none is. Every marked cell has left the stack
  itself and puts at most one entry on it in each of its directions (`Within`),
  and only passable cells of the grid are marked, so the stack never holds more
  than three entries per passable cell with four neighbours, seven with eight,
  and one for the seed. A grid for which that fits (`SmallGrid`: with
  `kStackDepth` = 65536, `accelerator_config.h:12`, up to 21845 and 9362 passable
  cells) is reported exactly (`SmallGridsAreExact`), also after runs that
  overflowed, since a run begins with `overflow` cleared. On larger grids pushes
  may be dropped, and `ReportsIslands` is what holds.
- **The primitive path** (`PrimitivePath_proofs`): `CrossCheckHolds` and
  `MemoriesFollow`, for every set of grids that fit the memory
  (`GridsAssumption`). The invariant couples the two sides: once loaded, the
  bridge has its caller's grid and connectivity, and the memories hold the
  grid and its marks. `IndexInArea` bounds the row-major index, without which
  a mark could fall outside the memory and be forgotten by one side only.
- **The HLS kernel** (`HlsKernel_proofs`), for every size of the engine, every
  set of jobs and any number of calls, in five layers:
  - *The arrays and the marks* (`IInv`; `ArraysAlwaysSuffice`,
    `PathAlwaysMarked`). The bound on an array is not inductive. What is: what
    waits on the stack is marked and waits once (`Spreading`), so that a cell
    not marked is not on it; the frames of unique paths and of a word search are
    on different cells, exactly the marked ones (`Path`); those of the longest
    increasing path rise strictly (`Rising`), so that no cell comes back
    although nothing is marked. A call re-establishes these on an engine in any
    state (`CallKeeps`). They rest on facts about the grid: a neighbour is a
    cell of the grid, and two directions lead to two cells (`NeighborOf`), also
    across the end of a row.
  - *The two floods* (`FInv`; `NewIslandsAreApart`, `IslandsAreSearched`,
    `OceansAreReached`, `IslandsAreCounted`, `OceansAreCounted`). What is marked
    can be reached and, but for what waits, is closed under the steps of the
    search; so once nothing waits it is all that can be reached. Being next to
    is symmetric, so a cell with land that is not marked is in no island marked
    before, and the islands marked are as many as were counted. The last two
    theorems name the result by the job alone, in the terms of `Problems`.
  - *The longest climb* (`LInv`; `MemoIsAlwaysRight`, `LongestIsFound`). Climbs
    have lengths although nothing bounds them but the heights: a largest set of
    cells closed under climbing on which lengths exist is the whole grid, or the
    highest remaining cell would extend it (`SolutionExists`). A frame holds the
    best of the directions it has tried, the one in progress excepted; an entry
    of the memo is 0 or the length from its cell, and set after those of all
    higher neighbours (`Remembered`). That length is the one of a path and of no
    longer one (`AsLong`, `NoLonger`).
  - *The searches that backtrack* (`WInv`; `PathsAreCounted`, `WordsAreFound`).
    The frames are a walk in the tree of all trails. A trail is *done with* when
    it leaves the walk for a cell the walk has already turned to (`Done`). Each
    step does one of four things: the direction leads off the grid and nothing
    changes (`Stands`), all trails through a neighbour are passed by (`Skips`),
    the neighbour is entered (`Grows`), or the innermost cell is left and the
    trails through it are done with (`Shrinks`). The value counts the paths done
    with (`Counts`); `word_found` holds the words spelt by trails done with or
    by a beginning of the walk (`Finds`); while a word is not found no trail
    done with spells it (`Matching`). Passing by loses nothing: a trail meets no
    cell twice, so none goes on to a marked cell (`NoTrailThrough`); a prefix
    that is not in the trie begins no word (`PrefixInTrie`); and no full path
    goes on past a target (`AtTarget`). When the frames are gone every trail
    from the sources is done with. `FullIsCovering` shows that the length test
    of `run_unique_paths_iii` selects the paths that meet every free cell once,
    where the grid has a start; without one the search begins at cell 0, as the
    code does, obstacle or not.
  - *What a call returns* (`ValueIsAlwaysRight`): the answer to its problem, for
    each of the five modes, every grid and list of words (of lowercase letters) that fit, and whatever
    earlier calls left in the static engine. `Problems` says what that is by
    functions that count steps up to the number of cells, the layers above by
    least closed sets and by trails; three facts join them. A closure is reached
    in as many steps as there are cells (`ReachIs`), since one that has
    not ended has grown; the walks `Routes` builds cell by cell are the trails
    of that length (`RoutesAre`); the cells at most one row and one column
    away are those the eight or four directions lead to (`NearIsAround`). A
    second invariant, `JInv`, says that a loop is the one of the job's mode
    (`Loops`), so that the result a step of one search leaves is the result of
    the call's problem.
- **The board tools** (`OnboardHost_proofs`): `KernelInput`, `NoLateWriteBack`,
  `ReadResult`, `StartWhenIdle`, `Judged`, for any number of cases, iterations
  and warm-up runs and any blocks. The invariant says at each position of a
  script what memory, cache and registers hold: the inputs are dirty lines until
  pushed and settled after (`Inputs`, `DirtyBetween`), the registers point at
  this case's buffers (`Registers`), the kernel works on this case
  (`KernelKept`), its result is in memory once it is done and not hidden by the
  cache once pulled (`ResultKept`). Positions are read off the scripts
  (`SetupScript`, `RunScript`, `EndScript`); `Judged` maps each step to one of
  `JudgedCases` or a stutter.

Only model-checked: liveness (`NeverHangs`, `RunReturns`, `KernelReturns`,
`ToolFinishes`), which the prover does not treat; and what `MCHlsKernel` states,
the kernel against software and oracle, and the cases (`MatchesSoftware`,
`OracleAgrees`, `GoldenValues`, `TestbenchPasses`, `AgreesWithFixture`), whose
definitions are recursive or reached from them. The findings of section 4 are
counterexamples of their runs. What the kernel's five searches return is proved
against the problems (`Problems`), not against the recursive software. Every
other invariant and action property of the runs is proved.

## 6. Not modelled, and the plan

Not modelled:

- **Reports, metrics, timing statistics, the cost counter**: output and
  arithmetic that no state depends on.
- **The pseudo-random generator** of `generators.h` (its outputs are arbitrary
  members of `Draws`) and the characters of `cases.json`.
- **A board tool that is interrupted.** `driver.py` frees its buffers in a
  `finally` block, also when its poll is interrupted while the kernel still runs;
  no tool waits with a timeout or stops the kernel.
- **The unit tests' fixed stimulus** (`src/src/model/tests`, `sc_main.cpp`): single
  behaviours of the free host and of the stack's free peer.
- **`timing_stats.h`, the unused `config/tlm_protocol.h`, build scripts, Vivado
  and board files, the paper**: nothing of the modelled state depends on them.
- **Widths.** Registers, counters and `memo` (16 bits) are unbounded: no grid
  that fits the memories (256 x 256 cells, 64 x 64 in the kernel) reaches their
  limits, except the 32-bit count of
  paths and of expanded nodes, which exhaustive searches could exceed in
  principle and no data set does.

The order of the work, most important behaviour first: the stack, the
memories and the generator; the FSM and the wiring; the driver, and the
abstract scan it implements; the free host; the HLS kernel against the software;
the primitive path; the test cases, the oracle and both ways to the kernel; the
on-board hosts; the proofs of each of these, the refinement of the abstract scan
by the driver's accelerator included. All of this is done. What remains:

1. Proofs: that the counters of the searches that backtrack, like those of the
   floods, depend on the job alone (`expanded_nodes`, the peak depth); that the
   island search of `HlsKernel` implements `IslandScan`, with the frontier read
   off its stack. So far hardware and kernel are tied by their results: both
   return the number of islands (`ReportsExactly`, `IslandsAreCounted`).
2. The kernel of `OnboardHost` replaced by a call of `HlsKernel`, so that one
   composed model goes from a case to a verdict.
3. A host that starts in reset, for the masked Done that `run_pending_` can
   leave behind.

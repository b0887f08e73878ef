----------------------------- MODULE OnboardHost -----------------------------
(***************************************************************************)
(* The four programs that run the kernel on the board (src/onboard): the   *)
(* PYNQ driver with its notebook, validate_cynq, benchmark_cynq and        *)
(* benchmark_batch_cynq.  Each is a script of host operations per case,    *)
(* one action per kind of operation, against what the scripts talk to: a   *)
(* CPU cache that is not coherent with the kernel's ports, registers of    *)
(* which the scalars are attached by pointer and read at every Start, and  *)
(* the kernel, which fetches its input from memory and returns a result.   *)
(*                                                                         *)
(* A buffer is one memory block and one cache line.  A content is whose    *)
(* grid or words it is, or which run's result for which case; the kernel's *)
(* result for anything but the grid, words and scalars of one case is that *)
(* of case 0.  The five scalars are one.                                   *)
(***************************************************************************)
EXTENDS Integers, Sequences

CONSTANTS
  NumCases,               (* cases in cases.json                           *)
  Iterations, Warmup,     (* the arguments of the benchmarks               *)
  Blocks                  (* memory buffers are allocated from             *)

ASSUME SizesAssumption == NumCases \in Nat /\ Iterations \in Nat \ {0} /\ Warmup \in Nat

VARIABLES
  tool,
  quality,                (* how the kernel does on each case: JudgedCases *)
  todo,                   (* the cases left, the current one first         *)
  stage, i, at,           (* the tool's loop, its variable, the operation  *)
  place,                  (* the block of each of the case's buffers       *)
  ddr, line,              (* memory and cache, by block                    *)
  regs,                   (* the kernel's registers                        *)
  frame,                  (* the case whose scalars' variables live, or 0  *)
  kernel,
  starts,
  last, batched,          (* results read                                  *)
  failures, mismatches

control == <<tool, quality, todo, stage, i, at>>
memory  == <<place, ddr, line>>
tally   == <<failures, mismatches>>
vars    == <<control, memory, regs, frame, kernel, starts, last, batched, tally>>

Cases == 1 .. NumCases
Tools == {"driver", "validate", "benchmark", "batch"}

Content(what, c, run) == [what |-> what, case |-> c, run |-> run]
Stale     == Content("stale", 0, 0)
Grid(c)   == Content("grid", c, 0)
Words(c)  == Content("words", c, 0)
Result(c) == Content("result", c, starts)

Absent   == [state |-> "absent", data |-> Stale]
Clean(d) == [state |-> "clean", data |-> d]
Dirty(d) == [state |-> "dirty", data |-> d]

NoPlace == [grid |-> {}, words |-> {}, result |-> {}]
Idle    == [pc |-> "idle", grid |-> Stale, words |-> Stale, scalars |-> 0]

case == Head(todo)

Init ==
  /\ tool \in Tools /\ quality \in [Cases -> {"ok", "counters", "value"}]
  /\ todo \in IF tool = "batch" THEN {<<c>> : c \in Cases} ELSE {[k \in Cases |-> k]}
  /\ stage = "setup" /\ i = 1 /\ at = 1
  /\ place = NoPlace
  /\ ddr = [b \in Blocks |-> Stale] /\ line = [b \in Blocks |-> Absent]
  /\ regs = [grid_in |-> {}, words_in |-> {}, result_out |-> {}, scalars |-> 0,
             attached |-> FALSE]
  /\ frame = 0 /\ kernel = Idle /\ starts = 0
  /\ last = Stale /\ batched = Stale
  /\ failures = 0 /\ mismatches = 0

-----------------------------------------------------------------------------
(* The scripts: what a tool does in each of its stages.                    *)
Buffers ==
  <<"get_buffers", "fill_grid", "fill_words", "push_grid", "push_words", "attach_buffers">>

run_case ==
  [setup |-> Buffers \o <<"write_scalars">>,
   run   |-> <<"start", "sync", "pull", "read">>,
   end   |-> <<"free_buffers", "tally">>]

WordsNotSynced ==         \* mutant: the words' Sync(HostToDevice) is forgotten
  [setup |-> <<"get_buffers", "fill_grid", "fill_words", "push_grid",
               "attach_buffers", "attach_scalars">>,
   run   |-> <<"start", "sync", "pull", "read">>,
   end   |-> <<"drop_scalars", "free_buffers", "tally">>]

GridSyncedLate ==         \* mutant: the grid is synced after Start
  [setup |-> <<"get_buffers", "fill_grid", "fill_words", "push_words",
               "attach_buffers", "attach_scalars">>,
   run   |-> <<"start", "push_grid", "sync", "pull", "read">>,
   end   |-> <<"drop_scalars", "free_buffers", "tally">>]

RunCase ==
  [setup |-> Buffers \o <<"attach_scalars">>,
   run   |-> <<"start", "sync", "pull", "read">>,
   end   |-> <<"drop_scalars", "free_buffers", "tally">>]

LocalScalars ==           \* mutant: the pointers attached are to its own locals
  Buffers \o <<"attach_scalars", "drop_scalars">>

PrepareCase == Buffers \o <<"attach_scalars">>

PulledEarly ==            \* mutant: the result is pulled before the wait
  <<"start", "pull", "sync">>

TimedRun == <<"start", "sync", "pull">>

WaitBeforeStart ==        \* mutant: the warm-up waits for a run it has not started
  [setup  |-> PrepareCase,
   warmup |-> <<"sync", "start", "pull">>,
   timed  |-> TimedRun \o <<"read">>,
   end    |-> <<"drop_scalars", "free_buffers", "tally">>]

BenchmarkCase ==
  [setup  |-> PrepareCase,
   warmup |-> <<"start", "sync", "pull">>,
   timed  |-> TimedRun \o <<"read">>,
   end    |-> <<"drop_scalars", "free_buffers", "tally">>]

OverlappedPassB ==        \* mutant: only the last run of the batch is waited for
  IF i < Iterations THEN <<"start">> ELSE <<"start", "sync", "pull", "read_batched">>

(* Only the last result of the batch is pulled. *)
PassB ==
  <<"start", "sync">> \o IF i < Iterations THEN <<>> ELSE <<"pull", "read_batched">>

(* Its buffers and scalars live until the process ends. *)
BatchMain ==
  [setup      |-> Buffers \o <<"attach_scalars">>,
   warmup     |-> <<"start", "sync", "pull">>,
   individual |-> <<"start", "sync", "pull", "read">>,
   batched    |-> PassB,
   breakdown  |-> <<"start", "sync", "pull">>,
   end        |-> <<"tally">>]

Script ==
  CASE tool = "driver"    -> run_case[stage]
    [] tool = "validate"  -> RunCase[stage]
    [] tool = "benchmark" -> BenchmarkCase[stage]
    [] tool = "batch"     -> BatchMain[stage]

Repeats ==
  CASE stage = "warmup" -> Warmup
    [] stage \in {"timed", "individual", "batched", "breakdown"} -> Iterations
    [] OTHER -> 1

NextStage ==
  CASE stage = "setup" /\ tool \in {"driver", "validate"}    -> "run"
    [] stage = "setup" /\ tool \notin {"driver", "validate"} /\ Warmup > 0 -> "warmup"
    [] stage = "setup" /\ tool = "benchmark" /\ Warmup = 0 -> "timed"
    [] stage = "setup" /\ tool = "batch" /\ Warmup = 0     -> "individual"
    [] stage = "warmup" -> IF tool = "benchmark" THEN "timed" ELSE "individual"
    [] stage = "individual" -> "batched"
    [] stage = "batched"    -> "breakdown"
    [] stage \in {"run", "timed", "breakdown"} -> "end"

Doing(op) == todo # <<>> /\ Script[at] = op

(* On to the operation after this one. *)
Advance ==
  /\ UNCHANGED <<tool, quality, todo>>
  /\ IF at < Len(Script) THEN at' = at + 1 /\ UNCHANGED <<stage, i>>
     ELSE /\ at' = 1
          /\ IF i < Repeats THEN i' = i + 1 /\ stage' = stage
                            ELSE i' = 1 /\ stage' = NextStage

-----------------------------------------------------------------------------
(* The host's operations.                                                  *)
get_buffers ==
  /\ Doing("get_buffers") /\ Advance
  /\ \E g, w, r \in Blocks :
       /\ g # w /\ g # r /\ w # r
       /\ place' = [grid |-> {g}, words |-> {w}, result |-> {r}]
  /\ UNCHANGED <<ddr, line, regs, frame, kernel, starts, last, batched, tally>>

(* The CPU's stores leave the line dirty. *)
Fill(role, content) ==
  /\ line' = [b \in Blocks |-> IF b \in place[role] THEN Dirty(content) ELSE line[b]]
  /\ UNCHANGED <<place, ddr, regs, frame, kernel, starts, last, batched, tally>>

fill_grid  == Doing("fill_grid")  /\ Advance /\ Fill("grid", Grid(case))
fill_words == Doing("fill_words") /\ Advance /\ Fill("words", Words(case))

WrittenBack(b) == IF line[b].state = "dirty" THEN line[b].data ELSE ddr[b]

(* Sync(HostToDevice), flush(). *)
Push(role) ==
  /\ ddr' = [b \in Blocks |-> IF b \in place[role] THEN WrittenBack(b) ELSE ddr[b]]
  /\ line' = [b \in Blocks |->
                IF b \in place[role] /\ line[b].state = "dirty" THEN Clean(line[b].data)
                                                                ELSE line[b]]
  /\ UNCHANGED <<place, regs, frame, kernel, starts, last, batched, tally>>

push_grid  == Doing("push_grid")  /\ Advance /\ Push("grid")
push_words == Doing("push_words") /\ Advance /\ Push("words")

attach_buffers ==
  /\ Doing("attach_buffers") /\ Advance
  /\ regs' = [regs EXCEPT !.grid_in = place["grid"], !.words_in = place["words"],
                          !.result_out = place["result"]]
  /\ UNCHANGED <<memory, frame, kernel, starts, last, batched, tally>>

(* driver.py writes the values, the C++ tools attach pointers to them.     *)
write_scalars ==
  /\ Doing("write_scalars") /\ Advance
  /\ regs' = [regs EXCEPT !.scalars = case]
  /\ UNCHANGED <<memory, frame, kernel, starts, last, batched, tally>>

attach_scalars ==
  /\ Doing("attach_scalars") /\ Advance
  /\ frame' = case /\ regs' = [regs EXCEPT !.attached = TRUE]
  /\ UNCHANGED <<memory, kernel, starts, last, batched, tally>>

(* The variables the pointers are to go out of scope. *)
drop_scalars ==
  /\ Doing("drop_scalars") /\ Advance
  /\ frame' = 0
  /\ UNCHANGED <<memory, regs, kernel, starts, last, batched, tally>>

(* Start reads the attached pointers anew: 0 is what a dead one gives.     *)
start ==
  /\ Doing("start") /\ Advance
  /\ starts' = starts + 1
  /\ regs' = [regs EXCEPT !.scalars = IF regs.attached THEN frame ELSE @]
  /\ kernel' = [Idle EXCEPT !.pc = "started"]
  /\ UNCHANGED <<memory, frame, last, batched, tally>>

(* Sync(), or the loop that polls AP_DONE, which reading clears.           *)
sync ==
  /\ Doing("sync") /\ kernel.pc = "done" /\ Advance
  /\ kernel' = Idle
  /\ UNCHANGED <<memory, regs, frame, starts, last, batched, tally>>

(* Sync(DeviceToHost), invalidate(). *)
pull ==
  /\ Doing("pull") /\ Advance
  /\ line' = [b \in Blocks |-> IF b \in place["result"] THEN Absent ELSE line[b]]
  /\ UNCHANGED <<place, ddr, regs, frame, kernel, starts, last, batched, tally>>

(* What the CPU sees in the result buffer, which is then in the cache.     *)
Seen(b) == IF line[b].state = "absent" THEN ddr[b] ELSE line[b].data

Load(b) ==
  line' = [line EXCEPT ![b] = IF @.state = "absent" THEN Clean(ddr[b]) ELSE @]

read ==
  /\ Doing("read") /\ Advance
  /\ \E b \in place["result"] : last' = Seen(b) /\ Load(b)
  /\ UNCHANGED <<place, ddr, regs, frame, kernel, starts, batched, tally>>

read_batched ==
  /\ Doing("read_batched") /\ Advance
  /\ \E b \in place["result"] : batched' = Seen(b) /\ Load(b)
  /\ UNCHANGED <<place, ddr, regs, frame, kernel, starts, last, tally>>

free_buffers ==
  /\ Doing("free_buffers") /\ Advance
  /\ place' = NoPlace
  /\ UNCHANGED <<ddr, line, regs, frame, kernel, starts, last, batched, tally>>

(* Whether a result read has the expected value, and all four numbers.     *)
value_ok(r)    == r.case = case /\ quality[case] # "value"
counters_ok(r) == r.case = case /\ quality[case] = "ok"

(* The batch tool also compares its two results with each other. *)
passed ==
  IF tool = "batch" THEN value_ok(last) /\ batched.case = last.case ELSE value_ok(last)

NextCase ==
  /\ Doing("tally")
  /\ failures' = failures + IF passed THEN 0 ELSE 1
  /\ mismatches' = mismatches + IF tool \in {"driver", "validate"} /\ passed /\ ~counters_ok(last)
                                THEN 1 ELSE 0
  /\ todo' = Tail(todo) /\ stage' = "setup" /\ i' = 1 /\ at' = 1
  /\ UNCHANGED <<tool, quality, memory, regs, frame, kernel, starts, last, batched>>

Host ==
  \/ get_buffers \/ fill_grid \/ fill_words \/ push_grid \/ push_words
  \/ attach_buffers \/ write_scalars \/ attach_scalars \/ drop_scalars
  \/ start \/ sync \/ pull \/ read \/ read_batched \/ free_buffers \/ NextCase

-----------------------------------------------------------------------------
(* The kernel reads its input over its ports, past the cache. *)
KernelFetch ==
  /\ kernel.pc = "started"
  /\ \E g \in regs.grid_in, w \in regs.words_in :
       kernel' = [pc |-> "fetched", grid |-> ddr[g], words |-> ddr[w], scalars |-> regs.scalars]
  /\ UNCHANGED <<control, memory, regs, frame, starts, last, batched, tally>>

(* The case whose grid, words and scalars the kernel has, or 0. *)
Fetched ==
  LET c == kernel.scalars
  IN  IF c # 0 /\ kernel.grid = Grid(c) /\ kernel.words = Words(c) THEN c ELSE 0

KernelReturn ==
  /\ kernel.pc = "fetched"
  /\ kernel' = [kernel EXCEPT !.pc = "done"]
  /\ ddr' = [b \in Blocks |-> IF b \in regs.result_out THEN Result(Fetched) ELSE ddr[b]]
  /\ UNCHANGED <<control, place, line, regs, frame, starts, last, batched, tally>>

Kernel == KernelFetch \/ KernelReturn

(* The cache may write a line back, drop it, or load one, at any time.     *)
Evict(b) ==
  /\ line[b].state # "absent"
  /\ ddr' = [ddr EXCEPT ![b] = WrittenBack(b)]
  /\ line' = [line EXCEPT ![b] = Absent]
  /\ UNCHANGED <<control, place, regs, frame, kernel, starts, last, batched, tally>>

Prefetch(b) ==
  /\ line[b].state = "absent"
  /\ line' = [line EXCEPT ![b] = Clean(ddr[b])]
  /\ UNCHANGED <<control, place, ddr, regs, frame, kernel, starts, last, batched, tally>>

Next == Host \/ Kernel \/ \E b \in Blocks : Evict(b) \/ Prefetch(b)

Spec == Init /\ [][Next]_vars

(* The host runs and the kernel, once started, ends; the cache need never  *)
(* do anything.                                                            *)
FairSpec == Spec /\ WF_vars(Host) /\ WF_vars(Kernel)

-----------------------------------------------------------------------------
(* What the kernel has fetched is the grid, the words and the scalars of   *)
(* the case under test: never the last case's, still in memory or in a     *)
(* register, nor what a dead pointer leads to.                             *)
KernelReadsItsCase == kernel.pc \in {"fetched", "done"} => Fetched = case

(* While the kernel may read or write a buffer no line of it is dirty: one *)
(* that is evicted late would put old data over the result.                *)
CleanWhileRunning ==
  kernel.pc # "idle" =>
    \A b \in place["grid"] \cup place["words"] \cup place["result"] : line[b].state # "dirty"

(* A result the host reads is the one of the run it started last, on this  *)
(* case: not one of an earlier run that the cache or the buffer still has. *)
ReadsOwnRun ==
  [][/\ read => last' = Result(case)
     /\ read_batched => batched' = Result(case)]_vars

(* No Start before the last run's AP_DONE has been seen: the kernel is not *)
(* pipelined (benchmark_batch_cynq.cpp's header).                          *)
NoStartBeforeDone == [][start => kernel.pc = "idle"]_vars

(* Every tool judges every case by that case's own result, once.           *)
JudgedCases == INSTANCE JudgedCases WITH counted <- tool \in {"driver", "validate"}
JudgesEachCase == JudgedCases!Spec

(* Every tool gets through its cases: it never waits for a run that has    *)
(* not been started.                                                       *)
ToolFinishes == <>(todo = <<>>)
=============================================================================

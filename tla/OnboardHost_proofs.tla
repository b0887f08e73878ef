------------------------- MODULE OnboardHost_proofs --------------------------
(***************************************************************************)
(* Proofs about the on-board hosts, for any number of cases, iterations    *)
(* and warm-up runs, and any set of memory blocks: what the kernel reads   *)
(* and what the host reads back is the current case's.                     *)
(***************************************************************************)
EXTENDS OnboardHost, SequenceTheorems, TLAPS

USE SizesAssumption

StagesOf ==
  [driver    |-> {"setup", "run", "end"},
   validate  |-> {"setup", "run", "end"},
   benchmark |-> {"setup", "warmup", "timed", "end"},
   batch     |-> {"setup", "warmup", "individual", "batched", "breakdown", "end"}]

(* Where a tool is: in one of its stages, at an operation of its script.   *)
AtStage == tool \in Tools /\ stage \in StagesOf[tool]

Position ==
  /\ AtStage
  /\ quality \in [Cases -> {"ok", "counters", "value"}]
  /\ todo \in Seq(Cases)
  /\ i \in 1 .. Repeats
  /\ at \in 1 .. Len(Script)
  /\ todo = <<>> => stage = "setup" /\ at = 1

(* Every stage but the first and the last runs the kernel.                 *)
Running == stage \notin {"setup", "end"}

-----------------------------------------------------------------------------
(* The scripts, read by position.                                          *)
SetupOps ==
  /\ Len(Script) = 7
  /\ Script[1] = "get_buffers" /\ Script[2] = "fill_grid" /\ Script[3] = "fill_words"
  /\ Script[4] = "push_grid" /\ Script[5] = "push_words" /\ Script[6] = "attach_buffers"
  /\ Script[7] = IF tool = "driver" THEN "write_scalars" ELSE "attach_scalars"

RunOps ==
  /\ Len(Script) \in 2 .. 4
  /\ Script[1] = "start" /\ Script[2] = "sync"
  /\ Len(Script) > 2 => Script[3] = "pull"
  /\ Len(Script) > 3 => Script[4] = IF stage = "batched" THEN "read_batched" ELSE "read"
  /\ \/ stage \in {"run", "timed", "individual"}
     \/ stage = "batched" /\ ~(i < Iterations)
     => Len(Script) = 4

EndOps ==
  /\ Len(Script) \in 1 .. 3
  /\ \A k \in 1 .. Len(Script) :
       /\ Script[k] \in {"drop_scalars", "free_buffers", "tally"}
       /\ Script[k] = "tally" <=> k = Len(Script)

(* A setup is the six operations on the buffers and one on the scalars. *)
LEMMA BuffersThen ==
  \A op : LET s == Buffers \o <<op>>
          IN  /\ Len(s) = 7
              /\ s[1] = "get_buffers" /\ s[2] = "fill_grid" /\ s[3] = "fill_words"
              /\ s[4] = "push_grid" /\ s[5] = "push_words" /\ s[6] = "attach_buffers"
              /\ s[7] = op
BY DEF Buffers

(* The other scripts that are put together. *)
LEMMA Joined ==
  /\ \A a, b, c, d : LET s == <<a, b, c>> \o <<d>>
                    IN  Len(s) = 4 /\ s[1] = a /\ s[2] = b /\ s[3] = c /\ s[4] = d
  /\ \A a, b, c, d : LET s == <<a, b>> \o <<c, d>>
                    IN  Len(s) = 4 /\ s[1] = a /\ s[2] = b /\ s[3] = c /\ s[4] = d
  /\ \A a, b : LET s == <<a, b>> \o <<>>
              IN  Len(s) = 2 /\ s[1] = a /\ s[2] = b
OBVIOUS

(* The operations of a set-up, by position. *)
LEMMA SetupScript == AtStage /\ stage = "setup" => SetupOps
<1> SUFFICES ASSUME AtStage, stage = "setup" PROVE SetupOps
  OBVIOUS
<1>1. Script = Buffers \o <<IF tool = "driver" THEN "write_scalars" ELSE "attach_scalars">>
  BY DEF AtStage, Tools, Script, run_case, RunCase, BenchmarkCase, PrepareCase, BatchMain
<1>2. QED BY <1>1, BuffersThen DEF SetupOps

(* Those of a run. *)
LEMMA RunScript == AtStage /\ Running => RunOps
<1> SUFFICES ASSUME AtStage, Running PROVE RunOps
  OBVIOUS
<1>1. CASE stage \in {"run", "individual"}
  <2>1. Script = <<"start", "sync", "pull", "read">>
    <3>1. CASE tool = "driver" BY <1>1, <3>1 DEF AtStage, StagesOf, Script, run_case
    <3>2. CASE tool = "validate" BY <1>1, <3>2 DEF AtStage, StagesOf, Script, RunCase
    <3>3. CASE tool = "batch" BY <1>1, <3>3 DEF AtStage, StagesOf, Script, BatchMain
    <3>4. QED BY <1>1, <3>1, <3>2, <3>3 DEF AtStage, Tools, StagesOf
  <2>2. QED BY <1>1, <2>1 DEF RunOps
<1>2. CASE stage = "timed"
  <2>1. Script = <<"start", "sync", "pull">> \o <<"read">>
    BY <1>2 DEF AtStage, Tools, StagesOf, Script, BenchmarkCase, TimedRun
  <2>2. QED BY <1>2, <2>1, Joined DEF RunOps
<1>3. CASE stage \in {"warmup", "breakdown"}
  <2>1. Script = <<"start", "sync", "pull">>
    <3>1. CASE tool = "benchmark" BY <1>3, <3>1 DEF AtStage, StagesOf, Script, BenchmarkCase
    <3>2. CASE tool = "batch" BY <1>3, <3>2 DEF AtStage, StagesOf, Script, BatchMain
    <3>3. QED BY <1>3, <3>1, <3>2 DEF AtStage, Tools, StagesOf
  <2>2. QED BY <1>3, <2>1 DEF RunOps
<1>4. CASE stage = "batched" /\ i < Iterations
  <2>1. Script = <<"start", "sync">> \o <<>>
    BY <1>4 DEF AtStage, Tools, StagesOf, Script, BatchMain, PassB
  <2>2. QED BY <1>4, <2>1, Joined DEF RunOps
<1>5. CASE stage = "batched" /\ ~(i < Iterations)
  <2>1. Script = <<"start", "sync">> \o <<"pull", "read_batched">>
    BY <1>5 DEF AtStage, Tools, StagesOf, Script, BatchMain, PassB
  <2>2. QED BY <1>5, <2>1, Joined DEF RunOps
<1>6. QED BY <1>1, <1>2, <1>3, <1>4, <1>5 DEF AtStage, Tools, StagesOf, Running

(* Those of an end. *)
LEMMA EndScript == AtStage /\ stage = "end" => EndOps
<1> SUFFICES ASSUME AtStage, stage = "end" PROVE EndOps
  OBVIOUS
<1>1. CASE tool = "batch"
  <2>1. Script = <<"tally">> BY <1>1 DEF Script, BatchMain
  <2>2. QED BY <2>1 DEF EndOps
<1>2. CASE tool = "driver"
  <2>1. Script = <<"free_buffers", "tally">> BY <1>2 DEF Script, run_case
  <2>2. QED BY <2>1 DEF EndOps
<1>3. CASE tool \in {"validate", "benchmark"}
  <2>1. Script = <<"drop_scalars", "free_buffers", "tally">>
    BY <1>3 DEF Script, RunCase, BenchmarkCase
  <2>2. QED BY <2>1 DEF EndOps
<1>4. QED BY <1>1, <1>2, <1>3 DEF AtStage, Tools

(* Where an operation stands tells how far the case has come. *)
LEMMA Where ==
  ASSUME Position
  PROVE  LET op == Script[at]
         IN  /\ op = "get_buffers" => stage = "setup" /\ at = 1
             /\ op = "fill_grid" => stage = "setup" /\ at = 2
             /\ op = "fill_words" => stage = "setup" /\ at = 3
             /\ op = "push_grid" => stage = "setup" /\ at = 4
             /\ op = "push_words" => stage = "setup" /\ at = 5
             /\ op = "attach_buffers" => stage = "setup" /\ at = 6
             /\ op = "write_scalars" => stage = "setup" /\ at = 7 /\ tool = "driver"
             /\ op = "attach_scalars" => stage = "setup" /\ at = 7 /\ tool # "driver"
             /\ op = "start" => Running /\ at = 1
             /\ op = "sync" => Running /\ at = 2
             /\ op = "pull" => Running /\ at = 3
             /\ op = "read" => Running /\ at = 4 /\ stage # "batched"
             /\ op = "read_batched" => Running /\ at = 4 /\ stage = "batched"
             /\ op \in {"drop_scalars", "free_buffers", "tally"} => stage = "end"
<1>1. at \in 1 .. Len(Script)
  BY DEF Position
<1>2. CASE stage = "setup"
  <2>1. SetupOps BY <1>2, SetupScript DEF Position
  <2>2. at \in {1, 2, 3, 4, 5, 6, 7} BY <1>1, <2>1 DEF SetupOps
  <2>3. QED BY <1>2, <2>1, <2>2 DEF SetupOps
<1>3. CASE Running
  <2>1. RunOps BY <1>3, RunScript DEF Position
  <2>2. Len(Script) \in 2 .. 4
    BY <2>1 DEF RunOps
  <2>3. at \in Nat /\ 1 <= at /\ at <= Len(Script)
    BY <1>1, <2>2
  <2>4. at \in {1, 2, 3, 4}
    <3> DEFINE n == Len(Script)
    <3>1. n \in 2 .. 4 /\ at <= n /\ at \in Nat /\ 1 <= at BY <2>2, <2>3
    <3> HIDE DEF n
    <3>2. n \in {2, 3, 4} BY <3>1
    <3>3. QED BY <3>1, <3>2
  <2>5. QED BY <1>3, <2>1, <2>2, <2>3, <2>4 DEF RunOps, Running
<1>4. CASE stage = "end"
  <2>1. EndOps BY <1>4, EndScript DEF Position
  <2>2. QED BY <1>1, <1>4, <2>1 DEF EndOps
<1>5. QED BY <1>2, <1>3, <1>4 DEF Running

-----------------------------------------------------------------------------
(* The next operation and the next stage.                                  *)
LEMMA NextStages ==
  ASSUME AtStage, stage # "end"
  PROVE  /\ stage = "setup" => NextStage \in {"run", "warmup", "timed", "individual"}
         /\ stage = "warmup" => NextStage \in {"timed", "individual"}
         /\ stage = "individual" => NextStage = "batched"
         /\ stage = "batched" => NextStage = "breakdown"
         /\ stage \in {"run", "timed", "breakdown"} => NextStage = "end"
         /\ NextStage \in StagesOf[tool]
         /\ NextStage = "warmup" => Warmup > 0
<1> USE DEF StagesOf
<1>1. CASE stage = "setup"
  <2>1. CASE tool \in {"driver", "validate"} BY <1>1, <2>1 DEF NextStage
  <2>2. CASE tool = "benchmark"
    <3>1. CASE Warmup > 0 BY <1>1, <2>2, <3>1 DEF NextStage
    <3>2. CASE Warmup = 0 BY <1>1, <2>2, <3>2 DEF NextStage
    <3>3. QED BY <3>1, <3>2
  <2>3. CASE tool = "batch"
    <3>1. CASE Warmup > 0 BY <1>1, <2>3, <3>1 DEF NextStage
    <3>2. CASE Warmup = 0 BY <1>1, <2>3, <3>2 DEF NextStage
    <3>3. QED BY <3>1, <3>2
  <2>4. QED BY <2>1, <2>2, <2>3 DEF AtStage, Tools
<1>2. CASE tool = "driver" /\ stage # "setup"   BY <1>2 DEF AtStage, NextStage
<1>3. CASE tool = "validate" /\ stage # "setup" BY <1>3 DEF AtStage, NextStage
<1>4. CASE tool = "benchmark" /\ stage # "setup" BY <1>4 DEF AtStage, NextStage
<1>5. CASE tool = "batch" /\ stage # "setup"    BY <1>5 DEF AtStage, NextStage
<1>6. QED BY <1>1, <1>2, <1>3, <1>4, <1>5 DEF AtStage, Tools

(* A script has an operation, and it depends on where the tool is only. *)
LEMMA NextScript == (AtStage => Len(Script) \in Nat /\ Len(Script) >= 1)'
<1>1. AtStage => Len(Script) \in Nat /\ Len(Script) >= 1
  <2> SUFFICES ASSUME AtStage PROVE Len(Script) \in Nat /\ Len(Script) >= 1
    OBVIOUS
  <2>1. CASE stage = "setup"
    <3>1. Len(Script) = 7 BY <2>1, SetupScript DEF SetupOps
    <3>2. QED BY <3>1
  <2>2. CASE stage = "end" BY <2>2, EndScript DEF EndOps
  <2>3. CASE Running BY <2>3, RunScript DEF RunOps
  <2>4. QED BY <2>1, <2>2, <2>3 DEF Running
<1>2. QED BY <1>1, PTL

(* No set-up has more than seven. *)
LEMMA SetupLength == ASSUME Position, stage = "setup" PROVE at \in 1 .. 7
BY SetupScript DEF Position, SetupOps

(* No run has more than four. *)
LEMMA NextLength == ASSUME Position', Running' PROVE at' <= 4
<1>1. (AtStage /\ Running => RunOps)'
  BY RunScript, PTL
<1>2. at' \in 1 .. Len(Script)' /\ Len(Script)' \in 2 .. 4
  BY <1>1 DEF Position, RunOps
<1> DEFINE n == Len(Script)'
<1>3. at' \in 1 .. n /\ n \in 2 .. 4 BY <1>2
<1> HIDE DEF n
<1>4. QED BY <1>3

(* The script changes only with tool, stage and round. *)
LEMMA SameScript == ASSUME UNCHANGED <<tool, stage, i>> PROVE Script' = Script /\ Repeats' = Repeats
BY DEF Script, Repeats, BatchMain, PassB

(* The position only with the script. *)
LEMMA SamePosition == ASSUME Position, UNCHANGED control PROVE Position'
BY SameScript DEF Position, AtStage, control

(* One operation on: in the same script, again from its start, or in the   *)
(* next stage.                                                             *)
LEMMA Moved ==
  ASSUME Position, todo # <<>>, Script[at] # "tally", Advance
  PROVE  /\ Position' /\ todo' = todo /\ tool' = tool /\ case' = case
         /\ stage = "setup" /\ at < 7 => stage' = "setup" /\ at' = at + 1
         /\ stage = "setup" /\ at = 7 =>
              at' = 1 /\ stage' \in {"run", "warmup", "timed", "individual"}
         /\ stage = "end" => stage' = "end"
         /\ Running =>
              \/ stage' = stage /\ at' = at + 1
              \/ /\ at' = 1 /\ at > 1
                 /\ \/ stage' = stage
                    \/ stage = "warmup" /\ stage' \in {"timed", "individual"}
                    \/ stage \in {"run", "timed"} /\ at = 4 /\ stage' = "end"
                    \/ stage = "individual" /\ at = 4 /\ stage' = "batched"
                    \/ stage = "batched" /\ at = 4 /\ stage' = "breakdown"
                    \/ stage = "breakdown" /\ stage' = "end"
<1>1. todo' = todo /\ tool' = tool /\ quality' = quality /\ case' = case
  BY DEF Advance, case
<1>2. at \in Nat /\ Len(Script) \in Nat /\ 1 <= at /\ at <= Len(Script) /\ AtStage
  <2>1. AtStage /\ at \in 1 .. Len(Script) BY DEF Position
  <2>2. CASE stage = "setup" BY <2>1, <2>2, SetupScript DEF SetupOps
  <2>3. CASE stage = "end" BY <2>1, <2>3, EndScript DEF EndOps
  <2>4. CASE Running BY <2>1, <2>4, RunScript DEF RunOps
  <2>5. QED BY <2>2, <2>3, <2>4 DEF Running
<1>3. CASE at < Len(Script)
  <2>1. at' = at + 1 /\ UNCHANGED <<tool, stage, i>>
    BY <1>1, <1>3 DEF Advance
  <2>2. Position'
    BY <1>1, <1>2, <1>3, <2>1, SameScript DEF Position, AtStage
  <2>3. stage = "setup" => Len(Script) = 7
    BY <1>2, SetupScript DEF SetupOps
  <2>4. ~(stage = "setup" /\ at = 7)
    <3> SUFFICES ASSUME stage = "setup", at = 7 PROVE FALSE OBVIOUS
    <3>1. 7 < Len(Script) BY <1>3
    <3>2. Len(Script) = 7 BY <2>3
    <3>3. QED BY <3>1, <3>2
  <2>5. QED BY <1>1, <2>1, <2>2, <2>4
<1>4. CASE ~(at < Len(Script))
  <2>1. at = Len(Script) /\ at' = 1
    BY <1>2, <1>4 DEF Advance
  <2>2. stage # "end"
    BY <1>2, <2>1, EndScript DEF EndOps
  <2>3. stage = "setup" => at = 7
    BY <1>2, <2>1, SetupScript DEF SetupOps
  <2>4. Running => at > 1
    <3>1. SUFFICES ASSUME Running PROVE at > 1 OBVIOUS
    <3>2. Len(Script) \in 2 .. 4 BY <1>2, <3>1, RunScript DEF RunOps
    <3>3. QED BY <2>1, <3>2
  <2>5. CASE i < Repeats
    <3>1. i' = i + 1 /\ stage' = stage
      BY <1>4, <2>5 DEF Advance
    <3>2. Repeats' = Repeats /\ AtStage'
      BY <1>1, <1>2, <3>1 DEF Repeats, AtStage
    <3>3. i \in Nat /\ Repeats \in Nat
      BY DEF Position, Repeats
    <3>4. Position'
      BY <1>1, <2>1, <2>5, <3>1, <3>2, <3>3, NextScript DEF Position
    <3>5. stage # "setup"
      BY <2>5, <3>3 DEF Repeats, Position
    <3>6. QED BY <1>1, <2>1, <2>2, <2>4, <3>1, <3>4, <3>5 DEF Running
  <2>6. CASE ~(i < Repeats)
    <3>1. i' = 1 /\ stage' = NextStage
      BY <1>4, <2>6 DEF Advance
    <3>2. AtStage'
      BY <1>1, <1>2, <2>2, <3>1, NextStages DEF AtStage
    <3>3. 1 \in 1 .. Repeats'
      BY <1>2, <2>2, <3>1, NextStages DEF Repeats
    <3>4. Position'
      BY <1>1, <2>1, <3>1, <3>2, <3>3, NextScript DEF Position
    <3>5. stage \in {"run", "timed", "individual"} => at = 4
      BY <1>2, <2>1, RunScript DEF RunOps, Running
    <3>6. stage = "batched" => at = 4
      <4>1. SUFFICES ASSUME stage = "batched" PROVE at = 4 OBVIOUS
      <4>2. ~(i < Iterations) BY <2>6, <4>1 DEF Repeats
      <4>3. QED BY <1>2, <2>1, <4>1, <4>2, RunScript DEF RunOps, Running
    <3>7. Running =>
            \/ stage = "warmup" /\ stage' \in {"timed", "individual"}
            \/ stage \in {"run", "timed"} /\ at = 4 /\ stage' = "end"
            \/ stage = "individual" /\ at = 4 /\ stage' = "batched"
            \/ stage = "batched" /\ at = 4 /\ stage' = "breakdown"
            \/ stage = "breakdown" /\ stage' = "end"
      <4>1. stage \in {"setup", "run", "warmup", "timed", "individual", "batched", "breakdown", "end"}
        BY <1>2 DEF AtStage, StagesOf, Tools
      <4>2. QED BY <1>2, <2>2, <3>1, <3>5, <3>6, <4>1, NextStages DEF Running
    <3>8. stage = "setup" => ~(at < 7)
      BY <2>3
    <3>9. QED BY <1>1, <1>2, <2>1, <2>2, <2>4, <3>1, <3>4, <3>7, <3>8, NextStages
  <2>7. QED BY <2>5, <2>6
<1>5. QED BY <1>3, <1>4

-----------------------------------------------------------------------------
(* The inductive invariant: what each variable holds once the operations   *)
(* of the current case so far have run.                                    *)
Contents == [what : {"stale", "grid", "words", "result"}, case : 0 .. NumCases, run : Nat]

Types ==
  /\ place \in [grid : SUBSET Blocks, words : SUBSET Blocks, result : SUBSET Blocks]
  /\ ddr \in [Blocks -> Contents]
  /\ line \in [Blocks -> [state : {"absent", "clean", "dirty"}, data : Contents]]
  /\ regs \in [grid_in : SUBSET Blocks, words_in : SUBSET Blocks, result_out : SUBSET Blocks,
               scalars : 0 .. NumCases, attached : BOOLEAN]
  /\ kernel \in [pc : {"idle", "started", "fetched", "done"}, grid : Contents,
                 words : Contents, scalars : 0 .. NumCases]
  /\ frame \in 0 .. NumCases /\ starts \in Nat
  /\ last \in Contents /\ batched \in Contents

Disjoint ==
  /\ place.grid \cap place.words = {} /\ place.grid \cap place.result = {}
  /\ place.words \cap place.result = {}

(* The first k operations of the setup are done and no buffer is free yet. *)
Past(k) == stage # "end" /\ (stage = "setup" => at > k)

(* d is in memory, and the cache has nothing else of b. *)
Settled(b, d) == ddr[b] = d /\ line[b] \in {Absent, Clean(d)}

Inputs ==
  /\ Past(2) => \A b \in place.grid : line[b] = Dirty(Grid(case)) \/ Settled(b, Grid(case))
  /\ Past(3) => \A b \in place.words : line[b] = Dirty(Words(case)) \/ Settled(b, Words(case))
  /\ Past(4) => \A b \in place.grid : Settled(b, Grid(case))
  /\ Past(5) => \A b \in place.words : Settled(b, Words(case))

(* A line is dirty only from its fill to its push. *)
DirtyBetween ==
  \A b \in Blocks : line[b].state = "dirty" =>
    /\ stage = "setup"
    /\ \/ at \in {3, 4} /\ b \in place.grid
       \/ at \in {4, 5} /\ b \in place.words

Registers ==
  /\ Past(6) => /\ regs.grid_in = place.grid /\ regs.words_in = place.words
                /\ regs.result_out = place.result
  /\ Past(7) => IF tool = "driver" THEN regs.scalars = case
                                   ELSE regs.attached /\ frame = case
  /\ regs.attached => tool # "driver"

KernelKept ==
  /\ kernel.pc # "idle" <=> Running /\ at = 2
  /\ kernel.pc = "started" => regs.scalars = case
  /\ kernel.pc \in {"fetched", "done"} => Fetched = case

(* The result is in memory once the run is done, and pulled not hidden.    *)
ResultKept ==
  /\ kernel.pc = "done" \/ (Running /\ at > 2) => \A b \in place.result : ddr[b] = Result(case)
  /\ Running /\ at > 3 => \A b \in place.result : Settled(b, Result(case))

ResultsRead ==
  /\ stage \in {"batched", "breakdown", "end"} => last.case = case
  /\ stage = "breakdown" \/ (stage = "end" /\ tool = "batch") => batched.case = case

IInv ==
  /\ Position /\ Types /\ Disjoint /\ Inputs /\ DirtyBetween
  /\ Registers /\ KernelKept /\ ResultKept /\ ResultsRead

(* While any are left the case is one of the cases. *)
LEMMA CaseInCases == ASSUME Position, todo # <<>> PROVE case \in Cases /\ case \in 0 .. NumCases /\ case # 0
<1>1. case \in Cases BY DEF Position, case
<1>2. QED BY <1>1 DEF Cases

(* It stays while the position does. *)
LEMMA SameCase == ASSUME UNCHANGED control PROVE UNCHANGED <<tool, todo, stage, at, case>>
BY DEF control, case

(* The cache never holds anything but a content. *)
LEMMA ContentTypes ==
  ASSUME Types, NEW c \in 0 .. NumCases
  PROVE  /\ Grid(c) \in Contents /\ Words(c) \in Contents /\ Result(c) \in Contents
         /\ Stale \in Contents
BY DEF Types, Grid, Words, Result, Stale, Content, Contents

(* Every operation of the tool keeps the types. *)
LEMMA TypesHost == ASSUME Position, Types, Host PROVE Types'
<1>1. CASE get_buffers
  BY <1>1 DEF get_buffers, Types, tally
<1>2. CASE fill_grid
  <2>1. Grid(case) \in Contents
    BY <1>2, CaseInCases, ContentTypes DEF fill_grid, Doing
  <2>2. QED BY <1>2, <2>1 DEF fill_grid, Fill, Types, tally, Dirty
<1>3. CASE fill_words
  <2>1. Words(case) \in Contents
    BY <1>3, CaseInCases, ContentTypes DEF fill_words, Doing
  <2>2. QED BY <1>3, <2>1 DEF fill_words, Fill, Types, tally, Dirty
<1>4. CASE push_grid
  BY <1>4 DEF push_grid, Push, WrittenBack, Types, tally, Clean
<1>5. CASE push_words
  BY <1>5 DEF push_words, Push, WrittenBack, Types, tally, Clean
<1>6. CASE attach_buffers
  BY <1>6 DEF attach_buffers, Types, memory, tally
<1>7. CASE write_scalars
  <2>1. case \in 0 .. NumCases BY <1>7, CaseInCases DEF write_scalars, Doing
  <2>2. QED BY <1>7, <2>1 DEF write_scalars, Types, memory, tally
<1>8. CASE attach_scalars
  <2>1. case \in 0 .. NumCases BY <1>8, CaseInCases DEF attach_scalars, Doing
  <2>2. QED BY <1>8, <2>1 DEF attach_scalars, Types, memory, tally
<1>9. CASE drop_scalars
  BY <1>9 DEF drop_scalars, Types, memory, tally
<1>10. CASE start
  <2>1. regs' \in [grid_in : SUBSET Blocks, words_in : SUBSET Blocks,
                   result_out : SUBSET Blocks, scalars : 0 .. NumCases, attached : BOOLEAN]
    <3>1. (IF regs.attached THEN frame ELSE regs.scalars) \in 0 .. NumCases
      BY DEF Types
    <3>2. QED BY <1>10, <3>1 DEF start, Types
  <2>2. Idle \in [pc : {"idle"}, grid : Contents, words : Contents, scalars : 0 .. NumCases]
    BY DEF Idle, Stale, Content, Contents
  <2>3. kernel' \in [pc : {"idle", "started", "fetched", "done"}, grid : Contents,
                      words : Contents, scalars : 0 .. NumCases]
    BY <1>10, <2>2 DEF start
  <2>4. starts' \in Nat
    BY <1>10 DEF start, Types
  <2>5. UNCHANGED <<memory, frame, last, batched>>
    BY <1>10 DEF start
  <2>6. QED BY <2>1, <2>3, <2>4, <2>5 DEF Types, memory
<1>11. CASE sync
  BY <1>11 DEF sync, Types, memory, tally, Idle, Stale, Content, Contents
<1>12. CASE pull
  BY <1>12 DEF pull, Types, tally, Absent, Stale, Content, Contents
<1>13. CASE read
  BY <1>13 DEF read, Seen, Load, Types, tally, Clean
<1>14. CASE read_batched
  BY <1>14 DEF read_batched, Seen, Load, Types, tally, Clean
<1>15. CASE free_buffers
  BY <1>15 DEF free_buffers, NoPlace, Types, tally
<1>16. CASE NextCase
  BY <1>16 DEF NextCase, Types, memory
<1>17. QED BY <1>1, <1>2, <1>3, <1>4, <1>5, <1>6, <1>7, <1>8, <1>9, <1>10, <1>11, <1>12,
              <1>13, <1>14, <1>15, <1>16 DEF Host

(* So does everything else. *)
LEMMA TypesOther ==
  ASSUME Types, Kernel \/ \E b \in Blocks : Evict(b) \/ Prefetch(b)
  PROVE  Types'
<1>1. CASE KernelFetch
  BY <1>1 DEF KernelFetch, Types, memory, tally
<1>2. CASE KernelReturn
  <2>1. Result(Fetched) \in Contents
    BY ContentTypes DEF Fetched, Types
  <2>2. QED BY <1>2, <2>1 DEF KernelReturn, Types, tally
<1>3. CASE \E b \in Blocks : Evict(b)
  BY <1>3 DEF Evict, WrittenBack, Absent, Stale, Content, Contents, Types, tally
<1>4. CASE \E b \in Blocks : Prefetch(b)
  BY <1>4 DEF Prefetch, Clean, Types, tally
<1>5. QED BY <1>1, <1>2, <1>3, <1>4 DEF Kernel

-----------------------------------------------------------------------------
(* What an operation keeps because it touches nothing the fact is about.   *)
LEMMA InputsStay ==
  ASSUME IInv, todo # <<>>, Script[at] # "tally", Advance, stage = "setup" => at > 5,
         \A b \in place.grid \cup place.words : ddr'[b] = ddr[b] /\ line'[b] = line[b],
         place' = place
  PROVE  Inputs'
<1>1. Past(2)' => Past(5) /\ Past(4) /\ Past(3) /\ Past(2)
  <2>1. at \in Nat BY DEF IInv, Position
  <2>2. stage = "end" => stage' = "end" BY Moved DEF IInv
  <2>3. QED BY <2>1, <2>2 DEF Past
<1>2. (Past(3)' => Past(2)') /\ (Past(4)' => Past(2)') /\ (Past(5)' => Past(2)')
  <2>1. Position' BY Moved DEF IInv
  <2>2. at' \in Nat BY <2>1 DEF Position
  <2>3. QED BY <2>2 DEF Past
<1>3. case' = case BY Moved DEF IInv
<1>4. QED BY <1>1, <1>2, <1>3 DEF IInv, Inputs, Settled, Grid, Words

(* Only between the filling and the last flush is a line dirty. *)
LEMMA CleanAfterSetup ==
  ASSUME DirtyBetween, stage = "setup" => at > 5 \/ at < 3
  PROVE  \A b \in Blocks : line[b].state # "dirty"
BY DEF DirtyBetween

(* Steps that leave the registers leave what they point at. *)
LEMMA RegistersStay ==
  ASSUME IInv, todo # <<>>, Script[at] # "tally", Advance, stage = "setup" => at < 6,
         regs' = regs, frame' = frame, Running => place' = place
  PROVE  Registers'
<1>1. Past(6)' \/ Past(7)' => Running /\ Past(6) /\ Past(7)
  BY Moved DEF IInv, Position, Past, Running
<1>2. case' = case /\ tool' = tool BY Moved DEF IInv
<1>3. QED BY <1>1, <1>2 DEF IInv, Registers

(* Outside the stages that run it the kernel is idle, and it is idle at    *)
(* the first operation of the next stage.                                  *)
LEMMA KernelStays ==
  ASSUME IInv, todo # <<>>, Script[at] # "tally", Advance, ~Running, kernel' = kernel
  PROVE  KernelKept' /\ ResultKept'
<1>1. kernel.pc = "idle" BY DEF IInv, KernelKept
<1>2. Running' => at' = 1
  <2>1. stage = "setup" => at < 7 \/ at = 7 BY SetupLength DEF IInv
  <2>2. QED BY <2>1, Moved DEF IInv, Running
<1>3. QED BY <1>1, <1>2 DEF KernelKept, ResultKept

(* Steps that read nothing keep what was read right. *)
LEMMA ResultsStay ==
  ASSUME IInv, todo # <<>>, Script[at] # "tally", Advance, ~Running \/ at # 4,
         last' = last, batched' = batched
  PROVE  ResultsRead'
<1>1. stage' \in {"batched", "breakdown", "end"} =>
        \/ stage \in {"batched", "breakdown", "end"} /\ stage' = stage
        \/ stage = "breakdown"
  <2>1. CASE stage = "setup"
    <3>1. at < 7 \/ at = 7 BY <2>1, SetupLength DEF IInv
    <3>2. QED BY <2>1, <3>1, Moved DEF IInv
  <2>2. CASE stage = "end" BY <2>2, Moved DEF IInv
  <2>3. CASE Running
    <3>1. at # 4 BY <2>3
    <3>2. QED BY <2>3, <3>1, Moved DEF IInv
  <2>4. QED BY <2>1, <2>2, <2>3 DEF Running
<1>2. case' = case /\ tool' = tool BY Moved DEF IInv
<1>3. QED BY <1>1, <1>2 DEF IInv, ResultsRead

-----------------------------------------------------------------------------
(* One lemma per operation: it keeps the invariant.                        *)
LEMMA GetBuffersStep == ASSUME IInv, get_buffers PROVE IInv'
<1>1. /\ todo # <<>> /\ Script[at] # "tally" /\ Advance
      /\ stage = "setup" /\ at = 1 /\ stage' = "setup" /\ at' = 2
  BY Where, Moved DEF get_buffers, Doing, IInv
<1>2. Position' /\ Types'
  BY <1>1, Moved, TypesHost DEF Host, IInv
<1>3. Disjoint'
  BY DEF get_buffers, Disjoint
<1>4. Inputs'
  BY <1>1 DEF Inputs, Past
<1>5. DirtyBetween'
  BY <1>1, CleanAfterSetup DEF get_buffers, IInv, DirtyBetween
<1>6. Registers'
  BY <1>1, RegistersStay DEF get_buffers, Running
<1>7. KernelKept' /\ ResultKept' /\ ResultsRead'
  BY <1>1, KernelStays, ResultsStay DEF get_buffers, Running
<1>8. QED BY <1>2, <1>3, <1>4, <1>5, <1>6, <1>7 DEF IInv

(* Filling the grid keeps the invariant. *)
LEMMA FillGridStep == ASSUME IInv, fill_grid PROVE IInv'
<1>1. /\ todo # <<>> /\ Script[at] # "tally" /\ Advance
      /\ stage = "setup" /\ at = 2 /\ stage' = "setup" /\ at' = 3
  BY Where, Moved DEF fill_grid, Doing, IInv
<1>2. Position' /\ Types' /\ case' = case
  BY <1>1, Moved, TypesHost DEF Host, IInv
<1>3. Disjoint'
  BY DEF fill_grid, Fill, IInv, Disjoint
<1>4. Inputs'
  <2>1. \A b \in place'.grid : line'[b] = Dirty(Grid(case'))
    BY <1>2 DEF fill_grid, Fill, IInv, Types, Grid
  <2>2. QED BY <1>1, <2>1 DEF Inputs, Past, Grid
<1>5. DirtyBetween'
  <2>1. \A b \in Blocks : line[b].state # "dirty"
    BY <1>1, CleanAfterSetup DEF IInv
  <2>2. QED BY <1>1, <2>1 DEF fill_grid, Fill, DirtyBetween
<1>6. Registers'
  BY <1>1, RegistersStay DEF fill_grid, Fill, Running
<1>7. KernelKept' /\ ResultKept' /\ ResultsRead'
  BY <1>1, KernelStays, ResultsStay DEF fill_grid, Fill, Running
<1>8. QED BY <1>2, <1>3, <1>4, <1>5, <1>6, <1>7 DEF IInv

(* So does filling the words. *)
LEMMA FillWordsStep == ASSUME IInv, fill_words PROVE IInv'
<1>1. /\ todo # <<>> /\ Script[at] # "tally" /\ Advance
      /\ stage = "setup" /\ at = 3 /\ stage' = "setup" /\ at' = 4
  BY Where, Moved DEF fill_words, Doing, IInv
<1>2. Position' /\ Types' /\ case' = case
  BY <1>1, Moved, TypesHost DEF Host, IInv
<1>3. Disjoint'
  BY DEF fill_words, Fill, IInv, Disjoint
<1>4. Inputs'
  <2>1. \A b \in place'.words : line'[b] = Dirty(Words(case'))
    BY <1>2 DEF fill_words, Fill, IInv, Types, Words
  <2>2. \A b \in place'.grid : ddr'[b] = ddr[b] /\ line'[b] = line[b]
    BY DEF fill_words, Fill, IInv, Types, Disjoint
  <2>3. \A b \in place.grid : line[b] = Dirty(Grid(case)) \/ Settled(b, Grid(case))
    BY <1>1 DEF IInv, Inputs, Past
  <2>4. place' = place
    BY DEF fill_words, Fill
  <2>5. QED BY <1>1, <1>2, <2>1, <2>2, <2>3, <2>4 DEF Inputs, Past, Grid, Words, Settled
<1>5. DirtyBetween'
  BY <1>1 DEF fill_words, Fill, IInv, DirtyBetween
<1>6. Registers'
  BY <1>1, RegistersStay DEF fill_words, Fill, Running
<1>7. KernelKept' /\ ResultKept' /\ ResultsRead'
  BY <1>1, KernelStays, ResultsStay DEF fill_words, Fill, Running
<1>8. QED BY <1>2, <1>3, <1>4, <1>5, <1>6, <1>7 DEF IInv

(* A push settles what was filled, and its line is not dirty any more. *)
LEMMA PushSettles ==
  ASSUME Types, NEW role \in {"grid", "words", "result"}, Push(role), NEW d,
         \A b \in place[role] : line[b] = Dirty(d) \/ Settled(b, d)
  PROVE  /\ place' = place
         /\ \A b \in place[role] : Settled(b, d)' /\ line'[b].state # "dirty"
         /\ \A b \in Blocks \ place[role] : ddr'[b] = ddr[b] /\ line'[b] = line[b]
<1>1. place[role] \subseteq Blocks
  BY DEF Types
<1>2. \A b \in place[role] : Settled(b, d)' /\ line'[b].state # "dirty"
  <2>1. SUFFICES ASSUME NEW b \in place[role] PROVE Settled(b, d)' /\ line'[b].state # "dirty"
    OBVIOUS
  <2>2. CASE line[b] = Dirty(d)
    BY <1>1, <2>2 DEF Push, WrittenBack, Settled, Dirty, Clean
  <2>3. CASE Settled(b, d)
    BY <1>1, <2>3 DEF Push, WrittenBack, Settled, Clean, Absent
  <2>4. QED BY <2>2, <2>3
<1>3. QED BY <1>2 DEF Push

(* So does flushing the grid. *)
LEMMA PushGridStep == ASSUME IInv, push_grid PROVE IInv'
<1>1. /\ todo # <<>> /\ Script[at] # "tally" /\ Advance
      /\ stage = "setup" /\ at = 4 /\ stage' = "setup" /\ at' = 5
  BY Where, Moved DEF push_grid, Doing, IInv
<1>2. Position' /\ Types' /\ case' = case
  BY <1>1, Moved, TypesHost DEF Host, IInv
<1>3. Disjoint' /\ place' = place
  BY DEF push_grid, Push, IInv, Disjoint
<1>4. /\ \A b \in place.grid : Settled(b, Grid(case))' /\ line'[b].state # "dirty"
      /\ \A b \in Blocks \ place.grid : ddr'[b] = ddr[b] /\ line'[b] = line[b]
  <2>1. \A b \in place.grid : line[b] = Dirty(Grid(case)) \/ Settled(b, Grid(case))
    BY <1>1 DEF IInv, Inputs, Past
  <2> DEFINE d == Grid(case)
  <2>2. d' = d BY <1>2 DEF Grid
  <2> HIDE DEF d
  <2>3. \A b \in place.grid : (ddr'[b] = d /\ line'[b] \in {Absent, Clean(d)}) /\ line'[b].state # "dirty"
    BY <2>1, PushSettles DEF push_grid, IInv, d, Settled
  <2>4. QED BY <2>3, <2>2 DEF push_grid, Push, Settled, d
<1>5. Inputs'
  <2>1. \A b \in place.words : line[b] = Dirty(Words(case)) \/ Settled(b, Words(case))
    BY <1>1 DEF IInv, Inputs, Past
  <2>2. \A b \in place.words : ddr'[b] = ddr[b] /\ line'[b] = line[b]
    BY <1>4 DEF IInv, Types, Disjoint
  <2>3. QED BY <1>1, <1>2, <1>3, <1>4, <2>1, <2>2 DEF Inputs, Past, Words, Settled
<1>6. DirtyBetween'
  BY <1>1, <1>3, <1>4 DEF IInv, DirtyBetween
<1>7. Registers'
  BY <1>1, RegistersStay DEF push_grid, Push, Running
<1>8. KernelKept' /\ ResultKept' /\ ResultsRead'
  BY <1>1, KernelStays, ResultsStay DEF push_grid, Push, Running
<1>9. QED BY <1>2, <1>3, <1>5, <1>6, <1>7, <1>8 DEF IInv

(* So does flushing the words. *)
LEMMA PushWordsStep == ASSUME IInv, push_words PROVE IInv'
<1>1. /\ todo # <<>> /\ Script[at] # "tally" /\ Advance
      /\ stage = "setup" /\ at = 5 /\ stage' = "setup" /\ at' = 6
  BY Where, Moved DEF push_words, Doing, IInv
<1>2. Position' /\ Types' /\ case' = case
  BY <1>1, Moved, TypesHost DEF Host, IInv
<1>3. Disjoint' /\ place' = place
  BY DEF push_words, Push, IInv, Disjoint
<1>4. /\ \A b \in place.words : Settled(b, Words(case))' /\ line'[b].state # "dirty"
      /\ \A b \in Blocks \ place.words : ddr'[b] = ddr[b] /\ line'[b] = line[b]
  <2>1. \A b \in place.words : line[b] = Dirty(Words(case)) \/ Settled(b, Words(case))
    BY <1>1 DEF IInv, Inputs, Past
  <2> DEFINE d == Words(case)
  <2>2. d' = d BY <1>2 DEF Words
  <2> HIDE DEF d
  <2>3. \A b \in place.words : (ddr'[b] = d /\ line'[b] \in {Absent, Clean(d)}) /\ line'[b].state # "dirty"
    BY <2>1, PushSettles DEF push_words, IInv, d, Settled
  <2>4. QED BY <2>3, <2>2 DEF push_words, Push, Settled, d
<1>5. Inputs'
  <2>1. \A b \in place.grid : Settled(b, Grid(case))
    BY <1>1 DEF IInv, Inputs, Past
  <2>2. \A b \in place.grid : ddr'[b] = ddr[b] /\ line'[b] = line[b]
    BY <1>4 DEF IInv, Types, Disjoint
  <2>3. QED BY <1>1, <1>2, <1>3, <1>4, <2>1, <2>2 DEF Inputs, Past, Grid, Settled
<1>6. DirtyBetween'
  BY <1>1, <1>3, <1>4 DEF IInv, DirtyBetween
<1>7. Registers'
  BY <1>1, RegistersStay DEF push_words, Push, Running
<1>8. KernelKept' /\ ResultKept' /\ ResultsRead'
  BY <1>1, KernelStays, ResultsStay DEF push_words, Push, Running
<1>9. QED BY <1>2, <1>3, <1>5, <1>6, <1>7, <1>8 DEF IInv

(* So does pointing the registers at the buffers. *)
LEMMA AttachBuffersStep == ASSUME IInv, attach_buffers PROVE IInv'
<1>1. /\ todo # <<>> /\ Script[at] # "tally" /\ Advance
      /\ stage = "setup" /\ at = 6 /\ stage' = "setup" /\ at' = 7
  BY Where, Moved DEF attach_buffers, Doing, IInv
<1>2. Position' /\ Types' /\ tool' = tool
  BY <1>1, Moved, TypesHost DEF Host, IInv
<1>3. UNCHANGED <<place, ddr, line>>
  BY DEF attach_buffers, memory
<1>4. Disjoint' /\ Inputs' /\ DirtyBetween'
  BY <1>1, <1>3, InputsStay, CleanAfterSetup DEF IInv, Disjoint, DirtyBetween
<1>5. Registers'
  BY <1>1, <1>2, <1>3 DEF attach_buffers, IInv, Types, Registers, Past
<1>6. KernelKept' /\ ResultKept' /\ ResultsRead'
  BY <1>1, KernelStays, ResultsStay DEF attach_buffers, Running
<1>7. QED BY <1>2, <1>4, <1>5, <1>6 DEF IInv

(* So does writing the scalars. *)
LEMMA ScalarsStep == ASSUME IInv, write_scalars \/ attach_scalars PROVE IInv'
<1>1. /\ todo # <<>> /\ Script[at] # "tally" /\ Advance /\ stage = "setup" /\ at = 7
      /\ write_scalars => tool = "driver"
      /\ attach_scalars => tool # "driver"
  BY Where DEF write_scalars, attach_scalars, Doing, IInv
<1>2. Position' /\ tool' = tool /\ case' = case
  BY <1>1, Moved DEF IInv
<1>3. Types'
  BY TypesHost DEF Host, IInv
<1>4. UNCHANGED <<place, ddr, line, kernel, last, batched>>
  BY DEF write_scalars, attach_scalars, memory
<1>5. Disjoint' /\ Inputs' /\ DirtyBetween'
  BY <1>1, <1>4, InputsStay, CleanAfterSetup DEF IInv, Disjoint, DirtyBetween
<1>6. Registers'
  <2>1. Past(6) BY <1>1 DEF Past
  <2>2. CASE write_scalars
    BY <1>1, <1>2, <1>4, <2>1, <2>2 DEF write_scalars, IInv, Types, Registers
  <2>3. CASE attach_scalars
    BY <1>1, <1>2, <1>4, <2>1, <2>3 DEF attach_scalars, IInv, Types, Registers
  <2>4. QED BY <2>2, <2>3
<1>7. KernelKept' /\ ResultKept' /\ ResultsRead'
  BY <1>1, <1>4, KernelStays, ResultsStay DEF Running
<1>8. QED BY <1>2, <1>3, <1>5, <1>6, <1>7 DEF IInv

(* So does giving the buffers back. *)
LEMMA EndStep == ASSUME IInv, drop_scalars \/ free_buffers PROVE IInv'
<1>1. /\ todo # <<>> /\ Script[at] # "tally" /\ Advance /\ stage = "end"
  BY Where DEF drop_scalars, free_buffers, Doing, IInv
<1>2. Position' /\ tool' = tool /\ case' = case /\ stage' = "end"
  BY <1>1, Moved DEF IInv
<1>3. Types'
  BY TypesHost DEF Host, IInv
<1>4. UNCHANGED <<ddr, line, regs, kernel, last, batched>>
  BY DEF drop_scalars, free_buffers, memory
<1>5. Disjoint'
  BY DEF drop_scalars, free_buffers, memory, NoPlace, IInv, Disjoint
<1>6. Inputs' /\ Registers'
  BY <1>2, <1>4 DEF Inputs, Registers, Past, IInv
<1>7. DirtyBetween'
  BY <1>1, <1>4, CleanAfterSetup DEF IInv, DirtyBetween
<1>8. KernelKept' /\ ResultKept' /\ ResultsRead'
  BY <1>1, <1>4, KernelStays, ResultsStay DEF Running
<1>9. QED BY <1>2, <1>3, <1>5, <1>6, <1>7, <1>8 DEF IInv

(* So does starting the kernel. *)
LEMMA StartStep == ASSUME IInv, start PROVE IInv'
<1>1. /\ todo # <<>> /\ Script[at] # "tally" /\ Advance /\ Running /\ at = 1
      /\ stage # "end" /\ stage # "setup"
  BY Where DEF start, Doing, IInv, Running
<1>2. Position' /\ tool' = tool /\ case' = case /\ stage' = stage /\ at' = 2
  BY <1>1, Moved DEF IInv
<1>3. Types'
  BY TypesHost DEF Host, IInv
<1>4. UNCHANGED <<place, ddr, line, frame, last, batched>>
  BY DEF start, memory
<1>5. Disjoint' /\ Inputs' /\ DirtyBetween'
  BY <1>1, <1>4, InputsStay, CleanAfterSetup DEF IInv, Disjoint, DirtyBetween
<1>6. regs' = [regs EXCEPT !.scalars = case]
  <2>1. Past(7) BY <1>1 DEF Past
  <2>2. CASE tool = "driver"
    <3>1. ~regs.attached /\ regs.scalars = case BY <2>1, <2>2 DEF IInv, Registers
    <3>2. QED BY <3>1 DEF start, IInv, Types
  <2>3. CASE tool # "driver"
    <3>1. regs.attached /\ frame = case BY <2>1, <2>3 DEF IInv, Registers
    <3>2. QED BY <3>1 DEF start
  <2>4. QED BY <2>2, <2>3
<1>7. Registers'
  <2>1. Past(6) /\ Past(7) BY <1>1 DEF Past
  <2>2. /\ regs'.attached = regs.attached /\ regs'.scalars = case /\ regs'.grid_in = regs.grid_in
        /\ regs'.words_in = regs.words_in /\ regs'.result_out = regs.result_out
    BY <1>6 DEF IInv, Types
  <2>3. QED BY <1>2, <1>4, <2>1, <2>2 DEF IInv, Registers
<1>8. KernelKept'
  <2>1. regs'.scalars = case BY <1>6 DEF IInv, Types
  <2>2. kernel'.pc = "started" BY DEF start, Idle
  <2>3. QED BY <1>1, <1>2, <2>1, <2>2 DEF KernelKept, Running
<1>9. ResultKept'
  <2>1. kernel'.pc = "started" BY DEF start, Idle
  <2>2. QED BY <1>2, <2>1 DEF ResultKept
<1>10. ResultsRead'
  BY <1>1, <1>4, ResultsStay
<1>11. QED BY <1>2, <1>3, <1>5, <1>7, <1>8, <1>9, <1>10 DEF IInv

(* So does waiting for it. *)
LEMMA SyncStep == ASSUME IInv, sync PROVE IInv'
<1>1. /\ todo # <<>> /\ Script[at] # "tally" /\ Advance /\ Running /\ at = 2
      /\ stage # "end" /\ stage # "setup"
  BY Where DEF sync, Doing, IInv, Running
<1>2. /\ Position' /\ tool' = tool /\ case' = case
      /\ (stage' = stage /\ at' = 3) \/ at' = 1
  BY <1>1, Moved DEF IInv
<1>3. Types'
  BY TypesHost DEF Host, IInv
<1>4. UNCHANGED <<place, ddr, line, regs, frame, starts, last, batched>> /\ kernel.pc = "done"
  BY DEF sync, memory
<1>5. Disjoint' /\ Inputs' /\ DirtyBetween'
  BY <1>1, <1>4, InputsStay, CleanAfterSetup DEF IInv, Disjoint, DirtyBetween
<1>6. Registers'
  BY <1>1, <1>4, RegistersStay
<1>7. KernelKept'
  <2>1. kernel'.pc = "idle" BY DEF sync, Idle
  <2>2. QED BY <1>2, <2>1 DEF KernelKept
<1>8. ResultKept'
  <2>1. kernel'.pc = "idle" BY DEF sync, Idle
  <2>2. \A b \in place.result : ddr[b] = Result(case) BY <1>4 DEF IInv, ResultKept
  <2>3. QED BY <1>2, <1>4, <2>1, <2>2 DEF ResultKept, Result
<1>9. ResultsRead'
  BY <1>1, <1>4, ResultsStay
<1>10. QED BY <1>2, <1>3, <1>5, <1>6, <1>7, <1>8, <1>9 DEF IInv

(* So does invalidating the result. *)
LEMMA PullStep == ASSUME IInv, pull PROVE IInv'
<1>1. /\ todo # <<>> /\ Script[at] # "tally" /\ Advance /\ Running /\ at = 3
      /\ stage # "end" /\ stage # "setup"
  BY Where DEF pull, Doing, IInv, Running
<1>2. /\ Position' /\ tool' = tool /\ case' = case
      /\ (stage' = stage /\ at' = 4) \/ at' = 1
  BY <1>1, Moved DEF IInv
<1>3. Types'
  BY TypesHost DEF Host, IInv
<1>4. UNCHANGED <<place, ddr, regs, frame, kernel, starts, last, batched>>
  BY DEF pull
<1>5. \A b \in Blocks : line'[b] = IF b \in place.result THEN Absent ELSE line[b]
  BY DEF pull
<1>6. Disjoint'
  BY <1>4 DEF IInv, Disjoint
<1>7. Inputs'
  <2>1. \A b \in place.grid \cup place.words : ddr'[b] = ddr[b] /\ line'[b] = line[b]
    BY <1>4, <1>5 DEF IInv, Types, Disjoint
  <2>2. QED BY <1>1, <1>4, <2>1, InputsStay
<1>8. DirtyBetween'
  <2>1. \A b \in Blocks : line[b].state # "dirty"
    BY <1>1, CleanAfterSetup DEF IInv
  <2>2. QED BY <1>5, <2>1 DEF DirtyBetween, Absent
<1>9. Registers'
  BY <1>1, <1>4, RegistersStay
<1>10. kernel.pc = "idle"
  BY <1>1 DEF IInv, KernelKept
<1>11. KernelKept'
  BY <1>2, <1>4, <1>10 DEF KernelKept
<1>12. ResultKept'
  <2>1. \A b \in place.result : ddr[b] = Result(case)
    BY <1>1 DEF IInv, ResultKept
  <2>2. \A b \in place'.result : Settled(b, Result(case))'
    BY <1>2, <1>4, <1>5, <2>1 DEF Settled, Result, IInv, Types
  <2>3. QED BY <2>2 DEF ResultKept, Settled
<1>13. ResultsRead'
  BY <1>1, <1>4, ResultsStay
<1>14. QED BY <1>2, <1>3, <1>6, <1>7, <1>8, <1>9, <1>11, <1>12, <1>13 DEF IInv

(* What the host sees of a block that is settled is in memory. *)
LEMMA SeenSettled ==
  ASSUME Types, NEW b \in Blocks, NEW d, Settled(b, d)
  PROVE  /\ Seen(b) = d
         /\ Load(b) => /\ line'[b] \in {Absent, Clean(d)} /\ line'[b].state # "dirty"
                       /\ \A c \in Blocks \ {b} : line'[c] = line[c]
<1>1. line[b] = Absent \/ line[b] = Clean(d)
  BY DEF Settled
<1>2. Seen(b) = d
  BY <1>1 DEF Seen, Settled, Absent, Clean
<1>3. Load(b) => /\ line'[b] = Clean(d)
                 /\ \A c \in Blocks \ {b} : line'[c] = line[c]
  BY <1>1 DEF Load, Settled, Absent, Clean, Types
<1>4. Clean(d).state # "dirty"
  BY DEF Clean
<1>5. QED BY <1>2, <1>3, <1>4

(* So does reading it. *)
LEMMA ReadStep == ASSUME IInv, read \/ read_batched PROVE IInv'
<1>1. /\ todo # <<>> /\ Script[at] # "tally" /\ Advance /\ Running /\ at = 4
      /\ stage # "end" /\ stage # "setup"
      /\ read => stage # "batched"
      /\ read_batched => stage = "batched"
  BY Where DEF read, read_batched, Doing, IInv, Running
<1>2. Position' /\ tool' = tool /\ case' = case
  BY <1>1, Moved DEF IInv
<1>3. at' = 1
  <2>1. at' = 1 \/ (at' = 5 /\ Running')
    BY <1>1, Moved DEF IInv, Running
  <2>2. QED BY <1>2, <2>1, NextLength
<1>4. Types'
  BY TypesHost DEF Host, IInv
<1>5. UNCHANGED <<place, ddr, regs, frame, kernel, starts>>
  BY DEF read, read_batched
<1>6. PICK r \in place.result :
        /\ Load(r)
        /\ read => last' = Seen(r) /\ batched' = batched
        /\ read_batched => batched' = Seen(r) /\ last' = last
  BY Where DEF read, read_batched, Doing, IInv
<1>7. r \in Blocks /\ Settled(r, Result(case))
  BY <1>1 DEF IInv, Types, ResultKept
<1>8. /\ Seen(r) = Result(case) /\ line'[r].state # "dirty"
      /\ \A c \in Blocks \ {r} : line'[c] = line[c]
  BY <1>6, <1>7, SeenSettled DEF IInv
<1>9. Disjoint'
  BY <1>5 DEF IInv, Disjoint
<1>10. Inputs'
  <2>1. \A b \in place.grid \cup place.words : ddr'[b] = ddr[b] /\ line'[b] = line[b]
    BY <1>5, <1>6, <1>8 DEF IInv, Types, Disjoint
  <2>2. QED BY <1>1, <1>5, <2>1, InputsStay
<1>11. DirtyBetween'
  <2>1. \A b \in Blocks : line[b].state # "dirty"
    BY <1>1, CleanAfterSetup DEF IInv
  <2>2. QED BY <1>8, <2>1 DEF DirtyBetween
<1>12. Registers'
  BY <1>1, <1>5, RegistersStay
<1>13. KernelKept'
  BY <1>1, <1>3, <1>5 DEF IInv, KernelKept
<1>14. ResultKept'
  <2>1. kernel.pc = "idle" BY <1>1 DEF IInv, KernelKept
  <2>2. QED BY <1>3, <1>5, <2>1 DEF ResultKept
<1>15. ResultsRead'
  <2>1. Result(case).case = case
    BY DEF Result, Content
  <2>2. CASE read
    <3>1. last'.case = case' BY <1>2, <1>6, <1>8, <2>1, <2>2
    <3>2. CASE stage = "breakdown"
      BY <1>2, <1>6, <2>2, <3>1, <3>2 DEF IInv, ResultsRead
    <3>3. CASE stage # "breakdown"
      <4>1. stage' # "breakdown" /\ (stage' = "end" => stage \in {"run", "timed"})
        BY <1>1, <2>2, <3>3, Moved DEF IInv
      <4>2. stage \in {"run", "timed"} => tool # "batch"
        BY DEF IInv, Position, AtStage, StagesOf
      <4>3. QED BY <1>2, <3>1, <4>1, <4>2 DEF ResultsRead
    <3>4. QED BY <3>2, <3>3
  <2>3. CASE read_batched
    <3>1. batched'.case = case' BY <1>2, <1>6, <1>8, <2>1, <2>3
    <3>2. last'.case = case'
      BY <1>1, <1>2, <1>6, <2>3 DEF IInv, ResultsRead
    <3>3. QED BY <3>1, <3>2 DEF ResultsRead
  <2>4. QED BY <2>2, <2>3
<1>16. QED BY <1>2, <1>4, <1>9, <1>10, <1>11, <1>12, <1>13, <1>14, <1>15 DEF IInv

(* So does going to the next case. *)
LEMMA NextCaseStep == ASSUME IInv, NextCase PROVE IInv'
<1>1. /\ todo # <<>> /\ stage = "end" /\ stage' = "setup" /\ i' = 1 /\ at' = 1 /\ tool' = tool
      /\ todo' = Tail(todo) /\ quality' = quality
  BY Where DEF NextCase, Doing, IInv
<1>2. Position'
  <2>1. AtStage'
    BY <1>1 DEF IInv, Position, AtStage, Tools, StagesOf
  <2>2. todo' \in Seq(Cases)
    BY <1>1 DEF IInv, Position
  <2>3. 1 \in 1 .. Repeats'
    BY <1>1 DEF Repeats
  <2>4. 1 \in 1 .. Len(Script)'
    BY <2>1, NextScript
  <2>5. QED BY <1>1, <2>1, <2>2, <2>3, <2>4 DEF IInv, Position
<1>3. Types'
  BY TypesHost DEF Host, IInv
<1>4. UNCHANGED <<place, ddr, line, regs, frame, kernel, last, batched>>
  BY DEF NextCase, memory
<1>5. Disjoint' /\ Inputs' /\ Registers' /\ ResultsRead'
  BY <1>1, <1>4 DEF IInv, Disjoint, Inputs, Registers, ResultsRead, Past
<1>6. DirtyBetween'
  BY <1>1, <1>4, CleanAfterSetup DEF IInv, DirtyBetween
<1>7. kernel.pc = "idle"
  BY <1>1 DEF IInv, KernelKept, Running
<1>8. KernelKept' /\ ResultKept'
  BY <1>1, <1>4, <1>7 DEF KernelKept, ResultKept, Running
<1>9. QED BY <1>2, <1>3, <1>5, <1>6, <1>8 DEF IInv

-----------------------------------------------------------------------------
(* The kernel and the cache move while the host stands still. *)
LEMMA FetchStep == ASSUME IInv, KernelFetch PROVE IInv'
<1>1. UNCHANGED <<control, place, ddr, line, regs, frame, starts, last, batched>>
  BY DEF KernelFetch, memory
<1>2. UNCHANGED <<tool, todo, stage, at, case>>
  BY <1>1, SameCase
<1>3. Position' /\ Types'
  BY <1>1, SamePosition, TypesOther DEF Kernel, IInv
<1>4. Disjoint' /\ Inputs' /\ DirtyBetween' /\ Registers' /\ ResultsRead'
  BY <1>1, <1>2 DEF IInv, Disjoint, Inputs, DirtyBetween, Registers, ResultsRead, Past,
                    Settled, Grid, Words
<1>5. kernel.pc = "started" /\ kernel'.pc = "fetched"
  BY DEF KernelFetch
<1>6. Running /\ at = 2 /\ stage # "end" /\ stage # "setup" /\ todo # <<>>
  BY <1>5 DEF IInv, KernelKept, Running, Position
<1>7. kernel'.scalars = case /\ kernel'.grid = Grid(case) /\ kernel'.words = Words(case)
  <2>1. \A b \in place.grid : ddr[b] = Grid(case)
    BY <1>6 DEF IInv, Inputs, Past, Settled
  <2>2. \A b \in place.words : ddr[b] = Words(case)
    BY <1>6 DEF IInv, Inputs, Past, Settled
  <2>3. regs.grid_in = place.grid /\ regs.words_in = place.words
    BY <1>6 DEF IInv, Registers, Past
  <2>4. regs.scalars = case
    BY <1>5 DEF IInv, KernelKept
  <2>5. QED BY <2>1, <2>2, <2>3, <2>4 DEF KernelFetch
<1>8. Fetched' = case'
  BY <1>2, <1>6, <1>7, CaseInCases DEF Fetched, Grid, Words, IInv
<1>9. KernelKept'
  BY <1>2, <1>5, <1>6, <1>8 DEF KernelKept, Running
<1>10. ResultKept'
  BY <1>2, <1>5, <1>6 DEF ResultKept
<1>11. QED BY <1>3, <1>4, <1>9, <1>10 DEF IInv

(* So does the return of the kernel. *)
LEMMA ReturnStep == ASSUME IInv, KernelReturn PROVE IInv'
<1>1. UNCHANGED <<control, place, line, regs, frame, starts, last, batched>>
  BY DEF KernelReturn
<1>2. UNCHANGED <<tool, todo, stage, at, case>>
  BY <1>1, SameCase
<1>3. Position' /\ Types'
  BY <1>1, SamePosition, TypesOther DEF Kernel, IInv
<1>4. kernel.pc = "fetched" /\ kernel' = [kernel EXCEPT !.pc = "done"]
  BY DEF KernelReturn
<1>5. Running /\ at = 2 /\ stage # "end" /\ stage # "setup" /\ Fetched = case
  BY <1>4 DEF IInv, KernelKept, Running
<1>6. regs.result_out = place.result
  BY <1>5 DEF IInv, Registers, Past
<1>7. \A b \in Blocks : ddr'[b] = IF b \in place.result THEN Result(case) ELSE ddr[b]
  BY <1>5, <1>6 DEF KernelReturn
<1>8. Inputs'
  <2>1. \A b \in place.grid \cup place.words : ddr'[b] = ddr[b] /\ line'[b] = line[b]
    BY <1>1, <1>7 DEF IInv, Types, Disjoint
  <2>2. QED BY <1>1, <1>2, <2>1 DEF IInv, Inputs, Past, Settled, Grid, Words
<1>9. Disjoint' /\ DirtyBetween' /\ Registers' /\ ResultsRead'
  BY <1>1, <1>2 DEF IInv, Disjoint, DirtyBetween, Registers, ResultsRead, Past
<1>10. KernelKept'
  <2>1. /\ kernel'.pc = "done" /\ kernel'.grid = kernel.grid
        /\ kernel'.words = kernel.words /\ kernel'.scalars = kernel.scalars
    BY <1>4 DEF IInv, Types
  <2>2. Fetched' = Fetched
    BY <2>1 DEF Fetched, Grid, Words
  <2>3. QED BY <1>2, <1>5, <2>1, <2>2 DEF KernelKept, Running
<1>11. ResultKept'
  <2>1. \A b \in place'.result : ddr'[b] = Result(case)'
    BY <1>1, <1>2, <1>7 DEF IInv, Types, Result
  <2>2. QED BY <1>2, <1>5, <2>1 DEF ResultKept, Running
<1>12. QED BY <1>3, <1>8, <1>9, <1>10, <1>11 DEF IInv

(* Dropping or loading a line leaves what is settled settled. *)
LEMMA CacheStep ==
  ASSUME IInv, NEW c \in Blocks, Evict(c) \/ Prefetch(c)
  PROVE  IInv'
<1>1. UNCHANGED <<control, place, regs, frame, kernel, starts, last, batched>>
  BY DEF Evict, Prefetch
<1>2. UNCHANGED <<tool, todo, stage, at, case>>
  BY <1>1, SameCase
<1>3. Position' /\ Types'
  BY <1>1, SamePosition, TypesOther DEF IInv
<1>4. /\ \A b \in Blocks \ {c} : ddr'[b] = ddr[b] /\ line'[b] = line[b]
      /\ line'[c].state # "dirty"
      /\ line[c].state # "dirty" => ddr'[c] = ddr[c]
      /\ \A d : (Settled(c, d) \/ line[c] = Dirty(d)) =>
                ddr'[c] = d /\ line'[c] \in {Absent, Clean(d)}
  <2>1. CASE Evict(c)
    BY <2>1 DEF Evict, WrittenBack, Settled, Absent, Clean, Dirty, IInv, Types
  <2>2. CASE Prefetch(c)
    BY <2>2 DEF Prefetch, Settled, Absent, Clean, Dirty, IInv, Types
  <2>3. QED BY <2>1, <2>2
<1>5. \A b \in Blocks : \A d : Settled(b, d) => ddr'[b] = d /\ line'[b] \in {Absent, Clean(d)}
  BY <1>4 DEF Settled
<1>6. \A b \in Blocks : \A d : line[b] = Dirty(d) =>
        line'[b] = Dirty(d) \/ (ddr'[b] = d /\ line'[b] \in {Absent, Clean(d)})
  BY <1>4
<1>7. Inputs'
  <2>1. place.grid \subseteq Blocks /\ place.words \subseteq Blocks
    BY DEF IInv, Types
  <2>2. QED BY <1>1, <1>2, <1>5, <1>6, <2>1 DEF IInv, Inputs, Past, Settled, Grid, Words
<1>8. DirtyBetween'
  BY <1>1, <1>2, <1>4 DEF IInv, DirtyBetween
<1>9. Disjoint' /\ Registers' /\ ResultsRead'
  BY <1>1, <1>2 DEF IInv, Disjoint, Registers, ResultsRead, Past
<1>10. KernelKept'
  BY <1>1, <1>2 DEF IInv, KernelKept, Running, Fetched, Grid, Words
<1>11. ResultKept'
  <2>1. place.result \subseteq Blocks
    BY DEF IInv, Types
  <2>2. kernel.pc = "done" \/ (Running /\ at > 2) => stage # "setup"
    BY DEF IInv, KernelKept, Running
  <2>3. stage # "setup" => line[c].state # "dirty"
    BY DEF IInv, DirtyBetween
  <2>4. Result(case)' = Result(case)
    BY <1>1, <1>2 DEF Result
  <2>5. kernel.pc = "done" \/ (Running /\ at > 2) => \A b \in place.result : ddr'[b] = Result(case)
    BY <1>4, <2>1, <2>2, <2>3 DEF IInv, ResultKept
  <2>6. Running /\ at > 3 => \A b \in place.result :
          ddr'[b] = Result(case) /\ line'[b] \in {Absent, Clean(Result(case))}
    BY <1>5, <2>1 DEF IInv, ResultKept
  <2>7. QED BY <1>1, <1>2, <2>4, <2>5, <2>6 DEF ResultKept, Settled, Running
<1>12. QED BY <1>3, <1>7, <1>8, <1>9, <1>10, <1>11 DEF IInv

(* The invariant holds at first. *)
LEMMA InvInit == ASSUME Init PROVE IInv
<1>1. AtStage
  BY DEF Init, AtStage, Tools, StagesOf
<1>2. Position
  <2>1. todo \in Seq(Cases)
    <3>1. CASE tool = "batch"
      <4>1. PICK c \in Cases : todo = <<c>> BY <3>1 DEF Init
      <4>2. QED BY <4>1
    <3>2. CASE tool # "batch"
      <4>1. todo \in [1 .. NumCases -> Cases] BY <3>2 DEF Init, Cases
      <4>2. QED BY <4>1, SeqDef
    <3>3. QED BY <3>1, <3>2
  <2>2. at \in 1 .. Len(Script)
    <3>1. SetupOps BY <1>1, SetupScript DEF Init
    <3>2. Len(Script) = 7 BY <3>1 DEF SetupOps
    <3>3. QED BY <3>2 DEF Init
  <2>3. i \in 1 .. Repeats
    BY DEF Init, Repeats
  <2>4. QED BY <1>1, <2>1, <2>2, <2>3 DEF Init, Position
<1>3. Types
  BY DEF Init, Types, NoPlace, Absent, Idle, Stale, Content, Contents
<1>4. Disjoint /\ Inputs /\ Registers /\ ResultsRead
  BY DEF Init, Disjoint, NoPlace, Inputs, Registers, ResultsRead, Past
<1>5. DirtyBetween
  BY DEF Init, DirtyBetween, Absent
<1>6. KernelKept /\ ResultKept
  BY DEF Init, Idle, KernelKept, ResultKept, Running
<1>7. QED BY <1>2, <1>3, <1>4, <1>5, <1>6 DEF IInv

(* Every step keeps it. *)
LEMMA InvNext == ASSUME IInv, [Next]_vars PROVE IInv'
<1>1. CASE Host
  BY <1>1, GetBuffersStep, FillGridStep, FillWordsStep, PushGridStep, PushWordsStep,
     AttachBuffersStep, ScalarsStep, EndStep, StartStep, SyncStep, PullStep, ReadStep,
     NextCaseStep DEF Host
<1>2. CASE Kernel
  BY <1>2, FetchStep, ReturnStep DEF Kernel
<1>3. CASE \E b \in Blocks : Evict(b) \/ Prefetch(b)
  BY <1>3, CacheStep
<1>4. CASE UNCHANGED vars
  <2>1. UNCHANGED <<control, place, ddr, line, regs, frame, kernel, starts, last, batched>>
    BY <1>4 DEF vars, memory
  <2>2. UNCHANGED <<tool, todo, stage, at, case>>
    BY <2>1, SameCase
  <2>3. Position'
    BY <2>1, SamePosition DEF IInv
  <2>4. QED BY <2>1, <2>2, <2>3
       DEF IInv, Types, Disjoint, Inputs, DirtyBetween, Registers, KernelKept, ResultKept,
           ResultsRead, Past, Settled, Running, Fetched, Grid, Words, Result
<1>5. QED BY <1>1, <1>2, <1>3, <1>4 DEF Next

(* In every run of every tool the invariant holds. *)
THEOREM Invariance == Spec => []IInv
BY InvInit, InvNext, PTL DEF Spec

-----------------------------------------------------------------------------
(* What the kernel has fetched belongs to the case under test, whatever    *)
(* ran before it and whatever the cache does meanwhile.                    *)
THEOREM KernelInput == Spec => []KernelReadsItsCase
<1>1. IInv => KernelReadsItsCase
  BY DEF IInv, KernelKept, KernelReadsItsCase
<1>2. QED BY <1>1, Invariance, PTL

(* No buffer of the case has a dirty line while the kernel runs. *)
THEOREM NoLateWriteBack == Spec => []CleanWhileRunning
<1>1. IInv => CleanWhileRunning
  BY DEF IInv, Types, KernelKept, DirtyBetween, CleanWhileRunning, Running
<1>2. QED BY <1>1, Invariance, PTL

(* A result the host reads, in a plain run or at the end of a batch, is    *)
(* that of the run it started last, on the current case.                   *)
THEOREM ReadResult == Spec => ReadsOwnRun
<1>1. ASSUME IInv, [Next]_vars
      PROVE  [/\ read => last' = Result(case)
              /\ read_batched => batched' = Result(case)]_vars
  <2>1. SUFFICES ASSUME read \/ read_batched
                 PROVE  /\ read => last' = Result(case)
                        /\ read_batched => batched' = Result(case)
    OBVIOUS
  <2>2. Running /\ at = 4
    BY <1>1, <2>1, Where DEF read, read_batched, Doing, IInv
  <2>3. \A b \in place.result : b \in Blocks /\ Settled(b, Result(case))
    BY <1>1, <2>2 DEF IInv, Types, ResultKept
  <2>4. \A b \in place.result : Seen(b) = Result(case)
    BY <1>1, <2>3, SeenSettled DEF IInv
  <2>5. QED BY <2>4 DEF read, read_batched
<1>2. QED BY <1>1, Invariance, PTL DEF Spec, ReadsOwnRun

(* No tool writes Start while a run may still be going. *)
THEOREM StartWhenIdle == Spec => NoStartBeforeDone
<1>1. ASSUME IInv, [Next]_vars PROVE [start => kernel.pc = "idle"]_vars
  <2>1. SUFFICES ASSUME start PROVE kernel.pc = "idle"
    OBVIOUS
  <2>2. at = 1
    BY <1>1, <2>1, Where DEF start, Doing, IInv
  <2>3. QED BY <1>1, <2>2 DEF IInv, KernelKept
<1>2. QED BY <1>1, Invariance, PTL DEF Spec, NoStartBeforeDone

(* Every tool judges every case by that case's own result, once: the       *)
(* tools refine JudgedCases.  Tallying a case is Judge, because what was   *)
(* read last is the case's; everything else is a stutter.                  *)
THEOREM Judged == Spec => JudgesEachCase
<1>1. Init => JudgedCases!Init
  BY DEF Init, JudgedCases!Init
<1>2. ASSUME IInv, [Next]_vars PROVE [JudgedCases!Judge]_(JudgedCases!vars)
  <2>1. CASE NextCase
    <3>1. todo # <<>> /\ stage = "end"
      BY <1>2, <2>1, Where DEF NextCase, Doing, IInv
    <3>2. last.case = case /\ (tool = "batch" => batched.case = case)
      BY <1>2, <3>1 DEF IInv, ResultsRead
    <3>3. quality[case] \in {"ok", "counters", "value"}
      BY <1>2, <3>1, CaseInCases DEF IInv, Position
    <3>4. passed <=> quality[case] # "value"
      BY <3>2 DEF passed, value_ok
    <3>5. counters_ok(last) <=> quality[case] = "ok"
      BY <3>2 DEF counters_ok
    <3>6. passed /\ ~counters_ok(last) <=> quality[case] = "counters"
      BY <3>3, <3>4, <3>5
    <3>7. /\ failures' = failures + IF quality[case] = "value" THEN 1 ELSE 0
          /\ mismatches' = mismatches + IF quality[case] = "counters" /\ tool \in {"driver", "validate"}
                                        THEN 1 ELSE 0
      <4>1. failures' = failures + IF passed THEN 0 ELSE 1
        BY <2>1 DEF NextCase
      <4>2. mismatches' = mismatches + IF tool \in {"driver", "validate"} /\ passed /\ ~counters_ok(last)
                                      THEN 1 ELSE 0
        BY <2>1 DEF NextCase
      <4>3. QED BY <3>4, <3>6, <4>1, <4>2
    <3>8. QED BY <2>1, <3>1, <3>7 DEF NextCase, JudgedCases!Judge, case
  <2>2. CASE ~NextCase
    <3>1. UNCHANGED <<tool, quality, todo, failures, mismatches>>
      <4>1. CASE Host
        BY <2>2, <4>1
           DEF Host, Advance, tally, get_buffers, fill_grid, fill_words, Fill, push_grid, push_words,
               Push, attach_buffers, write_scalars, attach_scalars, drop_scalars, start, sync, pull,
               read, read_batched, free_buffers
      <4>2. CASE Kernel
        BY <4>2 DEF Kernel, KernelFetch, KernelReturn, control, tally
      <4>3. CASE \E b \in Blocks : Evict(b) \/ Prefetch(b)
        BY <4>3 DEF Evict, Prefetch, control, tally
      <4>4. CASE UNCHANGED vars
        BY <4>4 DEF vars, control, tally
      <4>5. QED BY <1>2, <4>1, <4>2, <4>3, <4>4 DEF Next
    <3>2. QED BY <3>1 DEF JudgedCases!vars
  <2>3. QED BY <2>1, <2>2
<1>3. QED BY <1>1, <1>2, Invariance, PTL DEF Spec, JudgesEachCase, JudgedCases!Spec
=============================================================================

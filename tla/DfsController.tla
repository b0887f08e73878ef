---------------------------- MODULE DfsController ---------------------------
(***************************************************************************)
(* DfsController (src/model/modules/dfs_controller.h): the FSM of run_fsm, *)
(* one action per state, all evaluated on the signal values from before    *)
(* the clock edge.                                                         *)
(*                                                                         *)
(* visited_count_, island_count_ and overflow_ are copied to their output  *)
(* signals at the end of every call, so register and signal are one        *)
(* variable each.  The x and y of a coordinate are one pair.  TimingStats, *)
(* which no state or signal depends on, is left out.                       *)
(***************************************************************************)
EXTENDS Integers

VARIABLES
  rst_n, start, rows, cols,                          (* inputs             *)
  stk_out,                                           (* from Stack Manager *)
  ngen_valid_out, ngen_done, ngen_nbr,               (* from the generator *)
  vis_is_visited, grid_value,                        (* from the memories  *)
  busy, done,                                        (* outputs            *)
  stk_push, stk_pop, stk_in, ngen_valid_in, ngen_cur, vis_we, vis_addr,
  visited_count, island_count, overflow,
  state, cur_node, nbr_latch, scan, ngen_wait, is_new_island_start

pulses   == <<stk_push, stk_pop, ngen_valid_in, vis_we>>
counters == <<visited_count, island_count, overflow>>
outputs  == <<busy, done, pulses, stk_in, ngen_cur, vis_addr, counters>>
private  == <<state, cur_node, nbr_latch, scan, ngen_wait, is_new_island_start>>

States == {"Idle", "LoadStart", "Pop", "Visit", "GenNeighbors", "PushNeighbor",
           "ScanNext", "Done"}

cell_index(c) == c[2] * cols + c[1]

Init ==
  /\ busy = FALSE /\ done = FALSE
  /\ stk_push = FALSE /\ stk_pop = FALSE /\ stk_in = <<0, 0>>
  /\ ngen_valid_in = FALSE /\ ngen_cur = <<0, 0>>
  /\ vis_we = FALSE /\ vis_addr = 0
  /\ visited_count = 0 /\ island_count = 0 /\ overflow = FALSE
  /\ state = "Idle"
  /\ cur_node = <<0, 0>> /\ nbr_latch = <<0, 0>> /\ scan = <<0, 0>>
  /\ ngen_wait = FALSE /\ is_new_island_start = FALSE

(* Every call lowers the one-cycle requests a state does not raise again. *)
Raise(raised) ==
  /\ stk_push' = ("push" \in raised)
  /\ stk_pop' = ("pop" \in raised)
  /\ ngen_valid_in' = ("neighbor" \in raised)
  /\ vis_we' = ("mark" \in raised)

Reset ==
  /\ ~rst_n
  /\ Raise({})
  /\ busy' = FALSE /\ done' = FALSE
  /\ stk_in' = <<0, 0>> /\ ngen_cur' = <<0, 0>> /\ vis_addr' = 0
  /\ visited_count' = 0 /\ island_count' = 0 /\ overflow' = FALSE
  /\ state' = "Idle"
  /\ cur_node' = <<0, 0>> /\ nbr_latch' = <<0, 0>> /\ scan' = <<0, 0>>
  /\ ngen_wait' = FALSE /\ is_new_island_start' = FALSE

NewRun ==
  /\ state' = "LoadStart"
  /\ visited_count' = 0 /\ island_count' = 0 /\ overflow' = FALSE

Idle ==
  /\ state = "Idle"
  /\ Raise({})
  /\ busy' = FALSE /\ done' = FALSE
  /\ IF start THEN NewRun ELSE UNCHANGED <<state, counters>>
  /\ UNCHANGED <<stk_in, ngen_cur, vis_addr>>
  /\ UNCHANGED <<cur_node, nbr_latch, scan, ngen_wait, is_new_island_start>>

LoadStart ==
  /\ state = "LoadStart"
  /\ Raise({})
  /\ busy' = TRUE
  /\ scan' = <<0, 0>>
  /\ state' = "ScanNext"
  /\ UNCHANGED <<done, stk_in, ngen_cur, vis_addr, counters>>
  /\ UNCHANGED <<cur_node, nbr_latch, ngen_wait, is_new_island_start>>

FullNever ==              \* mutant: stk_full is not looked at before a push
  FALSE

Full == stk_out.full

(* Row-major; with cols = 0 every row still offers its first cell. *)
NextScan == IF scan[1] + 1 >= cols THEN <<0, scan[2] + 1>> ELSE <<scan[1] + 1, scan[2]>>

ScanNext ==
  /\ state = "ScanNext" /\ scan[2] < rows
  /\ IF Full
     THEN /\ overflow' = TRUE
          /\ Raise({})
          /\ UNCHANGED <<stk_in, is_new_island_start>>
     ELSE /\ Raise({"push"})
          /\ stk_in' = scan
          /\ is_new_island_start' = TRUE
          /\ UNCHANGED overflow
  /\ scan' = NextScan
  /\ state' = "Pop"
  /\ busy' = TRUE
  /\ UNCHANGED <<done, ngen_cur, vis_addr, visited_count, island_count>>
  /\ UNCHANGED <<cur_node, nbr_latch, ngen_wait>>

ScanEnd ==
  /\ state = "ScanNext" /\ scan[2] >= rows
  /\ Raise({})
  /\ state' = "Done"
  /\ busy' = TRUE
  /\ UNCHANGED <<done, stk_in, ngen_cur, vis_addr, counters>>
  /\ UNCHANGED <<cur_node, nbr_latch, scan, ngen_wait, is_new_island_start>>

PopEmpty ==
  /\ state = "Pop" /\ stk_out.empty
  /\ Raise({})
  /\ state' = "ScanNext"
  /\ busy' = TRUE
  /\ UNCHANGED <<done, stk_in, ngen_cur, vis_addr, counters>>
  /\ UNCHANGED <<cur_node, nbr_latch, scan, ngen_wait, is_new_island_start>>

Pop ==
  /\ state = "Pop" /\ ~stk_out.empty
  /\ Raise({"pop"})
  /\ cur_node' = stk_out.top
  /\ vis_addr' = cell_index(stk_out.top)
  /\ state' = "Visit"
  /\ busy' = TRUE
  /\ UNCHANGED <<done, stk_in, ngen_cur, counters>>
  /\ UNCHANGED <<nbr_latch, scan, ngen_wait, is_new_island_start>>

Skip == vis_is_visited \/ grid_value = 0

VisitSkip ==
  /\ state = "Visit" /\ Skip
  /\ Raise({})
  /\ state' = "Pop"
  /\ busy' = TRUE
  /\ UNCHANGED <<done, stk_in, ngen_cur, vis_addr, counters>>
  /\ UNCHANGED <<cur_node, nbr_latch, scan, ngen_wait, is_new_island_start>>

VisitEveryCellAnIsland == \* mutant: is_new_island_start_ is not lowered
  /\ state = "Visit" /\ ~Skip
  /\ Raise({"mark", "neighbor"})
  /\ vis_addr' = cell_index(cur_node)
  /\ visited_count' = visited_count + 1
  /\ island_count' = IF is_new_island_start THEN island_count + 1 ELSE island_count
  /\ ngen_cur' = cur_node /\ ngen_wait' = TRUE
  /\ state' = "GenNeighbors"
  /\ busy' = TRUE
  /\ UNCHANGED <<done, stk_in, overflow, cur_node, nbr_latch, scan, is_new_island_start>>

Visit ==
  /\ state = "Visit" /\ ~Skip
  /\ Raise({"mark", "neighbor"})
  /\ vis_addr' = cell_index(cur_node)
  /\ visited_count' = visited_count + 1
  /\ island_count' = IF is_new_island_start THEN island_count + 1 ELSE island_count
  /\ is_new_island_start' = FALSE
  /\ ngen_cur' = cur_node /\ ngen_wait' = TRUE
  /\ state' = "GenNeighbors"
  /\ busy' = TRUE
  /\ UNCHANGED <<done, stk_in, overflow, cur_node, nbr_latch, scan>>

(* The answer still on the wires belongs to the previous request. *)
GenWait ==
  /\ state = "GenNeighbors" /\ ngen_wait
  /\ Raise({})
  /\ ngen_wait' = FALSE
  /\ busy' = TRUE
  /\ UNCHANGED <<done, stk_in, ngen_cur, vis_addr, counters>>
  /\ UNCHANGED <<state, cur_node, nbr_latch, scan, is_new_island_start>>

GenLatch ==
  /\ state = "GenNeighbors" /\ ~ngen_wait /\ ngen_valid_out
  /\ Raise({})
  /\ nbr_latch' = ngen_nbr
  /\ state' = "PushNeighbor"
  /\ busy' = TRUE
  /\ UNCHANGED <<done, stk_in, ngen_cur, vis_addr, counters>>
  /\ UNCHANGED <<cur_node, scan, ngen_wait, is_new_island_start>>

(* No answer: either the generator is done, or the state is kept. *)
GenIdle ==
  /\ state = "GenNeighbors" /\ ~ngen_wait /\ ~ngen_valid_out
  /\ Raise({})
  /\ state' = IF ngen_done THEN "Pop" ELSE state
  /\ busy' = TRUE
  /\ UNCHANGED <<done, stk_in, ngen_cur, vis_addr, counters>>
  /\ UNCHANGED <<cur_node, nbr_latch, scan, ngen_wait, is_new_island_start>>

AskedUnlessFull ==        \* mutant: a dropped neighbour is the last one asked for
  IF Full THEN {} ELSE {"push", "neighbor"}

Asked == IF Full THEN {"neighbor"} ELSE {"push", "neighbor"}

DroppedSilently ==        \* mutant: a dropped neighbour raises no overflow
  overflow

Dropped == overflow \/ Full

PushNeighbor ==
  /\ state = "PushNeighbor"
  /\ Raise(Asked)
  /\ stk_in' = IF Full THEN stk_in ELSE nbr_latch
  /\ overflow' = Dropped
  /\ ngen_wait' = TRUE
  /\ state' = "GenNeighbors"
  /\ busy' = TRUE
  /\ UNCHANGED <<done, ngen_cur, vis_addr, visited_count, island_count>>
  /\ UNCHANGED <<cur_node, nbr_latch, scan, is_new_island_start>>

DoneHold ==
  /\ state = "Done" /\ ~start
  /\ Raise({})
  /\ busy' = FALSE /\ done' = TRUE
  /\ UNCHANGED <<stk_in, ngen_cur, vis_addr, counters>>
  /\ UNCHANGED private

DoneRestartKeepsDone ==   \* mutant: done stays up, as only Idle would lower it
  /\ state = "Done" /\ start
  /\ Raise({})
  /\ busy' = FALSE
  /\ NewRun
  /\ UNCHANGED <<done, stk_in, ngen_cur, vis_addr>>
  /\ UNCHANGED <<cur_node, nbr_latch, scan, ngen_wait, is_new_island_start>>

(* Idle is skipped on this path, so done is lowered here. *)
DoneRestart ==
  /\ state = "Done" /\ start
  /\ Raise({})
  /\ busy' = FALSE /\ done' = FALSE
  /\ NewRun
  /\ UNCHANGED <<stk_in, ngen_cur, vis_addr>>
  /\ UNCHANGED <<cur_node, nbr_latch, scan, ngen_wait, is_new_island_start>>

run_fsm ==
  \/ Reset
  \/ /\ rst_n
     /\ \/ Idle
        \/ LoadStart
        \/ ScanNext \/ ScanEnd
        \/ PopEmpty \/ Pop
        \/ VisitSkip \/ Visit
        \/ GenWait \/ GenLatch \/ GenIdle
        \/ PushNeighbor
        \/ DoneHold \/ DoneRestart
=============================================================================

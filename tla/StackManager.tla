---------------------------- MODULE StackManager ----------------------------
(***************************************************************************)
(* StackManager (src/model/modules/stack_manager.h).  One clock edge is    *)
(* Commit, the clk.pos method on the request the peer held before the      *)
(* edge, followed in the next delta by Preview, the method sensitive to    *)
(* the request signals: it runs only when one of them changed, and shows   *)
(* the stack as it will be once the new request has been committed.        *)
(*                                                                         *)
(* A coordinate pair in_x/in_y, top_x/top_y is one value; the four output  *)
(* signals are the record stk_out.                                         *)
(***************************************************************************)
EXTENDS Integers

CONSTANTS
  StackDepth,   (* config::kStackDepth            *)
  Coord,        (* coordinate pairs               *)
  Origin        (* the pair of two zeros          *)

ASSUME StackDepthAssumption == StackDepth \in Nat \ {0}
ASSUME OriginAssumption == Origin \in Coord

VARIABLES
  rst_n, clear, push_en, pop_en, in_xy,   (* input signals                *)
  storage, sp, peak,                      (* the registers                *)
  stk_out                                 (* top, empty, full, peak_depth *)

inputs    == <<rst_n, clear, push_en, pop_en, in_xy>>
registers == <<storage, sp, peak>>
vars      == <<inputs, registers, stk_out>>

Held == ~rst_n \/ clear

(***************************************************************************)
(* The clocked method.                                                     *)
(***************************************************************************)
ClearKeepsPeak ==         \* mutant: a new run inherits the old high-water mark
  Held /\ sp' = 0 /\ UNCHANGED <<storage, peak>>

CommitClear ==
  /\ Held
  /\ sp' = 0 /\ peak' = 0
  /\ UNCHANGED storage

RoomForAll == TRUE        \* mutant: no capacity test

Room == sp < StackDepth

PushPeak == IF sp + 1 > peak THEN sp + 1 ELSE peak

CommitPush ==
  /\ ~Held /\ push_en
  /\ IF Room
     THEN /\ storage' = [storage EXCEPT ![sp] = in_xy]
          /\ sp' = sp + 1
          /\ peak' = PushPeak
     ELSE UNCHANGED registers

CommitPop ==
  /\ ~Held /\ ~push_en
  /\ sp' = IF pop_en /\ sp > 0 THEN sp - 1 ELSE sp
  /\ UNCHANGED <<storage, peak>>

Commit == CommitClear \/ CommitPush \/ CommitPop

(***************************************************************************)
(* The combinational method: EffSp is the depth the request leads to.      *)
(***************************************************************************)
DoPush == push_en /\ sp < StackDepth
DoPop  == ~push_en /\ pop_en /\ sp > 0
EffSp  == CASE Held   -> 0
            [] ~Held /\ DoPush -> sp + 1
            [] ~Held /\ DoPop  -> sp - 1
            [] OTHER  -> sp
EffPeak == IF Held THEN 0 ELSE IF EffSp > peak THEN EffSp ELSE peak

Shown == [top        |-> IF EffSp = 0 THEN Origin
                         ELSE IF DoPush THEN in_xy ELSE storage[EffSp - 1],
          empty      |-> EffSp = 0,
          full       |-> ~Held /\ EffSp >= StackDepth,
          peak_depth |-> EffPeak]

PreviewOnPush ==          \* mutant: pop_en missing from the sensitivity list
  stk_out' = IF <<rst_n, clear, push_en, in_xy>>' = <<rst_n, clear, push_en, in_xy>>
             THEN stk_out ELSE Shown'

Preview == stk_out' = IF inputs' = inputs THEN stk_out ELSE Shown'

(***************************************************************************)
(* The module on its own.  The peer drives any request, and may reset or   *)
(* clear at any edge; it holds no push or pop for two edges in a row,      *)
(* which is what the pulse defaults of run_fsm (dfs_controller.h:151-155)  *)
(* and the order of its states guarantee (PreviewsFresh of DfsAccelerator  *)
(* checks that they do).                                                   *)
(***************************************************************************)
Pulsed == (push_en' \/ pop_en') => <<push_en, pop_en>>' # <<push_en, pop_en>>

Request ==
  /\ rst_n' \in BOOLEAN /\ clear' \in BOOLEAN
  /\ push_en' \in BOOLEAN /\ pop_en' \in BOOLEAN
  /\ in_xy' \in Coord
  /\ Pulsed

Init ==
  /\ rst_n = FALSE /\ clear = FALSE /\ push_en = FALSE /\ pop_en = FALSE
  /\ in_xy = Origin
  /\ storage = [i \in 0 .. StackDepth - 1 |-> Origin]
  /\ sp = 0 /\ peak = 0
  /\ stk_out = Shown

Next == Request /\ Commit /\ Preview

Spec == Init /\ [][Next]_vars

-----------------------------------------------------------------------------
(* The values the signals and registers take. *)
TypeOK ==
  /\ rst_n \in BOOLEAN /\ clear \in BOOLEAN
  /\ push_en \in BOOLEAN /\ pop_en \in BOOLEAN
  /\ in_xy \in Coord
  /\ storage \in [0 .. StackDepth - 1 -> Coord]
  /\ sp \in 0 .. StackDepth
  /\ peak \in 0 .. StackDepth
  /\ stk_out \in [top : Coord, empty : BOOLEAN, full : BOOLEAN,
                  peak_depth : 0 .. StackDepth]

(* The stack pointer never passes the high-water mark, which never passes  *)
(* the storage: commit() cannot write storage_ out of bounds, and the peak *)
(* the host reads is at least every depth the run reached.                 *)
PeakCoversDepth == sp <= peak /\ peak <= StackDepth

(* preview() is not sensitive to sp_ or storage_, yet at every edge the    *)
(* outputs are those of the stack with the present request applied: the    *)
(* "combinational preview" of stack_manager.h:4-10 is never stale.         *)
OutputsFresh == stk_out = Shown

(* The stack the peer may think it has, its latest request included.       *)
EffItems == [i \in 1 .. EffSp |-> IF DoPush /\ i = EffSp THEN in_xy ELSE storage[i - 1]]

Abs == INSTANCE BoundedStack WITH
         Depth <- StackDepth, Entry <- Coord, Nothing <- Origin,
         items <- EffItems, high <- EffPeak, view <- stk_out

(* Registered storage plus preview behave as a stack that takes a request  *)
(* the moment it is made, though the write lands one edge later.           *)
ImplementsBoundedStack == Abs!Spec
=============================================================================

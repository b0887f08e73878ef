------------------------- MODULE StackManager_proofs ------------------------
(***************************************************************************)
(* Proofs about StackManager, for every capacity and every set of          *)
(* coordinates.                                                            *)
(***************************************************************************)
EXTENDS StackManager, Sequences, TLAPS

(* What TypeOK says of everything but the outputs, and the two bounds. *)
Registers ==
  /\ rst_n \in BOOLEAN /\ clear \in BOOLEAN /\ push_en \in BOOLEAN /\ pop_en \in BOOLEAN
  /\ in_xy \in Coord
  /\ storage \in [0 .. StackDepth - 1 -> Coord]
  /\ sp \in 0 .. StackDepth /\ peak \in 0 .. StackDepth
  /\ sp <= peak

IInv == Registers /\ OutputsFresh

USE StackDepthAssumption, OriginAssumption

-----------------------------------------------------------------------------
(* The clocked method leads exactly to the depth, the high-water mark and  *)
(* the entries that the preview has already shown.                         *)
LEMMA CommitReachesPreview ==
  ASSUME Registers, Commit
  PROVE  /\ sp' = EffSp /\ peak' = EffPeak
         /\ storage' \in [0 .. StackDepth - 1 -> Coord]
         /\ \A i \in 0 .. EffSp - 1 : storage'[i] = IF DoPush /\ i = sp THEN in_xy ELSE storage[i]
<1> USE DEF EffSp, EffPeak, DoPush, DoPop, Registers
<1>1. CASE CommitClear
  BY <1>1 DEF CommitClear, Held
<1>2. CASE CommitPush
  BY <1>2 DEF CommitPush, Held, Room, PushPeak, registers
<1>3. CASE CommitPop
  BY <1>3 DEF CommitPop, Held
<1>4. QED BY <1>1, <1>2, <1>3 DEF Commit

(* EffSp and EffPeak stay within the storage. *)
LEMMA EffBounds ==
  ASSUME Registers
  PROVE  /\ EffSp \in 0 .. StackDepth /\ EffPeak \in 0 .. StackDepth /\ EffSp <= EffPeak
         /\ DoPush => EffSp = sp + 1 \/ Held
BY DEF Registers, EffSp, EffPeak, DoPush, DoPop, Held

(* What is shown is of the kind TypeOK says. *)
LEMMA ShownType ==
  ASSUME Registers
  PROVE  Shown \in [top : Coord, empty : BOOLEAN, full : BOOLEAN, peak_depth : 0 .. StackDepth]
<1>1. EffSp \in 0 .. StackDepth /\ EffPeak \in 0 .. StackDepth
  BY EffBounds
<1>2. EffSp # 0 => storage[EffSp - 1] \in Coord
  BY <1>1 DEF Registers
<1>3. QED BY <1>1, <1>2 DEF Shown, Registers

(* Without a request, and with the inputs as they were, the clocked method *)
(* changes nothing the preview shows.                                      *)
LEMMA QuietKeepsShown ==
  ASSUME Registers, Commit, Pulsed, inputs' = inputs
  PROVE  Shown' = Shown
<1>1. ~push_en /\ ~pop_en /\ ~push_en' /\ ~pop_en'
  BY DEF Pulsed, inputs, Registers
<1>2. UNCHANGED <<rst_n, clear, in_xy>>
  BY DEF inputs
<1>3. CASE Held
  <2>1. Held' /\ EffSp = 0 /\ EffSp' = 0 /\ EffPeak = 0 /\ EffPeak' = 0
    BY <1>2, <1>3 DEF Held, EffSp, EffPeak
  <2>2. QED BY <1>3, <2>1 DEF Shown
<1>4. CASE ~Held
  <2>1. UNCHANGED <<storage, sp, peak>>
    BY <1>1, <1>4 DEF Commit, CommitClear, CommitPush, CommitPop, Registers
  <2>2. ~Held' /\ ~DoPush /\ ~DoPush' /\ ~DoPop /\ ~DoPop'
    BY <1>1, <1>2, <1>4 DEF Held, DoPush, DoPop
  <2>3. EffSp = sp /\ EffSp' = sp' /\ EffPeak' = EffPeak
    BY <1>4, <2>1, <2>2 DEF EffSp, EffPeak
  <2>4. QED BY <1>4, <2>1, <2>2, <2>3 DEF Shown
<1>5. QED BY <1>3, <1>4

(* IInv is inductive. *)
LEMMA IInvStep == ASSUME IInv, [Next]_vars PROVE IInv'
<1>1. CASE Next
  <2>1. Registers'
    <3>1. sp' \in 0 .. StackDepth /\ peak' \in 0 .. StackDepth /\ sp' <= peak'
      BY <1>1, CommitReachesPreview, EffBounds DEF IInv, Next
    <3>2. storage' \in [0 .. StackDepth - 1 -> Coord]
      BY <1>1, CommitReachesPreview DEF IInv, Next
    <3>3. QED BY <1>1, <3>1, <3>2 DEF Next, Request, Registers
  <2>2. OutputsFresh'
    <3>1. CASE inputs' = inputs
      BY <1>1, <3>1, QuietKeepsShown DEF IInv, Next, Request, Preview, OutputsFresh
    <3>2. CASE inputs' # inputs
      BY <1>1, <3>2 DEF Next, Preview, OutputsFresh
    <3>3. QED BY <3>1, <3>2
  <2>3. QED BY <2>1, <2>2 DEF IInv
<1>2. CASE UNCHANGED vars
  BY <1>2 DEF vars, inputs, registers, IInv, Registers, OutputsFresh, Shown, EffSp, EffPeak,
              DoPush, DoPop, Held
<1>3. QED BY <1>1, <1>2

(* The invariant holds at first. *)
LEMMA IInvInit == ASSUME Init PROVE IInv
<1>1. Registers
  <2>1. sp \in 0 .. StackDepth /\ peak \in 0 .. StackDepth /\ sp <= peak
    BY DEF Init
  <2>2. storage \in [0 .. StackDepth - 1 -> Coord] /\ in_xy \in Coord
    BY DEF Init
  <2>3. QED BY <2>1, <2>2, Zenon DEF Init, Registers
<1>2. QED BY <1>1 DEF Init, IInv, OutputsFresh

(* It holds in every state. *)
LEMMA Invariance == Spec => []IInv
BY IInvInit, IInvStep, PTL DEF Spec

-----------------------------------------------------------------------------
(* Registers and outputs keep their types: sp_ never indexes storage_ out  *)
(* of bounds.                                                              *)
THEOREM TypeCorrect == Spec => []TypeOK
<1>1. IInv => TypeOK
  BY ShownType DEF IInv, Registers, OutputsFresh, TypeOK
<1>2. QED BY <1>1, Invariance, PTL

(* The high-water mark covers the depth, at every capacity. *)
THEOREM PeakIsHighWater == Spec => []PeakCoversDepth
<1>1. IInv => PeakCoversDepth
  BY DEF IInv, Registers, PeakCoversDepth
<1>2. QED BY <1>1, Invariance, PTL

(* The preview is never stale (stack_manager.h:4-10), although it is not   *)
(* sensitive to the registers it reads.                                    *)
THEOREM PreviewNeverStale == Spec => []OutputsFresh
<1>1. IInv => OutputsFresh
  BY DEF IInv
<1>2. QED BY <1>1, Invariance, PTL

-----------------------------------------------------------------------------
(***************************************************************************)
(* The refinement: what the registers and the request stand for, EffItems, *)
(* is a stack of BoundedStack.                                             *)
(***************************************************************************)
LEMMA ItemsType ==
  ASSUME Registers
  PROVE  /\ EffItems \in Seq(Coord) /\ Len(EffItems) = EffSp
         /\ \A i \in 1 .. EffSp :
              EffItems[i] = IF DoPush /\ i = EffSp THEN in_xy ELSE storage[i - 1]
<1>1. EffSp \in 0 .. StackDepth
  BY EffBounds
<1>2. \A i \in 1 .. EffSp : (IF DoPush /\ i = EffSp THEN in_xy ELSE storage[i - 1]) \in Coord
  BY <1>1 DEF Registers
<1>3. EffItems \in [1 .. EffSp -> Coord]
  BY <1>2 DEF EffItems
<1>4. QED BY <1>1, <1>3 DEF EffItems

(* The outputs are the abstract view of the effective stack. *)
LEMMA ShownIsView == ASSUME Registers PROVE Shown = Abs!View
<1>1. EffSp \in 0 .. StackDepth /\ EffItems \in Seq(Coord) /\ Len(EffItems) = EffSp
  BY EffBounds, ItemsType
<1>2. EffItems = <<>> <=> EffSp = 0
  BY <1>1
<1>3. (~Held /\ EffSp >= StackDepth) <=> Len(EffItems) >= StackDepth
  BY <1>1 DEF EffSp, Registers
<1>4. (IF EffSp = 0 THEN Origin ELSE IF DoPush THEN in_xy ELSE storage[EffSp - 1])
        = (IF EffItems = <<>> THEN Origin ELSE EffItems[Len(EffItems)])
  BY <1>1, <1>2, ItemsType
<1>5. QED BY <1>1, <1>2, <1>3, <1>4 DEF Shown, Abs!View

(* The clocked method turns the effective stack into the registered one.   *)
LEMMA CommitKeepsItems ==
  ASSUME Registers, Commit
  PROVE  \A i \in 1 .. EffSp : storage'[i - 1] = EffItems[i]
<1>1. EffSp \in 0 .. StackDepth /\ (DoPush => EffSp = sp + 1 \/ Held) /\ (Held => EffSp = 0)
  BY EffBounds DEF EffSp
<1>2. TAKE i \in 1 .. EffSp
<1>3. i - 1 \in 0 .. EffSp - 1 /\ ~Held
  BY <1>1
<1>4. storage'[i - 1] = IF DoPush /\ i - 1 = sp THEN in_xy ELSE storage[i - 1]
  BY <1>3, CommitReachesPreview
<1>5. DoPush => (i - 1 = sp <=> i = EffSp)
  BY <1>1, <1>3 DEF Registers
<1>6. QED BY <1>4, <1>5, ItemsType

(* The facts about the effective stack, as one state predicate: a step     *)
(* needs them before and after.                                            *)
Shape ==
  /\ EffItems \in Seq(Coord) /\ Len(EffItems) = EffSp /\ EffSp \in 0 .. StackDepth
  /\ \A i \in 1 .. EffSp :
       EffItems[i] = IF DoPush /\ i = EffSp THEN in_xy ELSE storage[i - 1]
  /\ Shown = Abs!View

(* The registers have their types. *)
LEMMA ShapeHolds == Registers => Shape
BY ItemsType, EffBounds, ShownIsView DEF Shape

(* Two facts of arithmetic, stated apart because the step below needs them *)
(* of primed variables.                                                    *)
LEMMA PredBelow == \A x, y \in Int : x <= y => x - 1 <= y
OBVIOUS

(* The order of the integers is total. *)
LEMMA NotAbove == \A x, y \in Int : x <= y => ~(x > y)
OBVIOUS

(* Every edge is a step of the abstract stack or leaves it as it is. *)
LEMMA StepRefines ==
  ASSUME IInv, IInv', Next
  PROVE  Abs!Next \/ UNCHANGED Abs!vars
<1>1. sp' = EffSp /\ peak' = EffPeak
  BY CommitReachesPreview DEF IInv, Next
<1>2. \A i \in 1 .. EffSp : storage'[i - 1] = EffItems[i]
  BY CommitKeepsItems DEF IInv, Next
<1>3. EffItems \in Seq(Coord) /\ Len(EffItems) = EffSp /\ EffSp \in 0 .. StackDepth
  BY ShapeHolds DEF IInv, Shape
<1>4. Shape'
  <2>1. Registers'
    BY DEF IInv
  <2>2. (Registers => Shape)'
    BY ShapeHolds, PTL
  <2>3. QED BY <2>1, <2>2
<1>5. /\ EffItems' \in Seq(Coord) /\ Len(EffItems') = EffSp' /\ EffSp' \in 0 .. StackDepth
      /\ \A i \in 1 .. EffSp' :
           EffItems'[i] = IF DoPush' /\ i = EffSp' THEN in_xy' ELSE storage'[i - 1]
  BY <1>4 DEF Shape
<1>6. stk_out = Abs!View /\ stk_out' = Abs!View'
  BY <1>4, ShapeHolds DEF Shape, IInv, OutputsFresh
<1>7. sp' <= peak' /\ sp' \in 0 .. StackDepth /\ peak' \in 0 .. StackDepth /\ in_xy' \in Coord
  BY DEF IInv, Registers
<1>8. CASE Held'
  <2>1. EffSp' = 0 /\ EffPeak' = 0
    BY <1>8 DEF EffSp, EffPeak
  <2>2. EffItems' = <<>>
    BY <1>5, <2>1
  <2>3. QED BY <1>6, <2>1, <2>2 DEF Abs!Next, Abs!Clear
<1>9. CASE ~Held' /\ DoPush'
  <2>1. EffSp' = sp' + 1 /\ sp' < StackDepth
    BY <1>7, <1>9 DEF EffSp, DoPush, DoPop
  <2>2. EffItems' = Append(EffItems, in_xy')
    BY <1>1, <1>2, <1>3, <1>5, <1>7, <1>9, <2>1
  <2>3. EffPeak' = IF EffSp' > peak' THEN EffSp' ELSE peak'
    BY <1>9 DEF EffPeak
  <2>4. Abs!Push(in_xy')
    BY <1>1, <1>3, <1>5, <2>1, <2>2, <2>3 DEF Abs!Push
  <2>5. QED BY <1>6, <1>7, <2>4 DEF Abs!Next
<1>10. CASE ~Held' /\ DoPop'
  <2>1. EffSp' = sp' - 1 /\ sp' > 0 /\ ~DoPush'
    BY <1>10 DEF EffSp, DoPop, DoPush
  <2>2. EffItems' = SubSeq(EffItems, 1, Len(EffItems) - 1)
    <3>1. /\ SubSeq(EffItems, 1, Len(EffItems) - 1) \in Seq(Coord)
          /\ Len(SubSeq(EffItems, 1, Len(EffItems) - 1)) = EffSp'
      BY <1>1, <1>3, <2>1
    <3>2. \A i \in 1 .. EffSp' :
            EffItems'[i] = SubSeq(EffItems, 1, Len(EffItems) - 1)[i]
      BY <1>1, <1>2, <1>3, <1>5, <2>1
    <3>3. QED BY <1>5, <3>1, <3>2
  <2>3. EffPeak' = peak'
    <3>1. sp' \in Int /\ peak' \in Int /\ sp' <= peak'
      BY <1>7
    <3>2. EffSp' <= peak'
      BY <2>1, <3>1, PredBelow
    <3>3. EffSp' \in Int
      BY <1>5
    <3>4. ~(EffSp' > peak')
      BY <3>1, <3>2, <3>3, NotAbove
    <3>5. QED BY <1>10, <3>4 DEF EffPeak
  <2>4. EffItems # <<>>
    BY <1>1, <1>3, <2>1
  <2>5. QED BY <1>1, <1>6, <2>2, <2>3, <2>4 DEF Abs!Next, Abs!Pop
<1>11. CASE ~Held' /\ ~DoPush' /\ ~DoPop'
  <2>1. EffSp' = sp'
    BY <1>11 DEF EffSp
  <2>2. EffItems' = EffItems
    BY <1>1, <1>2, <1>3, <1>5, <1>11, <2>1
  <2>3. EffPeak' = EffPeak
    <3>1. ~(EffSp' > peak')
      BY <1>7, <2>1
    <3>2. EffPeak' = peak'
      BY <1>11, <3>1 DEF EffPeak
    <3>3. QED BY <1>1, <3>2
  <2>4. Abs!View' = Abs!View
    BY <2>2, <2>3 DEF Abs!View
  <2>5. QED BY <1>6, <2>2, <2>3, <2>4 DEF Abs!vars
<1>12. QED BY <1>8, <1>9, <1>10, <1>11

(* Registers and preview together are a bounded LIFO that takes a request  *)
(* the moment it is made, at every capacity.                               *)
THEOREM StackRefinesLifo == Spec => ImplementsBoundedStack
<1>1. Init => Abs!Init
  <2>1. SUFFICES ASSUME Init PROVE Abs!Init
    OBVIOUS
  <2>2. IInv /\ Registers
    BY <2>1, IInvInit DEF IInv
  <2>3. EffSp = 0 /\ EffPeak = 0
    BY <2>1 DEF Init, Held, EffSp, EffPeak
  <2>4. EffItems = <<>>
    BY <2>2, <2>3, ItemsType
  <2>5. stk_out = Abs!View
    BY <2>2, ShownIsView DEF IInv, OutputsFresh
  <2>6. QED BY <2>3, <2>4, <2>5 DEF Abs!Init
<1>2. IInv /\ IInv' /\ [Next]_vars => [Abs!Next]_(Abs!vars)
  <2>1. ASSUME IInv, UNCHANGED vars PROVE UNCHANGED Abs!vars
    BY <2>1 DEF vars, inputs, registers, Abs!vars, EffItems, EffSp, EffPeak, DoPush, DoPop,
                Held
  <2>2. QED BY <2>1, StepRefines
<1>3. QED BY <1>1, <1>2, Invariance, PTL DEF Spec, ImplementsBoundedStack, Abs!Spec
=============================================================================

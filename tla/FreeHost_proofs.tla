--------------------------- MODULE FreeHost_proofs --------------------------
(***************************************************************************)
(* Proofs about the accelerator under a host that keeps to no protocol,    *)
(* for every grid size, stack depth and number of accesses.                *)
(***************************************************************************)
EXTENDS FreeHost, DfsAccelerator_proofs

USE SizesAssumption, ValuesAssumption

(* A host that yields after every access leaves the port settled before    *)
(* the next one.                                                           *)
PortFresh == Yields => GridFresh

IInv == TypeOK /\ WiresFresh /\ PortFresh

-----------------------------------------------------------------------------
(* An access, allowed or not, is one of the register writes of the model.  *)
LEMMA WriteIs ==
  ASSUME Write
  PROVE  /\ \/ \E enable, start \in BOOLEAN : WriteControl(enable, start)
            \/ \E n \in Nat : WriteRows(n) \/ WriteCols(n) \/ WriteParams(n)
            \/ \E n \in Nat, v \in Int : WriteCell(n, v)
         /\ NotTheGrid \/ \E n \in Nat, v \in Int : WriteCell(n, v)
         /\ UNCHANGED Inner /\ UNCHANGED <<grid_value, grid_seen>>
<1>1. CASE \E enable, start \in BOOLEAN : WriteControl(enable, start)
  BY <1>1 DEF WriteControl, NotTheGrid, gridmem
<1>2. CASE \E n \in Sizes : WriteRows(n) \/ WriteCols(n)
  BY <1>2 DEF WriteRows, WriteCols, NotTheGrid, gridmem
<1>3. CASE \E n \in {4, 8} : WriteParams(n)
  BY <1>3 DEF WriteParams, NotTheGrid, gridmem
<1>4. CASE \E n \in 0 .. MaxCells - 1, v \in Values : WriteCell(n, v)
  BY <1>4 DEF WriteCell
<1>5. QED BY <1>1, <1>2, <1>3, <1>4 DEF Write, FreeWrite

(* Every edge, access and reset keeps the invariant. *)
LEMMA IInvStep == ASSUME IInv, [Next]_allvars PROVE IInv'
<1>1. CASE Clock
  <2>1. TypeOK' /\ WiresFresh'
    BY <1>1, TypeTick, TickStep DEF Clock, IInv
  <2>2. PortFresh'
    BY <1>1, GridTick DEF Clock, Tick, IInv, PortFresh
  <2>3. QED BY <2>1, <2>2 DEF IInv
<1>2. CASE Delta
  <2>1. TypeOK' /\ WiresFresh'
    BY <1>2, TypeAccess, HostStep DEF Delta, Settle, Inner, results, IInv
  <2>2. PortFresh'
    BY <1>2, GridSettle DEF Delta, IInv, PortFresh
  <2>3. QED BY <2>1, <2>2 DEF IInv
<1>3. CASE Write
  <2>1. TypeOK'
    BY <1>3, WriteIs, TypeAccess DEF IInv
  <2>2. WiresFresh'
    BY <1>3, WriteIs, HostStep DEF Inner, results, IInv
  <2>3. PortFresh'
    <3>1. SUFFICES ASSUME Yields PROVE GridFresh'
      BY DEF PortFresh
    <3>2. grid_seen = Grid!inputs
      BY <1>3, <3>1 DEF Write, Settled
    <3>3. UNCHANGED vis_addr
      BY <1>3, WriteIs DEF Inner, controller
    <3>4. QED BY <1>3, <3>1, <3>2, <3>3, WriteIs, GridAccess DEF IInv, PortFresh
  <2>4. QED BY <2>1, <2>2, <2>3 DEF IInv
<1>4. CASE PullReset
  <2>1. SetReset(~rst_n) /\ (~rst_n) \in BOOLEAN
    BY <1>4 DEF PullReset
  <2>2. TypeOK' /\ WiresFresh'
    BY <2>1, TypeAccess, ResetStep DEF IInv
  <2>3. PortFresh'
    BY <2>1 DEF SetReset, IInv, PortFresh, GridFresh, Grid!inputs, Grid!Shown, port, gridmem, controller
  <2>4. QED BY <2>2, <2>3 DEF IInv
<1>5. CASE UNCHANGED allvars
  <2>1. UNCHANGED vars
    BY <1>5 DEF allvars
  <2>2. TypeOK' /\ WiresFresh'
    BY <2>1, TypeAccess, HostStep DEF vars, handshake, results, IInv
  <2>3. PortFresh'
    BY <2>1 DEF vars, IInv, PortFresh, GridFresh, Grid!inputs, Grid!Shown, port, gridmem, controller
  <2>4. QED BY <2>2, <2>3 DEF IInv
<1>6. QED BY <1>1, <1>2, <1>3, <1>4, <1>5 DEF Next

(* It holds when the host is built. *)
LEMMA IInvInit == FreeInit => IInv
<1>1. SUFFICES ASSUME FreeInit PROVE IInv
  OBVIOUS
<1>2. PICK r, c \in Sizes, p \in {4, 8}, g \in [0 .. MaxCells - 1 -> Values] :
        InitWith(TRUE, r, c, p, g)
  BY <1>1 DEF FreeInit
<1>3. r \in Nat /\ c \in Nat /\ p \in Nat
  <2>1. r \in Nat /\ c \in Nat
    BY Zenon
  <2>2. QED BY <2>1
<1>4. g \in [0 .. MaxCells - 1 -> Int]
  <2>1. \A a \in 0 .. MaxCells - 1 : g[a] \in Int
    BY Zenon
  <2>2. QED BY <2>1
<1>5. TypeOK
  BY <1>2, <1>3, <1>4, TypeInit
<1>6. GridFresh
  BY <1>2, <1>4, FreshInit
<1>7. WiresFresh
  BY <1>2, <1>4, FreshInit
<1>8. QED BY <1>5, <1>6, <1>7 DEF IInv, PortFresh

(* So it holds in every state. *)
LEMMA Invariance == Spec => []IInv
BY IInvInit, IInvStep, PTL DEF Spec

-----------------------------------------------------------------------------
(* No write order, no reset and no value in a register takes a signal or a *)
(* register out of its range: sp_ and peak_ stay within the storage, the   *)
(* directions within their table.                                          *)
THEOREM TypesKept == Spec => []TypeOK
<1>1. IInv => TypeOK
  BY DEF IInv
<1>2. QED BY <1>1, Invariance, PTL

(* At every edge the FSM finds fresh previews on its wires (the header of  *)
(* dfs_controller.h), if the host yields after its accesses as tlm_bus.h   *)
(* does: the grid's preview may be stale otherwise.                        *)
THEOREM PreviewsAreFresh == ASSUME Yields PROVE Spec => []PreviewsFresh
<1>1. IInv => PreviewsFresh
  BY DEF IInv, PreviewsFresh, WiresFresh, StackFresh, MarksFresh, PortFresh, GridFresh
<1>2. QED BY <1>1, Invariance, PTL

(* No write order, and no reset, makes the FSM ask the Stack Manager for a *)
(* push it has no room for: commit() drops nothing (stack_manager.h:65).   *)
THEOREM NoPushIsLost == Spec => []NoPushLost
<1>1. IInv => NoPushLost
  BY DEF IInv, WiresFresh, PushFits, NoPushLost
<1>2. QED BY <1>1, Invariance, PTL

(* The host never reads Busy and Done together (dfs_accelerator.h:231).    *)
THEOREM NeverBusyAndDone == Spec => []BusyOrDone
<1>1. IInv => BusyOrDone
  BY DEF IInv, WiresFresh, DoneKept, BusyOrDone, Status
<1>2. QED BY <1>1, Invariance, PTL
=============================================================================

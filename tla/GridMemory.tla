----------------------------- MODULE GridMemory -----------------------------
(***************************************************************************)
(* GridMemory (src/model/modules/grid_memory.h).  The host fills it twice  *)
(* over: through the backdoor load_cell, at once, and through the write    *)
(* port, of which only the last value before a delta survives.  Preview    *)
(* reruns when the port or the read address differs from what it saw last  *)
(* (seen); it is not sensitive to the cells.                               *)
(***************************************************************************)
EXTENDS Integers

CONSTANT MaxCells   (* config::kMaxCells *)

VARIABLES
  we, waddr, wdata, raddr,  (* input signals                         *)
  cells,                    (* the memory                            *)
  rdata,                    (* output signal                         *)
  seen                      (* the inputs of the last Preview        *)

inputs == <<we, waddr, wdata, raddr>>

Addresses == 0 .. MaxCells - 1

load_cell(index, value) ==
  cells' = IF index \in Addresses THEN [cells EXCEPT ![index] = value] ELSE cells

Commit ==
  cells' = IF we /\ waddr \in Addresses THEN [cells EXCEPT ![waddr] = wdata] ELSE cells

(* An address outside the memory reads as 0, impassable. *)
Shown == IF we /\ waddr = raddr /\ raddr \in Addresses THEN wdata
         ELSE IF raddr \in Addresses THEN cells[raddr] ELSE 0

PreviewOnWrite ==         \* mutant: raddr missing from the sensitivity list
  /\ rdata' = IF <<we, waddr, wdata>>' = <<seen[1], seen[2], seen[3]>> THEN rdata ELSE Shown'
  /\ seen' = inputs'

Preview ==
  /\ rdata' = IF inputs' = seen THEN rdata ELSE Shown'
  /\ seen' = inputs'
=============================================================================

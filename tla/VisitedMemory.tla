---------------------------- MODULE VisitedMemory ---------------------------
(***************************************************************************)
(* VisitedMemory (src/model/modules/visited_memory.h): one bit per cell,   *)
(* cleared by the start pulse.  Same two methods as the Stack Manager: a   *)
(* clocked Commit and a Preview sensitive to the inputs, not to the bits.  *)
(* wdata is tied to true by the accelerator, so it is not a variable.      *)
(***************************************************************************)
EXTENDS Integers

CONSTANT MaxCells   (* config::kMaxCells *)

VARIABLES
  clear, we, addr,  (* input signals: clear, we, addr *)
  visited,          (* the memory                     *)
  rdata             (* output signal                  *)

inputs == <<clear, we, addr>>

Addresses == 0 .. MaxCells - 1

CommitNeverClears ==      \* mutant: marks of the previous run survive
  visited' = IF we /\ addr \in Addresses THEN [visited EXCEPT ![addr] = TRUE] ELSE visited

Commit ==
  visited' = IF clear THEN [a \in Addresses |-> FALSE]
             ELSE IF we /\ addr \in Addresses THEN [visited EXCEPT ![addr] = TRUE]
             ELSE visited

(* An address outside the memory reads as not visited. *)
Shown == ~clear /\ addr \in Addresses /\ (we \/ visited[addr])

PreviewOnAddr ==          \* mutant: we missing from the sensitivity list
  rdata' = IF <<clear, addr>>' = <<clear, addr>> THEN rdata ELSE Shown'

Preview == rdata' = IF inputs' = inputs THEN rdata ELSE Shown'

(* The backdoor of the primitive bridge. *)
peek(index) == index \in Addresses /\ visited[index]

poke(index, value) ==
  visited' = IF index \in Addresses THEN [visited EXCEPT ![index] = value] ELSE visited

clear_all == visited' = [a \in Addresses |-> FALSE]
=============================================================================

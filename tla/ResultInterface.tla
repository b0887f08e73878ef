--------------------------- MODULE ResultInterface --------------------------
(***************************************************************************)
(* ResultInterface (src/model/modules/result_interface.h): copies the      *)
(* counters into the host-visible result for as long as done holds.        *)
(* result_.valid always equals the result_valid signal and is not kept.    *)
(***************************************************************************)
EXTENDS Integers

VARIABLES
  rst_n, done, result_value, visited_cells, peak_stack_depth,  (* inputs    *)
  result,                                                      (* register  *)
  result_valid                                                 (* output    *)

NoResult == [value |-> 0, visited_cells |-> 0, peak_stack_depth |-> 0]

Counters == [value |-> result_value, visited_cells |-> visited_cells,
             peak_stack_depth |-> peak_stack_depth]

Latch ==
  /\ result' = IF ~rst_n THEN NoResult ELSE IF done THEN Counters ELSE result
  /\ result_valid' = (rst_n /\ done)
=============================================================================

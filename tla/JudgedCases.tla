----------------------------- MODULE JudgedCases -----------------------------
(***************************************************************************)
(* What a board tool promises: it goes through its cases in order and      *)
(* judges each one by how the kernel's result for that very case compares  *)
(* with the expected one, "ok", "counters" (only the three counters        *)
(* differ) or "value".                                                     *)
(***************************************************************************)
EXTENDS Integers, Sequences

VARIABLES
  quality,      (* of each case                                  *)
  counted,      (* whether the tool tells counters apart         *)
  todo, failures, mismatches

vars == <<quality, counted, todo, failures, mismatches>>

Init == failures = 0 /\ mismatches = 0

Judge ==
  /\ todo # <<>>
  /\ LET q == quality[Head(todo)]
     IN  /\ failures' = failures + IF q = "value" THEN 1 ELSE 0
         /\ mismatches' = mismatches + IF q = "counters" /\ counted THEN 1 ELSE 0
  /\ todo' = Tail(todo)
  /\ UNCHANGED <<quality, counted>>

Spec == Init /\ [][Judge]_vars
=============================================================================

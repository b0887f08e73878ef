---------------------------- MODULE BoundedStack ----------------------------
(***************************************************************************)
(* What the Stack Manager promises its peer: a LIFO of at most Depth       *)
(* entries that drops a push once it is full, remembers how deep it has    *)
(* been since it was last emptied, and always shows its top, its two       *)
(* limits and that high-water mark.                                        *)
(***************************************************************************)
EXTENDS Integers, Sequences

CONSTANTS
  Depth,   (* capacity                                  *)
  Entry,   (* what is stacked                           *)
  Nothing  (* shown as the top of an empty stack        *)

VARIABLES
  items,   (* the stack, top last                       *)
  high,    (* the largest Len(items) since Clear        *)
  view     (* what the peer sees                        *)

vars == <<items, high, view>>

View == [top        |-> IF items = <<>> THEN Nothing ELSE items[Len(items)],
         empty      |-> items = <<>>,
         full       |-> Len(items) >= Depth,
         peak_depth |-> high]

Init == items = <<>> /\ high = 0 /\ view = View

Clear == items' = <<>> /\ high' = 0

Push(e) ==
  /\ Len(items) < Depth
  /\ items' = Append(items, e)
  /\ high' = IF Len(items') > high THEN Len(items') ELSE high

Pop ==
  /\ items # <<>>
  /\ items' = SubSeq(items, 1, Len(items) - 1)
  /\ UNCHANGED high

Next == /\ Clear \/ Pop \/ \E e \in Entry : Push(e)
        /\ view' = View'

Spec == Init /\ [][Next]_vars
=============================================================================

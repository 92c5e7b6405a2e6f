---------------------------- MODULE BoundedFifo ----------------------------
(***************************************************************************)
(* The abstract queue behind the simulator's circular buffers: items enter *)
(* at the back while there is room and leave at the front, so they leave   *)
(* in the order they entered and none is lost, repeated or overtaken.      *)
(* FreeList (free_list.c) is shown to implement it through a refinement    *)
(* mapping for q.                                                          *)
(***************************************************************************)
EXTENDS Integers, Sequences

CONSTANTS
  Item,      \* what the queue holds
  Capacity   \* how many items it has room for

VARIABLE q   \* the items in the queue, the oldest first

Empty == q = << >>

Enqueue(x) == /\ Len(q) < Capacity
              /\ q' = Append(q, x)

Dequeue == /\ q # << >>
           /\ q' = Tail(q)

Next == \/ \E x \in Item : Enqueue(x)
        \/ Dequeue

Spec == Empty /\ [][Next]_q
============================================================================

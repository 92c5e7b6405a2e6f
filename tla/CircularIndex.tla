--------------------------- MODULE CircularIndex ---------------------------
(***************************************************************************)
(* What a pair of indices (head, tail) says about a circular array of n    *)
(* slots in this simulator: both are -1 when the queue is empty, otherwise *)
(* head is the slot of the oldest element and tail that of the newest, and *)
(* both move up by one modulo n.  free_list.c, rob.c and lsq.c each        *)
(* implement this by hand; the modules that model them share this reading. *)
(***************************************************************************)
EXTENDS Integers

(* The pair is one the three files can leave behind. *)
RingIndices(head, tail, n) ==
  /\ head \in -1 .. n - 1
  /\ tail \in -1 .. n - 1
  /\ head = -1 <=> tail = -1

RingCount(head, tail, n) ==
  IF head = -1 THEN 0
  ELSE IF head <= tail THEN tail - head + 1
  ELSE tail - head + 1 + n

(* The slot of the k-th oldest element. *)
RingSlot(head, k, n) == (head + k - 1) % n

(* The slots in use. *)
RingSlots(head, tail, n) ==
  IF head = -1 THEN {}
  ELSE IF head <= tail THEN head .. tail
  ELSE (head .. n - 1) \cup (0 .. tail)
=============================================================================

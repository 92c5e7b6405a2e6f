------------------------ MODULE CircularIndexProofs ------------------------
(***************************************************************************)
(* Facts about the indices of a circular array, for every size: where the  *)
(* elements are, and what an insertion and a removal do to their order.    *)
(***************************************************************************)
EXTENDS CircularIndex, Sequences, SequenceTheorems, TLAPS

(* The index that follows x. *)
LEMMA RingNext ==
  ASSUME NEW n \in Nat \ {0}, NEW x \in -1 .. n - 1
  PROVE  (x + 1) % n = IF x = n - 1 THEN 0 ELSE x + 1
  OBVIOUS

LEMMA RingSlotIs ==
  ASSUME NEW n \in Nat \ {0}, NEW h \in 0 .. n - 1, NEW k \in 1 .. n
  PROVE  RingSlot(h, k, n) = IF h + k - 1 < n THEN h + k - 1 ELSE h + k - 1 - n
  BY DEF RingSlot

LEMMA RingCountBounds ==
  ASSUME NEW n \in Nat \ {0}, NEW h, NEW t, RingIndices(h, t, n)
  PROVE  /\ RingCount(h, t, n) \in 0 .. n
         /\ RingCount(h, t, n) = 0 <=> h = -1
         /\ RingCount(h, t, n) = n <=> h = t + 1 \/ (h = 0 /\ t = n - 1)
  BY DEF RingCount, RingIndices

(* The elements are in the slots in use, all in different ones. *)
LEMMA RingSlotInUse ==
  ASSUME NEW n \in Nat \ {0}, NEW h, NEW t, RingIndices(h, t, n),
         NEW k \in 1 .. RingCount(h, t, n)
  PROVE  /\ RingSlot(h, k, n) \in RingSlots(h, t, n)
         /\ RingSlot(h, k, n) \in 0 .. n - 1
<1>1. h \in 0 .. n - 1 /\ k \in 1 .. n
  BY DEF RingIndices, RingCount
<1>. QED
  BY <1>1, RingSlotIs DEF RingIndices, RingCount, RingSlots

(* Every slot in use has its place in the order, and only one.             *)
LEMMA RingPlaces ==
  ASSUME NEW n \in Nat \ {0}, NEW h, NEW t, RingIndices(h, t, n)
  PROVE  /\ \A i \in RingSlots(h, t, n) : \E k \in 1 .. RingCount(h, t, n) : i = RingSlot(h, k, n)
         /\ \A j, k \in 1 .. RingCount(h, t, n) : RingSlot(h, j, n) = RingSlot(h, k, n) => j = k
         /\ h # -1 => /\ 1 \in 1 .. RingCount(h, t, n)
                      /\ RingCount(h, t, n) \in 1 .. RingCount(h, t, n)
                      /\ RingSlot(h, 1, n) = h
                      /\ RingSlot(h, RingCount(h, t, n), n) = t
<1>. DEFINE c == RingCount(h, t, n)
<1>1. c \in 0 .. n /\ (h # -1 => h \in 0 .. n - 1 /\ t \in 0 .. n - 1 /\ c \in 1 .. n)
  BY RingCountBounds DEF RingIndices
<1>2. \A k \in 1 .. c : RingSlot(h, k, n) = IF h + k - 1 < n THEN h + k - 1 ELSE h + k - 1 - n
  <2>. SUFFICES ASSUME NEW k \in 1 .. c
                PROVE  RingSlot(h, k, n) = IF h + k - 1 < n THEN h + k - 1 ELSE h + k - 1 - n
    OBVIOUS
  <2>1. h \in 0 .. n - 1 /\ k \in 1 .. n
    BY <1>1 DEF RingCount
  <2>. QED BY <2>1, RingSlotIs
<1>3. ASSUME NEW i \in RingSlots(h, t, n)
      PROVE  \E k \in 1 .. c : i = RingSlot(h, k, n)
  <2>1. h # -1 /\ i \in 0 .. n - 1
    BY DEF RingSlots, RingIndices
  <2>2. PICK k \in Int : k = IF i >= h THEN i - h + 1 ELSE i - h + 1 + n
    BY <1>1, <2>1
  <2>3. k \in 1 .. c
    BY <1>1, <2>1, <2>2 DEF RingSlots, RingCount
  <2>4. i = IF h + k - 1 < n THEN h + k - 1 ELSE h + k - 1 - n
    BY <1>1, <2>1, <2>2
  <2>. QED BY <1>2, <2>3, <2>4
<1>4. ASSUME NEW j \in 1 .. c, NEW k \in 1 .. c, RingSlot(h, j, n) = RingSlot(h, k, n)
      PROVE  j = k
  <2>1. h \in 0 .. n - 1 /\ j \in 1 .. n /\ k \in 1 .. n
    BY <1>1 DEF RingCount
  <2>2. (IF h + j - 1 < n THEN h + j - 1 ELSE h + j - 1 - n)
          = IF h + k - 1 < n THEN h + k - 1 ELSE h + k - 1 - n
    BY <1>2, <1>4
  <2>. QED BY <2>1, <2>2
<1>5. ASSUME h # -1
      PROVE  1 \in 1 .. c /\ c \in 1 .. c /\ RingSlot(h, 1, n) = h /\ RingSlot(h, c, n) = t
  <2>1. 1 \in 1 .. c /\ c \in 1 .. c
    BY <1>1, <1>5
  <2>2. RingSlot(h, 1, n) = h
    BY <1>1, <1>2, <1>5, <2>1
  <2>3. RingSlot(h, c, n) = IF h + c - 1 < n THEN h + c - 1 ELSE h + c - 1 - n
    BY <1>2, <2>1
  <2>4. RingSlot(h, c, n) = t
    BY <1>1, <1>5, <2>3 DEF RingCount
  <2>. QED BY <2>1, <2>2, <2>4
<1>. QED BY <1>3, <1>4, <1>5

(* An insertion leaves every element at its place in the order and puts    *)
(* the new one after them.                                                 *)
LEMMA RingInsert ==
  ASSUME NEW n \in Nat \ {0}, NEW h, NEW t, RingIndices(h, t, n),
         RingCount(h, t, n) < n,
         NEW h2, h2 = IF h = -1 THEN 0 ELSE h,
         NEW t2, t2 = (t + 1) % n
  PROVE  /\ RingIndices(h2, t2, n)
         /\ t2 \in 0 .. n - 1
         /\ RingCount(h2, t2, n) = RingCount(h, t, n) + 1
         /\ t2 \notin RingSlots(h, t, n)
         /\ RingSlots(h2, t2, n) = RingSlots(h, t, n) \cup {t2}
         /\ RingSlot(h2, RingCount(h, t, n) + 1, n) = t2
         /\ \A k \in 1 .. RingCount(h, t, n) : RingSlot(h2, k, n) = RingSlot(h, k, n)
<1>1. t2 = IF t = n - 1 THEN 0 ELSE t + 1
  BY RingNext DEF RingIndices
<1>2. /\ RingIndices(h2, t2, n)
      /\ t2 \in 0 .. n - 1
      /\ RingCount(h2, t2, n) = RingCount(h, t, n) + 1
  BY <1>1 DEF RingIndices, RingCount
<1>3. t2 \notin RingSlots(h, t, n)
  BY <1>1 DEF RingIndices, RingCount, RingSlots
<1>4. RingSlots(h2, t2, n) = RingSlots(h, t, n) \cup {t2}
  BY <1>1 DEF RingIndices, RingCount, RingSlots
<1>5. RingSlot(h2, RingCount(h, t, n) + 1, n) = t2
  <2>1. h2 \in 0 .. n - 1 /\ RingCount(h, t, n) + 1 \in 1 .. n
    BY RingCountBounds DEF RingIndices
  <2>. QED BY <1>1, <2>1, RingSlotIs DEF RingIndices, RingCount
<1>6. \A k \in 1 .. RingCount(h, t, n) : RingSlot(h2, k, n) = RingSlot(h, k, n)
  BY DEF RingCount
<1>. QED BY <1>2, <1>3, <1>4, <1>5, <1>6

(* A removal moves every element but the oldest up by one place.           *)
LEMMA RingRemove ==
  ASSUME NEW n \in Nat \ {0}, NEW h, NEW t, RingIndices(h, t, n), h # -1,
         NEW h2, h2 = IF h = t THEN -1 ELSE (h + 1) % n,
         NEW t2, t2 = IF h = t THEN -1 ELSE t
  PROVE  /\ RingIndices(h2, t2, n)
         /\ RingCount(h2, t2, n) = RingCount(h, t, n) - 1
         /\ RingSlots(h2, t2, n) = RingSlots(h, t, n) \ {h}
         /\ \A k \in 1 .. RingCount(h, t, n) - 1 : RingSlot(h2, k, n) = RingSlot(h, k + 1, n)
<1>1. h # t => h2 = IF h = n - 1 THEN 0 ELSE h + 1
  BY RingNext DEF RingIndices
<1>2. /\ RingIndices(h2, t2, n)
      /\ RingCount(h2, t2, n) = RingCount(h, t, n) - 1
  BY <1>1 DEF RingIndices, RingCount
<1>3. RingSlots(h2, t2, n) = RingSlots(h, t, n) \ {h}
  BY <1>1 DEF RingIndices, RingSlots
<1>4. ASSUME NEW k \in 1 .. RingCount(h, t, n) - 1
      PROVE  RingSlot(h2, k, n) = RingSlot(h, k + 1, n)
  <2>1. /\ h2 \in 0 .. n - 1 /\ h \in 0 .. n - 1 /\ h # t
        /\ k \in 1 .. n /\ k + 1 \in 1 .. n
    BY <1>1 DEF RingIndices, RingCount
  <2>2. /\ RingSlot(h2, k, n) = IF h2 + k - 1 < n THEN h2 + k - 1 ELSE h2 + k - 1 - n
        /\ RingSlot(h, k + 1, n) = IF h + k < n THEN h + k ELSE h + k - n
    BY <2>1, RingSlotIs
  <2>. QED BY <1>1, <2>1, <2>2
<1>. QED BY <1>2, <1>3, <1>4

(* An insertion, when the elements are read off as a sequence.             *)
LEMMA AppendIs ==
  ASSUME NEW S, NEW s \in Seq(S), NEW e \in S,
         NEW t \in [1 .. Len(s) + 1 -> S],
         \A k \in 1 .. Len(s) : t[k] = s[k],
         t[Len(s) + 1] = e
  PROVE  t = Append(s, e)
<1>. DEFINE a == Append(s, e)
<1>1. Len(s) \in Nat
  BY LenProperties
<1>2. /\ a \in Seq(S)
      /\ Len(a) = Len(s) + 1
      /\ \A k \in 1 .. Len(s) : a[k] = s[k]
      /\ a[Len(s) + 1] = e
  BY AppendProperties
<1>3. a \in [1 .. Len(s) + 1 -> S]
  BY <1>2, LenProperties
<1>. HIDE DEF a
<1>4. \A k \in 1 .. Len(s) + 1 : a[k] = t[k]
  BY <1>1, <1>2
<1>5. a = t
  BY <1>3, <1>4
<1>. QED BY <1>5 DEF a
=============================================================================

----------------------------- MODULE RingIndex -----------------------------
(***************************************************************************)
(* The indices of both kinds of ring of pnr_ring.h: pnr_ring_index_t is an *)
(* unsigned integer that wraps at IndexMod, and a slot of the array is an  *)
(* index modulo the capacity.                                              *)
(***************************************************************************)
EXTENDS Integers, Sequences

CONSTANTS Capacity,   \* number of slots
          IndexMod    \* 2^32 in the code: indices wrap here

(* PNR_RING_ROUND_DOWN_POWER2_INDEX makes the capacity a power of two that *)
(* is smaller than the range of an index, so it divides that range.        *)
ASSUME IndexAssumption ==
    /\ Capacity \in Nat \ {0}
    /\ IndexMod \in Nat
    /\ IndexMod % Capacity = 0
    /\ Capacity < IndexMod

Index == 0 .. IndexMod - 1
Slots == 0 .. Capacity - 1

(* Mutant: an index that does not wrap.                                    *)
AddNoWrap(i, n) == i + n

(* Unsigned addition and subtraction of pnr_ring_index_t.                  *)
Add(i, n) == IF i + n < IndexMod THEN i + n ELSE i + n - IndexMod
Sub(i, j) == IF i >= j THEN i - j ELSE i - j + IndexMod

(* i & (capacity - 1), for a capacity that is a power of two.              *)
Slot(i) == i % Capacity

(* Mutant: off by one, a notification only for the second message.         *)
PassedLate(new, last, lim) == Sub(new, last) > Sub(lim, last) + 1

(* The test at the end of every commit: the new index passed the limit.    *)
Passed(new, last, lim) == Sub(new, last) > Sub(lim, last)

(* The messages in the slots from index i up to index j, oldest first.     *)
Window(a, i, j) == [k \in 1 .. Sub(j, i) |-> a[Slot(Add(i, k - 1))]]
=============================================================================

-------------------------- MODULE RingIndexProofs --------------------------
(***************************************************************************)
(* Facts about indices that wrap, about slots and about windows of slots,  *)
(* for every capacity and every range of indices that it divides.          *)
(***************************************************************************)
EXTENDS RingIndex, TLAPS

(* The linear part of the assumption on the constants.                     *)
LEMMA CapacityFacts ==
    Capacity \in Nat /\ Capacity > 0 /\ IndexMod \in Nat /\ Capacity < IndexMod
  BY IndexAssumption

-----------------------------------------------------------------------------
(* Differences *)

(* A masked index is a slot of the array.                                  *)
LEMMA SlotType == \A i \in Index : Slot(i) \in Slots
  BY CapacityFacts DEF Slot, Slots, Index

(* Sums and differences of indices are indices.                            *)
LEMMA IndexClosed ==
    ASSUME NEW i \in Index, NEW j \in Index
    PROVE  /\ Sub(i, j) \in Index
           /\ Add(i, 1) \in Index
           /\ Add(i, Capacity) \in Index
           /\ Sub(i, Capacity) \in Index
           /\ Capacity \in Index /\ 0 \in Index /\ IndexMod - 1 \in Index
  BY CapacityFacts DEF Index, Add, Sub

(* Distances from a later base, as long as nothing is passed.              *)
LEMMA Rebase ==
    ASSUME NEW b \in Index, NEW c \in Index, NEW x \in Index,
           Sub(c, b) <= Sub(x, b)
    PROVE  Sub(x, c) = Sub(x, b) - Sub(c, b)
  BY CapacityFacts DEF Index, Sub

(* A difference of indices is an index, and zero only of equal ones.       *)
LEMMA SubFacts ==
    ASSUME NEW i \in Index, NEW j \in Index
    PROVE  /\ Sub(i, i) = 0
           /\ Sub(i, j) = 0 => i = j
           /\ Sub(i, j) >= 0
           /\ Sub(Add(i, Capacity), i) = Capacity
           /\ Add(Sub(i, Capacity), Capacity) = i
           /\ Sub(Add(i, Capacity), Capacity) = i
           /\ Sub(i, j) + 1 < IndexMod => Sub(Add(i, 1), j) = Sub(i, j) + 1
  BY CapacityFacts DEF Index, Sub, Add

(* Different indices are at different distances, from each other and from  *)
(* the index a capacity back.                                              *)
LEMMA SubInjective ==
    ASSUME NEW i \in Index, NEW j \in Index, NEW b \in Index
    PROVE  /\ Sub(i, b) = Sub(j, b) => i = j
           /\ Sub(i, Sub(j, Capacity)) = Capacity => i = j
  BY CapacityFacts DEF Index, Sub

(* One step towards an index.                                              *)
LEMMA SubSucc ==
    ASSUME NEW i \in Index, NEW j \in Index, i # j
    PROVE  Sub(j, Add(i, 1)) = Sub(j, i) - 1
  BY CapacityFacts DEF Index, Sub, Add

(* A new index that differs from the last one passes a limit at the last.  *)
LEMMA PassedFacts ==
    ASSUME NEW new \in Index, NEW last \in Index, new # last
    PROVE  Passed(new, last, last)
  BY CapacityFacts DEF Passed, Sub, Index

-----------------------------------------------------------------------------
(* Slots *)

(* Quotient and remainder.                                                 *)
LEMMA DivMod ==
    ASSUME NEW x \in Nat, NEW c \in Nat, c > 0
    PROVE  /\ x = c * (x \div c) + (x % c)
           /\ x \div c \in Nat
           /\ x % c \in 0 .. c - 1
  OBVIOUS

(* A multiple of c is at least c.                                          *)
LEMMA Multiple ==
    ASSUME NEW c \in Nat, NEW n \in Int, c > 0, n >= 1
    PROVE  c * n >= c
  OBVIOUS

(* The remainder is unique.                                                *)
LEMMA DivModUnique ==
    ASSUME NEW c \in Nat, c > 0, NEW q \in Int, NEW r \in 0 .. c - 1,
           NEW p \in Int, NEW s \in 0 .. c - 1, c * q + r = c * p + s
    PROVE  r = s
  <1>1. c * (q - p) = s - r /\ c * (p - q) = r - s
    OBVIOUS
  <1>2. q - p >= 1 => c * (q - p) >= c
    BY Multiple
  <1>3. p - q >= 1 => c * (p - q) >= c
    BY Multiple
  <1> QED
    BY <1>1, <1>2, <1>3

(* The slot does not see that the index has wrapped.                       *)
LEMMA SlotAdd ==
    ASSUME NEW i \in Index, NEW n \in 0 .. Capacity
    PROVE  Slot(Add(i, n)) = (i + n) % Capacity
  <1>1. CASE i + n < IndexMod
    BY <1>1 DEF Slot, Add
  <1>2. CASE i + n >= IndexMod
    <2> DEFINE x == i + n
               y == x - IndexMod
    <2>1. x \in Nat /\ y \in Nat /\ x = y + IndexMod
      BY <1>2, CapacityFacts DEF Index
    <2>2. PICK k \in Nat : IndexMod = Capacity * k
      <3>1. IndexMod \div Capacity \in Nat
        BY DivMod, CapacityFacts
      <3>2. IndexMod = Capacity * (IndexMod \div Capacity)
        BY <3>1, DivMod, IndexAssumption, CapacityFacts
      <3> QED
        BY <3>1, <3>2
    <2> HIDE DEF x, y
    <2>3. PICK q \in Nat : x = Capacity * q + (x % Capacity)
      BY <2>1, DivMod, CapacityFacts
    <2>4. PICK p \in Nat : y = Capacity * p + (y % Capacity)
      BY <2>1, DivMod, CapacityFacts
    <2>5. x % Capacity \in 0 .. Capacity - 1 /\ y % Capacity \in 0 .. Capacity - 1
      BY <2>1, DivMod, CapacityFacts
    <2>6. Capacity * q + (x % Capacity) = Capacity * (p + k) + (y % Capacity)
      BY <2>1, <2>2, <2>3, <2>4, <2>5, CapacityFacts
    <2>7. x % Capacity = y % Capacity
      <3>1. p + k \in Int /\ q \in Int
        OBVIOUS
      <3> QED
        BY <2>5, <2>6, <3>1, DivModUnique, CapacityFacts
    <2> QED
      BY <1>2, <2>7, CapacityFacts DEF Slot, Add, x, y, Index
  <1> QED
    BY <1>1, <1>2, CapacityFacts DEF Index

(* Indices a capacity apart share their slot.                              *)
LEMMA SlotCapacity == \A i \in Index : Slot(Add(i, Capacity)) = Slot(i)
  <1> TAKE i \in Index
  <1>1. i \in Nat /\ i + Capacity \in Nat
    BY CapacityFacts DEF Index
  <1>2. PICK q \in Nat : i = Capacity * q + (i % Capacity)
    BY <1>1, DivMod, CapacityFacts
  <1>3. PICK p \in Nat : i + Capacity = Capacity * p + ((i + Capacity) % Capacity)
    BY <1>1, DivMod, CapacityFacts
  <1>4. i % Capacity \in 0 .. Capacity - 1 /\ (i + Capacity) % Capacity \in 0 .. Capacity - 1
    BY <1>1, DivMod, CapacityFacts
  <1>5. Capacity * p + ((i + Capacity) % Capacity) = Capacity * (q + 1) + (i % Capacity)
    BY <1>1, <1>2, <1>3, <1>4, CapacityFacts
  <1>6. (i + Capacity) % Capacity = i % Capacity
    <2>1. q + 1 \in Int /\ p \in Int
      OBVIOUS
    <2> QED
      BY <1>4, <1>5, <2>1, DivModUnique, CapacityFacts
  <1> QED
    BY <1>6, SlotAdd, CapacityFacts DEF Slot

(* Two indices of one window of Capacity have different slots.             *)
LEMMA SlotsDistinct ==
    ASSUME NEW i \in Index, NEW a \in 0 .. Capacity - 1, NEW b \in 0 .. Capacity - 1,
           Slot(Add(i, a)) = Slot(Add(i, b))
    PROVE  a = b
  <1>1. (i + a) % Capacity = (i + b) % Capacity
    BY SlotAdd, CapacityFacts
  <1>2. i + a \in Nat /\ i + b \in Nat
    BY CapacityFacts DEF Index
  <1>3. PICK q \in Nat : i + a = Capacity * q + ((i + a) % Capacity)
    BY <1>2, DivMod, CapacityFacts
  <1>4. PICK p \in Nat : i + b = Capacity * p + ((i + b) % Capacity)
    BY <1>2, DivMod, CapacityFacts
  <1>5. (i + a) % Capacity \in Nat
    BY <1>2, DivMod, CapacityFacts
  <1>6. b - a = Capacity * (p - q) /\ a - b = Capacity * (q - p)
    BY <1>1, <1>2, <1>3, <1>4, <1>5, CapacityFacts DEF Index
  <1>7. p - q >= 1 => Capacity * (p - q) >= Capacity
    BY Multiple, CapacityFacts
  <1>8. q - p >= 1 => Capacity * (q - p) >= Capacity
    BY Multiple, CapacityFacts
  <1> QED
    BY <1>6, <1>7, <1>8, CapacityFacts

-----------------------------------------------------------------------------
(* Windows *)

(* Walking from an index to another.                                       *)
LEMMA AddFacts ==
    ASSUME NEW i \in Index, NEW n \in 0 .. Capacity
    PROVE  /\ Add(i, n) \in Index
           /\ n < Capacity => Add(Add(i, 1), n) = Add(i, n + 1)
  BY CapacityFacts DEF Index, Add

(* Adding a difference leads to the other index.                           *)
LEMMA AddSub ==
    ASSUME NEW i \in Index, NEW j \in Index
    PROVE  Add(i, 0) = i /\ Add(i, Sub(j, i)) = j
  BY CapacityFacts DEF Index, Sub, Add

(* A window is a sequence of messages, as long as the indices are apart.   *)
LEMMA WindowType ==
    ASSUME NEW S, NEW a \in [Slots -> S], NEW i \in Index, NEW j \in Index,
           Sub(j, i) <= Capacity
    PROVE  /\ Window(a, i, j) \in Seq(S)
           /\ Len(Window(a, i, j)) = Sub(j, i)
           /\ Window(a, i, i) = << >>
  <1>1. Sub(j, i) \in Nat /\ Sub(i, i) = 0
    BY IndexClosed, SubFacts DEF Index
  <1>2. \A k \in 1 .. Sub(j, i) : a[Slot(Add(i, k - 1))] \in S
    <2> TAKE k \in 1 .. Sub(j, i)
    <2>1. k - 1 \in 0 .. Capacity
      BY <1>1, CapacityFacts
    <2> QED
      BY <2>1, AddFacts, SlotType
  <1> QED
    BY <1>1, <1>2 DEF Window

(* Two contents of the array that differ at most in one slot.              *)
SameBut(s, a, b) == \A r \in Slots : r # s => b[r] = a[r]

(* Writing the slot behind a window that is not full makes it longer.      *)
LEMMA WindowAppend ==
    ASSUME NEW S, NEW a \in [Slots -> S], NEW b \in [Slots -> S], NEW i \in Index, NEW j \in Index,
           SameBut(Slot(j), a, b), Sub(j, i) < Capacity
    PROVE  Window(b, i, Add(j, 1)) = Append(Window(a, i, j), b[Slot(j)])
  <1> DEFINE m == b[Slot(j)]
             n == Sub(j, i)
             v == Window(a, i, j)
  <1>1. n \in Nat /\ n \in 0 .. Capacity - 1 /\ Sub(Add(j, 1), i) = n + 1
    BY CapacityFacts DEF Index, Sub, Add
  <1>2. Slot(Add(i, n)) = Slot(j) /\ Slot(j) \in Slots
    BY AddSub, SlotType
  <1>3. v \in Seq(S) /\ Len(v) = n /\ v = [k \in 1 .. n |-> a[Slot(Add(i, k - 1))]]
    BY <1>1, WindowType, CapacityFacts, SMTT(30) DEF Window
  <1>4. b[Slot(Add(i, n))] = m
    BY <1>2
  <1>5. \A k \in 1 .. n : b[Slot(Add(i, k - 1))] = a[Slot(Add(i, k - 1))]
    <2> TAKE k \in 1 .. n
    <2>1. k - 1 \in 0 .. Capacity - 1 /\ k - 1 \in 0 .. Capacity /\ k - 1 # n
      BY <1>1, CapacityFacts
    <2>2. Slot(Add(i, k - 1)) # Slot(j)
      BY <1>1, <1>2, <2>1, SlotsDistinct
    <2>3. Slot(Add(i, k - 1)) \in Slots
      BY <2>1, AddFacts, SlotType
    <2> QED
      BY <2>2, <2>3 DEF SameBut
  <1>6. Window(b, i, Add(j, 1)) = [k \in 1 .. n + 1 |-> b[Slot(Add(i, k - 1))]]
    BY <1>1 DEF Window
  <1>m. m \in S
    BY <1>2
  <1> HIDE DEF m, n, v
  <1>7. \A k \in 1 .. n + 1 : b[Slot(Add(i, k - 1))] = IF k <= n THEN v[k] ELSE m
    <2> TAKE k \in 1 .. n + 1
    <2>1. CASE k <= n
      BY <1>1, <1>3, <1>5, <2>1
    <2>2. CASE k = n + 1
      <3>1. k - 1 = n /\ ~(k <= n)
        BY <1>1, <2>2
      <3> QED
        BY <1>4, <3>1
    <2> QED
      BY <1>1, <2>1, <2>2
  <1>8. Append(v, m) = [k \in 1 .. n + 1 |-> IF k <= n THEN v[k] ELSE m]
    BY <1>1, <1>3, <1>m
  <1>9. Window(b, i, Add(j, 1)) = Append(v, m)
    BY <1>6, <1>7, <1>8
  <1> QED
    BY <1>9 DEF m, v

(* Moving the beginning of a window takes its first message.               *)
LEMMA WindowTail ==
    ASSUME NEW S, NEW a \in [Slots -> S], NEW i \in Index, NEW j \in Index,
           i # j, Sub(j, i) <= Capacity
    PROVE  /\ Window(a, i, j) # << >>
           /\ Head(Window(a, i, j)) = a[Slot(i)]
           /\ Window(a, Add(i, 1), j) = Tail(Window(a, i, j))
  <1> DEFINE n == Sub(j, i)
             v == Window(a, i, j)
  <1>1. n \in Nat /\ n > 0 /\ n <= Capacity
    BY IndexClosed, SubFacts, CapacityFacts DEF Index
  <1>2. Sub(j, Add(i, 1)) = n - 1
    BY SubSucc
  <1>3. v \in Seq(S) /\ Len(v) = n /\ v = [k \in 1 .. n |-> a[Slot(Add(i, k - 1))]]
    BY <1>1, WindowType, CapacityFacts DEF Window
  <1>4. Window(a, Add(i, 1), j) = [k \in 1 .. n - 1 |-> a[Slot(Add(Add(i, 1), k - 1))]]
    BY <1>2 DEF Window
  <1> HIDE DEF n, v
  <1>5. \A k \in 1 .. n - 1 : a[Slot(Add(Add(i, 1), k - 1))] = v[k + 1]
    <2> TAKE k \in 1 .. n - 1
    <2>1. k - 1 \in 0 .. Capacity /\ k - 1 < Capacity /\ (k - 1) + 1 = k /\ (k + 1) - 1 = k
      BY <1>1, CapacityFacts
    <2>2. Add(Add(i, 1), k - 1) = Add(i, k)
      BY <2>1, AddFacts
    <2>3. k + 1 \in 1 .. n
      BY <1>1
    <2> QED
      BY <1>3, <2>1, <2>2, <2>3
  <1>6. Tail(v) = [k \in 1 .. n - 1 |-> v[k + 1]]
    BY <1>1, <1>3
  <1>7. Window(a, Add(i, 1), j) = Tail(v)
    BY <1>4, <1>5, <1>6
  <1>8. v # << >> /\ Head(v) = a[Slot(i)]
    <2>1. v[1] = a[Slot(Add(i, 1 - 1))]
      BY <1>1, <1>3
    <2>2. Add(i, 1 - 1) = i
      BY AddSub
    <2> QED
      BY <1>1, <1>3, <2>1, <2>2
  <1> QED
    BY <1>7, <1>8 DEF v

(* Writing a slot outside a window leaves the window as it is: b is the    *)
(* beginning of the Capacity indices that are in use.                      *)
LEMMA WindowKeeps ==
    ASSUME NEW S, NEW a \in [Slots -> S], NEW c \in [Slots -> S], NEW b \in Index,
           NEW i \in Index, NEW j \in Index, NEW x \in Index,
           SameBut(Slot(x), a, c),
           Sub(i, b) <= Sub(j, b), Sub(j, b) <= Capacity, Sub(x, b) < Capacity,
           Sub(x, b) < Sub(i, b) \/ Sub(j, b) <= Sub(x, b)
    PROVE  Window(c, i, j) = Window(a, i, j)
  <1> DEFINE p == Sub(i, b)
             n == Sub(j, i)
             y == Sub(x, b)
  <1>1. p \in Nat /\ n \in Nat /\ y \in 0 .. Capacity - 1 /\ Sub(j, b) \in Nat
    BY IndexClosed, CapacityFacts DEF Index
  <1>2. n = Sub(j, b) - p
    BY Rebase
  <1>3. \A k \in 1 .. n : c[Slot(Add(i, k - 1))] = a[Slot(Add(i, k - 1))]
    <2> TAKE k \in 1 .. n
    <2>1. /\ k - 1 \in 0 .. Capacity - 1 /\ p + (k - 1) \in 0 .. Capacity - 1
          /\ p + (k - 1) # y
      BY <1>1, <1>2, CapacityFacts
    <2>2. Add(i, k - 1) = Add(b, p + (k - 1))
      BY <2>1, CapacityFacts DEF Add, Sub, Index
    <2>3. x = Add(b, y)
      BY AddSub
    <2> HIDE DEF p, n, y
    <2>4. Slot(Add(i, k - 1)) # Slot(x)
      BY <1>1, <2>1, <2>2, <2>3, SlotsDistinct
    <2>5. Slot(Add(i, k - 1)) \in Slots /\ Slot(x) \in Slots
      <3>1. k - 1 \in 0 .. Capacity
        BY <2>1, CapacityFacts
      <3> QED
        BY <3>1, AddFacts, SlotType
    <2> QED
      BY <2>4, <2>5 DEF SameBut
  <1> QED
    BY <1>3 DEF Window

(* The same for a slot behind the window, seen from its beginning.         *)
LEMMA WindowKeepsBehind ==
    ASSUME NEW S, NEW a \in [Slots -> S], NEW c \in [Slots -> S],
           NEW i \in Index, NEW j \in Index, NEW x \in Index,
           SameBut(Slot(x), a, c),
           Sub(j, i) <= Sub(x, i), Sub(x, i) < Capacity
    PROVE  Window(c, i, j) = Window(a, i, j)
  <1>1. Sub(i, i) <= Sub(j, i) /\ Sub(j, i) <= Capacity
    BY SubFacts, IndexClosed, CapacityFacts DEF Index
  <1> QED
    BY <1>1, WindowKeeps
=============================================================================

-------------------------- MODULE ShmAllocProofs ---------------------------
(* Proofs about the allocator, for every number of pages, blocks, sessions *)
(* and threads.                                                            *)
EXTENDS ShmAlloc, TLAPS

(* Every field has its type in the initial state of pnc_shm_init.          *)
LEMMA TypeInit == Init => TypeOK
BY ShmAssumption DEF Init, TypeOK, Pointer, Results

(* Every step of a call keeps every field in its type.                     *)
LEMMA TypeStep == TypeOK /\ [Next]_vars => TypeOK'
<1> SUFFICES ASSUME TypeOK, [Next]_vars PROVE TypeOK'
    OBVIOUS
<1> USE ShmAssumption DEF TypeOK, blockVars, Pointer, Results
<1>1. ASSUME NEW t \in Threads, NEW s \in Sessions, FreeCall(t, s) PROVE TypeOK'
    BY <1>1 DEF FreeCall
<1>2. ASSUME NEW t \in Threads, NEW s \in Sessions, NEW n \in Pages, AllocCall(t, s, n)
      PROVE  TypeOK'
    BY <1>2 DEF AllocCall, Pages
<1>3. ASSUME NEW t \in Threads, AllocEnter(t) PROVE TypeOK'
    BY <1>3 DEF AllocEnter, Stop
<1>4. ASSUME NEW t \in Threads, Skip(t) PROVE TypeOK'
    BY <1>4 DEF Skip, MoveTo, At
<1>5. ASSUME NEW t \in Threads, Merge(t) PROVE TypeOK'
    BY <1>5 DEF Merge, At
<1>6. ASSUME NEW t \in Threads, TakeExact(t) PROVE TypeOK'
    BY <1>6 DEF TakeExact, At, Found, Stop
<1>7. ASSUME NEW t \in Threads, TakeShift(t) PROVE TypeOK'
    BY <1>7 DEF TakeShift, At, Found, Stop
<1>8. ASSUME NEW t \in Threads, Split(t) PROVE TypeOK'
  <2>1. PICK b \in live :
            /\ At(t, b) /\ free[b] /\ nr_pages[b] > want[t]
            /\ \/ \E n \in Node \ live : SplitInto(t, b, n)
               \/ Stop(t, "ENOKMEM") /\ UNCHANGED <<blockVars, mem>>
    BY <1>8 DEF Split
  <2>2. CASE Stop(t, "ENOKMEM") /\ UNCHANGED <<blockVars, mem>>
    BY <2>2 DEF Stop
  <2>3. ASSUME NEW n \in Node \ live, SplitInto(t, b, n) PROVE TypeOK'
    <3>1. nr_pages[b] - want[t] \in Nat /\ offset[b] + want[t] \in Nat /\ want[t] \in Nat
        BY <2>1
    <3>2. offset' \in [Node -> Nat] /\ nr_pages' \in [Node -> Nat] /\ live' \subseteq Node
        BY <2>3, <3>1 DEF SplitInto
    <3>3. free' \in [Node -> BOOLEAN] /\ next' \in [Node -> Pointer]
        BY <2>3 DEF SplitInto
    <3>4. mem' \in [Sessions -> Pointer]
        BY <2>3 DEF SplitInto
    <3> QED
        BY <2>3, <3>2, <3>3, <3>4 DEF SplitInto, Stop
  <2> QED
    BY <2>1, <2>2, <2>3
<1>9. ASSUME NEW t \in Threads, NoFit(t) PROVE TypeOK'
    BY <1>9 DEF NoFit, Stop
<1>10. ASSUME NEW t \in Threads, FreeBlock(t) PROVE TypeOK'
    BY <1>10 DEF FreeBlock
<1>11. ASSUME NEW t \in Threads, FreeClear(t) PROVE TypeOK'
    BY <1>11 DEF FreeClear
<1>12. CASE UNCHANGED vars
    BY <1>12 DEF vars
<1> QED
    BY <1>1, <1>2, <1>3, <1>4, <1>5, <1>6, <1>7, <1>8, <1>9, <1>10, <1>11, <1>12
       DEF Next, Walk

(* The types hold of the allocator and of its callers for every size of    *)
(* the shared memory.                                                      *)
THEOREM TypeCorrect == Spec => []TypeOK
<1>1. Init => TypeOK
    BY TypeInit
<1>2. TypeOK /\ [Next]_vars => TypeOK'
    BY TypeStep
<1> QED
    BY <1>1, <1>2, PTL DEF Spec

-----------------------------------------------------------------------------
(* The list is a partition *)

ShmInv == TypeOK /\ Partition /\ WalkInv

(* The fields of live blocks are numbers.                                  *)
LEMMA BlockTypes ==
    ASSUME TypeOK, NEW b \in live
    PROVE  b \in Node /\ offset[b] \in Nat /\ nr_pages[b] \in Nat /\ End(b) \in Nat
BY DEF TypeOK, End

(* Where the list goes on after b: to a block that starts where b ends, is *)
(* neither b nor the first one, and follows no other block.                *)
LEMMA Successor ==
    ASSUME TypeOK, Partition, NEW b \in live, next[b] # NULL
    PROVE  /\ next[b] \in live \ {b, Head}
           /\ offset[next[b]] = End(b)
           /\ next[next[b]] \notin {b, next[b]}
           /\ \A c \in live : next[c] = next[b] => c = b
<1> DEFINE n == next[b]
<1>1. n \in live /\ offset[n] = End(b) /\ nr_pages[b] > 0 /\ nr_pages[n] > 0
    BY DEF Partition
<1>2. offset[b] \in Nat /\ nr_pages[b] \in Nat /\ offset[n] \in Nat /\ nr_pages[n] \in Nat
    BY <1>1, BlockTypes
<1>3. offset[n] > offset[b] /\ Reserved <= offset[b] /\ offset[Head] = Reserved
    BY <1>1, <1>2 DEF End, Partition
<1>4. n # b /\ n # Head
    BY <1>2, <1>3, ShmAssumption
<1>5. next[n] # NULL => offset[next[n]] = End(n)
    BY <1>1 DEF Partition
<1>6. next[n] \notin {b, n}
  <2>1. NULL \notin live
    BY ShmAssumption DEF TypeOK
  <2> QED
    BY <1>1, <1>2, <1>3, <1>5, <2>1 DEF End
<1>7. ASSUME NEW c \in live, next[c] = n, c # b PROVE FALSE
  <2>1. offset[c] \in Nat /\ nr_pages[c] \in Nat /\ End(c) = offset[n] /\ nr_pages[c] > 0
    BY <1>7, <1>1, BlockTypes, ShmAssumption DEF Partition, TypeOK
  <2>2. End(c) <= offset[b] \/ End(b) <= offset[c]
    BY <1>7 DEF Partition
  <2> QED
    BY <1>1, <1>2, <2>1, <2>2 DEF End
<1> QED
    BY <1>1, <1>4, <1>6, <1>7

(* A step that changes neither the set of blocks nor their ranges and      *)
(* links keeps the partition.                                              *)
LEMMA PartitionFrame ==
    ASSUME Partition, UNCHANGED <<live, offset, nr_pages, next>>
    PROVE  Partition'
BY DEF Partition, End

(* Absorbing the next block keeps the partition.                           *)
LEMMA PartitionMerge ==
    ASSUME TypeOK, Partition, NEW t \in Threads, Merge(t)
    PROVE  Partition'
<1>1. PICK b \in live :
        /\ next[b] # NULL
        /\ nr_pages' = [nr_pages EXCEPT ![b] = @ + nr_pages[next[b]]]
        /\ next' = [next EXCEPT ![b] = next[next[b]]]
        /\ live' = live \ {next[b]}
        /\ offset' = offset
    BY DEF Merge
<1> DEFINE n == next[b]
<1>2. /\ n \in live /\ n # b /\ n # Head /\ offset[n] = End(b)
      /\ next[n] \notin {b, n}
      /\ \A c \in live : next[c] = n => c = b
    BY <1>1, Successor
<1>3. \A c \in live : /\ c \in Node /\ offset[c] \in Nat /\ nr_pages[c] \in Nat
                      /\ Reserved <= offset[c] /\ nr_pages[c] > 0
    BY BlockTypes DEF Partition
<1>4. \A c \in live : /\ nr_pages'[c] = IF c = b THEN nr_pages[b] + nr_pages[n] ELSE nr_pages[c]
                      /\ next'[c] = IF c = b THEN next[n] ELSE next[c]
    BY <1>1, <1>3 DEF TypeOK
<1>5. \A c \in live' : End(c)' = IF c = b THEN End(n) ELSE End(c)
    BY <1>1, <1>2, <1>3, <1>4 DEF End
<1>6. Head \in live' /\ offset'[Head] = Reserved
    BY <1>1, <1>2 DEF Partition
<1>7. ASSUME NEW c \in live'
      PROVE  /\ Reserved <= offset'[c] /\ nr_pages'[c] > 0
             /\ next'[c] = NULL => End(c)' = Total
             /\ next'[c] # NULL => next'[c] \in live' /\ offset'[next'[c]] = End(c)'
  <2>1. Reserved <= offset'[c] /\ nr_pages'[c] > 0
    BY <1>1, <1>2, <1>3, <1>4, <1>7
  <2>2. next'[c] = NULL => End(c)' = Total
    BY <1>1, <1>2, <1>4, <1>5, <1>7 DEF Partition
  <2>3. next'[c] # NULL => next'[c] \in live' /\ offset'[next'[c]] = End(c)'
    BY <1>1, <1>2, <1>4, <1>5, <1>7 DEF Partition
  <2> QED
    BY <2>1, <2>2, <2>3
<1>8. ASSUME NEW a \in live', NEW c \in live', a # c
      PROVE  End(a)' <= offset'[c] \/ End(c)' <= offset'[a]
  <2>1. \A x, y \in live : x # y => End(x) <= offset[y] \/ End(y) <= offset[x]
    BY DEF Partition
  <2>2. a \in live /\ c \in live /\ a # n /\ c # n
    BY <1>1
  <2>3. CASE a = b
    BY <1>1, <1>2, <1>3, <1>5, <1>8, <2>1, <2>2, <2>3 DEF End
  <2>4. CASE c = b
    BY <1>1, <1>2, <1>3, <1>5, <1>8, <2>1, <2>2, <2>4 DEF End
  <2>5. CASE a # b /\ c # b
    BY <1>1, <1>5, <1>8, <2>1, <2>2, <2>5
  <2> QED
    BY <2>3, <2>4, <2>5
<1> QED
    BY <1>6, <1>7, <1>8 DEF Partition

(* Handing the surplus to the free block that follows keeps the partition. *)
LEMMA PartitionTakeShift ==
    ASSUME TypeOK, TypeOK', Partition, NEW t \in Threads, TakeShift(t)
    PROVE  Partition'
<1>1. PICK b \in live :
        /\ nr_pages[b] > want[t] /\ next[b] # NULL
        /\ nr_pages' = [nr_pages EXCEPT ![next[b]] = @ + (nr_pages[b] - want[t]), ![b] = want[t]]
        /\ offset' = [offset EXCEPT ![next[b]] = offset[b] + want[t]]
        /\ live' = live /\ next' = next
    BY DEF TakeShift
<1>2. PICK n \in live :
      /\ n = next[b] /\ n # NULL /\ n # b /\ n # Head /\ offset[n] = End(b)
      /\ next[n] \notin {b, n}
      /\ \A c \in live : next[c] = n => c = b
    BY <1>1, Successor
<1>0. nr_pages[b] > want[t] /\ live' = live /\ next' = next
    BY <1>1
<1>3. \A c \in live : /\ c \in Node /\ offset[c] \in Nat /\ nr_pages[c] \in Nat
                      /\ Reserved <= offset[c] /\ nr_pages[c] > 0
    BY BlockTypes DEF Partition
<1>4. want[t] \in Nat /\ want[t] > 0
    BY DEF TypeOK
<1>5. /\ nr_pages'[b] = want[t] /\ offset'[b] = offset[b]
      /\ nr_pages'[n] = nr_pages[n] + (nr_pages[b] - want[t])
      /\ offset'[n] = offset[b] + want[t]
      /\ \A c \in live \ {b, n} : nr_pages'[c] = nr_pages[c] /\ offset'[c] = offset[c]
    BY <1>1, <1>2, <1>3 DEF TypeOK
<1>6. /\ End(b)' = offset'[n] /\ End(n)' = End(n)
      /\ \A c \in live \ {b, n} : End(c)' = End(c)
    BY <1>0, <1>2, <1>3, <1>4, <1>5 DEF End
<1>7. Head \in live' /\ offset'[Head] = Reserved
    BY <1>0, <1>2, <1>5 DEF Partition
<1>8. ASSUME NEW c \in live'
      PROVE  /\ Reserved <= offset'[c] /\ nr_pages'[c] > 0
             /\ next'[c] = NULL => End(c)' = Total
             /\ next'[c] # NULL => next'[c] \in live' /\ offset'[next'[c]] = End(c)'
  <2>1. Reserved <= offset'[c] /\ nr_pages'[c] > 0
    BY <1>0, <1>2, <1>3, <1>4, <1>5, <1>8, ShmAssumption
  <2>2. next'[c] = NULL => End(c)' = Total
    BY <1>0, <1>2, <1>6, <1>8, \A x \in live : next[x] = NULL => End(x) = Total,
       c = b \/ c = n \/ c \in live \ {b, n} DEF Partition, End
  <2>3. next'[c] # NULL => next'[c] \in live' /\ offset'[next'[c]] = End(c)'
    BY <1>0, <1>2, <1>5, <1>6, <1>8 DEF Partition
  <2> QED
    BY <2>1, <2>2, <2>3
<1>9. ASSUME NEW a \in live', NEW c \in live', a # c
      PROVE  End(a)' <= offset'[c] \/ End(c)' <= offset'[a]
  <2>1. \A x, y \in live : x # y => End(x) <= offset[y] \/ End(y) <= offset[x]
    BY DEF Partition
  <2>2. \A x \in live \ {b, n} : End(x) <= offset[b] \/ End(n) <= offset[x]
    BY <1>2, <1>3, <2>1 DEF End
  <2>3. \A x \in live \ {b, n} : /\ End(x)' <= offset'[b] \/ End(b)' <= offset'[x]
                                 /\ End(x)' <= offset'[n] \/ End(n)' <= offset'[x]
    BY <1>0, <1>2, <1>3, <1>4, <1>5, <1>6, <2>2 DEF End
  <2>4. CASE a \in {b, n} /\ c \in {b, n}
    BY <1>0, <1>2, <1>3, <1>4, <1>5, <1>6, <1>9, <2>4 DEF End
  <2>5. CASE a \notin {b, n} /\ c \notin {b, n}
    BY <1>0, <1>5, <1>6, <1>9, <2>1, <2>5
  <2>6. \A x \in live \ {b, n}, y \in {b, n} :
            offset'[x] + nr_pages'[x] <= offset'[y] \/ offset'[y] + nr_pages'[y] <= offset'[x]
    BY <2>3 DEF End
  <2>7. CASE a \in {b, n} /\ c \notin {b, n}
    BY <1>0, <1>9, <2>6, <2>7 DEF End
  <2>8. CASE a \notin {b, n} /\ c \in {b, n}
    BY <1>0, <1>9, <2>6, <2>8 DEF End
  <2> QED
    BY <2>4, <2>5, <2>7, <2>8
<1> QED
    BY <1>7, <1>8, <1>9 DEF Partition

(* Putting a new block behind the one that is cut keeps the partition.     *)
LEMMA PartitionSplit ==
    ASSUME TypeOK, TypeOK', Partition, NEW t \in Threads, Split(t)
    PROVE  Partition'
<1>1. PICK b \in live :
        /\ nr_pages[b] > want[t]
        /\ \/ \E n \in Node \ live : SplitInto(t, b, n)
           \/ UNCHANGED <<live, offset, nr_pages, next>>
    BY DEF Split, blockVars
<1>2. CASE UNCHANGED <<live, offset, nr_pages, next>>
    BY <1>2, PartitionFrame
<1>3. \A c \in live : /\ c \in Node /\ offset[c] \in Nat /\ nr_pages[c] \in Nat
                      /\ Reserved <= offset[c] /\ nr_pages[c] > 0
    BY BlockTypes DEF Partition
<1>4. want[t] \in Nat /\ want[t] > 0 /\ NULL \notin Node
    BY ShmAssumption DEF TypeOK
<1>5. ASSUME NEW n \in Node \ live, SplitInto(t, b, n) PROVE Partition'
  <2>1. /\ live' = live \cup {n}
        /\ nr_pages'[b] = want[t] /\ offset'[b] = offset[b] /\ next'[b] = n
        /\ nr_pages'[n] = nr_pages[b] - want[t] /\ offset'[n] = offset[b] + want[t]
        /\ next'[n] = next[b]
        /\ \A c \in live \ {b} : /\ nr_pages'[c] = nr_pages[c] /\ offset'[c] = offset[c]
                                 /\ next'[c] = next[c]
    BY <1>1, <1>3, <1>5, ZenonT(40) DEF SplitInto, TypeOK
  <2>2. /\ End(b)' = offset'[n] /\ End(n)' = End(b)
        /\ \A c \in live \ {b} : End(c)' = End(c)
    BY <1>1, <1>3, <1>4, <2>1 DEF End
  <2>3. Head \in live' /\ offset'[Head] = Reserved
    BY <2>1 DEF Partition
  <2>4. ASSUME NEW c \in live'
        PROVE  /\ Reserved <= offset'[c] /\ nr_pages'[c] > 0
               /\ next'[c] = NULL => End(c)' = Total
               /\ next'[c] # NULL => next'[c] \in live' /\ offset'[next'[c]] = End(c)'
    <3>1. Reserved <= offset'[c] /\ nr_pages'[c] > 0
        BY <1>1, <1>3, <1>4, <2>1, <2>4, ShmAssumption
    <3>2. next'[c] = NULL => End(c)' = Total
        BY <1>4, <2>1, <2>2, <2>4 DEF Partition
    <3>3. next'[c] # NULL => next'[c] \in live' /\ offset'[next'[c]] = End(c)'
        BY <1>5, <2>1, <2>2, <2>4 DEF Partition
    <3> QED
        BY <3>1, <3>2, <3>3
  <2>5. ASSUME NEW a \in live', NEW c \in live', a # c
        PROVE  End(a)' <= offset'[c] \/ End(c)' <= offset'[a]
    <3>1. \A x, y \in live : x # y => End(x) <= offset[y] \/ End(y) <= offset[x]
        BY DEF Partition
    <3>2. \A x \in live \ {b} : /\ End(x)' <= offset'[b] \/ End(b)' <= offset'[x]
                                /\ End(x)' <= offset'[n] \/ End(n)' <= offset'[x]
        BY <1>1, <1>3, <1>4, <2>1, <2>2, <3>1 DEF End
    <3>3. CASE a \in {b, n} /\ c \in {b, n}
        BY <1>1, <1>3, <1>4, <2>1, <2>2, <2>5, <3>3
    <3>4. CASE a \notin {b, n} /\ c \notin {b, n}
        BY <2>1, <2>2, <2>5, <3>1, <3>4
    <3>5. CASE a \in {b, n} /\ c \notin {b, n}
        BY <2>1, <2>5, <3>2, <3>5 DEF End, TypeOK
    <3>6. CASE a \notin {b, n} /\ c \in {b, n}
        BY <2>1, <2>5, <3>2, <3>6 DEF End, TypeOK
    <3> QED
        BY <3>3, <3>4, <3>5, <3>6
  <2> QED
    BY <2>3, <2>4, <2>5 DEF Partition
<1> QED
    BY <1>1, <1>2, <1>5

(* Every step of a call keeps the partition.                               *)
LEMMA PartitionStep ==
    ASSUME TypeOK, TypeOK', Partition, [Next]_vars
    PROVE  Partition'
<1>1. CASE UNCHANGED <<live, offset, nr_pages, next>>
    BY <1>1, PartitionFrame
<1>2. ASSUME NEW t \in Threads, NEW s \in Sessions,
             FreeCall(t, s) \/ \E k \in Pages : AllocCall(t, s, k)
      PROVE  UNCHANGED <<live, offset, nr_pages, next>>
    BY <1>2 DEF FreeCall, AllocCall, blockVars
<1>3. ASSUME NEW t \in Threads,
             AllocEnter(t) \/ Skip(t) \/ TakeExact(t) \/ NoFit(t) \/ FreeBlock(t) \/ FreeClear(t)
      PROVE  UNCHANGED <<live, offset, nr_pages, next>>
    BY <1>3 DEF AllocEnter, Skip, MoveTo, TakeExact, NoFit, FreeBlock, FreeClear, blockVars
<1>4. UNCHANGED vars => UNCHANGED <<live, offset, nr_pages, next>>
    BY DEF vars, blockVars
<1> QED
    BY <1>1, <1>2, <1>3, <1>4, PartitionMerge, PartitionTakeShift, PartitionSplit
       DEF Next, Walk

(* One thread at a time is in the walk, and it stands on a live block.     *)
LEMMA WalkStep ==
    ASSUME ShmInv, [Next]_vars
    PROVE  WalkInv'
<1> USE DEF ShmInv
<1>1. ASSUME NEW t \in Threads, NEW s \in Sessions,
             FreeCall(t, s) \/ \E k \in Pages : AllocCall(t, s, k)
      PROVE  WalkInv'
    BY <1>1 DEF FreeCall, AllocCall, blockVars, WalkInv, TypeOK
<1>2. ASSUME NEW t \in Threads, AllocEnter(t) PROVE WalkInv'
    BY <1>2 DEF AllocEnter, ShmSemFree, Stop, blockVars, WalkInv, TypeOK, Partition
<1>3. ASSUME NEW t \in Threads, FreeBlock(t) \/ FreeClear(t) PROVE WalkInv'
    BY <1>3 DEF FreeBlock, FreeClear, blockVars, WalkInv, TypeOK
<1>4. ASSUME NEW t \in Threads, Skip(t) PROVE WalkInv'
  <2>1. PICK b \in live :
            /\ At(t, b)
            /\ \/ cur' = [cur EXCEPT ![t] = next[b]]
               \/ next[b] # NULL /\ cur' = [cur EXCEPT ![t] = next[next[b]]]
            /\ live' = live /\ pc' = pc
    BY <1>4 DEF Skip, MoveTo, blockVars
  <2>2. \A c \in live : next[c] # NULL => next[c] \in live
    BY DEF Partition
  <2> QED
    BY <2>1, <2>2 DEF At, WalkInv, TypeOK
<1>5. ASSUME NEW t \in Threads, Merge(t) PROVE WalkInv'
  <2>1. PICK b \in live : /\ At(t, b) /\ next[b] # NULL /\ live' = live \ {next[b]}
                          /\ UNCHANGED <<pc, cur>>
    BY <1>5 DEF Merge
  <2>2. next[b] # b
    BY <2>1, Successor
  <2> QED
    BY <2>1, <2>2 DEF At, WalkInv
<1>6. ASSUME NEW t \in Threads, TakeExact(t) \/ TakeShift(t) \/ Split(t) \/ NoFit(t)
      PROVE  WalkInv'
  <2>1. pc[t] = "walk" /\ pc'[t] # "walk" /\ \A u \in Threads \ {t} : pc'[u] = pc[u]
    BY <1>6 DEF TakeExact, TakeShift, Split, SplitInto, NoFit, Found, Stop, At, TypeOK
  <2> QED
    BY <2>1 DEF WalkInv
<1>7. CASE UNCHANGED vars
    BY <1>7 DEF vars, blockVars, WalkInv
<1> QED
    BY <1>1, <1>2, <1>3, <1>4, <1>5, <1>6, <1>7 DEF Next, Walk

(* The invariant behind the theorems on the list of blocks.                *)
LEMMA ShmInvariant == Spec => []ShmInv
<1>1. Init => ShmInv
  <2>1. Init => TypeOK
    BY TypeInit
  <2>2. Init => Partition /\ WalkInv
    BY ShmAssumption DEF Init, Partition, End, WalkInv
  <2> QED
    BY <2>1, <2>2 DEF ShmInv
<1>2. ShmInv /\ [Next]_vars => ShmInv'
    BY TypeStep, PartitionStep, WalkStep DEF ShmInv
<1> QED
    BY <1>1, <1>2, PTL DEF Spec

(* The blocks are a partition of the shared memory whatever is allocated,  *)
(* merged, split, freed or interrupted, and however the callers race.      *)
THEOREM PartitionTheorem == Spec => []Partition
<1>1. ShmInv => Partition
    BY DEF ShmInv
<1> QED
    BY <1>1, ShmInvariant, PTL

-----------------------------------------------------------------------------
(* A block has one owner *)

OwnInv == ShmInv /\ CallerInv /\ OwnedIsAllocated

(* When a session is used by one thread at a time, every step keeps what a *)
(* call knows of its session.                                              *)
LEMMA CallerStep ==
    ASSUME Exclusive, TypeOK, TypeOK', CallerInv, [Next]_vars
    PROVE  CallerInv'
<1>1. ASSUME NEW t \in Threads, NEW s \in Sessions,
             FreeCall(t, s) \/ \E k \in Pages : AllocCall(t, s, k)
      PROVE  CallerInv'
  <2>1. \A u \in Threads : sess[u] = s => pc[u] = "idle"
    BY <1>1 DEF FreeCall, AllocCall, Available
  <2>2. /\ \A u \in Threads \ {t} : sess'[u] = sess[u] /\ pc'[u] = pc[u] /\ cur'[u] = cur[u]
        /\ sess'[t] = s /\ mem' = mem
        /\ \/ pc'[t] = "free" /\ cur'[t] = mem[s]
           \/ pc'[t] = "alloc" /\ mem[s] = NULL
    BY <1>1 DEF FreeCall, AllocCall, TypeOK
  <2> QED
    BY <2>1, <2>2 DEF CallerInv
<1>2. ASSUME NEW t \in Threads, AllocEnter(t) \/ FreeBlock(t)
      PROVE  CallerInv'
    BY <1>2 DEF AllocEnter, Stop, FreeBlock, blockVars, CallerInv, TypeOK
<1>3. ASSUME NEW t \in Threads, Skip(t) \/ Merge(t)
      PROVE  CallerInv'
  <2>1. /\ mem' = mem /\ pc' = pc /\ sess' = sess /\ pc[t] = "walk"
        /\ \A u \in Threads \ {t} : cur'[u] = cur[u]
    BY <1>3 DEF Skip, Merge, MoveTo, At, TypeOK
  <2> QED
    BY <2>1 DEF CallerInv
<1>4. ASSUME NEW t \in Threads,
             TakeExact(t) \/ TakeShift(t) \/ Split(t) \/ NoFit(t) \/ FreeClear(t)
      PROVE  CallerInv'
  <2>1. /\ pc[t] # "idle" /\ pc'[t] = "idle" /\ sess' = sess
        /\ \A u \in Threads \ {t} : pc'[u] = pc[u] /\ cur'[u] = cur[u]
    BY <1>4 DEF TakeExact, TakeShift, Split, SplitInto, NoFit, FreeClear, Found, Stop, At, TypeOK
  <2>2. \A r \in Sessions \ {sess[t]} : mem'[r] = mem[r]
    BY <1>4 DEF TakeExact, TakeShift, Split, SplitInto, NoFit, FreeClear, Found, TypeOK
  <2>3. sess \in [Threads -> Sessions]
    BY DEF TypeOK
  <2>4. ASSUME NEW u \in Threads, pc'[u] # "idle"
        PROVE  u # t /\ sess[u] # sess[t] /\ mem'[sess[u]] = mem[sess[u]]
    BY <2>1, <2>2, <2>3, <2>4 DEF CallerInv
  <2> QED
    BY <2>1, <2>4 DEF CallerInv
<1>5. CASE UNCHANGED vars
    BY <1>5 DEF vars, CallerInv
<1> QED
    BY <1>1, <1>2, <1>3, <1>4, <1>5 DEF Next, Walk

(* A walk that takes block b gives it to a session that had none; b was    *)
(* free, so nobody else has it.                                            *)
LEMMA TakenByOne ==
    ASSUME OwnInv, NEW t \in Threads, NEW b \in live, free[b],
           pc[t] = "walk", pc' = [pc EXCEPT ![t] = "idle"], sess' = sess,
           mem' = [mem EXCEPT ![sess[t]] = b],
           live \subseteq live', ~free'[b],
           \A c \in live \ {b} : free'[c] = free[c]
    PROVE  OwnedIsAllocated'
<1>1. TypeOK /\ CallerInv /\ OwnedIsAllocated
    BY DEF OwnInv, ShmInv
<1>2. \A s \in Sessions : Releasing(s)' <=> Releasing(s)
    BY <1>1 DEF Releasing, TypeOK
<1>3. \A s \in Sessions : mem'[s] = IF s = sess[t] THEN b ELSE mem[s]
    BY <1>1 DEF TypeOK
<1>4. \A s \in Sessions : (mem[s] # NULL /\ ~Releasing(s)) =>
                              mem[s] \in live \ {b} /\ ~free[mem[s]]
    BY <1>1 DEF OwnedIsAllocated
<1>5. sess[t] \in Sessions /\ b # NULL
    BY <1>1, ShmAssumption DEF TypeOK
<1>6. ASSUME NEW s \in Sessions, mem'[s] # NULL, ~Releasing(s)'
      PROVE  mem'[s] \in live' /\ ~free'[mem'[s]]
    BY <1>2, <1>3, <1>4, <1>6
<1>7. ASSUME NEW r \in Sessions, NEW s \in Sessions, r # s, mem'[s] # NULL,
             ~Releasing(r)', ~Releasing(s)'
      PROVE  mem'[r] # mem'[s]
    BY <1>1, <1>2, <1>3, <1>4, <1>5, <1>7 DEF OwnedIsAllocated
<1> QED
    BY <1>6, <1>7 DEF OwnedIsAllocated

(* When a session is used by one thread at a time, every step keeps the    *)
(* blocks of the sessions allocated and apart.                             *)
LEMMA OwnedStep ==
    ASSUME OwnInv, [Next]_vars
    PROVE  OwnedIsAllocated'
<1>0. TypeOK /\ Partition /\ CallerInv /\ OwnedIsAllocated
    BY DEF OwnInv, ShmInv
<1>1. ASSUME NEW t \in Threads, NEW s \in Sessions,
             FreeCall(t, s) \/ \E k \in Pages : AllocCall(t, s, k)
      PROVE  OwnedIsAllocated'
  <2>1. \A r \in Sessions : Releasing(r)' <=> Releasing(r)
    BY <1>0, <1>1 DEF FreeCall, AllocCall, Releasing, TypeOK
  <2>2. mem' = mem /\ live' = live /\ free' = free
    BY <1>1 DEF FreeCall, AllocCall, blockVars
  <2> QED
    BY <1>0, <2>1, <2>2 DEF OwnedIsAllocated
<1>2. ASSUME NEW t \in Threads, AllocEnter(t) \/ Skip(t) \/ NoFit(t)
      PROVE  OwnedIsAllocated'
  <2>1. \A r \in Sessions : Releasing(r)' <=> Releasing(r)
    BY <1>0, <1>2 DEF AllocEnter, Skip, MoveTo, NoFit, Stop, Releasing, TypeOK
  <2>2. mem' = mem /\ live' = live /\ free' = free
    BY <1>2 DEF AllocEnter, Skip, MoveTo, NoFit, blockVars
  <2> QED
    BY <1>0, <2>1, <2>2 DEF OwnedIsAllocated
<1>3. ASSUME NEW t \in Threads, Merge(t) PROVE OwnedIsAllocated'
  <2>1. PICK n \in live : live' = live \ {n} /\ free[n]
    BY <1>0, <1>3, Successor DEF Merge
  <2>2. mem' = mem /\ free' = free /\ pc' = pc /\ sess' = sess
    BY <1>3 DEF Merge
  <2> QED
    BY <1>0, <2>1, <2>2 DEF OwnedIsAllocated, Releasing
<1>4. ASSUME NEW t \in Threads, TakeExact(t) PROVE OwnedIsAllocated'
  <2>1. PICK b \in live : At(t, b) /\ free[b] /\ Found(t, b) /\ live' = live
    BY <1>4 DEF TakeExact
  <2> QED
    BY <1>0, <2>1, TakenByOne DEF At, Found, Stop, TypeOK
<1>5. ASSUME NEW t \in Threads, TakeShift(t) PROVE OwnedIsAllocated'
  <2>1. PICK b \in live : At(t, b) /\ free[b] /\ Found(t, b) /\ live' = live
    BY <1>5 DEF TakeShift
  <2> QED
    BY <1>0, <2>1, TakenByOne DEF At, Found, Stop, TypeOK
<1>6. ASSUME NEW t \in Threads, Split(t) PROVE OwnedIsAllocated'
  <2>1. PICK b \in live : /\ At(t, b) /\ free[b]
                          /\ \/ \E n \in Node \ live : SplitInto(t, b, n)
                             \/ Stop(t, "ENOKMEM") /\ UNCHANGED <<blockVars, mem>>
    BY <1>6 DEF Split
  <2>2. CASE Stop(t, "ENOKMEM") /\ UNCHANGED <<blockVars, mem>>
    <3>1. \A r \in Sessions : Releasing(r)' <=> Releasing(r)
        BY <1>0, <2>1, <2>2 DEF At, Stop, Releasing, TypeOK
    <3> QED
        BY <1>0, <2>2, <3>1 DEF blockVars, OwnedIsAllocated
  <2>3. ASSUME NEW n \in Node \ live, SplitInto(t, b, n) PROVE OwnedIsAllocated'
    <3>1. live \subseteq live' /\ ~free'[b] /\ \A c \in live \ {b} : free'[c] = free[c]
        BY <1>0, <2>3 DEF SplitInto, TypeOK
    <3>2. /\ pc[t] = "walk" /\ pc' = [pc EXCEPT ![t] = "idle"] /\ sess' = sess
          /\ mem' = [mem EXCEPT ![sess[t]] = b]
        BY <2>1, <2>3 DEF SplitInto, Stop, At
    <3> QED
        BY <2>1, <3>1, <3>2, TakenByOne
  <2> QED
    BY <2>1, <2>2, <2>3
<1>7. ASSUME NEW t \in Threads, FreeBlock(t) PROVE OwnedIsAllocated'
  <2>1. /\ mem' = mem /\ live' = live /\ pc[t] = "free"
        /\ \A s \in Sessions : Releasing(s)' <=> (Releasing(s) \/ s = sess[t])
    BY <1>0, <1>7 DEF FreeBlock, Releasing, TypeOK
  <2>2. cur[t] = mem[sess[t]] /\ ~Releasing(sess[t]) /\ sess[t] \in Sessions
    BY <1>0, <2>1 DEF CallerInv, Releasing, TypeOK
  <2>3. \A c \in live : c # cur[t] => free'[c] = free[c]
    BY <1>0, <1>7 DEF FreeBlock, TypeOK
  <2> QED
    BY <1>0, <2>1, <2>2, <2>3 DEF OwnedIsAllocated
<1>8. ASSUME NEW t \in Threads, FreeClear(t) PROVE OwnedIsAllocated'
  <2>1. \A s \in Sessions : mem'[s] = IF s = sess[t] THEN NULL ELSE mem[s]
    BY <1>0, <1>8 DEF FreeClear, TypeOK
  <2>2. \A s \in Sessions \ {sess[t]} : Releasing(s)' <=> Releasing(s)
    BY <1>0, <1>8 DEF FreeClear, Releasing, TypeOK
  <2>3. live' = live /\ free' = free
    BY <1>8 DEF FreeClear, blockVars
  <2> QED
    BY <1>0, <2>1, <2>2, <2>3 DEF OwnedIsAllocated
<1>9. CASE UNCHANGED vars
    BY <1>0, <1>9 DEF vars, blockVars, OwnedIsAllocated, Releasing
<1> QED
    BY <1>1, <1>2, <1>3, <1>4, <1>5, <1>6, <1>7, <1>8, <1>9 DEF Next, Walk

(* The invariant behind the two theorems on ownership.                     *)
LEMMA OwnInvariant == Exclusive => (Spec => []OwnInv)
<1> SUFFICES ASSUME Exclusive PROVE Spec => []OwnInv
    OBVIOUS
<1>1. Init => OwnInv
  <2>1. Init => TypeOK
    BY TypeInit
  <2>2. Init => Partition /\ WalkInv
    BY ShmAssumption DEF Init, Partition, End, WalkInv
  <2>3. Init => CallerInv /\ OwnedIsAllocated
    BY DEF Init, CallerInv, OwnedIsAllocated
  <2> QED
    BY <2>1, <2>2, <2>3 DEF OwnInv, ShmInv
<1>2. OwnInv /\ [Next]_vars => OwnInv'
    BY TypeStep, PartitionStep, WalkStep, CallerStep, OwnedStep DEF OwnInv, ShmInv
<1> QED
    BY <1>1, <1>2, PTL DEF Spec

(* When a session is used by one thread at a time, its block is never      *)
(* returned to the free list or given to a second session while the        *)
(* session still points at it.                                             *)
THEOREM OwnershipTheorem == Exclusive => (Spec => []OwnedIsAllocated)
<1>1. OwnInv => OwnedIsAllocated
    BY DEF OwnInv
<1> QED
    BY <1>1, OwnInvariant, PTL

(* The loop of pnc_shm_alloc cannot run forever: each of its steps goes up *)
(* in the memory or shortens the list, and no other thread touches the     *)
(* list meanwhile.                                                         *)
THEOREM WalkTheorem == Spec => WalkAdvances
<1> DEFINE Advances(t) ==
        (pc[t] = "walk" /\ cur[t] # NULL /\ pc'[t] = "walk") =>
           \/ cur'[t] = cur[t] /\ live' \subseteq live /\ (live' = live => UNCHANGED blockVars)
           \/ UNCHANGED blockVars /\ cur'[t] = NULL
           \/ UNCHANGED blockVars /\ cur'[t] \in live /\ offset[cur'[t]] > offset[cur[t]]
<1>1. ASSUME ShmInv, [Next]_vars PROVE [\A t \in Threads : Advances(t)]_vars
  <2>0. TypeOK /\ Partition /\ WalkInv
    BY <1>1 DEF ShmInv
  <2> SUFFICES ASSUME Next, NEW t \in Threads,
                      pc[t] = "walk", cur[t] # NULL, pc'[t] = "walk"
               PROVE  Advances(t)
    BY <1>1
  <2> HIDE DEF Advances
  <2>1. ASSUME cur'[t] = cur[t], UNCHANGED blockVars PROVE Advances(t)
    BY <2>1 DEF Advances, blockVars
  <2>2. ASSUME NEW u \in Threads, NEW s \in Sessions,
               FreeCall(u, s) \/ \E k \in Pages : AllocCall(u, s, k)
        PROVE  Advances(t)
    <3>1. u # t
        BY <2>2 DEF FreeCall, AllocCall
    <3> QED
        BY <2>0, <2>1, <2>2, <3>1 DEF FreeCall, AllocCall, TypeOK
  <2>3. ASSUME NEW u \in Threads, AllocEnter(u) \/ FreeClear(u)
        PROVE  Advances(t)
    <3>1. u # t
        BY <2>3 DEF AllocEnter, FreeClear
    <3> QED
        BY <2>0, <2>1, <2>3, <3>1 DEF AllocEnter, FreeClear, Stop, TypeOK
  <2>4. ASSUME NEW u \in Threads, FreeBlock(u) PROVE Advances(t)
    <3>1. ~ShmSemFree
        BY DEF ShmSemFree
    <3> QED
        BY <2>1, <2>4, <3>1 DEF FreeBlock, blockVars
  <2>5. ASSUME NEW u \in Threads, Skip(u) PROVE Advances(t)
    <3>1. u = t
        BY <2>0, <2>5 DEF Skip, At, WalkInv
    <3>2. PICK b \in live : /\ cur[t] = b
                            /\ \/ MoveTo(t, next[b])
                               \/ next[b] # NULL /\ MoveTo(t, next[next[b]])
        BY <2>5, <3>1 DEF Skip, At
    <3>3. \A c \in live : next[c] # NULL => next[c] \in live /\ offset[next[c]] > offset[c]
        BY <2>0 DEF Partition, End, TypeOK
    <3>4. UNCHANGED blockVars /\ (cur'[t] = next[b] \/ (next[b] # NULL /\ cur'[t] = next[next[b]]))
        BY <2>0, <3>2 DEF MoveTo, TypeOK
    <3>5. \A c \in live : offset[c] \in Nat
        BY <2>0 DEF TypeOK
    <3> QED
        BY <3>2, <3>3, <3>4, <3>5 DEF Advances
  <2>6. ASSUME NEW u \in Threads, Merge(u) PROVE Advances(t)
    <3>1. PICK b \in live : /\ At(u, b) /\ next[b] # NULL
                            /\ live' = live \ {next[b]} /\ cur' = cur
        BY <2>6 DEF Merge
    <3>2. next[b] \in live
        BY <2>0, <3>1 DEF Partition
    <3> QED
        BY <3>1, <3>2 DEF Advances
  <2>7. ASSUME NEW u \in Threads, TakeExact(u) \/ TakeShift(u) \/ Split(u) \/ NoFit(u)
        PROVE  FALSE
    <3>1. u = t
        BY <2>0, <2>7 DEF TakeExact, TakeShift, Split, NoFit, At, WalkInv
    <3>2. pc'[t] = "idle"
        BY <2>0, <2>7, <3>1 DEF TakeExact, TakeShift, Split, SplitInto, NoFit, Found, Stop, TypeOK
    <3> QED
        BY <3>2
  <2> QED
    BY <2>2, <2>3, <2>4, <2>5, <2>6, <2>7 DEF Next, Walk
<1> QED
    BY <1>1, ShmInvariant, PTL DEF Spec, WalkAdvances
=============================================================================

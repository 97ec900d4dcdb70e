-------------------------- MODULE PnrRingUniProofs -------------------------
(***************************************************************************)
(* Proofs about the unidirectional ring for every capacity and every range *)
(* of indices.                                                             *)
(***************************************************************************)
EXTENDS PnrRingUni, RingIndexProofs

-----------------------------------------------------------------------------
(* Type correctness *)

(* The initial indices and requests have their types.                      *)
LEMMA TypeInit == Init => TypeOK
  <1> SUFFICES ASSUME Init PROVE TypeOK
    OBVIOUS
  <1>1. /\ pFull \in BOOLEAN /\ cEmpty \in BOOLEAN
        /\ notifyC \in BOOLEAN /\ notifyP \in BOOLEAN
    BY Zenon DEF Init
  <1>2. QED
    BY <1>1, IndexClosed, CapacityFacts DEF Init, TypeOK, Pcs, Index

(* Every step of either side keeps the types: the private indices wrap.    *)
LEMMA TypeStep == TypeOK /\ [Next]_vars => TypeOK'
  <1> SUFFICES ASSUME TypeOK, [Next]_vars PROVE TypeOK'
    OBVIOUS
  <1> USE DEF TypeOK, Pcs, pVars, cVars, shVars
  <1>1. CASE ProducerCheckout
    BY <1>1, IndexClosed, ZenonT(40) DEF ProducerCheckout, ProducerRefresh
  <1>2. CASE ProducerAsk
    BY <1>2, IndexClosed DEF ProducerAsk
  <1>3. CASE ProducerFence
    BY <1>3 DEF ProducerFence
  <1>4. CASE ProducerRecheck
    BY <1>4, IndexClosed DEF ProducerRecheck, ProducerRefresh
  <1>5. CASE ProducerCommit
    BY <1>5 DEF ProducerCommit
  <1>6. CASE ProducerCommitLoad
    BY <1>6 DEF ProducerCommitLoad
  <1>7. CASE ProducerDrain
    BY <1>7 DEF ProducerDrain
  <1>8. CASE ProducerSleep \/ ProducerWake
    BY <1>8, ZenonT(40) DEF ProducerSleep, ProducerWake
  <1>9. CASE \E m \in Msg : Produce(m)
    BY <1>9, IndexClosed, ZenonT(40) DEF Produce
  <1>10. CASE ConsumerCheckout
    BY <1>10 DEF ConsumerCheckout, ConsumerRefresh
  <1>11. CASE ConsumerAsk
    BY <1>11 DEF ConsumerAsk
  <1>12. CASE ConsumerFence
    BY <1>12 DEF ConsumerFence
  <1>13. CASE ConsumerRecheck
    BY <1>13 DEF ConsumerRecheck, ConsumerRefresh
  <1>14. CASE Consume
    BY <1>14, IndexClosed, SlotType DEF Consume
  <1>15. CASE ConsumerCommit
    BY <1>15 DEF ConsumerCommit
  <1>16. CASE ConsumerCommitLoad
    BY <1>16 DEF ConsumerCommitLoad
  <1>17. CASE ConsumerDrain
    BY <1>17 DEF ConsumerDrain
  <1>18. CASE ConsumerSleep \/ ConsumerWake
    BY <1>18, ZenonT(40) DEF ConsumerSleep, ConsumerWake
  <1>19. CASE UNCHANGED vars
    BY <1>19 DEF vars
  <1> QED
    BY <1>1, <1>2, <1>3, <1>4, <1>5, <1>6, <1>7, <1>8, <1>9, <1>10, <1>11,
       <1>12, <1>13, <1>14, <1>15, <1>16, <1>17, <1>18, <1>19
       DEF Next, ProducerStep, ConsumerStep

(* Every variable of the ring keeps its C type.                            *)
THEOREM TypeCorrect == Spec => []TypeOK
  BY TypeInit, TypeStep, PTL DEF Spec

-----------------------------------------------------------------------------
(* The inductive invariant *)

(* The consumer's sanity check on the published index never fails.         *)
LEMMA PublishedWindow == TypeOK /\ IndicesInOrder => Sub(shProd, cons) <= Capacity
  <1> SUFFICES ASSUME TypeOK, IndicesInOrder PROVE Sub(shProd, cons) <= Capacity
    OBVIOUS
  <1>0. \A i \in Index : Sub(i, shCons) \in Nat
    BY IndexClosed DEF TypeOK, Index
  <1>1. /\ Sub(cons, shCons) <= Sub(shProd, shCons)
        /\ Sub(shProd, shCons) <= Capacity
    BY <1>0, CapacityFacts DEF IndicesInOrder, Ahead, TypeOK
  <1>2. Sub(shProd, cons) = Sub(shProd, shCons) - Sub(cons, shCons)
    BY <1>1, Rebase DEF TypeOK
  <1> QED
    BY <1>0, <1>1, <1>2, CapacityFacts DEF TypeOK

(* No step of either side, and no delayed store, disturbs the order.       *)
LEMMA OrderStep == RingInv /\ [Next]_vars => IndicesInOrder'
  <1> SUFFICES ASSUME RingInv, [Next]_vars PROVE IndicesInOrder'
    OBVIOUS
  <1> USE CapacityFacts DEF pVars, cVars, shVars
  <1>0. /\ TypeOK /\ IndicesInOrder /\ PublicationInv
        /\ \A i, j \in Index : Sub(i, j) \in Int
    BY IndexClosed DEF RingInv, Index
  <1>1. CASE ProducerCheckout \/ ProducerRecheck
    BY <1>0, <1>1, SubFacts
       DEF ProducerCheckout, ProducerRecheck, ProducerRefresh, IndicesInOrder, Ahead, TypeOK
  <1>2. CASE \E m \in Msg : Produce(m)
    <2>1. Sub(prod, shCons) # Sub(prod_end, shCons)
      BY <1>0, <1>2 DEF Produce, TypeOK, Sub, Index
    <2>2. Sub(Add(prod, 1), shCons) = Sub(prod, shCons) + 1
      BY <1>0, <2>1, SubFacts DEF IndicesInOrder, Ahead, TypeOK
    <2> QED
      BY <1>0, <1>2, <2>1, <2>2 DEF Produce, IndicesInOrder, Ahead, TypeOK
  <1>3. CASE ProducerDrain
    BY <1>0, <1>3 DEF ProducerDrain, PublicationInv, IndicesInOrder, Ahead, TypeOK
  <1>4. CASE ConsumerCheckout \/ ConsumerRecheck
    <2>1. Sub(shProd, cons) <= Capacity
      BY <1>0, PublishedWindow
    <2> QED
      BY <1>0, <1>4, <2>1
         DEF ConsumerCheckout, ConsumerRecheck, ConsumerRefresh, IndicesInOrder, Ahead, TypeOK
  <1>5. CASE Consume
    <2>1. Sub(cons, shCons) # Sub(cons_end, shCons)
      BY <1>0, <1>5 DEF Consume, TypeOK, Sub, Index
    <2>2. Sub(Add(cons, 1), shCons) = Sub(cons, shCons) + 1
      BY <1>0, <2>1, SubFacts DEF IndicesInOrder, Ahead, TypeOK
    <2> QED
      BY <1>0, <1>5, <2>1, <2>2 DEF Consume, IndicesInOrder, Ahead, TypeOK
  <1>6. CASE ConsumerDrain
    <2>1. CASE cStore = "cons"
      <3>1. shCons' = cons
        BY <1>0, <1>6, <2>1 DEF ConsumerDrain, PublicationInv
      <3>2. \A x \in {cons, cons_end, shProd, prod, prod_end} :
               Sub(x, cons) = Sub(x, shCons) - Sub(cons, shCons)
        BY <1>0, Rebase DEF IndicesInOrder, Ahead, TypeOK
      <3> QED
        BY <1>0, <1>6, <3>1, <3>2, SubFacts DEF ConsumerDrain, IndicesInOrder, Ahead, TypeOK
    <2>2. CASE cStore # "cons"
      BY <1>0, <1>6, <2>2 DEF ConsumerDrain, IndicesInOrder, Ahead
    <2> QED
      BY <2>1, <2>2
  <1>7. CASE UNCHANGED <<cons, cons_end, prod, prod_end, shVars>>
    BY <1>0, <1>7 DEF IndicesInOrder, Ahead
  <1>8. CASE UNCHANGED vars
    BY <1>7, <1>8 DEF vars
  <1> QED
    BY <1>1, <1>2, <1>3, <1>4, <1>5, <1>6, <1>7, <1>8
       DEF Next, ProducerStep, ConsumerStep, ProducerAsk, ProducerFence, ProducerCommit,
           ProducerCommitLoad, ProducerSleep, ProducerWake, ConsumerAsk, ConsumerFence,
           ConsumerCommit, ConsumerCommitLoad, ConsumerSleep, ConsumerWake

(* What is still in a store buffer is what its owner published last.      *)
LEMMA PublicationStep == RingInv /\ [Next]_vars => PublicationInv'
  <1> SUFFICES ASSUME RingInv, [Next]_vars PROVE PublicationInv'
    OBVIOUS
  <1> USE DEF pVars, cVars, shVars, Committing
  <1>0. TypeOK /\ PublicationInv /\ ConsumerAskInv /\ ProducerAskInv
    BY DEF RingInv
  <1>1. CASE ProducerCheckout \/ ProducerRecheck \/ ProducerFence
    BY <1>0, <1>1 DEF ProducerCheckout, ProducerRecheck, ProducerFence, PublicationInv, TypeOK, Pcs
  <1>2. CASE ProducerAsk
    BY <1>0, <1>2 DEF ProducerAsk, PublicationInv, ProducerAskInv
  <1>3. CASE ProducerCommit
    BY <1>0, <1>3 DEF ProducerCommit, PublicationInv
  <1>4. CASE ProducerCommitLoad
    BY <1>0, <1>4 DEF ProducerCommitLoad, PublicationInv, TypeOK
  <1>5. CASE ProducerDrain
    BY <1>0, <1>5 DEF ProducerDrain, PublicationInv, TypeOK
  <1>6. CASE ProducerSleep \/ ProducerWake \/ \E m \in Msg : Produce(m)
    BY <1>0, <1>6 DEF ProducerSleep, ProducerWake, Produce, PublicationInv, TypeOK
  <1>7. CASE ConsumerCheckout \/ ConsumerRecheck \/ ConsumerFence
    BY <1>0, <1>7 DEF ConsumerCheckout, ConsumerRecheck, ConsumerFence, PublicationInv, TypeOK, Pcs
  <1>8. CASE ConsumerAsk
    BY <1>0, <1>8 DEF ConsumerAsk, PublicationInv, ConsumerAskInv
  <1>9. CASE ConsumerCommit
    BY <1>0, <1>9 DEF ConsumerCommit, PublicationInv
  <1>10. CASE ConsumerCommitLoad
    BY <1>0, <1>10 DEF ConsumerCommitLoad, PublicationInv, TypeOK
  <1>11. CASE ConsumerDrain
    BY <1>0, <1>11 DEF ConsumerDrain, PublicationInv, TypeOK
  <1>12. CASE ConsumerSleep \/ ConsumerWake \/ Consume
    BY <1>0, <1>12 DEF ConsumerSleep, ConsumerWake, Consume, PublicationInv, TypeOK
  <1>13. CASE UNCHANGED vars
    BY <1>0, <1>13 DEF vars, PublicationInv
  <1> QED
    BY <1>1, <1>2, <1>3, <1>4, <1>5, <1>6, <1>7, <1>8, <1>9, <1>10, <1>11, <1>12, <1>13
       DEF Next, ProducerStep, ConsumerStep

(* The consumer's request for a message notification stays accounted for.  *)
LEMMA ConsumerAskStep == RingInv /\ [Next]_vars => ConsumerAskInv'
  <1> SUFFICES ASSUME RingInv, [Next]_vars PROVE ConsumerAskInv'
    OBVIOUS
  <1> USE DEF pVars, cVars, shVars, Committing
  <1>0. TypeOK /\ IndicesInOrder /\ PublicationInv /\ ConsumerAskInv
    BY DEF RingInv
  <1>1. Sub(shProd, cons) <= Capacity
    BY <1>0, PublishedWindow
  <1>2. CASE ProducerCommitLoad
    <2>1. (cEmpty /\ shProd # cons /\ last_published_prod = cons) => notifyC'
      <3>1. shProd = prod
        BY <1>0, <1>2 DEF ProducerCommitLoad, PublicationInv, TypeOK
      <3> QED
        BY <1>0, <1>2, <3>1, PassedFacts
           DEF ProducerCommitLoad, ConsumerAskInv, TypeOK
    <2>2. notifyC => notifyC'
      BY <1>2 DEF ProducerCommitLoad
    <2> QED
      BY <1>0, <1>2, <2>1, <2>2 DEF ProducerCommitLoad, ConsumerAskInv
  <1>3. CASE ProducerDrain
    BY <1>0, <1>3 DEF ProducerDrain, PublicationInv, ConsumerAskInv
  <1>4. CASE ProducerCommit \/ ProducerFence
    BY <1>0, <1>4 DEF ProducerCommit, ProducerFence, ConsumerAskInv, PublicationInv
  <1>5. CASE \/ ProducerCheckout \/ ProducerAsk \/ ProducerRecheck \/ ProducerSleep
             \/ ProducerWake \/ \E m \in Msg : Produce(m)
    BY <1>0, <1>5 DEF ProducerCheckout, ProducerAsk, ProducerRecheck, ProducerSleep,
       ProducerWake, Produce, ConsumerAskInv
  <1>6. CASE ConsumerCheckout
    BY <1>0, <1>6 DEF ConsumerCheckout, ConsumerAskInv, PublicationInv
  <1>7. CASE ConsumerAsk
    BY <1>0, <1>7 DEF ConsumerAsk, ConsumerAskInv
  <1>8. CASE ConsumerFence
    BY <1>0, <1>8 DEF ConsumerFence, ConsumerAskInv
  <1>9. CASE ConsumerRecheck
    BY <1>0, <1>1, <1>9 DEF ConsumerRecheck, ConsumerRefresh, ConsumerAskInv
  <1>10. CASE Consume
    BY <1>0, <1>10 DEF Consume, ConsumerAskInv
  <1>11. CASE ConsumerCommit \/ ConsumerCommitLoad
    BY <1>0, <1>11 DEF ConsumerCommit, ConsumerCommitLoad, ConsumerAskInv
  <1>12. CASE ConsumerDrain
    BY <1>0, <1>12 DEF ConsumerDrain, ConsumerAskInv, PublicationInv, TypeOK
  <1>13. CASE ConsumerSleep \/ ConsumerWake
    BY <1>0, <1>13 DEF ConsumerSleep, ConsumerWake, ConsumerAskInv
  <1>14. CASE UNCHANGED vars
    BY <1>0, <1>14 DEF vars, ConsumerAskInv
  <1> QED
    BY <1>2, <1>3, <1>4, <1>5, <1>6, <1>7, <1>8, <1>9, <1>10, <1>11, <1>12, <1>13, <1>14
       DEF Next, ProducerStep, ConsumerStep

(* The producer's request for a room notification stays accounted for.     *)
LEMMA ProducerAskStep == RingInv /\ [Next]_vars => ProducerAskInv'
  <1> SUFFICES ASSUME RingInv, [Next]_vars PROVE ProducerAskInv'
    OBVIOUS
  <1> USE DEF pVars, cVars, shVars, Committing
  <1>0. TypeOK /\ IndicesInOrder /\ PublicationInv /\ ProducerAskInv
    BY DEF RingInv
  <1>1. Sub(prod, shCons) <= Capacity
    BY <1>0, CapacityFacts, IndexClosed DEF IndicesInOrder, Ahead, TypeOK, Index
  <1>2. CASE ConsumerCommitLoad
    <2>1. (pFull /\ Add(shCons, Capacity) # prod /\ last_published_cons = Sub(prod, Capacity))
              => notifyP'
      <3>1. shCons = cons
        BY <1>0, <1>2 DEF ConsumerCommitLoad, PublicationInv, TypeOK
      <3>2. Add(shCons, Capacity) # prod => shCons # Sub(prod, Capacity)
        BY <1>0, SubFacts DEF TypeOK
      <3> QED
        BY <1>0, <1>2, <3>1, <3>2, PassedFacts
           DEF ConsumerCommitLoad, ProducerAskInv, TypeOK
    <2>2. notifyP => notifyP'
      BY <1>2 DEF ConsumerCommitLoad
    <2> QED
      BY <1>0, <1>2, <2>1, <2>2 DEF ConsumerCommitLoad, ProducerAskInv
  <1>3. CASE ConsumerDrain
    <2>1. Add(shCons, Capacity) = prod => shCons = Sub(prod, Capacity)
      BY <1>0, SubFacts DEF TypeOK
    <2>2. Add(shCons, Capacity) # prod => shCons # Sub(prod, Capacity)
      BY <1>0, SubFacts DEF TypeOK
    <2> QED
      BY <1>0, <1>3, <2>1, <2>2 DEF ConsumerDrain, PublicationInv, ProducerAskInv
  <1>4. CASE ConsumerCommit \/ ConsumerFence
    BY <1>0, <1>4 DEF ConsumerCommit, ConsumerFence, ProducerAskInv, PublicationInv
  <1>5. CASE \/ ConsumerCheckout \/ ConsumerAsk \/ ConsumerRecheck \/ ConsumerSleep
             \/ ConsumerWake \/ Consume
    BY <1>0, <1>5 DEF ConsumerCheckout, ConsumerAsk, ConsumerRecheck, ConsumerSleep,
       ConsumerWake, Consume, ProducerAskInv
  <1>6. CASE ProducerCheckout
    BY <1>0, <1>1, <1>6 DEF ProducerCheckout, ProducerRefresh, ProducerAskInv, PublicationInv
  <1>7. CASE ProducerAsk
    BY <1>0, <1>7 DEF ProducerAsk, ProducerAskInv
  <1>8. CASE ProducerFence
    BY <1>0, <1>8 DEF ProducerFence, ProducerAskInv
  <1>9. CASE ProducerRecheck
    BY <1>0, <1>1, <1>9 DEF ProducerRecheck, ProducerRefresh, ProducerAskInv
  <1>10. CASE \E m \in Msg : Produce(m)
    BY <1>0, <1>10 DEF Produce, ProducerAskInv
  <1>11. CASE ProducerCommit \/ ProducerCommitLoad
    BY <1>0, <1>11 DEF ProducerCommit, ProducerCommitLoad, ProducerAskInv
  <1>12. CASE ProducerDrain
    BY <1>0, <1>12 DEF ProducerDrain, ProducerAskInv, PublicationInv, TypeOK
  <1>13. CASE ProducerSleep \/ ProducerWake
    BY <1>0, <1>13 DEF ProducerSleep, ProducerWake, ProducerAskInv
  <1>14. CASE UNCHANGED vars
    BY <1>0, <1>14 DEF vars, ProducerAskInv
  <1> QED
    BY <1>2, <1>3, <1>4, <1>5, <1>6, <1>7, <1>8, <1>9, <1>10, <1>11, <1>12, <1>13, <1>14
       DEF Next, ProducerStep, ConsumerStep

(* The strengthened invariant holds initially and every step keeps it.     *)
LEMMA RingInvariant == Spec => []RingInv
  <1>1. Init => RingInv
    <2> SUFFICES ASSUME Init PROVE RingInv
      OBVIOUS
    <2>1. TypeOK
      BY TypeInit
    <2>2. IndicesInOrder
      BY CapacityFacts DEF Init, IndicesInOrder, Ahead, Sub
    <2>3. PublicationInv /\ ConsumerAskInv /\ ProducerAskInv
      BY DEF Init, PublicationInv, ConsumerAskInv, ProducerAskInv, Committing
    <2> QED
      BY <2>1, <2>2, <2>3 DEF RingInv
  <1>2. RingInv /\ [Next]_vars => RingInv'
    BY TypeStep, OrderStep, PublicationStep, ConsumerAskStep, ProducerAskStep DEF RingInv
  <1> QED
    BY <1>1, <1>2, PTL DEF Spec

-----------------------------------------------------------------------------
(* Theorems *)

(* The consumer never reads an unpublished slot and the producer never     *)
(* writes a slot the consumer may still read, for every capacity and index *)
(* range, across every wrap-around.                                        *)
THEOREM OrderTheorem == Spec => []IndicesInOrder
  <1>1. RingInv => IndicesInOrder
    BY DEF RingInv
  <1> QED
    BY <1>1, RingInvariant, PTL

(* No message notification is lost, whatever the delay of the stores.      *)
THEOREM MessageWakeupTheorem == Spec => []NoLostMessageWakeup
  <1>1. RingInv => NoLostMessageWakeup
    BY DEF RingInv, ConsumerAskInv, NoLostMessageWakeup, Committing
  <1> QED
    BY <1>1, RingInvariant, PTL

(* No room notification is lost.                                           *)
THEOREM RoomWakeupTheorem == Spec => []NoLostRoomWakeup
  <1>1. RingInv => NoLostRoomWakeup
    BY DEF RingInv, ProducerAskInv, NoLostRoomWakeup, Committing
  <1> QED
    BY <1>1, RingInvariant, PTL

-----------------------------------------------------------------------------
(* Refinement *)

(* All of the messages in flight fit into the array.                       *)
LEMMA FlightWindow ==
    ASSUME RingInv
    PROVE  /\ Sub(prod, cons) \in Nat /\ Sub(prod, cons) <= Capacity
           /\ prod # prod_end => Sub(prod, cons) < Capacity
           /\ cons # cons_end => cons # prod
  <1>0. TypeOK /\ IndicesInOrder
    BY DEF RingInv
  <1>1. \A x \in Index : Sub(x, shCons) \in Nat
    BY <1>0, IndexClosed DEF TypeOK, Index
  <1>2. /\ Sub(cons, shCons) <= Sub(cons_end, shCons)
        /\ Sub(cons_end, shCons) <= Sub(prod, shCons)
        /\ Sub(prod, shCons) <= Sub(prod_end, shCons)
        /\ Sub(prod_end, shCons) <= Capacity
    BY <1>0, <1>1, CapacityFacts DEF IndicesInOrder, Ahead, TypeOK
  <1>3. Sub(prod, cons) = Sub(prod, shCons) - Sub(cons, shCons)
    BY <1>0, <1>1, <1>2, Rebase DEF TypeOK
  <1>4. prod # prod_end => Sub(prod, shCons) # Sub(prod_end, shCons)
    BY <1>0, CapacityFacts DEF TypeOK, Sub, Index
  <1>5. cons # cons_end => Sub(cons, shCons) # Sub(cons_end, shCons)
    BY <1>0, CapacityFacts DEF TypeOK, Sub, Index
  <1> QED
    BY <1>0, <1>1, <1>2, <1>3, <1>4, <1>5, CapacityFacts DEF TypeOK

(* producer_produce is Put, consumer_consume is Get, and no other step is  *)
(* visible to the users of the ring.                                       *)
LEMMA FifoStep == RingInv /\ [Next]_vars => [Fifo!Next]_(Fifo!vars)
  <1> SUFFICES ASSUME RingInv, [Next]_vars PROVE [Fifo!Next]_(Fifo!vars)
    OBVIOUS
  <1> USE DEF pVars, cVars, shVars
  <1>0. TypeOK
    BY DEF RingInv
  <1>1. CASE \E m \in Msg : Produce(m)
    <2>1. PICK m \in Msg : Produce(m)
      BY <1>1
    <2>2. /\ array \in [Slots -> Msg \cup {NoMsg}] /\ m \in Msg \cup {NoMsg}
          /\ cons \in Index /\ prod \in Index /\ Sub(prod, cons) < Capacity
      BY <1>0, <2>1, FlightWindow DEF TypeOK, Produce
    <2>a. /\ array' \in [Slots -> Msg \cup {NoMsg}] /\ array'[Slot(prod)] = m
          /\ SameBut(Slot(prod), array, array')
      BY <2>1, <2>2, SlotType DEF Produce, SameBut
    <2>b. Window(array', cons, Add(prod, 1)) = Append(Window(array, cons, prod), array'[Slot(prod)])
      BY <2>2, <2>a, WindowAppend
    <2>3. InFlight' = Append(InFlight, m)
      BY <2>1, <2>a, <2>b DEF InFlight, Produce
    <2>4. Len(InFlight) < Capacity
      BY <2>2, FlightWindow, WindowType, ZenonT(40) DEF InFlight
    <2> QED
      BY <2>1, <2>3, <2>4 DEF Fifo!Next, Fifo!Put, Produce
  <1>2. CASE Consume
    <2>1. /\ array \in [Slots -> Msg \cup {NoMsg}] /\ cons \in Index /\ prod \in Index
          /\ cons # prod /\ Sub(prod, cons) <= Capacity
      BY <1>0, <1>2, FlightWindow DEF TypeOK, Consume
    <2>2. InFlight # << >> /\ InFlight' = Tail(InFlight) /\ got' = Head(InFlight)
      BY <1>2, <2>1, WindowTail DEF InFlight, Consume
    <2> QED
      BY <2>2 DEF Fifo!Next, Fifo!Get
  <1>3. CASE UNCHANGED <<prod, cons, array, got>>
    BY <1>3 DEF Fifo!vars, InFlight
  <1>4. CASE UNCHANGED vars
    BY <1>3, <1>4 DEF vars
  <1> QED
    BY <1>1, <1>2, <1>3, <1>4
       DEF Next, ProducerStep, ConsumerStep, ProducerCheckout, ProducerAsk, ProducerFence,
           ProducerRecheck, ProducerCommit, ProducerCommitLoad, ProducerDrain, ProducerSleep,
           ProducerWake, ConsumerCheckout, ConsumerAsk, ConsumerFence, ConsumerRecheck,
           ConsumerCommit, ConsumerCommitLoad, ConsumerDrain, ConsumerSleep, ConsumerWake

(* For every capacity and index range the ring is a FIFO of that capacity: *)
(* no message is lost, duplicated, overwritten or reordered between        *)
(* producer_produce and consumer_consume.                                  *)
THEOREM FifoTheorem == Spec => FifoSpec
  <1>1. Init => Fifo!Init
    <2> SUFFICES ASSUME Init PROVE Fifo!Init
      OBVIOUS
    <2>1. TypeOK
      BY TypeInit
    <2>2. InFlight = << >>
      <3>1. /\ array \in [Slots -> Msg \cup {NoMsg}] /\ cons \in Index /\ prod = cons
            /\ Sub(cons, cons) <= Capacity
        BY <2>1, SubFacts, CapacityFacts DEF Init, TypeOK
      <3> QED
        BY <3>1, WindowType DEF InFlight
    <2> QED
      BY <2>2 DEF Fifo!Init, Init
  <1> QED
    BY <1>1, FifoStep, RingInvariant, PTL DEF Spec, FifoSpec, Fifo!Spec
=============================================================================

-------------------------- MODULE PnrRingBiProofs --------------------------
(***************************************************************************)
(* Proofs about the bidirectional ring for every capacity and every range  *)
(* of indices: the order of the indices, the notifications, and that the   *)
(* ring implements the exchange of RequestResponse.                        *)
(***************************************************************************)
EXTENDS PnrRingBi, RingIndexProofs

(* The two parties, and the consumer index that is kept ahead.             *)
LEMMA PartyFacts ==
    ASSUME NEW p \in Party
    PROVE  /\ Other(p) \in Party /\ Other(p) # p /\ Other(Other(p)) = p
           /\ Lead(p) \in Index
  BY IndexClosed, CapacityFacts DEF Party, Other, Lead, Index

(* Sums and differences with the lead are indices.                         *)
LEMMA LeadClosed ==
    ASSUME NEW p \in Party, NEW i \in Index
    PROVE  Add(i, Lead(p)) \in Index /\ Sub(i, Lead(p)) \in Index
  BY CapacityFacts DEF Lead, Index, Add, Sub

-----------------------------------------------------------------------------
(* Type correctness *)

(* The initial indices and flags have their types.                         *)
LEMMA TypeInit == Init => TypeOK
  <1> SUFFICES ASSUME Init PROVE TypeOK
    OBVIOUS
  <1>1. told \in [Party -> BOOLEAN] /\ notify \in [Party -> BOOLEAN]
    BY Zenon DEF Init
  <1>2. /\ prod \in [Party -> Index] /\ last_published_prod \in [Party -> Index]
        /\ cons \in [Party -> Index] /\ cons_end \in [Party -> Index]
        /\ shProd \in [Party -> Index] /\ limit \in [Party -> Index] /\ val \in [Party -> Index]
    BY PartyFacts, IndexClosed, CapacityFacts DEF Init, Index
  <1>3. /\ array \in [Slots -> Request \cup Response \cup {NoMsg}]
        /\ store \in [Party -> {"none", "prod", "limit"}] /\ pc \in [Party -> Pcs]
        /\ got \in [Party -> Request \cup Response \cup {NoMsg}]
    BY DEF Init, Pcs
  <1> QED
    BY <1>1, <1>2, <1>3 DEF TypeOK

(* Every step of either party keeps the types: the private indices wrap.   *)
LEMMA TypeStep == TypeOK /\ [Next]_vars => TypeOK'
  <1> SUFFICES ASSUME TypeOK, [Next]_vars PROVE TypeOK'
    OBVIOUS
  <1> USE DEF TypeOK, Pcs, private, Goto
  <1>1. ASSUME NEW p \in Party, Checkout(p) PROVE TypeOK'
    BY <1>1 DEF Checkout
  <1>2. ASSUME NEW p \in Party, Ask(p) PROVE TypeOK'
    BY <1>2, LeadClosed DEF Ask
  <1>3. ASSUME NEW p \in Party, Recheck(p) PROVE TypeOK'
    <2>1. told' \in [Party -> BOOLEAN]
      BY Zenon, <1>3 DEF Recheck
    <2> QED
      BY <1>3, <2>1 DEF Recheck
  <1>4. ASSUME NEW p \in Party, Consume(p) PROVE TypeOK'
    BY <1>4, IndexClosed, SlotType DEF Consume
  <1>5. ASSUME NEW p \in Party, NEW m \in Message(p), Produce(p, m) PROVE TypeOK'
    BY <1>5, IndexClosed, SlotType DEF Produce, Message
  <1>6. ASSUME NEW p \in Party, Commit(p) PROVE TypeOK'
    BY <1>6 DEF Commit
  <1>7. ASSUME NEW p \in Party, CommitLoad(p) PROVE TypeOK'
    <2>1. notify' \in [Party -> BOOLEAN]
      BY Zenon, <1>7, PartyFacts DEF CommitLoad
    <2> QED
      BY <1>7, <2>1 DEF CommitLoad
  <1>8. ASSUME NEW p \in Party, Drain(p) PROVE TypeOK'
    BY <1>8, PartyFacts, IndexClosed, CapacityFacts DEF Drain
  <1>9. ASSUME NEW p \in Party, Wake(p) PROVE TypeOK'
    BY <1>9 DEF Wake
  <1>10. CASE UNCHANGED vars
    BY <1>10 DEF vars
  <1> QED
    BY <1>1, <1>2, <1>3, <1>4, <1>5, <1>6, <1>7, <1>8, <1>9, <1>10
       DEF Next, Receiving, Producing

(* Every variable of the ring keeps its C type.                            *)
THEOREM TypeCorrect == Spec => []TypeOK
  BY TypeInit, TypeStep, PTL DEF Spec

-----------------------------------------------------------------------------
(* The order of the indices *)

(* The index of the first response that is not collected.                  *)
First == Sub(cons["client"], Capacity)

(* The same order, with the distances written out.                         *)
LEMMA OrderFacts ==
    ASSUME TypeOK
    PROVE  /\ First \in Index /\ RealCons("client") = First /\ RealCons("server") = cons["server"]
           /\ \A i \in Index : Sub(i, First) \in Nat /\ Ahead(i) = Sub(i, First)
           /\ Sub(cons_end["client"], Capacity) \in Index
           /\ \A p \in Party : /\ cons[p] \in Index /\ cons_end[p] \in Index
                               /\ prod[p] \in Index /\ shProd[p] \in Index
                               /\ last_published_prod[p] \in Index
           /\ "client" \in Party /\ "server" \in Party
  <1>1. \A p \in Party : /\ cons[p] \in Index /\ cons_end[p] \in Index
                         /\ prod[p] \in Index /\ shProd[p] \in Index
                         /\ last_published_prod[p] \in Index
    BY DEF TypeOK
  <1>2. "client" \in Party /\ "server" \in Party
    BY DEF Party
  <1>3. RealCons("client") = First /\ RealCons("server") = cons["server"]
    BY <1>1, <1>2 DEF RealCons, First, Lead, Sub, Index
  <1>4. First \in Index /\ Sub(cons_end["client"], Capacity) \in Index
    BY <1>1, <1>2, IndexClosed DEF First
  <1>5. \A i \in Index : Sub(i, First) \in Nat /\ Ahead(i) = Sub(i, First)
    BY <1>3, <1>4, IndexClosed DEF Index, Ahead
  <1> QED
    BY <1>1, <1>2, <1>3, <1>4, <1>5

(* The plausibility test of a checkout never fails: what can be consumed   *)
(* is what the other party has published.                                  *)
LEMMA CheckoutEnd ==
    ASSUME TypeOK, IndicesInOrder, PublicationInv,
           NEW p \in Party, pc[p] # "commit_load", NEW end, CheckoutHelper(p, end)
    PROVE  end = Add(shProd[Other(p)], Lead(p))
  <1>1. last_published_prod[p] = shProd[p]
    BY DEF PublicationInv
  <1>2. CASE p = "client"
    <2>1. Sub(shProd["server"], First) <= Sub(shProd["client"], First)
      BY OrderFacts, CapacityFacts DEF IndicesInOrder
    <2> QED
      BY <1>1, <1>2, <2>1, OrderFacts DEF CheckoutHelper, Farthest, Other
  <1>3. CASE p = "server"
    <2> DEFINE c == shProd["client"]
               s == shProd["server"]
               x == cons["server"]
    <2>1. /\ Sub(s, First) <= Sub(x, First) /\ Sub(x, First) <= Sub(c, First)
          /\ Sub(c, First) <= Capacity
      BY OrderFacts, CapacityFacts DEF IndicesInOrder
    <2>2. c \in Index /\ s \in Index /\ x \in Index /\ First \in Index
      BY OrderFacts
    <2> HIDE DEF c, s, x, First
    <2>3. Sub(c, x) <= Sub(Add(s, Capacity), x)
      BY <2>1, <2>2, CapacityFacts DEF Sub, Add, Index
    <2> QED
      BY <1>1, <1>3, <2>3, OrderFacts DEF CheckoutHelper, Farthest, Other, c, s, x
  <1> QED
    BY <1>2, <1>3 DEF Party

(* Neither a step of a party nor a delayed store disturbs the order.       *)
LEMMA OrderStep == RingInv /\ [Next]_vars => IndicesInOrder'
  <1> SUFFICES ASSUME RingInv, [Next]_vars PROVE IndicesInOrder'
    OBVIOUS
  <1> USE DEF private, Goto
  <1>0. TypeOK /\ IndicesInOrder /\ PublicationInv /\ TypeOK'
    BY TypeStep DEF RingInv
  <1> DEFINE D(i) == Sub(i, First)
             e == Sub(cons_end["client"], Capacity)
  <1>a. /\ D(e) <= D(shProd["server"]) /\ D(shProd["server"]) <= D(prod["server"])
        /\ D(prod["server"]) <= D(cons["server"]) /\ D(cons["server"]) <= D(cons_end["server"])
        /\ D(cons_end["server"]) <= D(shProd["client"])
        /\ D(shProd["client"]) <= D(prod["client"]) /\ D(prod["client"]) <= Capacity
    BY <1>0, OrderFacts DEF IndicesInOrder
  <1>b. ASSUME First' = First,
               /\ D(e') <= D(shProd["server"]') /\ D(shProd["server"]') <= D(prod["server"]')
               /\ D(prod["server"]') <= D(cons["server"]')
               /\ D(cons["server"]') <= D(cons_end["server"]')
               /\ D(cons_end["server"]') <= D(shProd["client"]')
               /\ D(shProd["client"]') <= D(prod["client"]') /\ D(prod["client"]') <= Capacity
        PROVE  IndicesInOrder'
    BY <1>0, <1>b, OrderFacts DEF IndicesInOrder, Ahead, RealCons, Lead, First
  <1>1. ASSUME NEW p \in Party, Checkout(p) \/ Recheck(p) PROVE IndicesInOrder'
    <2>1. PICK end \in Index : CheckoutHelper(p, end) /\ cons_end' = [cons_end EXCEPT ![p] = end]
      BY <1>1 DEF Checkout, Recheck
    <2>2. end = Add(shProd[Other(p)], Lead(p))
      BY <1>0, <1>1, <2>1, CheckoutEnd DEF Checkout, Recheck
    <2>3. CASE p = "client"
      <3>1. Sub(end, Capacity) = shProd["server"]
        BY <1>0, <2>2, <2>3, OrderFacts, SubFacts DEF Other, Lead
      <3> QED
        BY <1>0, <1>1, <1>a, <1>b, <2>1, <2>3, <3>1, OrderFacts DEF Checkout, Recheck, First, TypeOK
    <2>4. CASE p = "server"
      <3>1. end = shProd["client"]
        BY <1>0, <2>2, <2>4, OrderFacts, AddSub DEF Other, Lead
      <3> QED
        BY <1>0, <1>1, <1>a, <1>b, <2>1, <2>4, <3>1, OrderFacts DEF Checkout, Recheck, First, TypeOK
    <2> QED
      BY <2>3, <2>4 DEF Party
  <1>2. ASSUME NEW p \in Party, Consume(p) PROVE IndicesInOrder'
    <2>0. Add(cons[p], 1) \in Index
      BY <1>0, OrderFacts, IndexClosed
    <2>1. CASE p = "server"
      <3>1. D(cons["server"]) # D(cons_end["server"])
        BY <1>0, <1>2, <2>1, OrderFacts, SubInjective DEF Consume
      <3>2. D(Add(cons["server"], 1)) = D(cons["server"]) + 1
        BY <1>0, <1>a, <3>1, OrderFacts, SubFacts, CapacityFacts
      <3> QED
        BY <1>0, <1>2, <1>a, <1>b, <2>1, <3>1, <3>2, OrderFacts DEF Consume, First, TypeOK
    <2>2. CASE p = "client"
      <3> DEFINE f == Add(First, 1)
      <3>1. f \in Index /\ First' = f
        BY <1>0, <1>2, <2>2, OrderFacts, CapacityFacts DEF Consume, First, TypeOK, Sub, Add, Index
      <3>2. D(e) # 0
        <4>1. D(e) = 0 => e = First
          BY <1>0, OrderFacts, SubFacts
        <4>2. e = First => cons_end["client"] = cons["client"]
          BY <1>0, OrderFacts, IndexClosed, SubInjective, CapacityFacts DEF First
        <4> QED
          BY <1>2, <2>2, <4>1, <4>2 DEF Consume
      <3>3. D(f) = 1
        BY <1>0, OrderFacts, SubFacts, CapacityFacts
      <3> HIDE DEF f
      <3>4. /\ Sub(e, f) = D(e) - 1
            /\ \A p1 \in Party : /\ Sub(shProd[p1], f) = D(shProd[p1]) - 1
                                 /\ Sub(prod[p1], f) = D(prod[p1]) - 1
            /\ Sub(cons["server"], f) = D(cons["server"]) - 1
            /\ Sub(cons_end["server"], f) = D(cons_end["server"]) - 1
        <4>1. \A i \in Index : D(i) >= 1 => Sub(i, f) = D(i) - 1
          BY <1>0, <3>1, <3>3, OrderFacts, Rebase
        <4> QED
          BY <1>0, <1>a, <3>2, <4>1, OrderFacts DEF Party
      <3>5. /\ Sub(e, f) <= Sub(shProd["server"], f)
            /\ Sub(shProd["server"], f) <= Sub(prod["server"], f)
            /\ Sub(prod["server"], f) <= Sub(cons["server"], f)
            /\ Sub(cons["server"], f) <= Sub(cons_end["server"], f)
            /\ Sub(cons_end["server"], f) <= Sub(shProd["client"], f)
            /\ Sub(shProd["client"], f) <= Sub(prod["client"], f)
            /\ Sub(prod["client"], f) <= Capacity
        BY <1>0, <1>a, <3>4, OrderFacts, CapacityFacts
      <3>6. /\ \A i \in Index : Ahead(i)' = Sub(i, f)
            /\ UNCHANGED <<shProd, prod, cons_end>> /\ cons["server"]' = cons["server"]
        <4>1. RealCons("client")' = f
          BY <3>1 DEF RealCons, Lead, First
        <4> QED
          BY <1>2, <2>2, <4>1, <1>0 DEF Consume, Ahead, TypeOK, Party
      <3> QED
        BY <1>0, <3>5, <3>6, OrderFacts DEF IndicesInOrder
    <2> QED
      BY <2>1, <2>2 DEF Party
  <1>3. ASSUME NEW p \in Party, NEW m \in Message(p), Produce(p, m) PROVE IndicesInOrder'
    <2>1. CASE p = "client"
      <3>1. D(prod["client"]) # Capacity
        BY <1>0, <1>3, <2>1, OrderFacts, SubInjective DEF Produce, First
      <3>2. D(Add(prod["client"], 1)) = D(prod["client"]) + 1
        BY <1>0, <1>a, <3>1, OrderFacts, SubFacts, CapacityFacts
      <3> QED
        BY <1>0, <1>3, <1>a, <1>b, <2>1, <3>1, <3>2, OrderFacts, CapacityFacts
           DEF Produce, First, TypeOK
    <2>2. CASE p = "server"
      <3>1. D(prod["server"]) # D(cons["server"])
        BY <1>0, <1>3, <2>2, OrderFacts, SubInjective DEF Produce
      <3>2. D(Add(prod["server"], 1)) = D(prod["server"]) + 1
        BY <1>0, <1>a, <3>1, OrderFacts, SubFacts, CapacityFacts
      <3> QED
        BY <1>0, <1>3, <1>a, <1>b, <2>2, <3>1, <3>2, OrderFacts DEF Produce, First, TypeOK
    <2> QED
      BY <2>1, <2>2 DEF Party
  <1>4. ASSUME NEW p \in Party, Drain(p) PROVE IndicesInOrder'
    <2>1. shProd' = [shProd EXCEPT ![p] = IF store[p] = "prod" THEN prod[p] ELSE @]
      BY <1>0, <1>4 DEF Drain, PublicationInv
    <2>2. CASE p = "client"
      BY <1>0, <1>4, <1>a, <1>b, <2>1, <2>2, OrderFacts DEF Drain, First, TypeOK
    <2>3. CASE p = "server"
      BY <1>0, <1>4, <1>a, <1>b, <2>1, <2>3, OrderFacts DEF Drain, First, TypeOK
    <2> QED
      BY <2>2, <2>3 DEF Party
  <1>5. CASE UNCHANGED <<cons, cons_end, prod, shProd>>
    BY <1>0, <1>5 DEF IndicesInOrder, Ahead, RealCons
  <1>6. CASE UNCHANGED vars
    BY <1>5, <1>6 DEF vars
  <1> QED
    BY <1>1, <1>2, <1>3, <1>4, <1>5, <1>6
       DEF Next, Receiving, Producing, Ask, Commit, CommitLoad, Wake

-----------------------------------------------------------------------------
(* Publication and notification *)

(* What is still in a store buffer is what its owner published last.       *)
LEMMA PublicationStep == RingInv /\ [Next]_vars => PublicationInv'
  <1> SUFFICES ASSUME RingInv, [Next]_vars PROVE PublicationInv'
    OBVIOUS
  <1> USE DEF private, Goto, TypeOK, PublicationInv
  <1>0. TypeOK /\ PublicationInv /\ AskInv
    BY DEF RingInv
  <1>1. ASSUME NEW p \in Party, Checkout(p) \/ Recheck(p) PROVE PublicationInv'
    BY <1>0, <1>1 DEF Checkout, Recheck, Fenced, RealCons
  <1>2. ASSUME NEW p \in Party, Ask(p) PROVE PublicationInv'
    BY <1>0, <1>2 DEF Ask, AskInv, RealCons
  <1>3. ASSUME NEW p \in Party, Consume(p) PROVE PublicationInv'
    BY <1>0, <1>3 DEF Consume, RealCons
  <1>4. ASSUME NEW p \in Party, NEW m \in Message(p), Produce(p, m) PROVE PublicationInv'
    BY <1>0, <1>4 DEF Produce, RealCons
  <1>5. ASSUME NEW p \in Party, Commit(p) PROVE PublicationInv'
    BY <1>0, <1>5 DEF Commit, RealCons
  <1>6. ASSUME NEW p \in Party, CommitLoad(p) PROVE PublicationInv'
    BY <1>0, <1>6 DEF CommitLoad, Fenced, RealCons
  <1>7. ASSUME NEW p \in Party, Drain(p) PROVE PublicationInv'
    BY <1>0, <1>7 DEF Drain, RealCons
  <1>8. ASSUME NEW p \in Party, Wake(p) PROVE PublicationInv'
    BY <1>0, <1>8 DEF Wake, RealCons
  <1>9. CASE UNCHANGED vars
    BY <1>0, <1>9 DEF vars, RealCons
  <1> QED
    BY <1>1, <1>2, <1>3, <1>4, <1>5, <1>6, <1>7, <1>8, <1>9 DEF Next, Receiving, Producing

(* A request for a notification stays accounted for, in both directions.   *)
LEMMA AskStep == RingInv /\ [Next]_vars => AskInv'
  <1> SUFFICES ASSUME RingInv, [Next]_vars PROVE AskInv'
    OBVIOUS
  <1> USE DEF private, Goto, TypeOK
  <1>0. TypeOK /\ IndicesInOrder /\ PublicationInv /\ AskInv
    BY DEF RingInv
  <1>1. ASSUME NEW p \in Party, Checkout(p) PROVE AskInv'
    BY <1>0, <1>1, PartyFacts DEF Checkout, AskInv, RealCons
  <1>2. ASSUME NEW p \in Party, Ask(p) PROVE AskInv'
    BY <1>0, <1>2, PartyFacts DEF Ask, AskInv, RealCons
  <1>3. ASSUME NEW p \in Party, Recheck(p) PROVE AskInv'
    <2>1. PICK end \in Index : CheckoutHelper(p, end) /\ cons_end' = [cons_end EXCEPT ![p] = end]
                              /\ told' = [told EXCEPT ![p] = end = cons[p]]
      BY <1>3 DEF Recheck
    <2>2. end = Add(shProd[Other(p)], Lead(p))
      BY <1>0, <1>3, <2>1, CheckoutEnd DEF Recheck
    <2>3. end = cons[p] => shProd[Other(p)] = RealCons(p)
      BY <1>0, <2>2, PartyFacts, CapacityFacts DEF RealCons, Lead, Add, Sub, Index
    <2>4. limit[Other(p)] = RealCons(p)
      BY <1>0, <1>3 DEF Recheck, Fenced, AskInv
    <2> QED
      BY <1>0, <1>3, <2>1, <2>3, <2>4, PartyFacts DEF Recheck, AskInv, RealCons
  <1>4. ASSUME NEW p \in Party, Consume(p) PROVE AskInv'
    BY <1>0, <1>4, PartyFacts DEF Consume, AskInv, RealCons
  <1>5. ASSUME NEW p \in Party, NEW m \in Message(p), Produce(p, m) PROVE AskInv'
    BY <1>0, <1>5, PartyFacts DEF Produce, AskInv, RealCons
  <1>6. ASSUME NEW p \in Party, Commit(p) PROVE AskInv'
    BY <1>0, <1>6, PartyFacts DEF Commit, AskInv, RealCons, PublicationInv
  <1>7. ASSUME NEW p \in Party, CommitLoad(p) PROVE AskInv'
    <2> DEFINE q == Other(p)
    <2>0. q \in Party /\ q # p /\ Other(q) = p
      BY PartyFacts
    <2>1. shProd[p] = prod[p] /\ RealCons(q) \in Index
      BY <1>0, <1>7, <2>0, LeadClosed DEF CommitLoad, Fenced, PublicationInv, RealCons
    <2>2. (told[q] /\ shProd[p] # RealCons(q)) => notify'[q]
      <3> SUFFICES ASSUME told[q], shProd[p] # RealCons(q) PROVE notify'[q]
        OBVIOUS
      <3>1. notify'[q] = (notify[q] \/ Passed(prod[p], last_published_prod[p], limit[p]))
        BY <1>0, <1>7, <2>0 DEF CommitLoad
      <3>2. CASE notify[q]
        BY <3>1, <3>2
      <3>3. CASE last_published_prod[p] = RealCons(q)
        <4>1. limit[p] = RealCons(q)
          BY <1>0, <2>0 DEF AskInv
        <4>2. Passed(prod[p], RealCons(q), RealCons(q))
          BY <1>0, <2>1, PassedFacts
        <4> QED
          BY <3>1, <3>3, <4>1, <4>2
      <3> QED
        BY <1>0, <2>0, <3>2, <3>3 DEF AskInv
    <2>3. /\ \A r \in Party : RealCons(r)' = RealCons(r)
          /\ \A r \in Party : r # p => pc'[r] = pc[r] /\ last_published_prod'[r] = last_published_prod[r]
          /\ pc'[p] = "idle" /\ pc[p] = "commit_load"
          /\ notify'[p] = notify[p]
          /\ UNCHANGED <<cons, cons_end, limit, told, shProd, store>>
      BY <1>0, <1>7, <2>0 DEF CommitLoad, RealCons
    <2>4. \A r \in Party : r = p \/ r = q
      BY DEF Party, Other
    <2> HIDE DEF q
    <2>5. \A r \in Party :
            /\ pc'[r] \in {"ask", "recheck"} \/ told'[r] => cons_end'[r] = cons'[r]
            /\ (pc'[r] = "recheck" /\ store'[r] = "none") \/ told'[r] => limit'[Other(r)] = RealCons(r)'
            /\ told'[r] => pc'[r] \notin {"ask", "recheck"}
      BY <1>0, <2>0, <2>3, <2>4 DEF AskInv
    <2>6. told'[p] /\ shProd'[q] # RealCons(p)'
            => notify'[p] \/ (pc'[q] = "commit_load" /\ last_published_prod'[q] = RealCons(p)')
      BY <1>0, <2>0, <2>3 DEF AskInv, q
    <2> QED
      BY <2>0, <2>2, <2>3, <2>4, <2>5, <2>6, PartyFacts DEF AskInv, q
  <1>8. ASSUME NEW p \in Party, Drain(p) PROVE AskInv'
    BY <1>0, <1>8, PartyFacts DEF Drain, AskInv, RealCons, PublicationInv
  <1>9. ASSUME NEW p \in Party, Wake(p) PROVE AskInv'
    BY <1>0, <1>9, PartyFacts DEF Wake, AskInv, RealCons
  <1>10. CASE UNCHANGED vars
    BY <1>0, <1>10 DEF vars, AskInv, RealCons
  <1> QED
    BY <1>1, <1>2, <1>3, <1>4, <1>5, <1>6, <1>7, <1>8, <1>9, <1>10
       DEF Next, Receiving, Producing

(* The strengthened invariant holds initially and every step keeps it.     *)
LEMMA RingInvariant == Spec => []RingInv
  <1>1. Init => RingInv
    <2> SUFFICES ASSUME Init PROVE RingInv
      OBVIOUS
    <2>1. TypeOK
      BY TypeInit
    <2>2. Sub(Capacity, Capacity) = 0 /\ Sub(0, 0) = 0
      BY CapacityFacts DEF Sub
    <2>3. \A p \in Party : RealCons(p) = 0
      BY <2>2 DEF Init, RealCons, Lead
    <2>4. IndicesInOrder
      BY <2>2, <2>3, CapacityFacts DEF Init, IndicesInOrder, Ahead, Party, Lead
    <2>5. PublicationInv /\ AskInv
      BY <2>3, PartyFacts DEF Init, PublicationInv, AskInv
    <2> QED
      BY <2>1, <2>4, <2>5 DEF RingInv
  <1>2. RingInv /\ [Next]_vars => RingInv'
    BY TypeStep, OrderStep, PublicationStep, AskStep DEF RingInv
  <1> QED
    BY <1>1, <1>2, PTL DEF Spec

-----------------------------------------------------------------------------
(* Theorems *)

(* The indices of both parties stay in one window of Capacity slots and in *)
(* order, for every capacity and index range, across every wrap-around: no *)
(* slot is read by one party while the other may write it.                 *)
THEOREM OrderTheorem == Spec => []IndicesInOrder
  <1>1. RingInv => IndicesInOrder
    BY DEF RingInv
  <1> QED
    BY <1>1, RingInvariant, PTL

(* Neither party waits for ever while something is published for it,       *)
(* whatever the delay of the stores and whoever began to wait first.       *)
THEOREM WakeupTheorem == Spec => []NoLostWakeup
  <1>1. RingInv => NoLostWakeup
    BY DEF RingInv, AskInv, NoLostWakeup
  <1> QED
    BY <1>1, RingInvariant, PTL

-----------------------------------------------------------------------------
(* Refinement *)

Contents == Request \cup Response \cup {NoMsg}

(* The windows of the requests and of the responses, side by side.         *)
LEMMA ExchangeWindows ==
    ASSUME RingInv
    PROVE  /\ First \in Index /\ array \in [Slots -> Contents]
           /\ \A p \in Party : cons[p] \in Index /\ prod[p] \in Index
           /\ \A i \in Index : Sub(i, First) \in Nat
           /\ Sub(prod["server"], First) <= Sub(cons["server"], First)
           /\ Sub(cons["server"], First) <= Sub(prod["client"], First)
           /\ Sub(prod["client"], First) <= Capacity
           /\ Sub(cons["server"], prod["server"])
                = Sub(cons["server"], First) - Sub(prod["server"], First)
           /\ Sub(prod["client"], cons["server"])
                = Sub(prod["client"], First) - Sub(cons["server"], First)
           /\ "client" \in Party /\ "server" \in Party
           /\ RealCons("client") = First
  <1>0. TypeOK /\ IndicesInOrder
    BY DEF RingInv
  <1>1. /\ Sub(prod["server"], First) <= Sub(cons["server"], First)
        /\ Sub(cons["server"], First) <= Sub(prod["client"], First)
        /\ Sub(prod["client"], First) <= Capacity
    BY <1>0, OrderFacts, CapacityFacts DEF IndicesInOrder
  <1> QED
    BY <1>0, <1>1, OrderFacts, Rebase DEF TypeOK, Contents

(* The requests, the debt of the server and the responses of the mapping.  *)
requestsBar == Window(array, cons["server"], prod["client"])
takenBar == Sub(cons["server"], prod["server"])
responsesBar == Window(array, RealCons("client"), prod["server"])

(* Their lengths add up to the distance of the client's indices.           *)
LEMMA ExchangeLengths ==
    ASSUME RingInv
    PROVE  /\ Len(requestsBar) = Sub(prod["client"], First) - Sub(cons["server"], First)
           /\ takenBar = Sub(cons["server"], First) - Sub(prod["server"], First)
           /\ Len(responsesBar) = Sub(prod["server"], First)
  <1>t. /\ array \in [Slots -> Contents] /\ First \in Index /\ cons["server"] \in Index
        /\ prod["server"] \in Index /\ prod["client"] \in Index /\ RealCons("client") = First
    BY ExchangeWindows
  <1>1. /\ Sub(prod["client"], cons["server"]) <= Capacity
        /\ Sub(prod["server"], First) <= Capacity
    BY ExchangeWindows, CapacityFacts
  <1>2. /\ Len(requestsBar) = Sub(prod["client"], cons["server"])
        /\ Len(responsesBar) = Sub(prod["server"], First)
    BY <1>t, <1>1, WindowType DEF requestsBar, responsesBar
  <1> QED
    BY <1>2, ExchangeWindows DEF takenBar

(* client_produce is Send.                                                 *)
LEMMA SendStep ==
    ASSUME RingInv, NEW m \in Request, Produce("client", m)
    PROVE  Exchange!Send(m)
  <1>t. /\ array \in [Slots -> Contents] /\ First \in Index /\ cons["server"] \in Index
        /\ prod["server"] \in Index /\ prod["client"] \in Index /\ RealCons("client") = First
    BY ExchangeWindows
  <1>0. /\ prod["client"] # cons["client"] /\ cons' = cons /\ got' = got
        /\ array'[Slot(prod["client"])] = m
        /\ prod'["client"] = Add(prod["client"], 1) /\ prod'["server"] = prod["server"]
    BY ExchangeWindows, SlotType DEF Produce, RingInv, TypeOK, Party, Contents
  <1>w. /\ array' \in [Slots -> Contents]
        /\ SameBut(Slot(prod["client"]), array, array')
    BY ExchangeWindows, SlotType DEF Produce, RingInv, TypeOK, Party, Contents, SameBut
  <1>1. Sub(prod["client"], First) < Capacity
    <2>1. Sub(prod["client"], First) # Capacity
      BY <1>0, ExchangeWindows, SubInjective DEF First
    <2> QED
      BY <2>1, ExchangeWindows, CapacityFacts
  <1>3. requestsBar' = Append(requestsBar, m)
    <2>1. Sub(prod["client"], cons["server"]) < Capacity
      BY <1>1, ExchangeWindows, CapacityFacts
    <2>2. Window(array', cons["server"], Add(prod["client"], 1))
            = Append(Window(array, cons["server"], prod["client"]), array'[Slot(prod["client"])])
      BY <1>w, <1>t, <2>1, WindowAppend
    <2> QED
      BY <1>0, <2>2 DEF requestsBar
  <1>4. responsesBar' = responsesBar
    <2>1. RealCons("client")' = First
      BY <1>0 DEF RealCons, First, Lead
    <2>2. Sub(prod["server"], First) <= Sub(prod["client"], First)
      BY ExchangeWindows
    <2>4. Window(array', First, prod["server"]) = Window(array, First, prod["server"])
      <3>1. array \in [Slots -> Contents] /\ array' \in [Slots -> Contents]
        BY <1>w, <1>t
      <3>2. First \in Index /\ prod["server"] \in Index /\ prod["client"] \in Index
        BY <1>t
      <3>3. SameBut(Slot(prod["client"]), array, array')
        BY <1>w
      <3> QED
        BY <3>1, <3>2, <3>3, <1>1, <2>2, WindowKeepsBehind
    <2> QED
      BY <1>0, <1>t, <2>1, <2>4 DEF responsesBar
  <1>5. Len(requestsBar) + takenBar + Len(responsesBar) < Capacity
    BY <1>1, ExchangeLengths, ExchangeWindows, CapacityFacts
  <1>6. takenBar' = takenBar
    BY <1>0 DEF takenBar
  <1> QED
    BY <1>0, <1>3, <1>4, <1>5, <1>6
       DEF Exchange!Send, Exchange!Outstanding, requestsBar, takenBar, responsesBar

(* server_produce is Answer.                                               *)
LEMMA AnswerStep ==
    ASSUME RingInv, NEW m \in Response, Produce("server", m)
    PROVE  Exchange!Answer(m)
  <1>t. /\ array \in [Slots -> Contents] /\ First \in Index /\ cons["server"] \in Index
        /\ prod["server"] \in Index /\ prod["client"] \in Index /\ RealCons("client") = First
    BY ExchangeWindows
  <1>0. /\ prod["server"] # cons["server"] /\ cons' = cons /\ got' = got
        /\ array'[Slot(prod["server"])] = m
        /\ prod'["server"] = Add(prod["server"], 1) /\ prod'["client"] = prod["client"]
    BY ExchangeWindows, SlotType DEF Produce, RingInv, TypeOK, Party, Contents
  <1>w. /\ array' \in [Slots -> Contents]
        /\ SameBut(Slot(prod["server"]), array, array')
    BY ExchangeWindows, SlotType DEF Produce, RingInv, TypeOK, Party, Contents, SameBut
  <1>1. Sub(prod["server"], First) < Sub(cons["server"], First)
    <2>1. Sub(prod["server"], First) # Sub(cons["server"], First)
      BY <1>0, ExchangeWindows, SubInjective
    <2> QED
      BY <2>1, ExchangeWindows
  <1>3. responsesBar' = Append(responsesBar, m)
    <2>1. RealCons("client")' = First
      BY <1>0 DEF RealCons, First, Lead
    <2>2. Sub(prod["server"], First) < Capacity
      BY <1>1, ExchangeWindows, CapacityFacts
    <2>3. Window(array', First, Add(prod["server"], 1))
            = Append(Window(array, First, prod["server"]), array'[Slot(prod["server"])])
      BY <1>w, <1>t, <2>2, WindowAppend, ZenonT(40)
    <2> QED
      BY <1>0, <1>t, <2>1, <2>3 DEF responsesBar
  <1>4. requestsBar' = requestsBar
    <2>1. Sub(prod["server"], First) < Capacity
      BY <1>1, ExchangeWindows, CapacityFacts
    <2>2. /\ Sub(cons["server"], First) <= Sub(prod["client"], First)
          /\ Sub(prod["client"], First) <= Capacity
      BY ExchangeWindows
    <2>3. Window(array', cons["server"], prod["client"])
            = requestsBar
      BY <1>w, <1>1, <1>t, <2>1, <2>2, WindowKeeps, SMTT(30) DEF requestsBar
    <2> QED
      BY <1>0, <2>3 DEF requestsBar
  <1>5. takenBar > 0 /\ takenBar' = takenBar - 1
    <2>1. takenBar \in Nat /\ takenBar > 0
      BY <1>1, ExchangeLengths, ExchangeWindows
    <2>2. takenBar' = Sub(cons["server"], Add(prod["server"], 1))
      BY <1>0 DEF takenBar
    <2>3. Sub(cons["server"], Add(prod["server"], 1)) = Sub(cons["server"], prod["server"]) - 1
      BY <1>0, <1>t, SubSucc
    <2> QED
      BY <2>1, <2>2, <2>3 DEF takenBar
  <1> QED
    BY <1>0, <1>3, <1>4, <1>5 DEF Exchange!Answer, requestsBar, takenBar, responsesBar

(* server_consume is Take.                                                 *)
LEMMA TakeStep ==
    ASSUME RingInv, Consume("server")
    PROVE  Exchange!Take
  <1>t. /\ array \in [Slots -> Contents] /\ First \in Index /\ cons["server"] \in Index
        /\ prod["server"] \in Index /\ prod["client"] \in Index
    BY ExchangeWindows
  <1>0. /\ UNCHANGED <<prod, array>>
        /\ cons'["server"] = Add(cons["server"], 1) /\ cons'["client"] = cons["client"]
        /\ got' = [got EXCEPT !["server"] = array[Slot(cons["server"])]]
    BY ExchangeWindows DEF Consume, RingInv, TypeOK, Party
  <1>1. cons["server"] # prod["client"] /\ Sub(prod["client"], cons["server"]) <= Capacity
    <2>1. /\ Sub(cons["server"], First) <= Sub(cons_end["server"], First)
          /\ Sub(cons_end["server"], First) <= Sub(prod["client"], First)
          /\ cons_end["server"] \in Index
      BY OrderFacts, CapacityFacts DEF RingInv, IndicesInOrder
    <2>2. Sub(cons["server"], First) # Sub(cons_end["server"], First)
      BY <1>t, <2>1, SubInjective DEF Consume
    <2>3. Sub(cons["server"], First) # Sub(prod["client"], First)
      BY <1>t, <2>1, <2>2, ExchangeWindows
    <2> QED
      BY <2>3, ExchangeWindows, CapacityFacts
  <1>2. /\ requestsBar # << >> /\ Head(requestsBar) = array[Slot(cons["server"])]
        /\ Window(array, Add(cons["server"], 1), prod["client"]) = Tail(requestsBar)
    BY <1>t, <1>1, WindowTail DEF requestsBar
  <1>3. requestsBar' = Tail(requestsBar)
    BY <1>0, <1>2 DEF requestsBar
  <1>4. takenBar' = takenBar + 1
    <2>1. takenBar \in Nat /\ takenBar + 1 < IndexMod
      <3>1. Sub(cons["server"], First) # Sub(prod["client"], First)
        BY <1>t, <1>1, SubInjective
      <3> QED
        BY <3>1, ExchangeLengths, ExchangeWindows, CapacityFacts
    <2>2. Sub(Add(cons["server"], 1), prod["server"]) = Sub(cons["server"], prod["server"]) + 1
      BY <1>t, <2>1, SubFacts DEF takenBar
    <2> QED
      BY <1>0, <2>2 DEF takenBar
  <1>5. responsesBar' = responsesBar
    BY <1>0 DEF responsesBar, RealCons
  <1> QED
    BY <1>0, <1>2, <1>3, <1>4, <1>5 DEF Exchange!Take, requestsBar, takenBar, responsesBar

(* client_consume is Collect.                                              *)
LEMMA CollectStep ==
    ASSUME RingInv, Consume("client")
    PROVE  Exchange!Collect
  <1>t. /\ array \in [Slots -> Contents] /\ First \in Index /\ cons["client"] \in Index
        /\ prod["server"] \in Index /\ prod["client"] \in Index /\ RealCons("client") = First
    BY ExchangeWindows
  <1>0. /\ UNCHANGED <<prod, array>>
        /\ cons'["client"] = Add(cons["client"], 1) /\ cons'["server"] = cons["server"]
        /\ got' = [got EXCEPT !["client"] = array[Slot(cons["client"])]]
    BY ExchangeWindows DEF Consume, RingInv, TypeOK, Party
  <1>1. First # prod["server"] /\ Sub(prod["server"], First) <= Capacity
    <2> DEFINE e == Sub(cons_end["client"], Capacity)
    <2>1. /\ e \in Index /\ cons_end["client"] \in Index
          /\ Sub(e, First) <= Sub(prod["server"], First)
      BY OrderFacts, CapacityFacts DEF RingInv, IndicesInOrder
    <2>2. e # First
      BY <1>t, <2>1, IndexClosed, SubInjective DEF Consume, First
    <2>3. Sub(e, First) # 0
      BY <1>t, <2>1, <2>2, SubFacts
    <2>4. Sub(prod["server"], First) # 0
      BY <2>1, <2>3, ExchangeWindows
    <2> QED
      BY <1>t, <2>4, SubFacts, ExchangeWindows, CapacityFacts
  <1>2. /\ responsesBar # << >> /\ Head(responsesBar) = array[Slot(First)]
        /\ Window(array, Add(First, 1), prod["server"]) = Tail(responsesBar)
    BY <1>t, <1>1, WindowTail DEF responsesBar
  <1>3. RealCons("client")' = Add(First, 1)
    BY <1>0, <1>t, CapacityFacts DEF RealCons, Lead, First, Sub, Add, Index
  <1>4. responsesBar' = Tail(responsesBar)
    BY <1>0, <1>2, <1>3 DEF responsesBar
  <1>5. Slot(cons["client"]) = Slot(First)
    <2>1. Add(First, Capacity) = cons["client"]
      BY <1>t, SubFacts DEF First
    <2> QED
      BY <1>t, <2>1, SlotCapacity
  <1>6. requestsBar' = requestsBar /\ takenBar' = takenBar
    BY <1>0 DEF requestsBar, takenBar
  <1> QED
    BY <1>0, <1>2, <1>4, <1>5, <1>6 DEF Exchange!Collect, requestsBar, takenBar, responsesBar

(* Every step of the ring is one of these or invisible to its users.       *)
LEMMA ExchangeStep == RingInv /\ [Next]_vars => [Exchange!Next]_(Exchange!vars)
  <1> SUFFICES ASSUME RingInv, [Next]_vars PROVE [Exchange!Next]_(Exchange!vars)
    OBVIOUS
  <1> USE DEF Exchange!Next
  <1>1. ASSUME NEW p \in Party, NEW m \in Message(p), Produce(p, m) PROVE Exchange!Next
    BY <1>1, SendStep, AnswerStep DEF Party, Message
  <1>2. ASSUME NEW p \in Party, Consume(p) PROVE Exchange!Next
    BY <1>2, TakeStep, CollectStep DEF Party
  <1>3. CASE UNCHANGED <<prod, cons, array, got>>
    BY <1>3 DEF Exchange!vars, RealCons
  <1>4. CASE UNCHANGED vars
    BY <1>3, <1>4 DEF vars, private
  <1> QED
    BY <1>1, <1>2, <1>3, <1>4
       DEF Next, Receiving, Producing, Checkout, Ask, Recheck, Commit, CommitLoad, Drain, Wake,
           private

(* For every capacity and index range the ring is the exchange that        *)
(* RequestResponse describes: each request is taken once and in order, and *)
(* answered once and in order, and no response overwrites a request that   *)
(* is still to be taken, nor a request a response still to be collected.   *)
THEOREM ExchangeTheorem == Spec => ExchangeSpec
  <1>1. Init => Exchange!Init
    <2> SUFFICES ASSUME Init PROVE Exchange!Init
      OBVIOUS
    <2>1. TypeOK
      BY TypeInit
    <2>2. /\ cons["server"] = 0 /\ prod["client"] = 0 /\ prod["server"] = 0
          /\ RealCons("client") = 0
      BY CapacityFacts DEF Init, RealCons, Lead, Party, Sub
    <2>3. Sub(0, 0) = 0 /\ Window(array, 0, 0) = << >>
      <3>1. array \in [Slots -> Contents] /\ 0 \in Index
        BY <2>1, CapacityFacts DEF TypeOK, Contents, Index
      <3>2. Sub(0, 0) = 0 /\ Sub(0, 0) <= Capacity
        BY CapacityFacts DEF Sub
      <3> QED
        BY <3>1, <3>2, WindowType
    <2> QED
      BY <2>2, <2>3 DEF Exchange!Init, Init, Party
  <1> QED
    BY <1>1, ExchangeStep, RingInvariant, PTL DEF Spec, ExchangeSpec, Exchange!Spec
=============================================================================

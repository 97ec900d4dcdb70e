---------------------------- MODULE PnrRingUni -----------------------------
(***************************************************************************)
(* The unidirectional ring of pnr_ring.h (PNR_RING_GENERATE_UNI): one      *)
(* producer and one consumer in two worlds share an array of slots and     *)
(* four atomic indices.  Every access to a shared index is a step of its   *)
(* own.  A store first sits in its writer's store buffer and becomes       *)
(* visible later; pnr_ring_store_load_fence waits until it has.            *)
(*                                                                         *)
(* What is modelled of the users is their discipline: a user that was told *)
(* "full" (or "empty") publishes what it did and sleeps until notified.    *)
(***************************************************************************)
EXTENDS RingIndex

CONSTANTS Msg,        \* messages
          NoMsg       \* content of a slot never written

ASSUME MsgAssumption == NoMsg \notin Msg

VARIABLES
    prod, last_published_prod, prod_end,   \* *_producer_t
    cons, last_published_cons, cons_end,   \* *_consumer_t
    shProd, cons_limit, shCons, prod_limit, array,   \* *_shared_t
    pStore, pVal,   \* the producer's buffered store: which index, and its value
    cStore, cVal,   \* the consumer's
    ppc, cpc,       \* where each user is
    pFull,          \* the last producer_checkout returned false
    cEmpty,         \* the last consumer_checkout returned false
    notifyC,        \* a notification is on its way to the consumer
    notifyP,        \* ... to the producer
    got             \* the message consumed last

pVars == <<prod, last_published_prod, prod_end, pStore, pVal, ppc, pFull>>
cVars == <<cons, last_published_cons, cons_end, cStore, cVal, cpc, cEmpty, got>>
shVars == <<shProd, cons_limit, shCons, prod_limit, array>>
vars == <<pVars, cVars, shVars, notifyC, notifyP>>

Init ==
    /\ prod = 0 /\ last_published_prod = 0 /\ prod_end = Capacity
    /\ cons = 0 /\ last_published_cons = 0 /\ cons_end = 0
    /\ shProd = 0 /\ cons_limit = IndexMod - 1 /\ shCons = 0 /\ prod_limit = 0
    /\ array = [s \in Slots |-> NoMsg]
    /\ pStore = "none" /\ pVal = 0 /\ cStore = "none" /\ cVal = 0
    /\ ppc = "idle" /\ cpc = "idle" /\ pFull = FALSE /\ cEmpty = FALSE
    /\ notifyC = FALSE /\ notifyP = FALSE /\ got = NoMsg

-----------------------------------------------------------------------------
(* Producer *)

(* Mutant: one slot too many, the capacity counted from the next index.    *)
ProducerRefreshLarge(end) ==
    end = IF Sub(prod, shCons) <= Capacity THEN Add(shCons, Capacity + 1) ELSE prod_end

(* producer_checkout_helper: the load of the shared consumer index and     *)
(* what is made of it.                                                     *)
ProducerRefresh(end) ==
    end = IF Sub(prod, shCons) <= Capacity THEN Add(shCons, Capacity) ELSE prod_end

(* producer_checkout, up to its first return.                              *)
ProducerCheckout ==
    /\ ppc = "idle"
    /\ ProducerRefresh(prod_end')
    /\ IF prod_end' # prod
         THEN ppc' = "idle" /\ pFull' = FALSE
         ELSE ppc' = "ask" /\ pFull' = pFull
    /\ UNCHANGED <<prod, last_published_prod, pStore, pVal, cVars, shVars, notifyC, notifyP>>

(* Mutant: the limit is the end of the window and not its beginning.       *)
ProducerAskEnd ==
    /\ ppc = "ask" /\ pStore = "none"
    /\ pStore' = "cons_limit" /\ pVal' = prod_end
    /\ ppc' = "ask_fence"
    /\ UNCHANGED <<prod, last_published_prod, prod_end, pFull, cVars, shVars, notifyC, notifyP>>

(* The ring is full: ask the consumer for a notification.                  *)
ProducerAsk ==
    /\ ppc = "ask" /\ pStore = "none"
    /\ pStore' = "cons_limit" /\ pVal' = Sub(prod_end, Capacity)
    /\ ppc' = "ask_fence"
    /\ UNCHANGED <<prod, last_published_prod, prod_end, pFull, cVars, shVars, notifyC, notifyP>>

(* Mutant: the fence does not wait for the store before it.                *)
ProducerFenceWeak ==
    /\ \/ ppc = "ask_fence" /\ ppc' = "recheck"
       \/ ppc = "commit_fence" /\ ppc' = "commit_load"
    /\ UNCHANGED <<prod, last_published_prod, prod_end, pStore, pVal, pFull,
                   cVars, shVars, notifyC, notifyP>>

(* pnr_ring_store_load_fence: the buffered store has become visible.       *)
ProducerFence ==
    /\ pStore = "none"
    /\ \/ ppc = "ask_fence" /\ ppc' = "recheck"
       \/ ppc = "commit_fence" /\ ppc' = "commit_load"
    /\ UNCHANGED <<prod, last_published_prod, prod_end, pStore, pVal, pFull,
                   cVars, shVars, notifyC, notifyP>>

(* The second producer_checkout_helper of producer_checkout.               *)
ProducerRecheck ==
    /\ ppc = "recheck"
    /\ ProducerRefresh(prod_end')
    /\ pFull' = (prod_end' = prod)
    /\ ppc' = "idle"
    /\ UNCHANGED <<prod, last_published_prod, pStore, pVal, cVars, shVars, notifyC, notifyP>>

(* Mutant: the index is advanced before the slot is written.               *)
ProduceAfterAdvance(m) ==
    /\ ppc = "idle" /\ prod # prod_end
    /\ array' = [array EXCEPT ![Slot(Add(prod, 1))] = m]
    /\ prod' = Add(prod, 1)
    /\ UNCHANGED <<last_published_prod, prod_end, pStore, pVal, ppc, pFull, cVars,
                   shProd, cons_limit, shCons, prod_limit, notifyC, notifyP>>

(* producer_produce with a free slot; without one it changes nothing.      *)
Produce(m) ==
    /\ ppc = "idle"
    /\ prod # prod_end
    /\ array' = [array EXCEPT ![Slot(prod)] = m]
    /\ prod' = Add(prod, 1)
    /\ UNCHANGED <<last_published_prod, prod_end, pStore, pVal, ppc, pFull, cVars,
                   shProd, cons_limit, shCons, prod_limit, notifyC, notifyP>>

(* producer_commit with something to publish, up to its fence.             *)
ProducerCommit ==
    /\ ppc = "idle" /\ pStore = "none"
    /\ prod # last_published_prod
    /\ pStore' = "prod" /\ pVal' = prod
    /\ ppc' = "commit_fence"
    /\ UNCHANGED <<prod, last_published_prod, prod_end, pFull, cVars, shVars, notifyC, notifyP>>

(* The rest of producer_commit: the load of prod_limit decides whether the *)
(* caller sends a notification.                                            *)
ProducerCommitLoad ==
    /\ ppc = "commit_load"
    /\ notifyC' = (notifyC \/ Passed(prod, last_published_prod, prod_limit))
    /\ last_published_prod' = prod
    /\ ppc' = "idle"
    /\ UNCHANGED <<prod, prod_end, pStore, pVal, pFull, cVars, shVars, notifyP>>

(* A buffered store of the producer reaches shared memory.                 *)
ProducerDrain ==
    /\ pStore # "none"
    /\ shProd' = IF pStore = "prod" THEN pVal ELSE shProd
    /\ cons_limit' = IF pStore = "cons_limit" THEN pVal ELSE cons_limit
    /\ pStore' = "none"
    /\ UNCHANGED <<prod, last_published_prod, prod_end, pVal, ppc, pFull, cVars,
                   shCons, prod_limit, array, notifyC, notifyP>>

(* The caller has nothing left to publish and no room: it waits.           *)
ProducerSleep ==
    /\ ppc = "idle" /\ pFull /\ prod = last_published_prod
    /\ ppc' = "asleep"
    /\ UNCHANGED <<prod, last_published_prod, prod_end, pStore, pVal, pFull,
                   cVars, shVars, notifyC, notifyP>>

ProducerWake ==
    /\ ppc = "asleep" /\ notifyP
    /\ ppc' = "idle" /\ pFull' = FALSE /\ notifyP' = FALSE
    /\ UNCHANGED <<prod, last_published_prod, prod_end, pStore, pVal, cVars, shVars, notifyC>>

-----------------------------------------------------------------------------
(* Consumer *)

(* consumer_checkout_helper.                                               *)
ConsumerRefresh(end) ==
    end = IF Sub(shProd, cons) <= Capacity THEN shProd ELSE cons_end

(* consumer_checkout, up to its first return.  A user that was told "empty" *)
(* does not ask again before it was notified (handle_s_notification).      *)
ConsumerCheckout ==
    /\ cpc = "idle" /\ ~cEmpty
    /\ ConsumerRefresh(cons_end')
    /\ IF cons_end' # cons
         THEN cpc' = "idle" /\ cEmpty' = FALSE
         ELSE cpc' = "ask" /\ cEmpty' = cEmpty
    /\ UNCHANGED <<cons, last_published_cons, cStore, cVal, got, pVars, shVars, notifyC, notifyP>>

(* The ring is empty: ask the producer for a notification.                 *)
ConsumerAsk ==
    /\ cpc = "ask" /\ cStore = "none"
    /\ cStore' = "prod_limit" /\ cVal' = cons_end
    /\ cpc' = "ask_fence"
    /\ UNCHANGED <<cons, last_published_cons, cons_end, cEmpty, got, pVars, shVars, notifyC, notifyP>>

(* Mutant: as ProducerFenceWeak.                                           *)
ConsumerFenceWeak ==
    /\ \/ cpc = "ask_fence" /\ cpc' = "recheck"
       \/ cpc = "commit_fence" /\ cpc' = "commit_load"
    /\ UNCHANGED <<cons, last_published_cons, cons_end, cStore, cVal, cEmpty, got,
                   pVars, shVars, notifyC, notifyP>>

ConsumerFence ==
    /\ cStore = "none"
    /\ \/ cpc = "ask_fence" /\ cpc' = "recheck"
       \/ cpc = "commit_fence" /\ cpc' = "commit_load"
    /\ UNCHANGED <<cons, last_published_cons, cons_end, cStore, cVal, cEmpty, got,
                   pVars, shVars, notifyC, notifyP>>

ConsumerRecheck ==
    /\ cpc = "recheck"
    /\ ConsumerRefresh(cons_end')
    /\ cEmpty' = (cons_end' = cons)
    /\ cpc' = "idle"
    /\ UNCHANGED <<cons, last_published_cons, cStore, cVal, got, pVars, shVars, notifyC, notifyP>>

(* consumer_consume with a message checked out.                            *)
Consume ==
    /\ cpc = "idle"
    /\ cons # cons_end
    /\ got' = array[Slot(cons)]
    /\ cons' = Add(cons, 1)
    /\ UNCHANGED <<last_published_cons, cons_end, cStore, cVal, cpc, cEmpty,
                   pVars, shVars, notifyC, notifyP>>

ConsumerCommit ==
    /\ cpc = "idle" /\ cStore = "none"
    /\ cons # last_published_cons
    /\ cStore' = "cons" /\ cVal' = cons
    /\ cpc' = "commit_fence"
    /\ UNCHANGED <<cons, last_published_cons, cons_end, cEmpty, got, pVars, shVars, notifyC, notifyP>>

ConsumerCommitLoad ==
    /\ cpc = "commit_load"
    /\ notifyP' = (notifyP \/ Passed(cons, last_published_cons, cons_limit))
    /\ last_published_cons' = cons
    /\ cpc' = "idle"
    /\ UNCHANGED <<cons, cons_end, cStore, cVal, cEmpty, got, pVars, shVars, notifyC>>

ConsumerDrain ==
    /\ cStore # "none"
    /\ shCons' = IF cStore = "cons" THEN cVal ELSE shCons
    /\ prod_limit' = IF cStore = "prod_limit" THEN cVal ELSE prod_limit
    /\ cStore' = "none"
    /\ UNCHANGED <<cons, last_published_cons, cons_end, cVal, cpc, cEmpty, got, pVars,
                   shProd, cons_limit, array, notifyC, notifyP>>

ConsumerSleep ==
    /\ cpc = "idle" /\ cEmpty /\ cons = last_published_cons
    /\ cpc' = "asleep"
    /\ UNCHANGED <<cons, last_published_cons, cons_end, cStore, cVal, cEmpty, got,
                   pVars, shVars, notifyC, notifyP>>

ConsumerWake ==
    /\ cpc = "asleep" /\ notifyC
    /\ cpc' = "idle" /\ cEmpty' = FALSE /\ notifyC' = FALSE
    /\ UNCHANGED <<cons, last_published_cons, cons_end, cStore, cVal, got, pVars, shVars, notifyP>>

-----------------------------------------------------------------------------
ProducerStep ==
    \/ ProducerCheckout \/ ProducerAsk \/ ProducerFence \/ ProducerRecheck
    \/ ProducerCommit \/ ProducerCommitLoad \/ ProducerDrain
    \/ ProducerSleep \/ ProducerWake
    \/ \E m \in Msg : Produce(m)

ConsumerStep ==
    \/ ConsumerCheckout \/ ConsumerAsk \/ ConsumerFence \/ ConsumerRecheck
    \/ Consume \/ ConsumerCommit \/ ConsumerCommitLoad \/ ConsumerDrain
    \/ ConsumerSleep \/ ConsumerWake

Next == ProducerStep \/ ConsumerStep

Spec == Init /\ [][Next]_vars

(* An operation that has begun ends and a consumer keeps consuming what it  *)
(* can: both users run kernel code that never blocks inside the ring.      *)
(* Nobody is obliged to produce, to check out for production or to commit. *)
Fairness ==
    /\ WF_vars(ProducerAsk \/ ProducerFence \/ ProducerRecheck \/ ProducerCommitLoad
                \/ ProducerWake)
    /\ WF_vars(ProducerDrain) /\ WF_vars(ConsumerStep) /\ WF_vars(ConsumerDrain)

FairSpec == Spec /\ Fairness
-----------------------------------------------------------------------------
(* Properties *)

Pcs == {"idle", "ask", "ask_fence", "recheck", "commit_fence", "commit_load", "asleep"}

(* Every variable stays within its C type, and the store buffers hold at   *)
(* most the two stores each party makes.                                   *)
TypeOK ==
    /\ prod \in Index /\ last_published_prod \in Index /\ prod_end \in Index
    /\ cons \in Index /\ last_published_cons \in Index /\ cons_end \in Index
    /\ shProd \in Index /\ cons_limit \in Index /\ shCons \in Index /\ prod_limit \in Index
    /\ array \in [Slots -> Msg \cup {NoMsg}] /\ got \in Msg \cup {NoMsg}
    /\ pStore \in {"none", "prod", "cons_limit"} /\ pVal \in Index
    /\ cStore \in {"none", "cons", "prod_limit"} /\ cVal \in Index
    /\ ppc \in Pcs /\ cpc \in Pcs
    /\ pFull \in BOOLEAN /\ cEmpty \in BOOLEAN /\ notifyC \in BOOLEAN /\ notifyP \in BOOLEAN

(* Distance of an index from the consumer index the producer can see.      *)
Ahead(i) == Sub(i, shCons)

(* In spite of wrap-around and of publication delays the six indices stay  *)
(* in one window of Capacity slots and in order: the consumer reads only   *)
(* published slots, and the producer writes only slots whose consumption   *)
(* was published (pnr_ring.h, "In normal operation, c <= p").              *)
IndicesInOrder ==
    /\ Ahead(cons) <= Ahead(cons_end)
    /\ Ahead(cons_end) <= Ahead(shProd)
    /\ Ahead(shProd) <= Ahead(prod)
    /\ Ahead(prod) <= Ahead(prod_end)
    /\ Ahead(prod_end) <= Capacity

(* A consumer that sleeps while a message is published has a notification  *)
(* on its way, or the producer is still inside the commit that sends it    *)
(* (the fences of consumer_checkout and producer_commit).                  *)
NoLostMessageWakeup ==
    (cpc = "asleep" /\ shProd # cons)
        => (notifyC \/ ppc \in {"commit_fence", "commit_load"})

(* The same for a producer that sleeps while room is published (the fences *)
(* of producer_checkout and consumer_commit).                              *)
NoLostRoomWakeup ==
    (ppc = "asleep" /\ Add(shCons, Capacity) # prod)
        => (notifyP \/ cpc \in {"commit_fence", "commit_load"})

(* A published message is eventually consumed, whatever the producer does  *)
(* after its commit: if published messages wait again and again (one that  *)
(* is never consumed waits always), then the consumer goes on consuming.   *)
PublishedIsConsumed == []<>(shProd # cons) => []<><<cons' # cons>>_vars

(* A producer that went to sleep on a full ring gets to run again.         *)
SleepingProducerWakes == (ppc = "asleep") ~> (ppc # "asleep")

(* The messages between the private indices, oldest first.                 *)
InFlight == Window(array, cons, prod)

(* The ring implements a FIFO of Capacity messages: produce and consume    *)
(* are its Put and Get, everything else is invisible.                      *)
Fifo == INSTANCE BoundedFifo WITH queue <- InFlight
FifoSpec == Fifo!Spec

-----------------------------------------------------------------------------
(* The inductive strengthening of the safety properties *)

Committing(pc) == pc \in {"commit_fence", "commit_load"}

(* What is buffered, and how the published indices relate to the private   *)
(* ones at each point of a commit.                                         *)
PublicationInv ==
    /\ pStore = "prod" => ppc = "commit_fence" /\ pVal = prod
    /\ pStore = "cons_limit" => ppc = "ask_fence" /\ pVal = Sub(prod, Capacity)
    /\ pStore = "none" /\ Committing(ppc) => shProd = prod
    /\ pStore = "prod" \/ ~Committing(ppc) => last_published_prod = shProd
    /\ cStore = "cons" => cpc = "commit_fence" /\ cVal = cons
    /\ cStore = "prod_limit" => cpc = "ask_fence" /\ cVal = cons
    /\ cStore = "none" /\ Committing(cpc) => shCons = cons
    /\ cStore = "cons" \/ ~Committing(cpc) => last_published_cons = shCons

(* A consumer that found nothing has made its limit visible, and whoever   *)
(* published since then is in the commit that will notice the limit.       *)
ConsumerAskInv ==
    /\ cpc \in {"ask", "ask_fence", "recheck"} \/ cEmpty => cons_end = cons
    /\ (cpc = "ask_fence" /\ cStore = "none") \/ cpc = "recheck" \/ cEmpty
            => prod_limit = cons
    /\ cpc = "asleep" => cEmpty
    /\ cEmpty => cpc \notin {"ask", "ask_fence", "recheck"}
    /\ cEmpty /\ shProd # cons
            => notifyC \/ (Committing(ppc) /\ last_published_prod = cons)

ProducerAskInv ==
    /\ ppc \in {"ask", "ask_fence", "recheck"} \/ pFull => prod_end = prod
    /\ (ppc = "ask_fence" /\ pStore = "none") \/ ppc = "recheck" \/ pFull
            => cons_limit = Sub(prod, Capacity)
    /\ ppc = "asleep" => pFull
    /\ pFull /\ Add(shCons, Capacity) # prod
            => notifyP \/ (Committing(cpc) /\ last_published_cons = Sub(prod, Capacity))

RingInv ==
    TypeOK /\ IndicesInOrder /\ PublicationInv /\ ConsumerAskInv /\ ProducerAskInv
=============================================================================

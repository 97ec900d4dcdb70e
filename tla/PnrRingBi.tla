----------------------------- MODULE PnrRingBi -----------------------------
(***************************************************************************)
(* The bidirectional ring of pnr_ring.h (PNR_RING_GENERATE_BI): a client   *)
(* writes requests and a server writes the responses into the same slots.  *)
(* The server's producer index doubles as the limit of the client's        *)
(* consumption, the client's consumer index as the limit of its own        *)
(* production: no index of consumption is ever shared.                     *)
(*                                                                         *)
(* The generated client and server functions differ only in the client's   *)
(* consumer index, which is kept one capacity ahead ("such that we can     *)
(* produce until prod == cons"), and in their plausibility tests; here     *)
(* they are one action each, with the party as its parameter.  Stores and  *)
(* fences are those of PnrRingUni: a store sits in its writer's buffer     *)
(* before it becomes visible, and the fence waits until it has.            *)
(***************************************************************************)
EXTENDS RingIndex

CONSTANTS Request, Response,
          NoMsg       \* content of a slot never written

ASSUME MsgAssumption == NoMsg \notin Request \cup Response

VARIABLES
    prod, last_published_prod, cons, cons_end,   \* *_private_t, per party
    shProd,     \* cprod and sprod
    limit,      \* per producing party: cprod_limit and sprod_limit
    array,      \* the message slots
    store, val, \* the buffered store of each party: what it is, its value
    pc,         \* where each party is
    told,       \* the last checkout found nothing: wait for a notification
    notify,     \* a notification is on its way to the party
    got         \* the message the party consumed last

private == <<prod, last_published_prod, cons, cons_end>>
vars == <<private, shProd, limit, array, store, val, pc, told, notify, got>>

Party == {"client", "server"}
Other(p) == IF p = "client" THEN "server" ELSE "client"
Message(p) == IF p = "client" THEN Request ELSE Response

(* How far the party's consumer index is kept ahead of the real one.       *)
Lead(p) == IF p = "client" THEN Capacity ELSE 0

(* real_ccons of client_checkout_helper; the server's is cons itself.      *)
RealCons(p) == Sub(cons[p], Lead(p))

(* client_init, server_init, shared_init.  The client waits for a          *)
(* notification; the server checks out "once after initialization".        *)
Init ==
    /\ prod = [p \in Party |-> 0] /\ last_published_prod = [p \in Party |-> 0]
    /\ cons = [p \in Party |-> Lead(p)] /\ cons_end = [p \in Party |-> Lead(p)]
    /\ shProd = [p \in Party |-> 0] /\ limit = [p \in Party |-> 0]
    /\ array = [s \in Slots |-> NoMsg]
    /\ store = [p \in Party |-> "none"] /\ val = [p \in Party |-> 0]
    /\ pc = [p \in Party |-> "idle"] /\ told = [p \in Party |-> p = "client"]
    /\ notify = [p \in Party |-> FALSE] /\ got = [p \in Party |-> NoMsg]

Goto(p, step) == pc' = [pc EXCEPT ![p] = step]

(* Mutant: a fence that orders stores only.                                *)
FencedStoresOnly(p) == store[p] \in {"none", "prod", "limit"}

(* pnr_ring_store_load_fence lets a load pass once the party's own stores  *)
(* have become visible.                                                    *)
Fenced(p) == store[p] = "none"

-----------------------------------------------------------------------------
(* Consumption *)

(* The farthest index that the other party can have published: the client  *)
(* expects no response beyond its published requests, the server no        *)
(* request beyond a capacity after its published responses.                *)
Farthest(p) ==
    IF p = "client" THEN last_published_prod[p] ELSE Add(last_published_prod[p], Capacity)

(* client_checkout_helper, server_checkout_helper: the load of the other   *)
(* party's index and the new end of what can be consumed.                  *)
CheckoutHelper(p, end) ==
    end = IF Sub(shProd[Other(p)], RealCons(p)) <= Sub(Farthest(p), RealCons(p))
            THEN Add(shProd[Other(p)], Lead(p)) ELSE cons_end[p]

(* Mutant: the refreshed index stays in a local of the helper.             *)
CheckoutForgets(p) ==
    /\ pc[p] = "idle" /\ ~told[p]
    /\ \E end \in Index :
         /\ CheckoutHelper(p, end)
         /\ Goto(p, IF end # cons[p] THEN "idle" ELSE "ask")
    /\ UNCHANGED <<private, shProd, limit, array, store, val, told, notify, got>>

(* *_checkout, up to its first return.  A party that was told "nothing"    *)
(* does not ask again before it is notified.                               *)
Checkout(p) ==
    /\ pc[p] = "idle" /\ ~told[p]
    /\ \E end \in Index :
         /\ CheckoutHelper(p, end)
         /\ cons_end' = [cons_end EXCEPT ![p] = end]
         /\ Goto(p, IF end # cons[p] THEN "idle" ELSE "ask")
    /\ UNCHANGED <<prod, last_published_prod, cons, shProd, limit, array, store, val, told,
                   notify, got>>

(* Nothing there: ask the other party for a notification.                  *)
Ask(p) ==
    /\ pc[p] = "ask" /\ store[p] = "none"
    /\ store' = [store EXCEPT ![p] = "limit"]
    /\ val' = [val EXCEPT ![p] = Sub(cons_end[p], Lead(p))]
    /\ Goto(p, "recheck")
    /\ UNCHANGED <<private, shProd, limit, array, told, notify, got>>

(* The second *_checkout_helper of *_checkout.                             *)
Recheck(p) ==
    /\ pc[p] = "recheck" /\ Fenced(p)
    /\ \E end \in Index :
         /\ CheckoutHelper(p, end)
         /\ cons_end' = [cons_end EXCEPT ![p] = end]
         /\ told' = [told EXCEPT ![p] = end = cons[p]]
    /\ Goto(p, "idle")
    /\ UNCHANGED <<prod, last_published_prod, cons, shProd, limit, array, store, val, notify, got>>

(* Mutant: the slot is read after the index has been advanced.             *)
ConsumeAfterAdvance(p) ==
    /\ pc[p] = "idle" /\ cons[p] # cons_end[p]
    /\ got' = [got EXCEPT ![p] = array[Slot(Add(cons[p], 1))]]
    /\ cons' = [cons EXCEPT ![p] = Add(@, 1)]
    /\ UNCHANGED <<prod, last_published_prod, cons_end, shProd, limit, array, store, val, pc,
                   told, notify>>

(* client_consume, server_consume with something checked out.              *)
Consume(p) ==
    /\ pc[p] = "idle" /\ cons[p] # cons_end[p]
    /\ got' = [got EXCEPT ![p] = array[Slot(cons[p])]]
    /\ cons' = [cons EXCEPT ![p] = Add(@, 1)]
    /\ UNCHANGED <<prod, last_published_prod, cons_end, shProd, limit, array, store, val, pc,
                   told, notify>>

-----------------------------------------------------------------------------
(* Production *)

(* Mutant: the test for a full ring compares with what was checked out.    *)
ProduceToEnd(p, m) ==
    /\ pc[p] = "idle" /\ prod[p] # cons_end[p]
    /\ array' = [array EXCEPT ![Slot(prod[p])] = m]
    /\ prod' = [prod EXCEPT ![p] = Add(@, 1)]
    /\ UNCHANGED <<last_published_prod, cons, cons_end, shProd, limit, store, val, pc, told,
                   notify, got>>

(* client_produce, server_produce with a free slot.                        *)
Produce(p, m) ==
    /\ pc[p] = "idle" /\ prod[p] # cons[p]
    /\ array' = [array EXCEPT ![Slot(prod[p])] = m]
    /\ prod' = [prod EXCEPT ![p] = Add(@, 1)]
    /\ UNCHANGED <<last_published_prod, cons, cons_end, shProd, limit, store, val, pc, told,
                   notify, got>>

(* client_commit, server_commit with something to publish, up to the fence. *)
Commit(p) ==
    /\ pc[p] = "idle" /\ store[p] = "none"
    /\ prod[p] # last_published_prod[p]
    /\ store' = [store EXCEPT ![p] = "prod"]
    /\ val' = [val EXCEPT ![p] = prod[p]]
    /\ Goto(p, "commit_load")
    /\ UNCHANGED <<private, shProd, limit, array, told, notify, got>>

(* The rest of *_commit: the load of the limit decides on a notification.  *)
CommitLoad(p) ==
    /\ pc[p] = "commit_load" /\ Fenced(p)
    /\ notify' = [notify EXCEPT ![Other(p)] =
                    @ \/ Passed(prod[p], last_published_prod[p], limit[p])]
    /\ last_published_prod' = [last_published_prod EXCEPT ![p] = prod[p]]
    /\ Goto(p, "idle")
    /\ UNCHANGED <<prod, cons, cons_end, shProd, limit, array, store, val, told, got>>

-----------------------------------------------------------------------------
(* Memory and notifications *)

(* A buffered store reaches the shared structure.                          *)
Drain(p) ==
    /\ store[p] # "none"
    /\ shProd' = [shProd EXCEPT ![p] = IF store[p] = "prod" THEN val[p] ELSE @]
    /\ limit' = [limit EXCEPT ![Other(p)] = IF store[p] = "limit" THEN val[p] ELSE @]
    /\ store' = [store EXCEPT ![p] = "none"] /\ val' = [val EXCEPT ![p] = 0]
    /\ UNCHANGED <<private, array, pc, told, notify, got>>

(* A notification arrives.  Production does not wait for one: a client may *)
(* send further requests while it waits for responses.                     *)
Wake(p) ==
    /\ pc[p] = "idle" /\ told[p] /\ notify[p]
    /\ told' = [told EXCEPT ![p] = FALSE] /\ notify' = [notify EXCEPT ![p] = FALSE]
    /\ UNCHANGED <<private, shProd, limit, array, store, val, pc, got>>

-----------------------------------------------------------------------------
Receiving(p) == Checkout(p) \/ Ask(p) \/ Recheck(p) \/ Consume(p) \/ Wake(p)
Producing(p) == Commit(p) \/ \E m \in Message(p) : Produce(p, m)

Next == \E p \in Party : Receiving(p) \/ Producing(p) \/ CommitLoad(p) \/ Drain(p)

Spec == Init /\ [][Next]_vars

(* Stores become visible, operations end, both parties receive what is     *)
(* there, and the server answers and publishes its answers.  The client is *)
(* not obliged to send or to publish a request.                            *)
FairSpec ==
    /\ Spec
    /\ \A p \in Party : WF_vars(Drain(p)) /\ WF_vars(Receiving(p) \/ CommitLoad(p))
    /\ WF_vars(\E m \in Response : Produce("server", m)) /\ SF_vars(Commit("server"))

-----------------------------------------------------------------------------
(* Properties *)

Pcs == {"idle", "ask", "recheck", "commit_load"}

(* Every variable stays within its C type.                                 *)
TypeOK ==
    /\ prod \in [Party -> Index] /\ last_published_prod \in [Party -> Index]
    /\ cons \in [Party -> Index] /\ cons_end \in [Party -> Index]
    /\ shProd \in [Party -> Index] /\ limit \in [Party -> Index] /\ val \in [Party -> Index]
    /\ array \in [Slots -> Request \cup Response \cup {NoMsg}]
    /\ store \in [Party -> {"none", "prod", "limit"}] /\ pc \in [Party -> Pcs]
    /\ told \in [Party -> BOOLEAN] /\ notify \in [Party -> BOOLEAN]
    /\ got \in [Party -> Request \cup Response \cup {NoMsg}]

(* Distance of an index from the first response not collected.             *)
Ahead(i) == Sub(i, RealCons("client"))

(* Across wrap-around and publication delays all indices of both parties   *)
(* stay in one window of Capacity slots and in this order: responses       *)
(* collected, checked out, published, written; requests taken, checked     *)
(* out, published, written.  So nobody reads a slot the other may write,   *)
(* and the server has room for every response it owes.                     *)
IndicesInOrder ==
    /\ Ahead(Sub(cons_end["client"], Capacity)) <= Ahead(shProd["server"])
    /\ Ahead(shProd["server"]) <= Ahead(prod["server"])
    /\ Ahead(prod["server"]) <= Ahead(cons["server"])
    /\ Ahead(cons["server"]) <= Ahead(cons_end["server"])
    /\ Ahead(cons_end["server"]) <= Ahead(shProd["client"])
    /\ Ahead(shProd["client"]) <= Ahead(prod["client"])
    /\ Ahead(prod["client"]) <= Capacity

(* A party that waits while the other has published something for it has a *)
(* notification on its way, or the other is still in the commit that sends *)
(* it, whichever of the two began to wait first (the fences of *_checkout  *)
(* and *_commit).                                                          *)
NoLostWakeup ==
    \A p \in Party :
        (told[p] /\ shProd[Other(p)] # RealCons(p))
            => notify[p] \/ pc[Other(p)] = "commit_load"

(* Every published request is answered and its response collected: as long *)
(* as there is one again and again, the client goes on collecting.         *)
RequestsAreAnswered ==
    []<>(shProd["client"] # RealCons("client")) => []<><<cons["client"]' # cons["client"]>>_vars

(* The ring implements the exchange of RequestResponse.                    *)
Exchange == INSTANCE RequestResponse WITH
    requests  <- Window(array, cons["server"], prod["client"]),
    taken     <- Sub(cons["server"], prod["server"]),
    responses <- Window(array, RealCons("client"), prod["server"])
ExchangeSpec == Exchange!Spec

-----------------------------------------------------------------------------
(* The inductive strengthening of the safety properties *)

(* What is buffered, and how the published index relates to the private    *)
(* one at each point of a commit.                                          *)
PublicationInv ==
    \A p \in Party :
        /\ store[p] = "prod" => pc[p] = "commit_load" /\ val[p] = prod[p]
        /\ store[p] = "limit" => pc[p] = "recheck" /\ val[p] = RealCons(p)
        /\ store[p] = "none" /\ pc[p] = "commit_load" => shProd[p] = prod[p]
        /\ store[p] = "prod" \/ pc[p] # "commit_load" => last_published_prod[p] = shProd[p]

(* A party that found nothing has made its limit visible, and if the other *)
(* has published since then, it is in the commit that will notice.         *)
AskInv ==
    \A p \in Party :
        /\ pc[p] \in {"ask", "recheck"} \/ told[p] => cons_end[p] = cons[p]
        /\ (pc[p] = "recheck" /\ store[p] = "none") \/ told[p]
                => limit[Other(p)] = RealCons(p)
        /\ told[p] => pc[p] \notin {"ask", "recheck"}
        /\ told[p] /\ shProd[Other(p)] # RealCons(p)
                => \/ notify[p]
                   \/ /\ pc[Other(p)] = "commit_load"
                      /\ last_published_prod[Other(p)] = RealCons(p)

RingInv == TypeOK /\ IndicesInOrder /\ PublicationInv /\ AskInv
=============================================================================

------------------------------ MODULE Session ------------------------------
(***************************************************************************)
(* The sessions of the normal world (session.c): handles taken from a      *)
(* fixed table, the calls of the kernel API, the work item that applies    *)
(* the messages of the secure world, and a secure world that follows the   *)
(* protocol of ree.h.                                                      *)
(*                                                                         *)
(* A critical section under a session's semaphore is one step; every       *)
(* access made outside it is a step of its own, so that whatever a call    *)
(* read before an unlock or before a wait can be stale when it is used.    *)
(* The two rings are FIFOs (PnrRingUni implements them); the producer of   *)
(* the normal world drops a message that finds the ring full.              *)
(***************************************************************************)
EXTENDS Naturals, Sequences, FiniteSets

CONSTANTS
    Slots,          \* 0 .. REE_MAX_SESSIONS - 1
    Threads,        \* kernel threads and user processes that call the API
    NoSlot,         \* a thread without a handle
    Requests,       \* request codes (p1 of A_REQUEST)
    RingCapacity,   \* PNC_MESSAGE_RING_SLOT_CAPACITY
    Calls,          \* the calls of the API that the threads make
    Sharing,        \* a handle may be used by several threads
    Interrupts,     \* signals may interrupt a wait or a down_interruptible
    Timeouts,       \* waits other than for A_CONFIG_ACK may be given a timeout
    SecureCalls     \* what the secure world starts itself: subset of
                    \* {"request", "cancel", "term", "refuse"}

ASSUME SessionAssumption ==
    /\ IsFiniteSet(Slots) /\ Slots \subseteq Nat /\ NoSlot \notin Slots
    /\ Requests \subseteq Nat \ {0}
    /\ RingCapacity \in Nat \ {0}
    /\ Sharing \in BOOLEAN /\ Interrupts \in BOOLEAN /\ Timeouts \in BOOLEAN
    /\ SecureCalls \subseteq {"request", "cancel", "term", "refuse"}

VARIABLES
    free, global, server, client,   \* struct pnc_session, one per slot
    sMsg, cMsg,     \* server_message and client_message: [act, val]
    sem,            \* the semaphore is available between two steps
    event,          \* event_pending: a set of events
    mem,            \* the session has shared memory
    nsToS, sToNs,   \* the rings: sequences of [slot, act, val]
    inHand,         \* the message the work item has consumed, if any
    pc, call, wret, \* per thread: where it is, in which call, result of the wait
    ret, out,       \* per thread: result of the last call, value it delivered
    handle,         \* per thread: the session it uses
    mine,           \* per thread: nobody else opened that slot since
    asked,          \* per slot: the request written last (history)
    sState, sSrv, sCli   \* secure world, per slot: session, server and client side

slotVars == <<free, global, server, client, sMsg, cMsg, sem, event, mem, asked>>
threadVars == <<pc, call, wret, ret, out, handle, mine>>
secureVars == <<sState, sSrv, sCli>>
vars == <<slotVars, threadVars, secureVars, nsToS, sToNs, inHand>>

Events == {"REQUEST", "RESPONSE", "SIGNAL"}
NoMessage == [act |-> "none", val |-> 0]

Actions == {"A_REQUEST", "A_RESPONSE", "A_CONFIG", "A_CONFIG_ACK", "A_CANCEL",
            "A_CANCEL_ACK", "A_TERM", "A_TERM_ACK"}

Message(s, a, v) == [slot |-> s, act |-> a, val |-> v]

(* write_ns_message: produce's refusal of a full ring goes unnoticed.      *)
write_ns_message(m) ==
    nsToS' = IF Len(nsToS) < RingCapacity THEN Append(nsToS, m) ELSE nsToS

(* pnc_sessions_init, once the secure world has signalled that it is ready. *)
Init ==
    /\ free = [s \in Slots |-> TRUE]
    /\ global = [s \in Slots |-> "S_NULL"]
    /\ server = [s \in Slots |-> "S_NULL"]
    /\ client = [s \in Slots |-> "S_NULL"]
    /\ sMsg = [s \in Slots |-> NoMessage] /\ cMsg = [s \in Slots |-> NoMessage]
    /\ sem = [s \in Slots |-> TRUE]
    /\ event = [s \in Slots |-> {}]
    /\ mem = [s \in Slots |-> FALSE]
    /\ asked = [s \in Slots |-> 0]
    /\ nsToS = <<>> /\ sToNs = <<>> /\ inHand = <<>>
    /\ pc = [t \in Threads |-> "idle"] /\ call = [t \in Threads |-> "none"]
    /\ wret = [t \in Threads |-> "OK"] /\ ret = [t \in Threads |-> "OK"]
    /\ out = [t \in Threads |-> NoMessage]
    /\ handle = [t \in Threads |-> NoSlot] /\ mine = [t \in Threads |-> FALSE]
    /\ sState = [s \in Slots |-> "null"] /\ sSrv = [s \in Slots |-> 0]
    /\ sCli = [s \in Slots |-> "idle"]

-----------------------------------------------------------------------------
(* Threads: how calls move and return *)

Goto(t, p) == pc' = [pc EXCEPT ![t] = p] /\ UNCHANGED <<call, wret, ret, handle, mine>>

Return(t, r) ==
    /\ pc' = [pc EXCEPT ![t] = "idle"]
    /\ ret' = [ret EXCEPT ![t] = r]
    /\ wret' = [wret EXCEPT ![t] = "OK"]
    /\ UNCHANGED <<call, handle, mine>>

(* Mutant: every wait is ended by, and clears, every event.                *)
MaskAll(c) == Events

(* The events each call waits for.                                         *)
Mask(c) ==
    CASE c = "wait_request" -> {"REQUEST"}
      [] c = "wait_event"   -> Events
      [] OTHER              -> {"RESPONSE"}

(* down_interruptible ended by a signal before it got the semaphore.       *)
Interrupted(t, next) ==
    /\ Interrupts
    /\ next
    /\ UNCHANGED <<slotVars, secureVars, nsToS, sToNs, inHand, out>>

(* Mutant: a close that got no acknowledgement in time sends A_TERM again. *)
WaitReturnRepeats(t, r) ==
    IF call[t] = "close" THEN Goto(t, IF r = "ETIMEDOUT" THEN "term" ELSE "close_fin")
    ELSE IF call[t] = "config" /\ r = "EPIPE" THEN Goto(t, "config_fin")
    ELSE IF r # "OK" \/ call[t] \in {"config", "wait_event", "poll"} THEN Return(t, r)
    ELSE Goto(t, CASE call[t] = "wait_request" -> "get_req_check"
                   [] call[t] = "cancel" -> "cancel_fin"
                   [] OTHER -> "get_rsp")

(* What a caller of wait_session_event does with its result.               *)
WaitReturn(t, r) ==
    IF call[t] = "close" THEN Goto(t, "close_fin")
    ELSE IF call[t] = "config" /\ r = "EPIPE" THEN Goto(t, "config_fin")
    ELSE IF r # "OK" \/ call[t] \in {"config", "wait_event", "poll"} THEN Return(t, r)
    ELSE Goto(t, CASE call[t] = "wait_request" -> "get_req_check"
                   [] call[t] = "cancel" -> "cancel_fin"
                   [] OTHER -> "get_rsp")

-----------------------------------------------------------------------------
(* Opening, sharing, allocating *)

(* pnc_session_open: the first free slot.  Everyone who still holds that   *)
(* slot from an earlier open now holds somebody else's session.            *)
Open(t) ==
    /\ pc[t] = "idle" /\ handle[t] = NoSlot
    /\ \E s \in Slots :
         /\ free[s] /\ \A r \in Slots : r < s => ~free[r]
         /\ free' = [free EXCEPT ![s] = FALSE]
         /\ event' = [event EXCEPT ![s] = {}]
         /\ sMsg' = [sMsg EXCEPT ![s] = NoMessage]
         /\ cMsg' = [cMsg EXCEPT ![s] = NoMessage]
         /\ handle' = [handle EXCEPT ![t] = s]
         /\ mine' = [u \in Threads |-> u = t \/ (mine[u] /\ handle[u] # s)]
    /\ ret' = [ret EXCEPT ![t] = "OK"] /\ call' = [call EXCEPT ![t] = "open"]
    /\ UNCHANGED <<global, server, client, sem, mem, asked, pc, wret, out,
                   secureVars, nsToS, sToNs, inHand>>

(* Another thread of the process, or a second kernel client, uses the same *)
(* handle (a file shared by threads; the shdev monitor and its exit).      *)
Share(t, u) ==
    /\ Sharing
    /\ handle[t] # NoSlot /\ handle[u] = NoSlot /\ pc[u] = "idle"
    /\ handle' = [handle EXCEPT ![u] = handle[t]]
    /\ mine' = [mine EXCEPT ![u] = mine[t]]
    /\ UNCHANGED <<slotVars, pc, call, wret, ret, out, secureVars, nsToS, sToNs, inHand>>

(* pnc_session_alloc with a block available.                               *)
Alloc(t) ==
    /\ "alloc" \in Calls /\ pc[t] = "idle" /\ handle[t] # NoSlot
    /\ call' = [call EXCEPT ![t] = "alloc"]
    /\ ret' = [ret EXCEPT ![t] = IF mem[handle[t]] THEN "EEXIST" ELSE "OK"]
    /\ mem' = [mem EXCEPT ![handle[t]] = TRUE]
    /\ UNCHANGED <<free, global, server, client, sMsg, cMsg, sem, event, asked, pc, wret,
                   out, handle, mine, secureVars, nsToS, sToNs, inHand>>

-----------------------------------------------------------------------------
(* configure_session *)

(* Up to the wait.  The error returns of a configuration by name (version, *)
(* name too long) leave the semaphore taken.                               *)
Configure(t, byName) ==
    /\ pc[t] = "idle" /\ handle[t] # NoSlot
    /\ (IF byName THEN "config_by_name" ELSE "config") \in Calls
    /\ byName => mem[handle[t]]
    /\ call' = [call EXCEPT ![t] = "config"]
    /\ LET s == handle[t] IN
         \/ /\ sem[s]
            /\ IF free[s] \/ global[s] # "S_NULL"
                 THEN /\ ret' = [ret EXCEPT ![t] = IF free[s] THEN "EINVAL" ELSE "EBADF"]
                      /\ UNCHANGED <<pc, global, sem, nsToS>>
                 ELSE \/ /\ byName
                         /\ sem' = [sem EXCEPT ![s] = FALSE]
                         /\ ret' = [ret EXCEPT ![t] = "EOVERFLOW"]
                         /\ UNCHANGED <<pc, global, nsToS>>
                      \/ /\ write_ns_message(Message(s, "A_CONFIG", 0))
                         /\ global' = [global EXCEPT ![s] = "S_CONFIG_WAITING"]
                         /\ pc' = [pc EXCEPT ![t] = "wait"]
                         /\ UNCHANGED <<ret, sem>>
         \/ /\ Interrupts
            /\ ret' = [ret EXCEPT ![t] = "ERESTARTSYS"]
            /\ UNCHANGED <<pc, global, sem, nsToS>>
    /\ UNCHANGED <<free, server, client, sMsg, cMsg, event, mem, asked, wret, out, handle,
                   mine, secureVars, sToNs, inHand>>

(* After -EPIPE: the status of a refusal is in client_message.             *)
ConfigFinish(t) ==
    /\ pc[t] = "config_fin"
    /\ \/ /\ sem[handle[t]]
          /\ Return(t, IF cMsg[handle[t]].val = 0 THEN "ENODEV" ELSE "SERROR")
          /\ cMsg' = [cMsg EXCEPT ![handle[t]] = NoMessage]
          /\ UNCHANGED <<free, global, server, client, sMsg, sem, event, mem, asked, out,
                         secureVars, nsToS, sToNs, inHand>>
       \/ Interrupted(t, Return(t, "ERESTARTSYS"))

-----------------------------------------------------------------------------
(* check_session_configured, the beginning of every other call *)

CheckedCalls == {"send_request", "send_and_wait", "send_response", "get_response",
                 "wait_response", "get_request", "wait_request", "cancel", "wait_event",
                 "poll", "close"}

FirstStep(c) ==
    CASE c \in {"send_request", "send_and_wait"} -> "send"
      [] c = "send_response" -> "respond"
      [] c = "get_response" -> "get_rsp"
      [] c = "get_request" -> "get_req"
      [] c \in {"wait_response", "wait_event"} -> "wait"
      [] c = "wait_request" -> "wait_req"
      [] c = "cancel" -> "cancel"
      [] c = "poll" -> "poll"
      [] c = "close" -> "term"

CheckResult(s) ==
    IF free[s] THEN "EINVAL" ELSE IF global[s] # "S_CONFIGURED" THEN "ENODEV" ELSE "OK"

(* A close goes on after a failed check; any other call returns its error. *)
Begin(t, c) ==
    /\ pc[t] = "idle" /\ handle[t] # NoSlot /\ c \in Calls
    /\ call' = [call EXCEPT ![t] = c]
    /\ \E r \in {"OK", "EINVAL", "ENODEV", "ERESTARTSYS"} :
         /\ \/ sem[handle[t]] /\ r = CheckResult(handle[t])
            \/ Interrupts /\ r = "ERESTARTSYS"
         /\ IF r = "OK" \/ c = "close"
              THEN /\ pc' = [pc EXCEPT ![t] = IF r = "OK" THEN FirstStep(c) ELSE "close_fin"]
                   /\ UNCHANGED ret
              ELSE /\ ret' = [ret EXCEPT ![t] = r]
                   /\ UNCHANGED pc
    /\ out' = [out EXCEPT ![t] = NoMessage]
    /\ UNCHANGED <<slotVars, wret, handle, mine, secureVars, nsToS, sToNs, inHand>>

-----------------------------------------------------------------------------
(* Client side *)

(* Mutant: a request may follow a cancellation nobody waited for.          *)
ClientReadyCancelling(s) == client[s] \in {"S_IDLE", "S_CANCEL_WAITING"}

(* The test of the client state in send_request.                           *)
ClientReady(s) == client[s] = "S_IDLE"

(* send_request: the session was configured when it was checked.           *)
SendRequest(t, v) ==
    /\ pc[t] = "send"
    /\ LET s == handle[t] IN
         /\ sem[s]
         /\ IF ~ClientReady(s)
              THEN Return(t, "EPROTO") /\ UNCHANGED <<client, asked, nsToS>>
              ELSE /\ write_ns_message(Message(s, "A_REQUEST", v))
                   /\ client' = [client EXCEPT ![s] = "S_WAITING"]
                   /\ asked' = [asked EXCEPT ![s] = v]
                   /\ IF call[t] = "send_and_wait" THEN Goto(t, "wait") ELSE Return(t, "OK")
    /\ UNCHANGED <<free, global, server, sMsg, cMsg, sem, event, mem, out, secureVars, sToNs, inHand>>

(* get_response.                                                           *)
GetResponse(t) ==
    /\ pc[t] = "get_rsp"
    /\ LET s == handle[t] IN
         /\ sem[s]
         /\ IF client[s] # "S_NOTIFIED"
              THEN Return(t, "EAGAIN") /\ UNCHANGED <<client, cMsg, event, out>>
              ELSE /\ out' = [out EXCEPT ![t] = cMsg[s]]
                   /\ cMsg' = [cMsg EXCEPT ![s] = NoMessage]
                   /\ client' = [client EXCEPT ![s] = "S_IDLE"]
                   /\ event' = [event EXCEPT ![s] = @ \ {"RESPONSE"}]
                   /\ Return(t, "OK")
    /\ UNCHANGED <<free, global, server, sMsg, sem, mem, asked, secureVars, nsToS, sToNs, inHand>>

(* pnc_session_cancel_request, up to its wait.                             *)
CancelRequest(t) ==
    /\ pc[t] = "cancel"
    /\ LET s == handle[t] IN
         /\ sem[s]
         /\ CASE client[s] = "S_WAITING" ->
                   /\ write_ns_message(Message(s, "A_CANCEL", 0))
                   /\ client' = [client EXCEPT ![s] = "S_CANCEL_WAITING"]
                   /\ Goto(t, "wait")
                   /\ UNCHANGED <<cMsg, event, out>>
              [] client[s] = "S_NOTIFIED" ->
                   /\ out' = [out EXCEPT ![t] = cMsg[s]]
                   /\ cMsg' = [cMsg EXCEPT ![s] = NoMessage]
                   /\ event' = [event EXCEPT ![s] = @ \ {"RESPONSE"}]
                   /\ client' = [client EXCEPT ![s] = "S_IDLE"]
                   /\ Return(t, "CANCEL_RESPONSE")
                   /\ UNCHANGED nsToS
              [] client[s] = "S_CANCEL_WAITING" ->   \* an earlier cancel timed out
                   Goto(t, "wait") /\ UNCHANGED <<client, cMsg, event, out, nsToS>>
              [] OTHER ->
                   Return(t, "EPROTO") /\ UNCHANGED <<client, cMsg, event, out, nsToS>>
    /\ UNCHANGED <<free, global, server, sMsg, sem, mem, asked, secureVars, sToNs, inHand>>

(* The end of pnc_session_cancel_request, after a successful wait.         *)
CancelFinish(t) ==
    /\ pc[t] = "cancel_fin"
    /\ LET s == handle[t] IN
         /\ sem[s]
         /\ IF client[s] # "S_NOTIFIED"
              THEN Return(t, "EFAULT") /\ UNCHANGED <<client, cMsg, out>>
              ELSE /\ IF cMsg[s].act = "A_CANCEL_ACK"
                        THEN Return(t, "CANCEL_OK") /\ UNCHANGED out
                        ELSE /\ Return(t, "CANCEL_RESPONSE")
                             /\ out' = [out EXCEPT ![t] = cMsg[s]]
                   /\ cMsg' = [cMsg EXCEPT ![s] = NoMessage]
                   /\ client' = [client EXCEPT ![s] = "S_IDLE"]
    /\ UNCHANGED <<free, global, server, sMsg, sem, event, mem, asked, secureVars, nsToS, sToNs, inHand>>

-----------------------------------------------------------------------------
(* Server side *)

(* pnc_session_send_response.                                              *)
SendResponse(t) ==
    /\ pc[t] = "respond"
    /\ LET s == handle[t] IN
         /\ sem[s]
         /\ IF server[s] # "S_BUSY"
              THEN Return(t, "EPROTO") /\ UNCHANGED <<server, nsToS>>
              ELSE /\ write_ns_message(Message(s, "A_RESPONSE", 0))
                   /\ server' = [server EXCEPT ![s] = "S_IDLE"]
                   /\ Return(t, "OK")
    /\ UNCHANGED <<free, global, client, sMsg, cMsg, sem, event, mem, asked, out, secureVars, sToNs, inHand>>

(* pnc_session_get_request.                                                *)
GetRequest(t) ==
    /\ pc[t] = "get_req"
    /\ LET s == handle[t] IN
         /\ sem[s]
         /\ IF server[s] # "S_NOTIFIED"
              THEN Return(t, "EAGAIN") /\ UNCHANGED <<server, sMsg, event, out>>
              ELSE /\ out' = [out EXCEPT ![t] = sMsg[s]]
                   /\ sMsg' = [sMsg EXCEPT ![s] = NoMessage]
                   /\ server' = [server EXCEPT ![s] = "S_BUSY"]
                   /\ event' = [event EXCEPT ![s] = @ \ {"REQUEST"}]
                   /\ Return(t, "OK")
    /\ UNCHANGED <<free, global, client, cMsg, sem, mem, asked, secureVars, nsToS, sToNs, inHand>>

(* pnc_session_wait_request: its test of the server state, and the check   *)
(* made again by the pnc_session_get_request that ends it.                 *)
WaitRequest(t) ==
    /\ \/ /\ pc[t] = "wait_req" /\ sem[handle[t]]
          /\ IF server[handle[t]] \in {"S_IDLE", "S_NOTIFIED"}
               THEN Goto(t, "wait") ELSE Return(t, "EPROTO")
       \/ /\ pc[t] = "get_req_check" /\ sem[handle[t]]
          /\ IF CheckResult(handle[t]) = "OK"
               THEN Goto(t, "get_req") ELSE Return(t, CheckResult(handle[t]))
    /\ UNCHANGED <<slotVars, out, secureVars, nsToS, sToNs, inHand>>

(* Any of the critical sections above may be given up on a signal.         *)
GiveUp(t) ==
    /\ pc[t] \in {"send", "get_rsp", "cancel", "cancel_fin", "respond", "get_req",
                  "wait_req", "get_req_check"}
    /\ Interrupted(t, Return(t, "ERESTARTSYS"))

-----------------------------------------------------------------------------
(* wait_session_event *)

(* A configuration waits forever (CONFIG_PROVENCORE_REE_SERVICE_TIMEOUT is *)
(* 0), a termination for TERMINATION_TIMEOUT, other calls as they ask.     *)
MayTimeOut(t) == call[t] = "close" \/ (Timeouts /\ call[t] # "config")

(* The wait ends: with an event, or without one on a timeout or a signal.  *)
Wake(t, r) ==
    /\ pc[t] = "wait"
    /\ (r = "OK") = (event[handle[t]] \cap Mask(call[t]) # {})
    /\ r = "ETIMEDOUT" => MayTimeOut(t)
    /\ r = "ERESTARTSYS" => Interrupts
    /\ wret' = [wret EXCEPT ![t] = r]
    /\ pc' = [pc EXCEPT ![t] = "clear"]
    /\ UNCHANGED <<slotVars, call, ret, out, handle, mine, secureVars, nsToS, sToNs, inHand>>

(* It takes the semaphore and, if an event ended the wait, clears what it  *)
(* waited for.                                                             *)
Clear(t) ==
    /\ pc[t] = "clear"
    /\ \/ /\ sem[handle[t]]
          /\ event' = IF wret[t] = "OK"
                        THEN [event EXCEPT ![handle[t]] = @ \ Mask(call[t])] ELSE event
          /\ Goto(t, "test")
          /\ UNCHANGED <<free, global, server, client, sMsg, cMsg, sem, mem, asked, out,
                         secureVars, nsToS, sToNs, inHand>>
       \/ Interrupted(t, WaitReturn(t, "ERESTARTSYS"))

(* check_and_handle_terminated_session reads the state without the         *)
(* semaphore ...                                                           *)
Test(t) ==
    /\ pc[t] = "test"
    /\ IF global[handle[t]] = "S_CONFIGURED" THEN WaitReturn(t, wret[t]) ELSE Goto(t, "reap")
    /\ UNCHANGED <<slotVars, out, secureVars, nsToS, sToNs, inHand>>

(* ... then takes it and finishes what it takes for a terminated session.  *)
Reap(t) ==
    /\ pc[t] = "reap"
    /\ \/ /\ sem[handle[t]]
          /\ global' = [global EXCEPT ![handle[t]] = "S_NULL"]
          /\ IF global[handle[t]] = "S_TERM_WAITING"
               THEN WaitReturn(t, wret[t]) /\ UNCHANGED mem
               ELSE Goto(t, "reap_free") /\ mem' = [mem EXCEPT ![handle[t]] = FALSE]
          /\ UNCHANGED <<free, server, client, sMsg, cMsg, sem, event, asked, out,
                         secureVars, nsToS, sToNs, inHand>>
       \/ Interrupted(t, WaitReturn(t, "ERESTARTSYS"))

(* The slot is given back although the caller keeps its handle.            *)
ReapFree(t) ==
    /\ pc[t] = "reap_free"
    /\ free' = [free EXCEPT ![handle[t]] = TRUE]
    /\ WaitReturn(t, "EPIPE")
    /\ UNCHANGED <<global, server, client, sMsg, cMsg, sem, event, mem, asked, out,
                   secureVars, nsToS, sToNs, inHand>>

(* pnc_session_poll_wait returns on a pending event, else looks whether    *)
(* the session was terminated.                                             *)
Poll(t) ==
    /\ pc[t] = "poll"
    /\ IF event[handle[t]] # {} THEN Return(t, "EPOLLIN") ELSE Goto(t, "test")
    /\ UNCHANGED <<slotVars, out, secureVars, nsToS, sToNs, inHand>>

-----------------------------------------------------------------------------
(* pnc_session_close *)

(* send_term, up to its wait.                                              *)
SendTerm(t) ==
    /\ pc[t] = "term"
    /\ \/ /\ sem[handle[t]]
          /\ write_ns_message(Message(handle[t], "A_TERM", 0))
          /\ global' = [global EXCEPT ![handle[t]] = "S_TERM_WAITING"]
          /\ Goto(t, "wait")
          /\ UNCHANGED <<free, server, client, sMsg, cMsg, sem, event, mem, asked, out,
                         secureVars, sToNs, inHand>>
       \/ Interrupted(t, Goto(t, "close_fin"))

(* The session is dismantled, with the semaphore or, after a signal,       *)
(* without it.                                                             *)
CloseFinish(t) ==
    /\ pc[t] = "close_fin"
    /\ sem[handle[t]] \/ Interrupts
    /\ global' = [global EXCEPT ![handle[t]] = "S_NULL"]
    /\ mem' = [mem EXCEPT ![handle[t]] = FALSE]
    /\ event' = [event EXCEPT ![handle[t]] = Events]
    /\ Goto(t, "close_free")
    /\ UNCHANGED <<free, server, client, sMsg, cMsg, sem, asked, out,
                   secureVars, nsToS, sToNs, inHand>>

CloseFree(t) ==
    /\ pc[t] = "close_free"
    /\ free' = [free EXCEPT ![handle[t]] = TRUE]
    /\ pc' = [pc EXCEPT ![t] = "idle"] /\ ret' = [ret EXCEPT ![t] = "OK"]
    /\ wret' = [wret EXCEPT ![t] = "OK"]
    /\ handle' = [handle EXCEPT ![t] = NoSlot] /\ mine' = [mine EXCEPT ![t] = FALSE]
    /\ UNCHANGED <<global, server, client, sMsg, cMsg, sem, event, mem, asked, call, out,
                   secureVars, nsToS, sToNs, inHand>>

-----------------------------------------------------------------------------
(* The work item: handle_s_message in two steps, as the test of free is    *)
(* made before the semaphore is taken *)

WorkerTake ==
    /\ inHand = <<>> /\ sToNs # <<>>
    /\ sToNs' = Tail(sToNs)
    /\ inHand' = IF free[Head(sToNs).slot] THEN <<>> ELSE <<Head(sToNs)>>
    /\ UNCHANGED <<slotVars, threadVars, secureVars, nsToS>>

(* Mutant: the server is given a state of the client.                      *)
OnRequestWrongState(s, m) ==
    /\ server' = [server EXCEPT ![s] = IF global[s] = "S_CONFIGURED" THEN "S_WAITING" ELSE @]
    /\ UNCHANGED <<sMsg, event, global, client, cMsg, nsToS>>

(* handle_s_request                                                        *)
OnRequest(s, m) ==
    /\ IF global[s] = "S_CONFIGURED" /\ server[s] = "S_IDLE"
         THEN /\ sMsg' = [sMsg EXCEPT ![s] = [act |-> m.act, val |-> m.val]]
              /\ event' = [event EXCEPT ![s] = @ \cup {"REQUEST"}]
              /\ server' = [server EXCEPT ![s] = "S_NOTIFIED"]
         ELSE UNCHANGED <<sMsg, event, server>>
    /\ UNCHANGED <<global, client, cMsg, nsToS>>

(* Mutant: a response that crosses the cancellation is ignored.            *)
AwaitsNoCrossing(act) == IF act = "A_RESPONSE" THEN {"S_WAITING"} ELSE {"S_CANCEL_WAITING"}

(* The client states in which an answer of the secure world is accepted.   *)
Awaits(act) ==
    {"S_CANCEL_WAITING"} \cup (IF act = "A_RESPONSE" THEN {"S_WAITING"} ELSE {})

(* handle_s_response and handle_s_cancel_ack                               *)
OnResponse(s, m) ==
    /\ IF global[s] = "S_CONFIGURED" /\ client[s] \in Awaits(m.act)
         THEN /\ cMsg' = [cMsg EXCEPT ![s] = [act |-> m.act, val |-> m.val]]
              /\ event' = [event EXCEPT ![s] = @ \cup {"RESPONSE"}]
              /\ client' = [client EXCEPT ![s] = "S_NOTIFIED"]
         ELSE UNCHANGED <<cMsg, event, client>>
    /\ UNCHANGED <<global, server, sMsg, nsToS>>

(* Mutants: the new configuration keeps the states of the previous one; an *)
(* accepted configuration wakes nobody.                                    *)
OnConfigAckKeepsStates(s, m) ==
    /\ IF global[s] = "S_CONFIG_WAITING"
         THEN /\ event' = [event EXCEPT ![s] = @ \cup {"RESPONSE"}]
              /\ global' = [global EXCEPT ![s] = IF m.val = 0 THEN "S_CONFIGURED" ELSE "S_NULL"]
         ELSE UNCHANGED <<event, global>>
    /\ server' = [server EXCEPT ![s] = IF @ = "S_NULL" THEN "S_IDLE" ELSE @]
    /\ client' = [client EXCEPT ![s] = IF @ = "S_NULL" THEN "S_IDLE" ELSE @]
    /\ UNCHANGED <<sMsg, cMsg, nsToS>>

OnConfigAckSilent(s, m) ==
    /\ global' = [global EXCEPT ![s] = IF @ = "S_CONFIG_WAITING" THEN "S_CONFIGURED" ELSE @]
    /\ UNCHANGED <<event, server, client, cMsg, sMsg, nsToS>>

(* handle_s_config_ack                                                     *)
OnConfigAck(s, m) ==
    /\ IF global[s] = "S_CONFIG_WAITING"
         THEN /\ event' = [event EXCEPT ![s] = @ \cup {"RESPONSE"}]
              /\ IF m.val = 0
                   THEN /\ global' = [global EXCEPT ![s] = "S_CONFIGURED"]
                        /\ server' = [server EXCEPT ![s] = "S_IDLE"]
                        /\ client' = [client EXCEPT ![s] = "S_IDLE"]
                        /\ UNCHANGED cMsg
                   ELSE /\ global' = [global EXCEPT ![s] = "S_NULL"]
                        /\ cMsg' = [cMsg EXCEPT ![s] = [act |-> m.act, val |-> m.val]]
                        /\ UNCHANGED <<server, client>>
         ELSE UNCHANGED <<event, global, server, client, cMsg>>
    /\ UNCHANGED <<sMsg, nsToS>>

(* Mutant: the cancellation is not acknowledged.                           *)
OnCancelNoAck(s, m) ==
    /\ server' = [server EXCEPT ![s] =
            IF global[s] = "S_CONFIGURED" /\ @ = "S_NOTIFIED" THEN "S_IDLE" ELSE @]
    /\ UNCHANGED <<sMsg, nsToS, global, client, cMsg, event>>

(* handle_s_cancel: the event of the cancelled request stays pending.      *)
OnCancel(s, m) ==
    /\ IF global[s] = "S_CONFIGURED" /\ server[s] = "S_NOTIFIED"
         THEN /\ sMsg' = [sMsg EXCEPT ![s] = NoMessage]
              /\ write_ns_message(Message(s, "A_CANCEL_ACK", 0))
              /\ server' = [server EXCEPT ![s] = "S_IDLE"]
         ELSE UNCHANGED <<sMsg, server, nsToS>>
    /\ UNCHANGED <<global, client, cMsg, event>>

(* Mutant: the end of the session is not announced to those who wait.      *)
OnTermSilent(s, m) ==
    /\ write_ns_message(Message(s, "A_TERM_ACK", 0))
    /\ global' = [global EXCEPT ![s] = "S_NULL"]
    /\ UNCHANGED <<event, server, client, sMsg, cMsg>>

(* handle_s_term                                                           *)
OnTerm(s, m) ==
    /\ event' = IF global[s] = "S_CONFIGURED" THEN [event EXCEPT ![s] = Events] ELSE event
    /\ write_ns_message(Message(s, "A_TERM_ACK", 0))
    /\ global' = [global EXCEPT ![s] = "S_NULL"]
    /\ UNCHANGED <<server, client, sMsg, cMsg>>

(* handle_s_term_ack                                                       *)
OnTermAck(s, m) ==
    /\ event' = IF global[s] = "S_TERM_WAITING"
                  THEN [event EXCEPT ![s] = @ \cup {"RESPONSE"}] ELSE event
    /\ UNCHANGED <<global, server, client, sMsg, cMsg, nsToS>>

(* The dispatch of handle_s_message, under the semaphore.                  *)
WorkerHandle ==
    /\ inHand # <<>>
    /\ LET m == Head(inHand)  s == m.slot IN
         /\ sem[s]
         /\ CASE m.act = "A_REQUEST" -> OnRequest(s, m)
              [] m.act \in {"A_RESPONSE", "A_CANCEL_ACK"} -> OnResponse(s, m)
              [] m.act = "A_CONFIG_ACK" -> OnConfigAck(s, m)
              [] m.act = "A_CANCEL" -> OnCancel(s, m)
              [] m.act = "A_TERM" -> OnTerm(s, m)
              [] m.act = "A_TERM_ACK" -> OnTermAck(s, m)
    /\ inHand' = <<>>
    /\ UNCHANGED <<free, sem, mem, asked, threadVars, secureVars, sToNs>>

-----------------------------------------------------------------------------
(* The secure world, as the protocol of ree.h and the handlers above       *)
(* expect it to behave *)

SecureSends(s, a, v) == sToNs' = Append(sToNs, Message(s, a, v))

SecureStep ==
    /\ nsToS # <<>> /\ Len(sToNs) < RingCapacity
    /\ nsToS' = Tail(nsToS)
    /\ LET m == Head(nsToS)  s == m.slot  conf == sState[s] = "conf" IN
         \/ /\ m.act = "A_CONFIG"
            /\ \/ /\ sState' = [sState EXCEPT ![s] = "conf"]
                  /\ sSrv' = [sSrv EXCEPT ![s] = 0] /\ sCli' = [sCli EXCEPT ![s] = "idle"]
                  /\ SecureSends(s, "A_CONFIG_ACK", 0)
               \/ /\ "refuse" \in SecureCalls
                  /\ sState' = [sState EXCEPT ![s] = "null"]
                  /\ SecureSends(s, "A_CONFIG_ACK", 1)
                  /\ UNCHANGED <<sSrv, sCli>>
         \/ /\ m.act = "A_REQUEST"
            /\ sSrv' = IF conf /\ sSrv[s] = 0 THEN [sSrv EXCEPT ![s] = m.val] ELSE sSrv
            /\ UNCHANGED <<sState, sCli, sToNs>>
         \/ /\ m.act = "A_CANCEL"
            /\ \/ /\ conf /\ sSrv[s] # 0
                  /\ sSrv' = [sSrv EXCEPT ![s] = 0]
                  /\ SecureSends(s, "A_CANCEL_ACK", 0)
               \/ UNCHANGED <<sSrv, sToNs>>   \* being served: its response is the answer
            /\ UNCHANGED <<sState, sCli>>
         \/ /\ m.act \in {"A_RESPONSE", "A_CANCEL_ACK"}
            /\ sCli' = IF conf THEN [sCli EXCEPT ![s] = "idle"] ELSE sCli
            /\ UNCHANGED <<sState, sSrv, sToNs>>
         \/ /\ m.act = "A_TERM"
            /\ sState' = [sState EXCEPT ![s] = "null"]
            /\ SecureSends(s, "A_TERM_ACK", 0)
            /\ UNCHANGED <<sSrv, sCli>>
         \/ /\ m.act = "A_TERM_ACK"
            /\ sState' = IF sState[s] = "term" THEN [sState EXCEPT ![s] = "null"] ELSE sState
            /\ UNCHANGED <<sSrv, sCli, sToNs>>
    /\ UNCHANGED <<slotVars, threadVars, inHand>>

(* The secure server answers the request it holds.                         *)
SecureRespond(s) ==
    /\ sState[s] = "conf" /\ sSrv[s] # 0 /\ Len(sToNs) < RingCapacity
    /\ SecureSends(s, "A_RESPONSE", sSrv[s])
    /\ sSrv' = [sSrv EXCEPT ![s] = 0]
    /\ UNCHANGED <<slotVars, threadVars, sState, sCli, nsToS, inHand>>

(* What the secure world starts on its own: a request, its cancellation,   *)
(* the end of the session.                                                 *)
SecureStart(s) ==
    /\ sState[s] = "conf" /\ Len(sToNs) < RingCapacity
    /\ \/ /\ "request" \in SecureCalls /\ sCli[s] = "idle"
          /\ \E v \in Requests : SecureSends(s, "A_REQUEST", v)
          /\ sCli' = [sCli EXCEPT ![s] = "waiting"] /\ UNCHANGED sState
       \/ /\ "cancel" \in SecureCalls /\ sCli[s] = "waiting"
          /\ SecureSends(s, "A_CANCEL", 0)
          /\ sCli' = [sCli EXCEPT ![s] = "cancelling"] /\ UNCHANGED sState
       \/ /\ "term" \in SecureCalls
          /\ SecureSends(s, "A_TERM", 0)
          /\ sState' = [sState EXCEPT ![s] = "term"] /\ UNCHANGED sCli
    /\ UNCHANGED <<slotVars, threadVars, sSrv, nsToS, inHand>>

-----------------------------------------------------------------------------
WaitSteps(t) == Clear(t) \/ Test(t) \/ Reap(t) \/ ReapFree(t)

CallSteps(t) ==
    \/ ConfigFinish(t) \/ GetResponse(t) \/ CancelRequest(t) \/ CancelFinish(t)
    \/ SendResponse(t) \/ GetRequest(t) \/ WaitRequest(t) \/ Poll(t)
    \/ SendTerm(t) \/ CloseFinish(t) \/ CloseFree(t)
    \/ \E v \in Requests : SendRequest(t, v)

Thread(t) ==
    \/ Open(t) \/ Alloc(t) \/ GiveUp(t) \/ WaitSteps(t) \/ CallSteps(t)
    \/ \E r \in {"OK", "ETIMEDOUT", "ERESTARTSYS"} : Wake(t, r)
    \/ \E u \in Threads : Share(t, u)
    \/ \E byName \in BOOLEAN : Configure(t, byName)
    \/ \E c \in CheckedCalls : Begin(t, c)

Secure == SecureStep \/ \E s \in Slots : SecureRespond(s) \/ SecureStart(s)

Next == (\E t \in Threads : Thread(t)) \/ WorkerTake \/ WorkerHandle \/ Secure

Spec == Init /\ [][Next]_vars

-----------------------------------------------------------------------------
(* Fairness: the work item runs when there is something to handle, the     *)
(* secure world keeps consuming and answering, and a thread inside a call  *)
(* runs unless it waits.  An event ends a wait; of the timeouts only that  *)
(* of a termination is certain, as the other calls may wait forever.       *)
Fairness ==
    /\ WF_vars(WorkerTake) /\ WF_vars(WorkerHandle) /\ WF_vars(SecureStep)
    /\ \A s \in Slots : WF_vars(SecureRespond(s))
    /\ \A t \in Threads : WF_vars(\/ WaitSteps(t) \/ CallSteps(t) \/ Wake(t, "OK")
                                  \/ call[t] = "close" /\ Wake(t, "ETIMEDOUT"))

FairSpec == Spec /\ Fairness

-----------------------------------------------------------------------------
(* Properties *)

GlobalStates == {"S_NULL", "S_CONFIG_WAITING", "S_CONFIGURED", "S_TERM_WAITING"}
ServerStates == {"S_NULL", "S_IDLE", "S_NOTIFIED", "S_BUSY"}
ClientStates == {"S_NULL", "S_IDLE", "S_WAITING", "S_CANCEL_WAITING", "S_NOTIFIED"}
Pcs == {"idle", "wait", "clear", "test", "reap", "reap_free", "config_fin", "send", "get_rsp",
        "cancel", "cancel_fin", "respond", "get_req", "wait_req", "get_req_check", "poll",
        "term", "close_fin", "close_free"}
Results == {"OK", "EEXIST", "EINVAL", "EBADF", "EOVERFLOW", "ENODEV", "SERROR", "ERESTARTSYS",
            "EPROTO", "EAGAIN", "EFAULT", "EPIPE", "ETIMEDOUT", "EPOLLIN",
            "CANCEL_OK", "CANCEL_RESPONSE"}
Values == Requests \cup {0, 1}
Bodies == [act : Actions \cup {"none"}, val : Values]
Messages == [slot : Slots, act : Actions, val : Values]

(* Every variable keeps to its type; the states of a session, of its       *)
(* server and of its client stay among those ree.h lists for each.         *)
TypeOK ==
    /\ free \in [Slots -> BOOLEAN] /\ sem \in [Slots -> BOOLEAN] /\ mem \in [Slots -> BOOLEAN]
    /\ global \in [Slots -> GlobalStates]
    /\ server \in [Slots -> ServerStates] /\ client \in [Slots -> ClientStates]
    /\ sMsg \in [Slots -> Bodies] /\ cMsg \in [Slots -> Bodies]
    /\ event \in [Slots -> SUBSET Events] /\ asked \in [Slots -> Requests \cup {0}]
    /\ nsToS \in Seq(Messages) /\ sToNs \in Seq(Messages) /\ inHand \in Seq(Messages)
    /\ pc \in [Threads -> Pcs]
    /\ call \in [Threads -> CheckedCalls \cup {"none", "open", "alloc", "config"}]
    /\ wret \in [Threads -> {"OK", "ETIMEDOUT", "ERESTARTSYS"}] /\ ret \in [Threads -> Results]
    /\ out \in [Threads -> Bodies] /\ handle \in [Threads -> Slots \cup {NoSlot}]
    /\ mine \in [Threads -> BOOLEAN]
    /\ sState \in [Slots -> {"null", "conf", "term"}] /\ sSrv \in [Slots -> Requests \cup {0}]
    /\ sCli \in [Slots -> {"idle", "waiting", "cancelling"}]

(* How many messages about s of some kinds a ring holds.                   *)
Count(q, s, acts) == Cardinality({i \in DOMAIN q : q[i].slot = s /\ q[i].act \in acts})
ToNs == inHand \o sToNs
One(b) == IF b THEN 1 ELSE 0

(* While both worlds hold the session configured, a client that waits has  *)
(* exactly one thing under way for its request: the request in the ring,   *)
(* the request at the secure server, or its answer on the way back.  No    *)
(* crossing of cancellation, late answer and timeout loses or duplicates   *)
(* it (send_request, cancel_request, handle_s_response, _cancel_ack).      *)
ClientAgreement ==
    \A s \in Slots :
        (global[s] = "S_CONFIGURED" /\ sState[s] = "conf") =>
            Count(nsToS, s, {"A_REQUEST"}) + One(sSrv[s] # 0)
              + Count(ToNs, s, {"A_RESPONSE", "A_CANCEL_ACK"})
            = One(client[s] \in {"S_WAITING", "S_CANCEL_WAITING"})

(* The same for a request of the secure world: it is in the ring, at the   *)
(* server of the normal world, or answered (handle_s_request, _cancel,     *)
(* get_request, send_response).                                            *)
ServerAgreement ==
    \A s \in Slots :
        (global[s] = "S_CONFIGURED" /\ sState[s] = "conf") =>
            Count(ToNs, s, {"A_REQUEST"}) + One(server[s] \in {"S_NOTIFIED", "S_BUSY"})
              + Count(nsToS, s, {"A_RESPONSE", "A_CANCEL_ACK"})
            = One(sCli[s] # "idle")

(* A response kept for the client answers the request it sent last.        *)
ResponseAnswersRequest ==
    \A s \in Slots :
        (client[s] = "S_NOTIFIED" /\ cMsg[s].act = "A_RESPONSE") => cMsg[s].val = asked[s]

(* What is announced as delivered in a configured session is there: the     *)
(* states that an earlier owner of the slot left behind do not outlive the *)
(* next configuration (pnc_session_open clears the messages, not the       *)
(* states; handle_s_config_ack resets the states, not the messages).       *)
NotifiedHasMessage ==
    \A s \in Slots : global[s] = "S_CONFIGURED" =>
        /\ client[s] = "S_NOTIFIED" => cMsg[s].act \in {"A_RESPONSE", "A_CANCEL_ACK"}
        /\ server[s] = "S_NOTIFIED" => sMsg[s].act = "A_REQUEST"

(* A delivered response (or request) that nobody fetched is announced by   *)
(* its event, or a thread that saw the event is about to fetch it: a later *)
(* wait for it cannot sleep on an answer that is already there.            *)
NotifiedIsAnnounced ==
    \A s \in Slots : global[s] = "S_CONFIGURED" =>
        /\ client[s] = "S_NOTIFIED" =>
              \/ "RESPONSE" \in event[s]
              \/ \E t \in Threads : /\ handle[t] = s
                                    /\ pc[t] \in {"test", "reap", "get_rsp", "cancel_fin"}
        /\ server[s] = "S_NOTIFIED" =>
              \/ "REQUEST" \in event[s]
              \/ \E t \in Threads : /\ handle[t] = s
                                    /\ pc[t] \in {"test", "reap", "get_req_check", "get_req"}

(* A call acts on the session its caller opened, never on one that someone *)
(* else opened in the same slot since.                                     *)
OnlyOwnSession == \A t \in Threads : pc[t] # "idle" => mine[t]

(* In particular a close sends A_TERM for the session its caller opened:   *)
(* nobody ends a session of somebody else.                                 *)
TerminatesOwnSession ==
    \A t \in Threads : (call[t] = "close" /\ pc[t] = "wait") => mine[t]

(* A close always comes to its end.                                        *)
CloseEnds == \A t \in Threads : (call[t] = "close" /\ pc[t] # "idle") ~> (pc[t] = "idle")

(* The work item gets through every message it takes: no session's         *)
(* semaphore holds it up, and with it all the other sessions.              *)
MessagesAreHandled == (inHand # <<>>) ~> (inHand = <<>>)

(* A configuration ends, with the session configured or with an error.     *)
ConfigEnds == \A t \in Threads : (call[t] = "config" /\ pc[t] # "idle") ~> (pc[t] = "idle")

(* A request whose session stays configured is answered: a client that     *)
(* waits without timeout gets its response or learns of the termination.   *)
WaitEnds == \A t \in Threads : (pc[t] = "wait" /\ call[t] = "send_and_wait") ~> (pc[t] # "wait")

-----------------------------------------------------------------------------
(* The inductive strengthening of the safety properties *)

(* Each handle is used by one thread, and nobody uses one that was given   *)
(* back and opened by somebody else.                                       *)
OwnHandles == \A t, u \in Threads : (handle[t] \in Slots /\ handle[t] = handle[u]) => t = u

(* Every message written by the normal world finds room in the ring.       *)
NoneDropped == Len(nsToS) < RingCapacity

NormalMessages == [slot : Slots, act : Actions, val : Requests \cup {0}]
SecureMessages == [slot : Slots, act : Actions \ {"A_CONFIG"}, val : Values]

(* A call has a session, and the work item knows what it may take.         *)
CallInv ==
    /\ TypeOK
    /\ \A t \in Threads : pc[t] # "idle" => handle[t] \in Slots
    /\ nsToS \in Seq(NormalMessages)
    /\ sToNs \in Seq(SecureMessages) /\ inHand \in Seq(SecureMessages) /\ Len(inHand) <= 1

(* A slot is given back, and reopened, in the state S_NULL only.           *)
FreeInv ==
    /\ \A s \in Slots : free[s] => global[s] = "S_NULL"
    /\ \A t \in Threads :
         /\ pc[t] \in {"reap_free", "close_free", "config_fin"} => global[handle[t]] = "S_NULL"
         /\ pc[t] = "term" => ~free[handle[t]]

(* Without signals and terminations by the secure world, what a thread     *)
(* inside a call knows of the state of its session.                        *)
InSession == {"send", "get_rsp", "cancel", "cancel_fin", "respond", "get_req", "wait_req",
              "get_req_check", "poll", "term"}

Knows(t, g) ==
    /\ pc[t] = "idle" => g \in {"S_NULL", "S_CONFIGURED"}
    /\ pc[t] \in InSession => g = "S_CONFIGURED"
    /\ pc[t] \in {"wait", "clear", "test", "reap"} =>
         /\ call[t] = "close" => g = "S_TERM_WAITING"
         /\ call[t] = "config" => \/ g = "S_NULL"
                                  \/ g = "S_CONFIGURED" /\ pc[t] # "reap"
                                  \/ g = "S_CONFIG_WAITING" /\ pc[t] = "wait"
         /\ call[t] \notin {"close", "config"} => g = "S_CONFIGURED" /\ pc[t] # "reap"
    /\ pc[t] \in {"reap_free", "config_fin", "close_fin", "close_free"} => g = "S_NULL"

InCall(t) ==
    /\ pc[t] \in InSession \ {"poll", "term"} => call[t] \notin {"close", "config", "poll"}
    /\ pc[t] \in {"wait", "clear"} => call[t] # "poll"
    /\ pc[t] = "poll" => call[t] = "poll"
    /\ pc[t] = "term" => call[t] = "close"

UserOf(t) ==
    /\ InCall(t)
    /\ handle[t] \in Slots =>
         LET s == handle[t] IN
         /\ Knows(t, global[s])
         /\ (pc[t] = "idle" /\ global[s] = "S_NULL") => free[s] \/ event[s] = {}
         /\ pc[t] = "config_fin" => free[s]
         /\ global[s] = "S_CONFIG_WAITING" => event[s] = {}
         /\ (global[s] = "S_CONFIGURED" /\ pc[t] # "idle" /\ call[t] = "config")
              => client[s] = "S_IDLE"

UserInv ==
    /\ \A t \in Threads : UserOf(t)
    /\ \A i \in DOMAIN sToNs : sToNs[i].act # "A_TERM"
    /\ inHand # <<>> => Head(inHand).act # "A_TERM"

(* Where the secure world neither refuses nor ends a session either, a     *)
(* thread that has a handle has a slot that is taken, by nobody else.      *)
Holds(t) ==
    handle[t] \in Slots =>
        /\ ~free[handle[t]] /\ mine[t]
        /\ pc[t] \notin {"reap_free", "config_fin"}
        /\ (pc[t] \in {"wait", "clear", "test", "reap"} /\ call[t] = "config")
             => global[handle[t]] # "S_NULL"

HoldInv ==
    /\ OwnHandles
    /\ \A t \in Threads : Holds(t)
    /\ \A i \in DOMAIN sToNs : sToNs[i].act = "A_CONFIG_ACK" => sToNs[i].val = 0
    /\ inHand # <<>> => (Head(inHand).act = "A_CONFIG_ACK" => Head(inHand).val = 0)

(* The messages of S in a ring that have none of T at or behind them.      *)
Pending(q, S, T) ==
    Cardinality({i \in DOMAIN q : q[i] \in S /\ \A j \in i .. Len(q) : q[j] \notin T})

About(s, acts) == {m \in Messages : m.slot = s /\ m.act \in acts}
Other(s, act, v) == {m \in About(s, {act}) : m.val # v}
Answers == {"A_RESPONSE", "A_CANCEL_ACK"}

(* What the normal world has sent about a session and the secure world has *)
(* not consumed.                                                           *)
SentConfig(s) == Pending(nsToS, About(s, {"A_CONFIG"}), {})
SentTerm(s) == Pending(nsToS, About(s, {"A_TERM"}), {})
SentRequest(s) == Pending(nsToS, About(s, {"A_REQUEST"}), {})
SentCancel(s) == Pending(nsToS, About(s, {"A_CANCEL"}), {})
SentAnswer(s) == Pending(nsToS, About(s, Answers), {})
SentSinceConfig(s) == Pending(nsToS, About(s, Actions), About(s, {"A_CONFIG"}))
RequestsSinceCancel(s) == Pending(nsToS, About(s, {"A_REQUEST"}), About(s, {"A_CANCEL"}))
SentOther(s, v) == Pending(nsToS, Other(s, "A_REQUEST", v), {})

(* What the secure world has sent and the work item has not handled; what  *)
(* precedes an acknowledgement of a configuration belongs to an earlier    *)
(* session and will be ignored.                                            *)
DueAck(s) == Pending(ToNs, About(s, {"A_CONFIG_ACK"}), {})
DueGrant(s) == Pending(ToNs, About(s, {"A_CONFIG_ACK"}) \ Other(s, "A_CONFIG_ACK", 0), {})
DueRequest(s) == Pending(ToNs, About(s, {"A_REQUEST"}), About(s, {"A_CONFIG_ACK"}))
DueAnswer(s) == Pending(ToNs, About(s, Answers), About(s, {"A_CONFIG_ACK"}))
DueCancelAck(s) == Pending(ToNs, About(s, {"A_CANCEL_ACK"}), About(s, {"A_CONFIG_ACK"}))
DueOther(s, v) == Pending(ToNs, Other(s, "A_RESPONSE", v), About(s, {"A_CONFIG_ACK"}))

(* A configuration that is waited for is in one of the rings, and the      *)
(* normal world says nothing more about its session until it is answered;  *)
(* a session that was granted is configured in the secure world too.       *)
ConfigOf(s) ==
    /\ SentConfig(s) + DueAck(s) = One(global[s] = "S_CONFIG_WAITING")
    /\ global[s] = "S_CONFIG_WAITING" => SentSinceConfig(s) = 0
    /\ DueGrant(s) # 0 => sState[s] = "conf"
    /\ global[s] = "S_CONFIGURED" =>
         /\ sState[s] = "conf" /\ SentTerm(s) = 0
         /\ client[s] # "S_NULL" /\ server[s] # "S_NULL"

(* The secure world has the configuration the normal world has or will     *)
(* have when it handles the acknowledgement.                               *)
Synced(s) ==
    /\ sState[s] = "conf" /\ SentConfig(s) = 0
    /\ global[s] \in {"S_CONFIG_WAITING", "S_CONFIGURED"}

(* Where a request of the client is, and what a cancellation on its way    *)
(* means: after its answer it finds nothing to cancel, and the next        *)
(* request comes behind it.                                                *)
ClientOf(s) ==
    /\ SentRequest(s) + One(sSrv[s] # 0) + DueAnswer(s)
       = One(global[s] = "S_CONFIGURED" /\ client[s] \in {"S_WAITING", "S_CANCEL_WAITING"})
    /\ DueCancelAck(s) # 0 => client[s] = "S_CANCEL_WAITING"
    /\ client[s] # "S_CANCEL_WAITING" =>
         /\ RequestsSinceCancel(s) = SentRequest(s)
         /\ SentCancel(s) # 0 => sSrv[s] = 0

ServerOf(s) ==
    DueRequest(s) + One(global[s] = "S_CONFIGURED" /\ server[s] \in {"S_NOTIFIED", "S_BUSY"})
      + SentAnswer(s)
    = One(sCli[s] # "idle")

(* The request in the ring, the one served and its response carry the code *)
(* that was asked last.                                                    *)
AnswerOf(s) ==
    /\ sSrv[s] \in {0, asked[s]}
    /\ SentOther(s, asked[s]) = 0 /\ DueOther(s, asked[s]) = 0

ExchangeOf(s) ==
    /\ ConfigOf(s)
    /\ Synced(s) => ClientOf(s) /\ ServerOf(s) /\ AnswerOf(s)
    /\ client[s] \in {"S_WAITING", "S_CANCEL_WAITING"} => asked[s] # 0
    /\ (client[s] = "S_NOTIFIED" /\ cMsg[s].act = "A_RESPONSE") => cMsg[s].val = asked[s]

ExchangeInv == \A s \in Slots : ExchangeOf(s)

(* An event that was cleared is on its way to the fetch it stands for.     *)
FetchesResponse(t) ==
    \/ pc[t] \in {"get_rsp", "cancel_fin"}
    \/ /\ pc[t] = "test" /\ wret[t] = "OK"
       /\ call[t] \notin {"config", "poll", "wait_request"}

FetchesRequest(t) ==
    \/ pc[t] \in {"get_req_check", "get_req"}
    \/ pc[t] = "test" /\ wret[t] = "OK" /\ call[t] = "wait_request"

AnnounceInv ==
    /\ \A t \in Threads : call[t] # "wait_event"
    /\ \A s \in Slots : global[s] = "S_CONFIGURED" =>
         /\ client[s] = "S_NOTIFIED" =>
               "RESPONSE" \in event[s] \/ \E t \in Threads : handle[t] = s /\ FetchesResponse(t)
         /\ server[s] = "S_NOTIFIED" =>
               "REQUEST" \in event[s] \/ \E t \in Threads : handle[t] = s /\ FetchesRequest(t)
=============================================================================

--------------------------- MODULE SessionProofs ---------------------------
(***************************************************************************)
(* Proofs about the sessions, for any number of slots, threads and request *)
(* codes.                                                                  *)
(***************************************************************************)
EXTENDS Session, FiniteSetTheorems, SequenceTheorems, TLAPS

USE DEF slotVars, threadVars, secureVars

-----------------------------------------------------------------------------
(* Messages and rings *)

LEMMA MessageType ==
    /\ \A s \in Slots, a \in Actions, v \in Values :
         /\ Message(s, a, v) \in Messages
         /\ a # "A_CONFIG" => Message(s, a, v) \in SecureMessages
         /\ v \in Requests \cup {0} => Message(s, a, v) \in NormalMessages
    /\ \A s, a, v : Message(s, a, v).slot = s /\ Message(s, a, v).act = a /\ Message(s, a, v).val = v
    /\ \A m \in Messages : m.slot \in Slots /\ m.act \in Actions /\ m.val \in Values
    /\ \A m \in SecureMessages : m \in Messages /\ m.act # "A_CONFIG"
    /\ \A m \in NormalMessages : m \in Messages /\ m.val \in Requests \cup {0}
BY DEF Message, Messages, SecureMessages, NormalMessages, Values

LEMMA BodyType ==
    /\ NoMessage \in Bodies
    /\ \A a \in Actions, v \in Values : [act |-> a, val |-> v] \in Bodies
    /\ Requests \subseteq Values /\ 0 \in Values /\ 1 \in Values
BY DEF NoMessage, Bodies, Values

LEMMA AppendType ==
    ASSUME NEW S, NEW q \in Seq(S), NEW m \in S
    PROVE  Append(q, m) \in Seq(S)
OBVIOUS

LEMMA HeadTail ==
    ASSUME NEW S, NEW q \in Seq(S), q # <<>>
    PROVE  Head(q) \in S /\ Tail(q) \in Seq(S)
OBVIOUS

LEMMA WriteType ==
    ASSUME CallInv, NEW m \in NormalMessages, write_ns_message(m)
    PROVE  nsToS' \in Seq(Messages) /\ nsToS' \in Seq(NormalMessages)
BY AppendType, MessageType DEF CallInv, TypeOK, write_ns_message

-----------------------------------------------------------------------------
(* Type correctness *)

(* What a step inside a call does to the thread that makes it.             *)
Moves(t) ==
    /\ pc' \in [Threads -> Pcs] /\ ret' \in [Threads -> Results]
    /\ wret' \in [Threads -> {"OK", "ETIMEDOUT", "ERESTARTSYS"}]
    /\ \A u \in Threads : u # t => pc'[u] = pc[u]
    /\ UNCHANGED <<call, handle, mine>>

LEMMA GotoType ==
    ASSUME TypeOK, NEW t \in Threads, NEW p \in Pcs, Goto(t, p) PROVE Moves(t)
BY DEF Goto, Moves, TypeOK

LEMMA ReturnType ==
    ASSUME TypeOK, NEW t \in Threads, NEW r \in Results, Return(t, r) PROVE Moves(t)
<1>1. pc' \in [Threads -> Pcs] /\ \A u \in Threads : u # t => pc'[u] = pc[u]
  BY DEF Return, TypeOK, Pcs
<1>2. ret' \in [Threads -> Results]
  BY DEF Return, TypeOK
<1>3. wret' \in [Threads -> {"OK", "ETIMEDOUT", "ERESTARTSYS"}]
  BY DEF Return, TypeOK
<1> QED
  BY <1>1, <1>2, <1>3 DEF Return, Moves

LEMMA WaitReturnType ==
    ASSUME TypeOK, NEW t \in Threads, NEW r \in {"OK", "ETIMEDOUT", "ERESTARTSYS", "EPIPE"},
           WaitReturn(t, r)
    PROVE  Moves(t)
<1>1. \/ \E p \in {"close_fin", "config_fin", "get_req_check", "cancel_fin", "get_rsp"} : Goto(t, p)
      \/ Return(t, r)
  BY Zenon DEF WaitReturn
<1>2. {"close_fin", "config_fin", "get_req_check", "cancel_fin", "get_rsp"} \subseteq Pcs
  BY DEF Pcs
<1>3. r \in Results
  BY DEF Results
<1> QED
  BY <1>1, <1>2, <1>3, GotoType, ReturnType

(* A step that moves one thread inside its call keeps its hold on a        *)
(* session.                                                                *)
LEMMA MoveKeeps ==
    ASSUME CallInv, NEW t \in Threads, Moves(t), pc[t] # "idle"
    PROVE  /\ \A u \in Threads : pc'[u] # "idle" => handle'[u] \in Slots
           /\ call' \in [Threads -> CheckedCalls \cup {"none", "open", "alloc", "config"}]
           /\ handle' \in [Threads -> Slots \cup {NoSlot}]
           /\ mine' \in [Threads -> BOOLEAN]
BY DEF Moves, CallInv, TypeOK

(* The types of the thread variables, and of the rest.                     *)
ThreadType ==
    /\ pc \in [Threads -> Pcs]
    /\ call \in [Threads -> CheckedCalls \cup {"none", "open", "alloc", "config"}]
    /\ wret \in [Threads -> {"OK", "ETIMEDOUT", "ERESTARTSYS"}] /\ ret \in [Threads -> Results]
    /\ handle \in [Threads -> Slots \cup {NoSlot}] /\ mine \in [Threads -> BOOLEAN]
    /\ \A t \in Threads : pc[t] # "idle" => handle[t] \in Slots

RingType ==
    /\ nsToS \in Seq(Messages) /\ sToNs \in Seq(Messages) /\ inHand \in Seq(Messages)
    /\ nsToS \in Seq(NormalMessages)
    /\ sToNs \in Seq(SecureMessages) /\ inHand \in Seq(SecureMessages) /\ Len(inHand) <= 1

StateType ==
    /\ free \in [Slots -> BOOLEAN] /\ sem \in [Slots -> BOOLEAN] /\ mem \in [Slots -> BOOLEAN]
    /\ global \in [Slots -> GlobalStates]
    /\ server \in [Slots -> ServerStates] /\ client \in [Slots -> ClientStates]
    /\ event \in [Slots -> SUBSET Events]

DataType ==
    /\ sMsg \in [Slots -> Bodies] /\ cMsg \in [Slots -> Bodies]
    /\ asked \in [Slots -> Requests \cup {0}] /\ out \in [Threads -> Bodies]
    /\ sState \in [Slots -> {"null", "conf", "term"}] /\ sSrv \in [Slots -> Requests \cup {0}]
    /\ sCli \in [Slots -> {"idle", "waiting", "cancelling"}]

LEMMA TypeParts == CallInv <=> ThreadType /\ RingType /\ StateType /\ DataType
BY DEF CallInv, TypeOK, ThreadType, RingType, StateType, DataType

LEMMA TypePartsNext == CallInv' <=> ThreadType' /\ RingType' /\ StateType' /\ DataType'
BY DEF CallInv, TypeOK, ThreadType, RingType, StateType, DataType

LEMMA MoveType ==
    ASSUME CallInv, NEW t \in Threads, Moves(t), pc[t] # "idle" PROVE ThreadType'
BY MoveKeeps DEF Moves, ThreadType

(* The steps before a call and between two calls.                          *)
LEMMA OpenType == ASSUME CallInv, NEW t \in Threads, Open(t) PROVE CallInv'
<1>1. PICK s \in Slots :
         /\ free' = [free EXCEPT ![s] = FALSE]
         /\ event' = [event EXCEPT ![s] = {}]
         /\ sMsg' = [sMsg EXCEPT ![s] = NoMessage]
         /\ cMsg' = [cMsg EXCEPT ![s] = NoMessage]
         /\ handle' = [handle EXCEPT ![t] = s]
         /\ mine' = [u \in Threads |-> u = t \/ (mine[u] /\ handle[u] # s)]
  BY Zenon DEF Open
<1>2. StateType'
  BY <1>1, TypeParts DEF Open, StateType
<1>3. DataType'
  BY <1>1, TypeParts, BodyType DEF Open, DataType
<1>4. mine' \in [Threads -> BOOLEAN]
  BY <1>1, Zenon
<1>5. /\ handle' \in [Threads -> Slots \cup {NoSlot}]
      /\ \A u \in Threads : pc'[u] # "idle" => handle'[u] \in Slots
  BY <1>1, TypeParts DEF Open, ThreadType
<1>6. /\ ret' \in [Threads -> Results]
      /\ call' \in [Threads -> CheckedCalls \cup {"none", "open", "alloc", "config"}]
  BY TypeParts DEF Open, ThreadType, Results
<1>7. ThreadType'
  BY <1>4, <1>5, <1>6, TypeParts DEF Open, ThreadType
<1>8. RingType'
  BY TypeParts DEF Open, RingType
<1> QED
  BY <1>2, <1>3, <1>7, <1>8, TypePartsNext

LEMMA ShareType ==
    ASSUME CallInv, NEW t \in Threads, NEW u \in Threads, Share(t, u) PROVE CallInv'
<1>1. handle' \in [Threads -> Slots \cup {NoSlot}] /\ mine' \in [Threads -> BOOLEAN]
  BY TypeParts DEF Share, ThreadType
<1>2. \A w \in Threads : pc'[w] # "idle" => handle'[w] \in Slots
  BY TypeParts DEF Share, ThreadType
<1>3. UNCHANGED <<slotVars, pc, call, wret, ret, out, secureVars, nsToS, sToNs, inHand>>
  BY DEF Share
<1>4. ThreadType'
  BY <1>1, <1>2, <1>3, TypeParts DEF ThreadType
<1>5. StateType' /\ DataType' /\ RingType'
  BY <1>3, TypeParts DEF StateType, DataType, RingType
<1> QED
  BY <1>4, <1>5, TypePartsNext

LEMMA AllocType == ASSUME CallInv, NEW t \in Threads, Alloc(t) PROVE CallInv'
<1>1. ThreadType'
  <2>1. ret' \in [Threads -> Results]
    BY TypeParts DEF Alloc, ThreadType, Results
  <2> QED
    BY <2>1, TypeParts DEF Alloc, ThreadType
<1>2. StateType'
  BY TypeParts DEF Alloc, StateType
<1>3. DataType' /\ RingType'
  BY TypeParts DEF Alloc, DataType, RingType
<1> QED
  BY <1>1, <1>2, <1>3, TypePartsNext

LEMMA ConfigureType ==
    ASSUME CallInv, NEW t \in Threads, NEW b \in BOOLEAN, Configure(t, b) PROVE CallInv'
<1>1. handle[t] \in Slots /\ handle' = handle /\ mine' = mine /\ wret' = wret
  BY TypeParts DEF Configure, ThreadType
<1>2. pc' \in [Threads -> Pcs] /\ \A u \in Threads : u # t => pc'[u] = pc[u]
  <2>1. pc' \in {pc, [pc EXCEPT ![t] = "wait"]}
    BY Zenon DEF Configure
  <2> QED
    BY <2>1, TypeParts DEF ThreadType, Pcs
<1>3. ret' \in [Threads -> Results]
  <2>1. \E r \in {"EINVAL", "EBADF", "EOVERFLOW", "ERESTARTSYS"} :
            ret' \in {ret, [ret EXCEPT ![t] = r]}
    BY Zenon DEF Configure
  <2> QED
    BY <2>1, TypeParts DEF ThreadType, Results
<1>4. call' \in [Threads -> CheckedCalls \cup {"none", "open", "alloc", "config"}]
  BY TypeParts DEF Configure, ThreadType
<1>5. ThreadType'
  BY <1>1, <1>2, <1>3, <1>4, TypeParts DEF ThreadType
<1>6. global' \in [Slots -> GlobalStates]
  <2>1. global' \in {global, [global EXCEPT ![handle[t]] = "S_CONFIG_WAITING"]}
    BY Zenon DEF Configure
  <2> QED
    BY <2>1, TypeParts DEF StateType, GlobalStates
<1>7. sem' \in [Slots -> BOOLEAN]
  <2>1. sem' \in {sem, [sem EXCEPT ![handle[t]] = FALSE]}
    BY Zenon DEF Configure
  <2> QED
    BY <2>1, TypeParts DEF StateType
<1>8. nsToS' \in Seq(Messages) /\ nsToS' \in Seq(NormalMessages)
  <2>1. Message(handle[t], "A_CONFIG", 0) \in NormalMessages
    BY <1>1, MessageType, BodyType DEF Actions
  <2>2. nsToS' = nsToS \/ write_ns_message(Message(handle[t], "A_CONFIG", 0))
    BY Zenon DEF Configure
  <2> QED
    BY <2>1, <2>2, WriteType DEF CallInv, TypeOK
<1>9. StateType' /\ DataType' /\ RingType'
  BY <1>6, <1>7, <1>8, TypeParts DEF Configure, StateType, DataType, RingType
<1> QED
  BY <1>5, <1>9, TypePartsNext

LEMMA BeginType ==
    ASSUME CallInv, NEW t \in Threads, NEW c \in CheckedCalls, Begin(t, c) PROVE CallInv'
<1>1. FirstStep(c) \in Pcs
  BY DEF FirstStep, CheckedCalls, Pcs
<1>2. handle[t] \in Slots
  BY TypeParts DEF Begin, ThreadType
<1>3. PICK r \in {"OK", "EINVAL", "ENODEV", "ERESTARTSYS"} :
         IF r = "OK" \/ c = "close"
           THEN /\ pc' = [pc EXCEPT ![t] = IF r = "OK" THEN FirstStep(c) ELSE "close_fin"]
                /\ UNCHANGED ret
           ELSE /\ ret' = [ret EXCEPT ![t] = r]
                /\ UNCHANGED pc
  BY Zenon DEF Begin
<1>4. pc' \in [Threads -> Pcs] /\ \A u \in Threads : u # t => pc'[u] = pc[u]
  BY <1>1, <1>3, TypeParts DEF ThreadType, Pcs
<1>5. ret' \in [Threads -> Results]
  BY <1>3, TypeParts DEF ThreadType, Results
<1>6. call' \in [Threads -> CheckedCalls \cup {"none", "open", "alloc", "config"}]
  BY TypeParts DEF Begin, ThreadType
<1>7. ThreadType'
  BY <1>2, <1>4, <1>5, <1>6, TypeParts DEF Begin, ThreadType
<1>8. StateType' /\ RingType'
  BY TypeParts DEF Begin, StateType, RingType
<1>9. DataType'
  BY TypeParts, BodyType DEF Begin, DataType
<1> QED
  BY <1>7, <1>8, <1>9, TypePartsNext

(* The critical sections of the calls.                                     *)
LEMMA SectionType ==
    ASSUME CallInv, NEW t \in Threads, pc[t] # "idle", Moves(t),
           NEW s \in Slots,
           global' \in {global, [global EXCEPT ![s] = "S_NULL"],
                        [global EXCEPT ![s] = "S_TERM_WAITING"]},
           client' = client \/ \E c \in ClientStates : client' = [client EXCEPT ![s] = c],
           server' = server \/ \E c \in ServerStates : server' = [server EXCEPT ![s] = c],
           event' = event \/ \E e \in SUBSET Events : event' = [event EXCEPT ![s] = e],
           mem' \in {mem, [mem EXCEPT ![s] = FALSE]},
           free' \in {free, [free EXCEPT ![s] = TRUE]},
           cMsg' \in {cMsg, [cMsg EXCEPT ![s] = NoMessage]},
           sMsg' \in {sMsg, [sMsg EXCEPT ![s] = NoMessage]},
           out' = out \/ \E b \in Bodies : out' = [out EXCEPT ![t] = b],
           asked' = asked \/ \E v \in Requests : asked' = [asked EXCEPT ![s] = v],
           \/ UNCHANGED nsToS
           \/ \E a \in Actions, v \in Requests \cup {0} : write_ns_message(Message(s, a, v)),
           UNCHANGED <<sem, secureVars, sToNs, inHand>>
    PROVE  CallInv'
<1>1. ThreadType'
  BY MoveType
<1>2. StateType'
  <2>1. free' \in [Slots -> BOOLEAN] /\ sem' \in [Slots -> BOOLEAN] /\ mem' \in [Slots -> BOOLEAN]
    BY TypeParts DEF StateType
  <2>2. global' \in [Slots -> GlobalStates]
    BY TypeParts DEF StateType, GlobalStates
  <2>3. server' \in [Slots -> ServerStates] /\ client' \in [Slots -> ClientStates]
    BY TypeParts DEF StateType
  <2>4. event' \in [Slots -> SUBSET Events]
    BY TypeParts DEF StateType
  <2> QED
    BY <2>1, <2>2, <2>3, <2>4 DEF StateType
<1>3. DataType'
  <2>1. sMsg' \in [Slots -> Bodies] /\ cMsg' \in [Slots -> Bodies]
    BY TypeParts, BodyType DEF DataType
  <2>2. asked' \in [Slots -> Requests \cup {0}] /\ out' \in [Threads -> Bodies]
    BY TypeParts DEF DataType
  <2> QED
    BY <2>1, <2>2, TypeParts DEF DataType
<1>4. RingType'
  <2>1. nsToS' \in Seq(Messages) /\ nsToS' \in Seq(NormalMessages)
    BY WriteType, MessageType, BodyType DEF CallInv, TypeOK
  <2> QED
    BY <2>1, TypeParts DEF RingType
<1> QED
  BY <1>1, <1>2, <1>3, <1>4, TypePartsNext

LEMMA HandleType ==
    ASSUME CallInv, NEW t \in Threads, pc[t] # "idle"
    PROVE  /\ handle[t] \in Slots
           /\ cMsg[handle[t]] \in Bodies /\ sMsg[handle[t]] \in Bodies
           /\ event[handle[t]] \subseteq Events
BY TypeParts DEF ThreadType, DataType, StateType

LEMMA ClientCallType ==
    ASSUME CallInv, NEW t \in Threads,
           \/ GetResponse(t) \/ CancelRequest(t) \/ CancelFinish(t)
           \/ \E v \in Requests : SendRequest(t, v)
    PROVE  CallInv'
<1> DEFINE s == handle[t]
<1>0. pc[t] # "idle" /\ s \in Slots /\ cMsg[s] \in Bodies /\ event[s] \ {"RESPONSE"} \in SUBSET Events
  <2>1. pc[t] # "idle"
    BY DEF GetResponse, CancelRequest, CancelFinish, SendRequest
  <2> QED
    BY <2>1, HandleType
<1>a. /\ {"EPROTO", "OK", "EAGAIN", "CANCEL_RESPONSE", "CANCEL_OK", "EFAULT"} \subseteq Results
      /\ "wait" \in Pcs /\ {"S_WAITING", "S_IDLE", "S_CANCEL_WAITING"} \subseteq ClientStates
      /\ {"A_REQUEST", "A_CANCEL"} \subseteq Actions /\ TypeOK
  BY DEF Results, Pcs, ClientStates, Actions, CallInv
<1>1. CASE GetResponse(t)
  <2>1. Return(t, "EAGAIN") \/ Return(t, "OK")
    BY <1>1 DEF GetResponse
  <2>2. Moves(t)
    BY <2>1, <1>a, ReturnType
  <2>3. /\ client' = client \/ client' = [client EXCEPT ![s] = "S_IDLE"]
        /\ event' = event \/ event' = [event EXCEPT ![s] = event[s] \ {"RESPONSE"}]
        /\ cMsg' \in {cMsg, [cMsg EXCEPT ![s] = NoMessage]}
        /\ out' = out \/ out' = [out EXCEPT ![t] = cMsg[s]]
    BY <1>1, Zenon DEF GetResponse
  <2>4. UNCHANGED <<free, global, server, sMsg, sem, mem, asked, secureVars, nsToS, sToNs, inHand>>
    BY <1>1 DEF GetResponse
  <2> HIDE DEF s
  <2> QED
    BY <1>0, <1>a, <2>2, <2>3, <2>4, SectionType
<1>2. CASE CancelRequest(t)
  <2>1. Return(t, "CANCEL_RESPONSE") \/ Return(t, "EPROTO") \/ Goto(t, "wait")
    BY <1>2, Zenon DEF CancelRequest
  <2>2. Moves(t)
    BY <2>1, <1>a, ReturnType, GotoType
  <2>3. /\ \/ client' = client \/ client' = [client EXCEPT ![s] = "S_IDLE"]
           \/ client' = [client EXCEPT ![s] = "S_CANCEL_WAITING"]
        /\ event' = event \/ event' = [event EXCEPT ![s] = event[s] \ {"RESPONSE"}]
        /\ cMsg' \in {cMsg, [cMsg EXCEPT ![s] = NoMessage]}
        /\ out' = out \/ out' = [out EXCEPT ![t] = cMsg[s]]
        /\ nsToS' = nsToS \/ write_ns_message(Message(s, "A_CANCEL", 0))
    BY <1>2, Zenon DEF CancelRequest
  <2>4. UNCHANGED <<free, global, server, sMsg, sem, mem, asked, secureVars, sToNs, inHand>>
    BY <1>2 DEF CancelRequest
  <2> HIDE DEF s
  <2> QED
    BY <1>0, <1>a, <2>2, <2>3, <2>4, SectionType, BodyType
<1>3. CASE CancelFinish(t)
  <2>1. Return(t, "CANCEL_RESPONSE") \/ Return(t, "EFAULT") \/ Return(t, "CANCEL_OK")
    BY <1>3, Zenon DEF CancelFinish
  <2>2. Moves(t)
    BY <2>1, <1>a, ReturnType
  <2>3. /\ client' = client \/ client' = [client EXCEPT ![s] = "S_IDLE"]
        /\ cMsg' \in {cMsg, [cMsg EXCEPT ![s] = NoMessage]}
        /\ out' = out \/ out' = [out EXCEPT ![t] = cMsg[s]]
    BY <1>3, Zenon DEF CancelFinish
  <2>4. UNCHANGED <<free, global, server, sMsg, sem, event, mem, asked, secureVars, nsToS, sToNs,
                    inHand>>
    BY <1>3 DEF CancelFinish
  <2> HIDE DEF s
  <2> QED
    BY <1>0, <1>a, <2>2, <2>3, <2>4, SectionType
<1>4. ASSUME NEW v \in Requests, SendRequest(t, v) PROVE CallInv'
  <2>1. Return(t, "EPROTO") \/ Return(t, "OK") \/ Goto(t, "wait")
    BY <1>4, Zenon DEF SendRequest
  <2>2. Moves(t)
    BY <2>1, <1>a, ReturnType, GotoType
  <2>3. /\ client' = client \/ client' = [client EXCEPT ![s] = "S_WAITING"]
        /\ asked' = asked \/ asked' = [asked EXCEPT ![s] = v]
        /\ nsToS' = nsToS \/ write_ns_message(Message(s, "A_REQUEST", v))
    BY <1>4, Zenon DEF SendRequest
  <2>4. UNCHANGED <<free, global, server, sMsg, cMsg, sem, event, mem, out, secureVars, sToNs,
                    inHand>>
    BY <1>4 DEF SendRequest
  <2> HIDE DEF s
  <2> QED
    BY <1>0, <1>a, <2>2, <2>3, <2>4, SectionType, BodyType
<1> QED
  BY <1>1, <1>2, <1>3, <1>4

LEMMA ServerCallType ==
    ASSUME CallInv, NEW t \in Threads,
           SendResponse(t) \/ GetRequest(t) \/ WaitRequest(t) \/ GiveUp(t) \/ ConfigFinish(t) \/ Poll(t)
    PROVE  CallInv'
<1> DEFINE s == handle[t]
<1>0. pc[t] # "idle" /\ s \in Slots /\ sMsg[s] \in Bodies /\ event[s] \ {"REQUEST"} \in SUBSET Events
  <2>1. pc[t] # "idle"
    BY DEF SendResponse, GetRequest, WaitRequest, GiveUp, ConfigFinish, Poll
  <2> QED
    BY <2>1, HandleType
<1>a. /\ {"EPROTO", "OK", "EAGAIN", "ERESTARTSYS", "ENODEV", "SERROR", "EPOLLIN", "EINVAL"} \subseteq Results
      /\ {"wait", "get_req", "test"} \subseteq Pcs /\ {"S_IDLE", "S_BUSY"} \subseteq ServerStates
      /\ "A_RESPONSE" \in Actions /\ TypeOK /\ 0 \in Values
  BY BodyType DEF Results, Pcs, ServerStates, Actions, CallInv
<1>1. CASE SendResponse(t)
  <2>1. Return(t, "EPROTO") \/ Return(t, "OK")
    BY <1>1, Zenon DEF SendResponse
  <2>2. Moves(t)
    BY <2>1, <1>a, ReturnType
  <2>3. /\ server' = server \/ server' = [server EXCEPT ![s] = "S_IDLE"]
        /\ nsToS' = nsToS \/ write_ns_message(Message(s, "A_RESPONSE", 0))
    BY <1>1, Zenon DEF SendResponse
  <2>4. UNCHANGED <<free, global, client, sMsg, cMsg, sem, event, mem, asked, out, secureVars, sToNs,
                    inHand>>
    BY <1>1 DEF SendResponse
  <2> HIDE DEF s
  <2> QED
    BY <1>0, <1>a, <2>2, <2>3, <2>4, SectionType
<1>2. CASE GetRequest(t)
  <2>1. Return(t, "EAGAIN") \/ Return(t, "OK")
    BY <1>2, Zenon DEF GetRequest
  <2>2. Moves(t)
    BY <2>1, <1>a, ReturnType
  <2>3. /\ server' = server \/ server' = [server EXCEPT ![s] = "S_BUSY"]
        /\ event' = event \/ event' = [event EXCEPT ![s] = event[s] \ {"REQUEST"}]
        /\ sMsg' \in {sMsg, [sMsg EXCEPT ![s] = NoMessage]}
        /\ out' = out \/ out' = [out EXCEPT ![t] = sMsg[s]]
    BY <1>2, Zenon DEF GetRequest
  <2>4. UNCHANGED <<free, global, client, cMsg, sem, mem, asked, secureVars, nsToS, sToNs, inHand>>
    BY <1>2 DEF GetRequest
  <2> HIDE DEF s
  <2> QED
    BY <1>0, <1>a, <2>2, <2>3, <2>4, SectionType
<1>3. CASE WaitRequest(t) \/ GiveUp(t) \/ Poll(t)
  <2>1. CheckResult(handle[t]) \in Results
    BY <1>a DEF CheckResult
  <2>2. \/ \E p \in {"wait", "get_req", "test"} : Goto(t, p)
        \/ \E r \in {"EPROTO", CheckResult(handle[t]), "ERESTARTSYS", "EPOLLIN"} : Return(t, r)
    BY <1>3, Zenon DEF WaitRequest, GiveUp, Poll, Interrupted
  <2>3. Moves(t)
    BY <2>1, <2>2, <1>a, ReturnType, GotoType
  <2>4. UNCHANGED <<slotVars, out, secureVars, nsToS, sToNs, inHand>>
    BY <1>3 DEF WaitRequest, GiveUp, Poll, Interrupted
  <2> HIDE DEF s
  <2> QED
    BY <1>0, <1>a, <2>3, <2>4, SectionType
<1>4. CASE ConfigFinish(t)
  <2>1. \E r \in {"ENODEV", "SERROR", "ERESTARTSYS"} : Return(t, r)
    BY <1>4, Zenon DEF ConfigFinish, Interrupted
  <2>2. Moves(t)
    BY <2>1, <1>a, ReturnType
  <2>3. cMsg' \in {cMsg, [cMsg EXCEPT ![s] = NoMessage]}
    BY <1>4, Zenon DEF ConfigFinish, Interrupted
  <2>4. UNCHANGED <<free, global, server, client, sMsg, sem, event, mem, asked, out,
                         secureVars, nsToS, sToNs, inHand>>
    BY <1>4 DEF ConfigFinish, Interrupted
  <2> HIDE DEF s
  <2> QED
    BY <1>0, <1>a, <2>2, <2>3, <2>4, SectionType
<1> QED
  BY <1>1, <1>2, <1>3, <1>4

LEMMA WaitType ==
    ASSUME CallInv, NEW t \in Threads,
           WaitSteps(t) \/ \E r \in {"OK", "ETIMEDOUT", "ERESTARTSYS"} : Wake(t, r)
    PROVE  CallInv'
<1> DEFINE s == handle[t]
<1>0. pc[t] # "idle" /\ s \in Slots /\ event[s] \ Mask(call[t]) \in SUBSET Events
  <2>1. pc[t] # "idle"
    BY DEF WaitSteps, Clear, Test, Reap, ReapFree, Wake
  <2> QED
    BY <2>1, HandleType
<1>a. /\ {"test", "reap", "reap_free", "clear"} \subseteq Pcs /\ TypeOK
      /\ wret[t] \in {"OK", "ETIMEDOUT", "ERESTARTSYS"}
  BY DEF Pcs, CallInv, TypeOK
<1>1. CASE Clear(t)
  <2>1. Goto(t, "test") \/ WaitReturn(t, "ERESTARTSYS")
    BY <1>1, Zenon DEF Clear, Interrupted
  <2>2. Moves(t)
    BY <2>1, <1>a, WaitReturnType, GotoType
  <2>3. event' = event \/ event' = [event EXCEPT ![s] = event[s] \ Mask(call[t])]
    BY <1>1, Zenon DEF Clear, Interrupted
  <2>4. UNCHANGED <<free, global, server, client, sMsg, cMsg, sem, mem, asked, out,
                    secureVars, nsToS, sToNs, inHand>>
    BY <1>1 DEF Clear, Interrupted
  <2> HIDE DEF s
  <2> QED
    BY <1>0, <1>a, <2>2, <2>3, <2>4, SectionType
<1>2. CASE Test(t)
  <2>1. Goto(t, "reap") \/ WaitReturn(t, wret[t])
    BY <1>2, Zenon DEF Test
  <2>2. Moves(t)
    BY <2>1, <1>a, WaitReturnType, GotoType
  <2>3. UNCHANGED <<slotVars, out, secureVars, nsToS, sToNs, inHand>>
    BY <1>2 DEF Test
  <2> HIDE DEF s
  <2> QED
    BY <1>0, <1>a, <2>2, <2>3, SectionType
<1>3. CASE Reap(t)
  <2>1. Goto(t, "reap_free") \/ WaitReturn(t, wret[t]) \/ WaitReturn(t, "ERESTARTSYS")
    BY <1>3, Zenon DEF Reap, Interrupted
  <2>2. Moves(t)
    BY <2>1, <1>a, WaitReturnType, GotoType
  <2>3. /\ global' \in {global, [global EXCEPT ![s] = "S_NULL"]}
        /\ mem' \in {mem, [mem EXCEPT ![s] = FALSE]}
    BY <1>3, Zenon DEF Reap, Interrupted
  <2>4. UNCHANGED <<free, server, client, sMsg, cMsg, sem, event, asked, out,
                    secureVars, nsToS, sToNs, inHand>>
    BY <1>3 DEF Reap, Interrupted
  <2> HIDE DEF s
  <2> QED
    BY <1>0, <1>a, <2>2, <2>3, <2>4, SectionType
<1>4. CASE ReapFree(t)
  <2>1. Moves(t)
    BY <1>4, <1>a, WaitReturnType DEF ReapFree
  <2>2. /\ free' = [free EXCEPT ![s] = TRUE]
        /\ UNCHANGED <<global, server, client, sMsg, cMsg, sem, event, mem, asked, out,
                       secureVars, nsToS, sToNs, inHand>>
    BY <1>4 DEF ReapFree
  <2> HIDE DEF s
  <2> QED
    BY <1>0, <1>a, <2>1, <2>2, SectionType
<1>5. ASSUME NEW r \in {"OK", "ETIMEDOUT", "ERESTARTSYS"}, Wake(t, r) PROVE CallInv'
  <2>1. Moves(t)
    BY <1>5, <1>a DEF Wake, Moves, TypeOK
  <2>2. UNCHANGED <<slotVars, out, secureVars, nsToS, sToNs, inHand>>
    BY <1>5 DEF Wake
  <2> HIDE DEF s
  <2> QED
    BY <1>0, <1>a, <2>1, <2>2, SectionType
<1> QED
  BY <1>1, <1>2, <1>3, <1>4, <1>5 DEF WaitSteps

LEMMA CloseType ==
    ASSUME CallInv, NEW t \in Threads, SendTerm(t) \/ CloseFinish(t) \/ CloseFree(t)
    PROVE  CallInv'
<1> DEFINE s == handle[t]
<1>0. pc[t] # "idle" /\ s \in Slots
  <2>1. pc[t] # "idle"
    BY DEF SendTerm, CloseFinish, CloseFree
  <2> QED
    BY <2>1, HandleType
<1>a. /\ {"wait", "close_fin", "close_free"} \subseteq Pcs /\ TypeOK
      /\ "A_TERM" \in Actions /\ 0 \in Values /\ Events \in SUBSET Events
  BY BodyType DEF Pcs, CallInv, Actions
<1>1. CASE SendTerm(t)
  <2>1. Goto(t, "wait") \/ Goto(t, "close_fin")
    BY <1>1, Zenon DEF SendTerm, Interrupted
  <2>2. Moves(t)
    BY <2>1, <1>a, GotoType
  <2>3. /\ global' \in {global, [global EXCEPT ![s] = "S_TERM_WAITING"]}
        /\ nsToS' = nsToS \/ write_ns_message(Message(s, "A_TERM", 0))
    BY <1>1, Zenon DEF SendTerm, Interrupted
  <2>4. UNCHANGED <<free, server, client, sMsg, cMsg, sem, event, mem, asked, out,
                    secureVars, sToNs, inHand>>
    BY <1>1 DEF SendTerm, Interrupted
  <2> HIDE DEF s
  <2> QED
    BY <1>0, <1>a, <2>2, <2>3, <2>4, SectionType
<1>2. CASE CloseFinish(t)
  <2>1. Moves(t)
    BY <1>2, <1>a, GotoType DEF CloseFinish
  <2>2. /\ global' = [global EXCEPT ![s] = "S_NULL"] /\ mem' = [mem EXCEPT ![s] = FALSE]
        /\ event' = [event EXCEPT ![s] = Events]
        /\ UNCHANGED <<free, server, client, sMsg, cMsg, sem, asked, out,
                       secureVars, nsToS, sToNs, inHand>>
    BY <1>2 DEF CloseFinish
  <2> HIDE DEF s
  <2> QED
    BY <1>0, <1>a, <2>1, <2>2, SectionType
<1>3. CASE CloseFree(t)
  <2>1. pc' \in [Threads -> Pcs] /\ \A u \in Threads : u # t => pc'[u] = pc[u]
    BY <1>3, TypeParts DEF CloseFree, ThreadType, Pcs
  <2>2. ret' \in [Threads -> Results] /\ wret' \in [Threads -> {"OK", "ETIMEDOUT", "ERESTARTSYS"}]
    BY <1>3, TypeParts DEF CloseFree, ThreadType, Results
  <2>3. handle' \in [Threads -> Slots \cup {NoSlot}] /\ mine' \in [Threads -> BOOLEAN]
    BY <1>3, TypeParts DEF CloseFree, ThreadType
  <2>4. \A u \in Threads : pc'[u] # "idle" => handle'[u] \in Slots
    BY <1>3, TypeParts DEF CloseFree, ThreadType
  <2>5. ThreadType'
    BY <1>3, <2>1, <2>2, <2>3, <2>4, TypeParts DEF CloseFree, ThreadType
  <2>6. free' \in [Slots -> BOOLEAN]
    BY <1>3, TypeParts DEF CloseFree, StateType
  <2>7. StateType' /\ DataType' /\ RingType'
    BY <1>3, <2>6, TypeParts DEF CloseFree, StateType, DataType, RingType
  <2> QED
    BY <2>5, <2>7, TypePartsNext
<1> QED
  BY <1>1, <1>2, <1>3

(* The work item.                                                          *)
LEMMA WorkerType == ASSUME CallInv, WorkerTake \/ WorkerHandle PROVE CallInv'
<1>1. CASE WorkerTake
  <2>1. Head(sToNs) \in SecureMessages /\ Tail(sToNs) \in Seq(SecureMessages)
    BY <1>1, HeadTail, TypeParts DEF WorkerTake, RingType
  <2>2. Head(sToNs) \in Messages /\ Tail(sToNs) \in Seq(Messages)
    BY <1>1, HeadTail, TypeParts DEF WorkerTake, RingType
  <2>3. inHand' \in {<<>>, <<Head(sToNs)>>} /\ sToNs' = Tail(sToNs)
    BY <1>1, Zenon DEF WorkerTake
  <2>4. RingType'
    BY <1>1, <2>1, <2>2, <2>3, TypeParts DEF WorkerTake, RingType
  <2>5. ThreadType' /\ StateType' /\ DataType'
    BY <1>1, TypeParts DEF WorkerTake, ThreadType, StateType, DataType
  <2> QED
    BY <2>4, <2>5, TypePartsNext
<1>2. CASE WorkerHandle
  <2> DEFINE m == Head(inHand)  s == m.slot
  <2>1. m \in Messages /\ m \in SecureMessages
    BY <1>2, HeadTail, TypeParts DEF WorkerHandle, RingType
  <2>2. /\ s \in Slots /\ [act |-> m.act, val |-> m.val] \in Bodies
        /\ m.act \in Actions \ {"A_CONFIG"} /\ event[s] \subseteq Events
    BY <2>1, MessageType, BodyType, TypeParts DEF StateType
  <2>3. \/ OnRequest(s, m) \/ OnResponse(s, m) \/ OnConfigAck(s, m)
        \/ OnCancel(s, m) \/ OnTerm(s, m) \/ OnTermAck(s, m)
    <3>1. m.act \in {"A_REQUEST", "A_RESPONSE", "A_CONFIG_ACK", "A_CANCEL",
                     "A_CANCEL_ACK", "A_TERM", "A_TERM_ACK"}
      BY <2>2 DEF Actions
    <3> QED
      BY <1>2, <3>1, Zenon DEF WorkerHandle
  <2>a. /\ inHand' = <<>>
        /\ UNCHANGED <<free, sem, mem, asked, threadVars, secureVars, sToNs>>
    BY <1>2 DEF WorkerHandle
  <2> HIDE DEF m, s
  <2>4. global' \in [Slots -> GlobalStates]
    <3>1. global' \in {global, [global EXCEPT ![s] = "S_CONFIGURED"], [global EXCEPT ![s] = "S_NULL"]}
      BY <2>3, Zenon DEF OnRequest, OnResponse, OnConfigAck, OnCancel, OnTerm, OnTermAck
    <3> QED
      BY <3>1, TypeParts DEF StateType, GlobalStates
  <2>5. server' \in [Slots -> ServerStates] /\ client' \in [Slots -> ClientStates]
    <3>1. /\ server' \in {server, [server EXCEPT ![s] = "S_NOTIFIED"], [server EXCEPT ![s] = "S_IDLE"]}
          /\ client' \in {client, [client EXCEPT ![s] = "S_NOTIFIED"], [client EXCEPT ![s] = "S_IDLE"]}
      BY <2>3, Zenon DEF OnRequest, OnResponse, OnConfigAck, OnCancel, OnTerm, OnTermAck
    <3> QED
      BY <3>1, TypeParts DEF StateType, ServerStates, ClientStates
  <2>6. event' \in [Slots -> SUBSET Events]
    <3>1. event' \in {event, [event EXCEPT ![s] = event[s] \cup {"REQUEST"}],
                      [event EXCEPT ![s] = event[s] \cup {"RESPONSE"}], [event EXCEPT ![s] = Events]}
      BY <2>3, Zenon DEF OnRequest, OnResponse, OnConfigAck, OnCancel, OnTerm, OnTermAck
    <3>2. /\ event[s] \cup {"REQUEST"} \subseteq Events /\ event[s] \cup {"RESPONSE"} \subseteq Events
          /\ Events \subseteq Events
      BY <2>2 DEF Events
    <3> QED
      BY <3>1, <3>2, TypeParts DEF StateType
  <2>7. sMsg' \in [Slots -> Bodies] /\ cMsg' \in [Slots -> Bodies]
    <3>1. /\ sMsg' \in {sMsg, [sMsg EXCEPT ![s] = NoMessage],
                        [sMsg EXCEPT ![s] = [act |-> m.act, val |-> m.val]]}
          /\ cMsg' \in {cMsg, [cMsg EXCEPT ![s] = [act |-> m.act, val |-> m.val]]}
      BY <2>3, Zenon DEF OnRequest, OnResponse, OnConfigAck, OnCancel, OnTerm, OnTermAck
    <3> QED
      BY <2>2, <3>1, BodyType, TypeParts DEF DataType
  <2>8. nsToS' \in Seq(Messages) /\ nsToS' \in Seq(NormalMessages)
    <3>1. \/ nsToS' = nsToS
          \/ \E a \in {"A_CANCEL_ACK", "A_TERM_ACK"} : write_ns_message(Message(s, a, 0))
      BY <2>3, Zenon DEF OnRequest, OnResponse, OnConfigAck, OnCancel, OnTerm, OnTermAck
    <3>2. \A a \in {"A_CANCEL_ACK", "A_TERM_ACK"} : Message(s, a, 0) \in NormalMessages
      BY <2>2, MessageType, BodyType DEF Actions
    <3> QED
      BY <3>1, <3>2, WriteType DEF CallInv, TypeOK
  <2>9. RingType'
    BY <2>8, <2>a, TypeParts DEF RingType
  <2>10. ThreadType' /\ StateType' /\ DataType'
    BY <2>4, <2>5, <2>6, <2>7, <2>a, TypeParts DEF ThreadType, StateType, DataType
  <2> QED
    BY <2>9, <2>10, TypePartsNext
<1> QED
  BY <1>1, <1>2

(* The secure world.                                                       *)
LEMMA SecureType == ASSUME CallInv, Secure PROVE CallInv'
<1>0. UNCHANGED <<slotVars, threadVars, inHand>>
  BY DEF Secure, SecureStep, SecureRespond, SecureStart
<1>1. ASSUME nsToS' \in Seq(Messages), nsToS' \in Seq(NormalMessages),
             \/ UNCHANGED sToNs
             \/ \E s \in Slots, a \in Actions \ {"A_CONFIG"}, v \in Values : SecureSends(s, a, v),
             sState' \in [Slots -> {"null", "conf", "term"}],
             sSrv' \in [Slots -> Requests \cup {0}],
             sCli' \in [Slots -> {"idle", "waiting", "cancelling"}]
      PROVE  CallInv'
  <2>1. sToNs' \in Seq(SecureMessages) /\ sToNs' \in Seq(Messages)
    <3>1. CASE UNCHANGED sToNs
      BY <3>1, TypeParts DEF RingType
    <3>2. ASSUME NEW s \in Slots, NEW a \in Actions \ {"A_CONFIG"}, NEW v \in Values,
                 SecureSends(s, a, v)
          PROVE  sToNs' \in Seq(SecureMessages) /\ sToNs' \in Seq(Messages)
      <4>1. Message(s, a, v) \in SecureMessages /\ Message(s, a, v) \in Messages
        BY MessageType
      <4> QED
        BY <3>2, <4>1, AppendType, TypeParts DEF RingType, SecureSends
    <3> QED
      BY <1>1, <3>1, <3>2
  <2>2. RingType'
    BY <1>0, <1>1, <2>1, TypeParts DEF RingType
  <2>3. ThreadType' /\ StateType'
    BY <1>0, TypeParts DEF ThreadType, StateType
  <2>4. DataType'
    BY <1>0, <1>1, TypeParts DEF DataType
  <2> QED
    BY <2>2, <2>3, <2>4, TypePartsNext
<1>2. CASE SecureStep
  <2> DEFINE m == Head(nsToS)  s == m.slot
  <2>1. m \in NormalMessages /\ nsToS' \in Seq(Messages) /\ nsToS' \in Seq(NormalMessages)
    BY <1>2, HeadTail, TypeParts DEF SecureStep, RingType
  <2>2. s \in Slots /\ m.val \in Requests \cup {0}
    BY <2>1, MessageType
  <2>4. \/ UNCHANGED sToNs
        \/ \E a \in {"A_CONFIG_ACK", "A_CANCEL_ACK", "A_TERM_ACK"}, v \in {0, 1} : SecureSends(s, a, v)
    BY <1>2, Zenon DEF SecureStep
  <2>5. /\ sState' \in {sState, [sState EXCEPT ![s] = "conf"], [sState EXCEPT ![s] = "null"]}
        /\ sSrv' \in {sSrv, [sSrv EXCEPT ![s] = 0], [sSrv EXCEPT ![s] = m.val]}
        /\ sCli' \in {sCli, [sCli EXCEPT ![s] = "idle"]}
    BY <1>2, Zenon DEF SecureStep
  <2> HIDE DEF m, s
  <2>6. /\ sState' \in [Slots -> {"null", "conf", "term"}]
        /\ sCli' \in [Slots -> {"idle", "waiting", "cancelling"}]
    BY <2>5, TypeParts DEF DataType
  <2>7. {"A_CONFIG_ACK", "A_CANCEL_ACK", "A_TERM_ACK"} \subseteq Actions \ {"A_CONFIG"}
    BY DEF Actions
  <2>8. sSrv' \in [Slots -> Requests \cup {0}]
    BY <2>2, <2>5, TypeParts DEF DataType
  <2> QED
    BY <1>1, <2>1, <2>2, <2>4, <2>6, <2>7, <2>8, BodyType
<1>3. ASSUME NEW s \in Slots, SecureRespond(s) \/ SecureStart(s) PROVE CallInv'
  <2>1. \/ UNCHANGED sToNs
        \/ \E a \in {"A_RESPONSE", "A_REQUEST", "A_CANCEL", "A_TERM"}, v \in {sSrv[s], 0} \cup Requests :
               SecureSends(s, a, v)
    BY <1>3, Zenon DEF SecureRespond, SecureStart
  <2>2. {"A_RESPONSE", "A_REQUEST", "A_CANCEL", "A_TERM"} \subseteq Actions \ {"A_CONFIG"}
    BY DEF Actions
  <2>3. {sSrv[s], 0} \cup Requests \subseteq Values
    BY BodyType, TypeParts DEF DataType
  <2>4. /\ sState' \in {sState, [sState EXCEPT ![s] = "term"]}
        /\ sSrv' \in {sSrv, [sSrv EXCEPT ![s] = 0]}
        /\ \/ sCli' \in {sCli, [sCli EXCEPT ![s] = "waiting"]}
           \/ sCli' = [sCli EXCEPT ![s] = "cancelling"]
        /\ nsToS' = nsToS
    BY <1>3, Zenon DEF SecureRespond, SecureStart
  <2>5. /\ sState' \in [Slots -> {"null", "conf", "term"}]
        /\ sSrv' \in [Slots -> Requests \cup {0}]
        /\ sCli' \in [Slots -> {"idle", "waiting", "cancelling"}]
    BY <2>4, TypeParts DEF DataType
  <2>6. nsToS' \in Seq(Messages) /\ nsToS' \in Seq(NormalMessages)
    BY <2>4, TypeParts DEF RingType
  <2> QED
    BY <1>1, <2>1, <2>2, <2>3, <2>5, <2>6
<1> QED
  BY <1>2, <1>3 DEF Secure

LEMMA CallStep == ASSUME CallInv, [Next]_vars PROVE CallInv'
<1>1. ASSUME NEW t \in Threads, Thread(t) PROVE CallInv'
  BY <1>1, OpenType, ShareType, AllocType, ConfigureType, BeginType, ClientCallType,
     ServerCallType, WaitType, CloseType DEF Thread, CallSteps
<1>2. CASE UNCHANGED vars
  <2>1. ThreadType' /\ RingType' /\ StateType' /\ DataType'
    BY <1>2, TypeParts DEF vars, ThreadType, RingType, StateType, DataType
  <2> QED
    BY <2>1, TypePartsNext
<1> QED
  BY <1>1, <1>2, WorkerType, SecureType DEF Next

LEMMA CallInitial == Init => CallInv
<1> SUFFICES ASSUME Init PROVE CallInv
  OBVIOUS
<1>1. ThreadType
  BY DEF Init, ThreadType, Pcs, Results
<1>2. RingType
  BY DEF Init, RingType
<1>3. StateType
  BY DEF Init, StateType, GlobalStates, ServerStates, ClientStates
<1>4. DataType
  BY BodyType DEF Init, DataType
<1> QED
  BY <1>1, <1>2, <1>3, <1>4, TypeParts

(* Every variable keeps its type, a call in progress has a session, and    *)
(* the work item never meets a message that no handler is for, for any     *)
(* table of sessions, threads, calls, signals and timeouts.                *)
THEOREM CallTheorem == Spec => []CallInv
<1>1. CallInv /\ [Next]_vars => CallInv'
  BY CallStep
<1> QED
  BY <1>1, CallInitial, PTL DEF Spec

(* The states of sessions, servers and clients stay among those that ree.h *)
(* lists for each (the type invariant of the session runs).                *)
THEOREM TypeCorrect == Spec => []TypeOK
<1>1. CallInv => TypeOK
  BY DEF CallInv
<1> QED
  BY <1>1, CallTheorem, PTL

-----------------------------------------------------------------------------
(* Slots are given back in the state S_NULL *)

(* Where a thread is after wait_session_event.                             *)
LEMMA WaitReturnPc ==
    ASSUME CallInv, NEW t \in Threads, NEW r, WaitReturn(t, r)
    PROVE  /\ call[t] = "close" => pc'[t] = "close_fin"
           /\ (call[t] = "config" /\ r = "EPIPE") => pc'[t] = "config_fin"
           /\ (call[t] = "config" /\ r # "EPIPE") => pc'[t] = "idle"
           /\ call[t] \notin {"close", "config"} =>
                /\ (r # "OK" \/ call[t] \in {"wait_event", "poll"}) => pc'[t] = "idle"
                /\ (r = "OK" /\ call[t] \notin {"wait_event", "poll"}) =>
                     pc'[t] = IF call[t] = "wait_request" THEN "get_req_check"
                              ELSE IF call[t] = "cancel" THEN "cancel_fin" ELSE "get_rsp"
           /\ UNCHANGED <<call, handle>>
<1>1. pc \in [Threads -> Pcs]
  BY DEF CallInv, TypeOK
<1>2. \A p : pc' = [pc EXCEPT ![t] = p] => pc'[t] = p
  BY <1>1
<1>3. UNCHANGED <<call, handle>>
  BY Zenon DEF WaitReturn, Goto, Return
<1>4. CASE call[t] = "close"
  BY <1>2, <1>3, <1>4 DEF WaitReturn, Goto
<1>5. CASE call[t] = "config" /\ r = "EPIPE"
  BY <1>2, <1>3, <1>5 DEF WaitReturn, Goto
<1>6. CASE call[t] = "config" /\ r # "EPIPE"
  BY <1>2, <1>3, <1>6 DEF WaitReturn, Return
<1>7. CASE call[t] \notin {"close", "config"}
  <2>1. CASE r # "OK" \/ call[t] \in {"wait_event", "poll"}
    BY <1>2, <1>3, <1>7, <2>1 DEF WaitReturn, Return
  <2>2. CASE r = "OK" /\ call[t] \notin {"wait_event", "poll"}
    <3>1. Goto(t, CASE call[t] = "wait_request" -> "get_req_check"
                    [] call[t] = "cancel" -> "cancel_fin"
                    [] OTHER -> "get_rsp")
      BY <1>7, <2>2, Zenon DEF WaitReturn
    <3>2. Goto(t, IF call[t] = "wait_request" THEN "get_req_check"
                  ELSE IF call[t] = "cancel" THEN "cancel_fin" ELSE "get_rsp")
      BY <3>1, Zenon
    <3> QED
      BY <1>2, <1>3, <1>7, <2>2, <3>2 DEF Goto
  <2> QED
    BY <1>7, <2>1, <2>2
<1> QED
  BY <1>4, <1>5, <1>6, <1>7

(* A step of thread t on session s leaves alone what the others hold.      *)
LEMMA FreeOthers ==
    ASSUME FreeInv, OwnHandles', CallInv', NEW t \in Threads, NEW s \in Slots,
           handle'[t] = s,
           \A u \in Threads : u # t => pc'[u] = pc[u] /\ handle'[u] = handle[u],
           \A x \in Slots : x # s => global'[x] = global[x] /\ free'[x] = free[x],
           free'[s] => global'[s] = "S_NULL",
           pc'[t] \in {"reap_free", "close_free", "config_fin"} => global'[s] = "S_NULL",
           pc'[t] = "term" => ~free'[s]
    PROVE  FreeInv'
<1>1. \A x \in Slots : free'[x] => global'[x] = "S_NULL"
  BY DEF FreeInv
<1>2. ASSUME NEW u \in Threads, u # t, pc'[u] # "idle"
      PROVE  handle'[u] \in Slots /\ handle'[u] # s /\ handle'[u] = handle[u]
  BY <1>2 DEF OwnHandles, CallInv
<1>3. ASSUME NEW u \in Threads
      PROVE  /\ pc'[u] \in {"reap_free", "close_free", "config_fin"} => global'[handle'[u]] = "S_NULL"
             /\ pc'[u] = "term" => ~free'[handle'[u]]
  <2>1. CASE u = t
    BY <2>1
  <2>2. CASE u # t
    BY <1>2, <2>2 DEF FreeInv
  <2> QED
    BY <2>1, <2>2
<1> QED
  BY <1>1, <1>3 DEF FreeInv

LEMMA FreeThread ==
    ASSUME CallInv, CallInv', FreeInv, OwnHandles, OwnHandles', NEW t \in Threads, Thread(t)
    PROVE  FreeInv'
<1>t. /\ pc \in [Threads -> Pcs] /\ handle \in [Threads -> Slots \cup {NoSlot}]
      /\ global \in [Slots -> GlobalStates] /\ free \in [Slots -> BOOLEAN]
  BY DEF CallInv, TypeOK
<1>h. pc[t] # "idle" => handle[t] \in Slots
  BY DEF CallInv
<1>m. ASSUME pc[t] # "idle", Moves(t)
      PROVE  /\ handle'[t] = handle[t]
             /\ \A u \in Threads : u # t => pc'[u] = pc[u] /\ handle'[u] = handle[u]
  BY <1>m DEF Moves
<1>s. ASSUME pc[t] # "idle", Moves(t), UNCHANGED <<global, free>>,
             pc'[t] \notin {"reap_free", "close_free", "config_fin", "term"}
      PROVE  FreeInv'
  BY <1>s, <1>h, <1>m, FreeOthers DEF FreeInv
<1>g. TypeOK /\ Pcs = Pcs /\ "wait" \in Pcs /\ "get_req" \in Pcs /\ "test" \in Pcs
      /\ "reap" \in Pcs /\ "reap_free" \in Pcs /\ "close_fin" \in Pcs /\ "close_free" \in Pcs
  BY DEF CallInv, Pcs
<1>r. ASSUME NEW r \in Results, Return(t, r) PROVE Moves(t) /\ pc'[t] = "idle"
  BY <1>r, <1>t, <1>g, ReturnType DEF Return
<1>o. ASSUME NEW p \in Pcs, Goto(t, p) PROVE Moves(t) /\ pc'[t] = p
  BY <1>o, <1>t, <1>g, GotoType DEF Goto
<1>w. ASSUME NEW r \in {"OK", "ETIMEDOUT", "ERESTARTSYS"}, WaitReturn(t, r)
      PROVE  /\ Moves(t)
             /\ pc'[t] \in {"close_fin", "idle", "get_req_check", "cancel_fin", "get_rsp"}
  BY <1>w, <1>g, WaitReturnType, WaitReturnPc
<1>1. CASE Open(t)
  <2>1. PICK s \in Slots : free' = [free EXCEPT ![s] = FALSE] /\ handle' = [handle EXCEPT ![t] = s]
    BY <1>1, Zenon DEF Open
  <2>2. UNCHANGED <<pc, global>> /\ pc[t] = "idle"
    BY <1>1 DEF Open
  <2> QED
    BY <1>t, <2>1, <2>2, FreeOthers
<1>2. CASE Alloc(t)
  BY <1>2 DEF Alloc, FreeInv
<1>3. ASSUME NEW u \in Threads, Share(t, u) PROVE FreeInv'
  <2>1. /\ handle' = [handle EXCEPT ![u] = handle[t]] /\ pc[u] = "idle"
        /\ UNCHANGED <<pc, free, global>>
    BY <1>3 DEF Share
  <2> QED
    BY <1>t, <2>1 DEF FreeInv
<1>4. ASSUME NEW b \in BOOLEAN, Configure(t, b) PROVE FreeInv'
  <2>1. handle[t] \in Slots /\ pc[t] = "idle" /\ UNCHANGED <<handle, free>>
    BY <1>4, <1>t DEF Configure
  <2>2. \/ UNCHANGED <<pc, global>>
        \/ /\ global' = [global EXCEPT ![handle[t]] = "S_CONFIG_WAITING"]
           /\ pc' = [pc EXCEPT ![t] = "wait"] /\ ~free[handle[t]]
    BY <1>4, Zenon DEF Configure
  <2>3. CASE UNCHANGED <<pc, global>>
    BY <2>1, <2>3 DEF FreeInv
  <2>4. CASE ~UNCHANGED <<pc, global>>
    BY <1>t, <2>1, <2>2, <2>4, FreeOthers
  <2> QED
    BY <2>3, <2>4
<1>5. ASSUME NEW c \in CheckedCalls, Begin(t, c) PROVE FreeInv'
  <2>1. handle[t] \in Slots /\ pc[t] = "idle" /\ UNCHANGED <<handle, free, global>>
    BY <1>5, <1>t DEF Begin
  <2>2. PICK r \in {"OK", "EINVAL", "ENODEV", "ERESTARTSYS"} :
          /\ r = "OK" => CheckResult(handle[t]) = "OK"
          /\ IF r = "OK" \/ c = "close"
               THEN pc' = [pc EXCEPT ![t] = IF r = "OK" THEN FirstStep(c) ELSE "close_fin"]
               ELSE UNCHANGED pc
    BY <1>5 DEF Begin
  <2>3. FirstStep(c) \notin {"reap_free", "close_free", "config_fin"}
    BY DEF FirstStep, CheckedCalls
  <2>4. r = "OK" => ~free[handle[t]]
    BY <2>2 DEF CheckResult
  <2>5. CASE pc' = pc
    BY <2>1, <2>5 DEF FreeInv
  <2>6. CASE pc' # pc
    <3>1. /\ pc'[t] \notin {"reap_free", "close_free", "config_fin"}
          /\ pc'[t] = "term" => ~free[handle[t]]
          /\ \A u \in Threads : u # t => pc'[u] = pc[u]
      BY <1>t, <2>2, <2>3, <2>4, <2>6
    <3> QED
      BY <2>1, <3>1, FreeOthers DEF FreeInv
  <2> QED
    BY <2>5, <2>6
<1>6. CASE GetResponse(t) \/ CancelRequest(t) \/ CancelFinish(t) \/ SendResponse(t) \/ GetRequest(t)
           \/ (\E v \in Requests : SendRequest(t, v)) \/ WaitRequest(t) \/ Poll(t) \/ GiveUp(t)
           \/ ConfigFinish(t)
  <2>1. CheckResult(handle[t]) \in Results
    BY DEF CheckResult, Results
  <2>2. /\ pc[t] # "idle" /\ UNCHANGED <<global, free>>
        /\ \/ \E p \in {"wait", "get_req", "test"} : Goto(t, p)
           \/ \E r \in {CheckResult(handle[t]), "EPROTO", "OK", "EAGAIN", "ERESTARTSYS", "ENODEV",
                        "SERROR", "EPOLLIN", "CANCEL_RESPONSE", "CANCEL_OK", "EFAULT"} : Return(t, r)
    <3>1. CASE GetResponse(t) \/ CancelFinish(t) \/ \E v \in Requests : SendRequest(t, v)
      BY <3>1, Zenon DEF GetResponse, CancelFinish, SendRequest
    <3>2. CASE CancelRequest(t)
      BY <3>2, Zenon DEF CancelRequest
    <3>3. CASE SendResponse(t) \/ GetRequest(t) \/ WaitRequest(t)
      BY <3>3, Zenon DEF SendResponse, GetRequest, WaitRequest
    <3>4. CASE Poll(t) \/ GiveUp(t) \/ ConfigFinish(t)
      <4>1. pc[t] # "idle" /\ UNCHANGED <<global, free>>
        BY <3>4 DEF Poll, GiveUp, ConfigFinish, Interrupted
      <4> QED
        BY <3>4, <4>1, Zenon DEF Poll, GiveUp, ConfigFinish, Interrupted
    <3> QED
      BY <1>6, <3>1, <3>2, <3>3, <3>4
  <2>3. {"EPROTO", "OK", "EAGAIN", "ERESTARTSYS", "ENODEV",
         "SERROR", "EPOLLIN", "CANCEL_RESPONSE", "CANCEL_OK", "EFAULT"} \subseteq Results
    BY DEF Results
  <2>4. Moves(t) /\ pc'[t] \in {"idle", "wait", "get_req", "test"}
    BY <1>g, <1>o, <1>r, <2>1, <2>2, <2>3
  <2> QED
    BY <1>s, <2>2, <2>4
<1>7. ASSUME NEW r \in {"OK", "ETIMEDOUT", "ERESTARTSYS"}, Wake(t, r) PROVE FreeInv'
  <2>1. pc[t] # "idle" /\ pc' = [pc EXCEPT ![t] = "clear"] /\ UNCHANGED <<global, free, handle>>
    BY <1>7 DEF Wake
  <2> QED
    BY <1>t, <1>h, <2>1, FreeOthers DEF FreeInv
<1>8. CASE Clear(t) \/ Test(t)
  <2>1. wret[t] \in {"OK", "ETIMEDOUT", "ERESTARTSYS"}
    BY DEF CallInv, TypeOK
  <2>2. pc[t] # "idle" /\ UNCHANGED <<global, free>>
    BY <1>8 DEF Clear, Test, Interrupted
  <2>3. \/ Goto(t, "test") \/ Goto(t, "reap") \/ WaitReturn(t, "ERESTARTSYS") \/ WaitReturn(t, wret[t])
    BY <1>8, Zenon DEF Clear, Test, Interrupted
  <2> QED
    BY <1>g, <1>o, <1>s, <1>w, <2>1, <2>2, <2>3
<1>9. CASE Reap(t)
  <2>1. wret[t] \in {"OK", "ETIMEDOUT", "ERESTARTSYS"}
    BY DEF CallInv, TypeOK
  <2>2. pc[t] = "reap" /\ UNCHANGED free
    BY <1>9 DEF Reap, Interrupted
  <2>3. \/ global' = [global EXCEPT ![handle[t]] = "S_NULL"] /\ Goto(t, "reap_free")
        \/ global' = [global EXCEPT ![handle[t]] = "S_NULL"] /\ WaitReturn(t, wret[t])
        \/ UNCHANGED global /\ WaitReturn(t, "ERESTARTSYS")
    BY <1>9, Zenon DEF Reap, Interrupted
  <2>4. CASE UNCHANGED global /\ WaitReturn(t, "ERESTARTSYS")
    BY <1>s, <1>w, <2>2, <2>4
  <2>5. CASE /\ global' = [global EXCEPT ![handle[t]] = "S_NULL"]
             /\ Goto(t, "reap_free") \/ WaitReturn(t, wret[t])
    <3>1. Moves(t) /\ pc'[t] # "term"
      BY <1>g, <1>o, <1>w, <2>1, <2>5
    <3> QED
      BY <1>h, <1>m, <1>t, <2>2, <2>5, <3>1, FreeOthers
  <2> QED
    BY <2>3, <2>4, <2>5
<1>10. CASE ReapFree(t)
  <2>1. /\ pc[t] = "reap_free" /\ free' = [free EXCEPT ![handle[t]] = TRUE]
        /\ WaitReturn(t, "EPIPE") /\ UNCHANGED global
    BY <1>10 DEF ReapFree
  <2>2. Moves(t) /\ pc'[t] # "term"
    BY <1>g, <2>1, WaitReturnType, WaitReturnPc
  <2>3. global[handle[t]] = "S_NULL"
    BY <2>1 DEF FreeInv
  <2> QED
    BY <1>h, <1>m, <1>t, <2>1, <2>2, <2>3, FreeOthers
<1>11. CASE SendTerm(t)
  <2>1. pc[t] = "term" /\ UNCHANGED free /\ ~free[handle[t]]
    BY <1>11 DEF SendTerm, Interrupted, FreeInv
  <2>2. \/ global' = [global EXCEPT ![handle[t]] = "S_TERM_WAITING"] /\ Goto(t, "wait")
        \/ UNCHANGED global /\ Goto(t, "close_fin")
    BY <1>11, Zenon DEF SendTerm, Interrupted
  <2>3. Moves(t) /\ pc'[t] \in {"wait", "close_fin"}
    BY <1>g, <1>o, <2>2
  <2> QED
    BY <1>h, <1>m, <1>t, <2>1, <2>2, <2>3, FreeOthers
<1>12. CASE CloseFinish(t)
  <2>1. /\ pc[t] = "close_fin" /\ global' = [global EXCEPT ![handle[t]] = "S_NULL"]
        /\ Goto(t, "close_free") /\ UNCHANGED free
    BY <1>12 DEF CloseFinish
  <2>2. Moves(t) /\ pc'[t] = "close_free"
    BY <1>g, <1>o, <2>1
  <2> QED
    BY <1>h, <1>m, <1>t, <2>1, <2>2, FreeOthers
<1>13. CASE CloseFree(t)
  <2>1. /\ pc[t] = "close_free" /\ free' = [free EXCEPT ![handle[t]] = TRUE]
        /\ pc' = [pc EXCEPT ![t] = "idle"] /\ handle' = [handle EXCEPT ![t] = NoSlot]
        /\ UNCHANGED global /\ global[handle[t]] = "S_NULL"
    BY <1>13 DEF CloseFree, FreeInv
  <2>2. \A u \in Threads : pc'[u] = "term" => handle'[u] # handle[t]
    <3>1. ASSUME NEW u \in Threads, pc'[u] = "term" PROVE u # t /\ handle'[u] = handle[u]
      BY <1>t, <2>1, <3>1
    <3> QED
      BY <1>h, <2>1, <3>1 DEF OwnHandles
  <2> QED
    BY <1>t, <2>1, <2>2 DEF FreeInv
<1> QED
  BY <1>1, <1>2, <1>3, <1>4, <1>5, <1>6, <1>7, <1>8, <1>9, <1>10, <1>11, <1>12, <1>13
     DEF Thread, WaitSteps, CallSteps

LEMMA FreeStep ==
    ASSUME CallInv, CallInv', FreeInv, OwnHandles, OwnHandles', [Next]_vars PROVE FreeInv'
<1>1. CASE WorkerTake \/ Secure \/ UNCHANGED vars
  <2>1. UNCHANGED <<free, global, pc, handle>>
    BY <1>1 DEF WorkerTake, Secure, SecureStep, SecureRespond, SecureStart, vars
  <2> QED
    BY <2>1 DEF FreeInv
<1>2. CASE WorkerHandle
  <2> DEFINE m == Head(inHand)  s == m.slot
  <2>1. m \in SecureMessages /\ s \in Slots
    BY <1>2, HeadTail, MessageType DEF WorkerHandle, CallInv
  <2>2. m.act \in {"A_REQUEST", "A_RESPONSE", "A_CONFIG_ACK", "A_CANCEL",
                   "A_CANCEL_ACK", "A_TERM", "A_TERM_ACK"}
    BY <2>1 DEF SecureMessages, Actions
  <2>3. \/ OnRequest(s, m) \/ OnResponse(s, m) \/ OnConfigAck(s, m)
        \/ OnCancel(s, m) \/ OnTerm(s, m) \/ OnTermAck(s, m)
    BY <1>2, <2>2, Zenon DEF WorkerHandle
  <2>4. UNCHANGED <<free, pc, handle>>
    BY <1>2 DEF WorkerHandle
  <2> HIDE DEF m, s
  <2>5. \/ global' \in {global, [global EXCEPT ![s] = "S_NULL"]}
        \/ global[s] = "S_CONFIG_WAITING" /\ global' = [global EXCEPT ![s] = "S_CONFIGURED"]
    BY <2>3, Zenon DEF OnRequest, OnResponse, OnConfigAck, OnCancel, OnTerm, OnTermAck
  <2>6. \A x \in Slots : global[x] = "S_NULL" => global'[x] = "S_NULL"
    BY <2>1, <2>5 DEF CallInv, TypeOK
  <2>7. \A t \in Threads : pc[t] # "idle" => handle[t] \in Slots
    BY DEF CallInv
  <2> QED
    BY <2>4, <2>6, <2>7 DEF FreeInv
<1> QED
  BY <1>1, <1>2, FreeThread DEF Next

-----------------------------------------------------------------------------
(* What a step of a thread does to the protocol of its session *)

Nothing == UNCHANGED <<global, client, server, cMsg, sMsg, asked, nsToS>>

Opens(s) ==
    /\ free[s]
    /\ cMsg' = [cMsg EXCEPT ![s] = NoMessage] /\ sMsg' = [sMsg EXCEPT ![s] = NoMessage]
    /\ UNCHANGED <<global, client, server, asked, nsToS>>

Configures(s) ==
    /\ global[s] = "S_NULL" /\ write_ns_message(Message(s, "A_CONFIG", 0))
    /\ global' = [global EXCEPT ![s] = "S_CONFIG_WAITING"]
    /\ UNCHANGED <<client, server, cMsg, sMsg, asked>>

Forgets(s) ==
    /\ cMsg' = [cMsg EXCEPT ![s] = NoMessage]
    /\ UNCHANGED <<global, client, server, sMsg, asked, nsToS>>

Asks(s, v) ==
    /\ client[s] = "S_IDLE" /\ write_ns_message(Message(s, "A_REQUEST", v))
    /\ client' = [client EXCEPT ![s] = "S_WAITING"] /\ asked' = [asked EXCEPT ![s] = v]
    /\ UNCHANGED <<global, server, cMsg, sMsg>>

Cancels(s) ==
    /\ client[s] = "S_WAITING" /\ write_ns_message(Message(s, "A_CANCEL", 0))
    /\ client' = [client EXCEPT ![s] = "S_CANCEL_WAITING"]
    /\ UNCHANGED <<global, server, cMsg, sMsg, asked>>

TakesResponse(s) ==
    /\ client[s] = "S_NOTIFIED" /\ client' = [client EXCEPT ![s] = "S_IDLE"]
    /\ cMsg' = [cMsg EXCEPT ![s] = NoMessage]
    /\ UNCHANGED <<global, server, sMsg, asked, nsToS>>

TakesRequest(s) ==
    /\ server[s] = "S_NOTIFIED" /\ server' = [server EXCEPT ![s] = "S_BUSY"]
    /\ sMsg' = [sMsg EXCEPT ![s] = NoMessage]
    /\ UNCHANGED <<global, client, cMsg, asked, nsToS>>

Responds(s) ==
    /\ server[s] = "S_BUSY" /\ write_ns_message(Message(s, "A_RESPONSE", 0))
    /\ server' = [server EXCEPT ![s] = "S_IDLE"]
    /\ UNCHANGED <<global, client, cMsg, sMsg, asked>>

Terminates(s) ==
    /\ write_ns_message(Message(s, "A_TERM", 0))
    /\ global' = [global EXCEPT ![s] = "S_TERM_WAITING"]
    /\ UNCHANGED <<client, server, cMsg, sMsg, asked>>

Ends(s) ==
    /\ global' = [global EXCEPT ![s] = "S_NULL"]
    /\ UNCHANGED <<client, server, cMsg, sMsg, asked, nsToS>>

Exchanges(s) ==
    \/ (\E v \in Requests : Asks(s, v)) \/ Cancels(s) \/ TakesResponse(s)
    \/ TakesRequest(s) \/ Responds(s) \/ Terminates(s)

Effect(t) ==
    \/ Nothing
    \/ \E s \in Slots : Opens(s)
    \/ /\ handle[t] \in Slots
       /\ \/ pc[t] = "idle" /\ Configures(handle[t])
          \/ pc[t] = "config_fin" /\ Forgets(handle[t])
          \/ pc[t] \in InSession /\ Exchanges(handle[t])
          \/ pc[t] \in {"reap", "close_fin"} /\ Ends(handle[t])

LEMMA ThreadEffect ==
    ASSUME CallInv, NEW t \in Threads, Thread(t)
    PROVE  Effect(t) /\ UNCHANGED <<secureVars, sToNs, inHand>>
<1>h. pc[t] # "idle" => handle[t] \in Slots
  BY DEF CallInv
<1>1. CASE Open(t)
  BY <1>1, Zenon DEF Open, Effect, Opens
<1>2. CASE Alloc(t) \/ \E u \in Threads : Share(t, u)
  BY <1>2, Zenon DEF Alloc, Share, Effect, Nothing
<1>3. ASSUME NEW b \in BOOLEAN, Configure(t, b)
      PROVE  Effect(t) /\ UNCHANGED <<secureVars, sToNs, inHand>>
  <2>1. handle[t] \in Slots /\ pc[t] = "idle" /\ UNCHANGED <<secureVars, sToNs, inHand>>
    BY <1>3 DEF Configure, CallInv, TypeOK
  <2>2. Configures(handle[t]) \/ Nothing
    BY <1>3, Zenon DEF Configure, Configures, Nothing
  <2> QED
    BY <2>1, <2>2 DEF Effect
<1>4. CASE \E c \in CheckedCalls : Begin(t, c)
  BY <1>4 DEF Begin, Effect, Nothing
<1>5. CASE GetResponse(t) \/ CancelFinish(t) \/ GetRequest(t) \/ SendResponse(t)
  <2>1. pc[t] \in InSession /\ handle[t] \in Slots /\ UNCHANGED <<secureVars, sToNs, inHand>>
    BY <1>5, <1>h DEF GetResponse, CancelFinish, GetRequest, SendResponse, InSession
  <2>2. Nothing \/ TakesResponse(handle[t]) \/ TakesRequest(handle[t]) \/ Responds(handle[t])
    <3>1. CASE GetResponse(t) \/ CancelFinish(t)
      BY <3>1, Zenon DEF GetResponse, CancelFinish, Nothing, TakesResponse
    <3>2. CASE GetRequest(t) \/ SendResponse(t)
      BY <3>2, Zenon DEF GetRequest, SendResponse, Nothing, TakesRequest, Responds
    <3> QED
      BY <1>5, <3>1, <3>2
  <2> QED
    BY <2>1, <2>2 DEF Effect, Exchanges
<1>6. ASSUME NEW v \in Requests, SendRequest(t, v)
      PROVE  Effect(t) /\ UNCHANGED <<secureVars, sToNs, inHand>>
  <2>1. pc[t] \in InSession /\ handle[t] \in Slots /\ UNCHANGED <<secureVars, sToNs, inHand>>
    BY <1>6, <1>h DEF SendRequest, InSession
  <2>2. Nothing \/ Asks(handle[t], v)
    BY <1>6, Zenon DEF SendRequest, Nothing, Asks, ClientReady
  <2> QED
    BY <2>1, <2>2 DEF Effect, Exchanges
<1>7. CASE CancelRequest(t)
  <2>1. pc[t] \in InSession /\ handle[t] \in Slots /\ UNCHANGED <<secureVars, sToNs, inHand>>
    BY <1>7, <1>h DEF CancelRequest, InSession
  <2>2. Nothing \/ Cancels(handle[t]) \/ TakesResponse(handle[t])
    BY <1>7, Zenon DEF CancelRequest, Nothing, Cancels, TakesResponse
  <2> QED
    BY <2>1, <2>2 DEF Effect, Exchanges
<1>8. CASE \/ WaitRequest(t) \/ Poll(t) \/ GiveUp(t) \/ Clear(t) \/ Test(t) \/ ReapFree(t) \/ CloseFree(t)
           \/ \E r \in {"OK", "ETIMEDOUT", "ERESTARTSYS"} : Wake(t, r)
  BY <1>8 DEF WaitRequest, Poll, GiveUp, Clear, Test, ReapFree, CloseFree, Wake, Interrupted,
              Effect, Nothing
<1>9. CASE ConfigFinish(t)
  BY <1>9, <1>h DEF ConfigFinish, Interrupted, Effect, Nothing, Forgets
<1>10. CASE Reap(t) \/ CloseFinish(t)
  BY <1>10, <1>h DEF Reap, CloseFinish, Interrupted, Effect, Nothing, Ends
<1>11. CASE SendTerm(t)
  <2>1. pc[t] \in InSession /\ handle[t] \in Slots /\ UNCHANGED <<secureVars, sToNs, inHand>>
    BY <1>11, <1>h DEF SendTerm, Interrupted, InSession
  <2>2. Nothing \/ Terminates(handle[t])
    BY <1>11, Zenon DEF SendTerm, Interrupted, Nothing, Terminates
  <2> QED
    BY <2>1, <2>2 DEF Effect, Exchanges
<1> QED
  BY <1>1, <1>2, <1>3, <1>4, <1>5, <1>6, <1>7, <1>8, <1>9, <1>10, <1>11
     DEF Thread, WaitSteps, CallSteps

(* What the work item does to the protocol of the session of its message.  *)
LEMMA HandlerCases ==
    ASSUME CallInv, WorkerHandle, NEW m, m = Head(inHand)
    PROVE  /\ m \in SecureMessages /\ m.slot \in Slots /\ m.act \in Actions /\ m.val \in Values
           /\ \/ m.act = "A_REQUEST" /\ OnRequest(m.slot, m)
              \/ m.act \in {"A_RESPONSE", "A_CANCEL_ACK"} /\ OnResponse(m.slot, m)
              \/ m.act = "A_CONFIG_ACK" /\ OnConfigAck(m.slot, m)
              \/ m.act = "A_CANCEL" /\ OnCancel(m.slot, m)
              \/ m.act = "A_TERM" /\ OnTerm(m.slot, m)
              \/ m.act = "A_TERM_ACK" /\ OnTermAck(m.slot, m)
           /\ inHand' = <<>>
           /\ UNCHANGED <<free, sem, mem, asked, threadVars, secureVars, sToNs>>
<1>1. m \in SecureMessages
  BY HeadTail DEF WorkerHandle, CallInv
<1>2. /\ m.slot \in Slots /\ m.act \in Actions /\ m.val \in Values
      /\ m.act \in {"A_REQUEST", "A_RESPONSE", "A_CONFIG_ACK", "A_CANCEL",
                    "A_CANCEL_ACK", "A_TERM", "A_TERM_ACK"}
  BY <1>1, MessageType DEF SecureMessages, Actions
<1>3. /\ inHand' = <<>>
      /\ UNCHANGED <<free, sem, mem, asked, threadVars, secureVars, sToNs>>
  BY DEF WorkerHandle
<1> QED
  BY <1>1, <1>2, <1>3, Zenon DEF WorkerHandle

-----------------------------------------------------------------------------
(* What is announced as delivered is there *)

LEMMA HasMessageStep ==
    ASSUME CallInv, FreeInv, NotifiedHasMessage, [Next]_vars PROVE NotifiedHasMessage'
<1>t. /\ global \in [Slots -> GlobalStates] /\ client \in [Slots -> ClientStates]
      /\ server \in [Slots -> ServerStates] /\ cMsg \in [Slots -> Bodies] /\ sMsg \in [Slots -> Bodies]
  BY DEF CallInv, TypeOK
<1>1. ASSUME NEW t \in Threads, Thread(t) PROVE NotifiedHasMessage'
  <2>1. Effect(t)
    BY <1>1, ThreadEffect
  <2>2. CASE Nothing
    BY <2>2 DEF Nothing, NotifiedHasMessage
  <2>3. ASSUME NEW s \in Slots, Opens(s) PROVE NotifiedHasMessage'
    <3>1. global[s] = "S_NULL"
      BY <2>3 DEF Opens, FreeInv
    <3> QED
      BY <1>t, <2>3, <3>1 DEF Opens, NotifiedHasMessage
  <2>4. CASE handle[t] \in Slots /\ (Configures(handle[t]) \/ Ends(handle[t]))
    BY <1>t, <2>4 DEF Configures, Ends, NotifiedHasMessage
  <2>5. CASE handle[t] \in Slots /\ pc[t] = "config_fin" /\ Forgets(handle[t])
    <3>1. global[handle[t]] = "S_NULL"
      BY <2>5 DEF FreeInv
    <3> QED
      BY <1>t, <2>5, <3>1 DEF Forgets, NotifiedHasMessage
  <2>6. CASE handle[t] \in Slots /\ Exchanges(handle[t])
    <3>1. CASE (\E v \in Requests : Asks(handle[t], v)) \/ Cancels(handle[t]) \/ Responds(handle[t])
      BY <1>t, <2>6, <3>1 DEF Asks, Cancels, Responds, NotifiedHasMessage
    <3>2. CASE TakesResponse(handle[t]) \/ TakesRequest(handle[t])
      BY <1>t, <2>6, <3>2 DEF TakesResponse, TakesRequest, NotifiedHasMessage
    <3>3. CASE Terminates(handle[t])
      BY <1>t, <2>6, <3>3 DEF Terminates, NotifiedHasMessage
    <3> QED
      BY <2>6, <3>1, <3>2, <3>3 DEF Exchanges
  <2> QED
    BY <2>1, <2>2, <2>3, <2>4, <2>5, <2>6 DEF Effect
<1>2. CASE WorkerHandle
  <2>1. PICK m : m = Head(inHand)
    OBVIOUS
  <2>2. m.slot \in Slots
    BY <1>2, <2>1, HandlerCases
  <2>3. CASE m.act = "A_REQUEST" /\ OnRequest(m.slot, m)
    BY <1>t, <2>2, <2>3 DEF OnRequest, NotifiedHasMessage
  <2>4. CASE m.act \in {"A_RESPONSE", "A_CANCEL_ACK"} /\ OnResponse(m.slot, m)
    BY <1>t, <2>2, <2>4 DEF OnResponse, NotifiedHasMessage
  <2>5. CASE OnConfigAck(m.slot, m)
    BY <1>t, <2>2, <2>5 DEF OnConfigAck, NotifiedHasMessage
  <2>6. CASE OnCancel(m.slot, m)
    BY <1>t, <2>2, <2>6 DEF OnCancel, NotifiedHasMessage
  <2>7. CASE OnTerm(m.slot, m) \/ OnTermAck(m.slot, m)
    BY <1>t, <2>2, <2>7 DEF OnTerm, OnTermAck, NotifiedHasMessage
  <2> QED
    BY <1>2, <2>1, <2>3, <2>4, <2>5, <2>6, <2>7, HandlerCases
<1>3. CASE WorkerTake \/ Secure \/ UNCHANGED vars
  <2>1. UNCHANGED <<global, client, server, cMsg, sMsg>>
    BY <1>3 DEF WorkerTake, Secure, SecureStep, SecureRespond, SecureStart, vars
  <2> QED
    BY <2>1 DEF NotifiedHasMessage
<1> QED
  BY <1>1, <1>2, <1>3 DEF Next

LEMMA FreeInitial == Init => FreeInv /\ NotifiedHasMessage
BY DEF Init, FreeInv, NotifiedHasMessage

(* As long as each handle has one user, what is announced as delivered in  *)
(* a configured session is there, whatever the signals, timeouts, dropped  *)
(* messages and terminations: states and messages that an earlier owner of *)
(* the slot left behind do not mix with those of the next configuration.   *)
THEOREM HasMessageTheorem == Spec /\ []OwnHandles => []NotifiedHasMessage
<1> DEFINE Inv == CallInv /\ FreeInv /\ NotifiedHasMessage
<1>1. Init => Inv
  BY CallInitial, FreeInitial
<1>2. Inv /\ OwnHandles /\ OwnHandles' /\ [Next]_vars => Inv'
  BY CallStep, FreeStep, HasMessageStep
<1>3. Inv => NotifiedHasMessage
  OBVIOUS
<1> HIDE DEF Inv
<1> QED
  BY <1>1, <1>2, <1>3, PTL DEF Spec

-----------------------------------------------------------------------------
(* What threads know of their sessions, without signals and without        *)
(* terminations by the secure world *)

LEMMA UserOthers ==
    ASSUME UserInv, OwnHandles, OwnHandles', NEW t \in Threads, NEW s \in Slots,
           handle[t] = s \/ handle'[t] = s,
           \A u \in Threads : u # t => pc'[u] = pc[u] /\ handle'[u] = handle[u] /\ call'[u] = call[u],
           \A x \in Slots : x # s => /\ global'[x] = global[x] /\ free'[x] = free[x]
                                     /\ event'[x] = event[x] /\ client'[x] = client[x],
           UNCHANGED <<sToNs, inHand>>, UserOf(t)'
    PROVE  UserInv'
<1>1. ASSUME NEW u \in Threads, u # t PROVE UserOf(u)'
  <2>1. pc'[u] = pc[u] /\ handle'[u] = handle[u] /\ call'[u] = call[u] /\ UserOf(u)
    BY <1>1 DEF UserInv
  <2>2. handle[u] \in Slots =>
          /\ global'[handle[u]] = global[handle[u]] /\ free'[handle[u]] = free[handle[u]]
          /\ event'[handle[u]] = event[handle[u]] /\ client'[handle[u]] = client[handle[u]]
    BY <1>1, <2>1 DEF OwnHandles
  <2> QED
    BY <2>1, <2>2 DEF UserOf, InCall, Knows
<1> QED
  BY <1>1 DEF UserInv

LEMMA UserThread ==
    ASSUME Interrupts = FALSE, CallInv, FreeInv, UserInv, OwnHandles, OwnHandles',
           NEW t \in Threads, Thread(t)
    PROVE  UserInv'
<1>t. /\ pc \in [Threads -> Pcs] /\ handle \in [Threads -> Slots \cup {NoSlot}]
      /\ global \in [Slots -> GlobalStates] /\ free \in [Slots -> BOOLEAN]
      /\ event \in [Slots -> SUBSET Events] /\ client \in [Slots -> ClientStates]
      /\ call \in [Threads -> CheckedCalls \cup {"none", "open", "alloc", "config"}]
      /\ wret[t] \in {"OK", "ETIMEDOUT", "ERESTARTSYS"} /\ NoSlot \notin Slots
  BY SessionAssumption DEF CallInv, TypeOK
<1>h. pc[t] # "idle" => handle[t] \in Slots
  BY DEF CallInv
<1>u. UserOf(t)
  BY DEF UserInv
<1>p. \A p : pc' = [pc EXCEPT ![t] = p] =>
          pc'[t] = p /\ \A u \in Threads : u # t => pc'[u] = pc[u]
  BY <1>t
<1>c. \A p : call' = [call EXCEPT ![t] = p] =>
          call'[t] = p /\ \A u \in Threads : u # t => call'[u] = call[u]
  BY <1>t
<1>1. CASE Open(t)
  <2>1. PICK s \in Slots : /\ free[s] /\ free' = [free EXCEPT ![s] = FALSE]
                           /\ event' = [event EXCEPT ![s] = {}]
                           /\ handle' = [handle EXCEPT ![t] = s]
    BY <1>1, Zenon DEF Open
  <2>2. /\ pc[t] = "idle" /\ call' = [call EXCEPT ![t] = "open"]
        /\ UNCHANGED <<pc, global, client, sToNs, inHand>>
    BY <1>1 DEF Open
  <2>3. global[s] = "S_NULL"
    BY <2>1 DEF FreeInv
  <2>4. handle'[t] = s /\ event'[s] = {} /\ \A u \in Threads : u # t => handle'[u] = handle[u]
    BY <1>t, <2>1
  <2>5. UserOf(t)'
    BY <2>2, <2>3, <2>4 DEF UserOf, InCall, Knows, InSession
  <2>6. \A x \in Slots : x # s => free'[x] = free[x] /\ event'[x] = event[x]
    BY <1>t, <2>1
  <2> QED
    BY <1>c, <2>2, <2>4, <2>5, <2>6, UserOthers
<1>2. CASE Alloc(t)
  <2>1. /\ pc[t] = "idle" /\ handle[t] \in Slots /\ call' = [call EXCEPT ![t] = "alloc"]
        /\ UNCHANGED <<pc, handle, global, free, event, client, sToNs, inHand>>
    BY <1>2, <1>t DEF Alloc
  <2>2. UserOf(t)'
    BY <1>u, <2>1 DEF UserOf, InCall, Knows, InSession
  <2> QED
    BY <1>c, <2>1, <2>2, UserOthers
<1>3. ASSUME NEW u \in Threads, Share(t, u) PROVE FALSE
  <2>1. handle[t] \in Slots /\ handle[u] = NoSlot /\ handle' = [handle EXCEPT ![u] = handle[t]]
    BY <1>3, <1>t DEF Share
  <2>2. u # t /\ handle'[u] = handle[t] /\ handle'[t] = handle[t]
    BY <1>t, <2>1
  <2> QED
    BY <2>1, <2>2 DEF OwnHandles
<1>4. ASSUME NEW b \in BOOLEAN, Configure(t, b) PROVE UserInv'
  <2>1. /\ handle[t] \in Slots /\ pc[t] = "idle" /\ call' = [call EXCEPT ![t] = "config"]
        /\ UNCHANGED <<handle, free, event, client, sToNs, inHand>>
    BY <1>4, <1>t DEF Configure
  <2>2. \/ UNCHANGED <<pc, global>>
        \/ /\ global' = [global EXCEPT ![handle[t]] = "S_CONFIG_WAITING"]
           /\ pc' = [pc EXCEPT ![t] = "wait"] /\ ~free[handle[t]] /\ global[handle[t]] = "S_NULL"
    BY <1>4, Zenon DEF Configure
  <2>3. CASE UNCHANGED <<pc, global>>
    <3>1. UserOf(t)'
      BY <1>u, <2>1, <2>3 DEF UserOf, InCall, Knows, InSession
    <3> QED
      BY <1>c, <2>1, <2>3, <3>1, UserOthers
  <2>4. CASE ~UNCHANGED <<pc, global>>
    <3>1. /\ pc'[t] = "wait" /\ call'[t] = "config" /\ global'[handle[t]] = "S_CONFIG_WAITING"
          /\ event[handle[t]] = {}
      BY <1>c, <1>p, <1>t, <1>u, <2>1, <2>2, <2>4 DEF UserOf
    <3>2. UserOf(t)'
      BY <2>1, <3>1 DEF UserOf, InCall, Knows, InSession
    <3>3. \A x \in Slots : x # handle[t] => global'[x] = global[x]
      BY <1>t, <2>2, <2>4
    <3> QED
      BY <1>c, <1>p, <2>1, <2>2, <2>4, <3>2, <3>3, UserOthers
  <2> QED
    BY <2>3, <2>4
<1>5. ASSUME NEW c \in CheckedCalls, Begin(t, c) PROVE UserInv'
  <2>1. /\ handle[t] \in Slots /\ pc[t] = "idle" /\ call' = [call EXCEPT ![t] = c]
        /\ UNCHANGED <<handle, free, global, event, client, sToNs, inHand>>
    BY <1>5, <1>t DEF Begin
  <2>2. PICK r \in {"OK", "EINVAL", "ENODEV"} :
          /\ r = CheckResult(handle[t])
          /\ IF r = "OK" \/ c = "close"
               THEN pc' = [pc EXCEPT ![t] = IF r = "OK" THEN FirstStep(c) ELSE "close_fin"]
               ELSE UNCHANGED pc
    BY <1>5 DEF Begin, CheckResult
  <2>3. CASE pc' = pc
    <3>1. UserOf(t)'
      BY <1>u, <2>1, <2>3 DEF UserOf, InCall, Knows, InSession
    <3> QED
      BY <1>c, <2>1, <2>3, <3>1, UserOthers
  <2>4. CASE r = "OK" /\ pc' # pc
    <3>1. pc'[t] = FirstStep(c) /\ call'[t] = c /\ global[handle[t]] = "S_CONFIGURED"
      BY <1>c, <1>p, <2>1, <2>2, <2>4 DEF CheckResult
    <3>2. /\ FirstStep(c) \in {"send", "respond", "get_rsp", "get_req", "wait", "wait_req",
                               "cancel", "poll", "term"}
          /\ c = "close" <=> FirstStep(c) = "term"
          /\ c = "poll" <=> FirstStep(c) = "poll"
          /\ c # "config"
      BY DEF FirstStep, CheckedCalls
    <3>3. UserOf(t)'
      BY <2>1, <3>1, <3>2 DEF UserOf, InCall, Knows, InSession
    <3> QED
      BY <1>c, <1>p, <2>1, <2>2, <2>4, <3>3, UserOthers
  <2>5. CASE r # "OK" /\ pc' # pc
    <3>1. pc'[t] = "close_fin" /\ c = "close" /\ call'[t] = c
      BY <1>c, <1>p, <2>1, <2>2, <2>5
    <3>2. global[handle[t]] = "S_NULL"
      BY <1>u, <2>1, <2>2, <2>5 DEF CheckResult, FreeInv, UserOf, Knows
    <3>3. UserOf(t)'
      BY <2>1, <3>1, <3>2 DEF UserOf, InCall, Knows, InSession
    <3> QED
      BY <1>c, <1>p, <2>1, <2>2, <2>5, <3>3, UserOthers
  <2> QED
    BY <2>3, <2>4, <2>5
<1>6. CASE \/ GetResponse(t) \/ CancelRequest(t) \/ CancelFinish(t) \/ SendResponse(t)
           \/ GetRequest(t) \/ WaitRequest(t) \/ Poll(t) \/ \E v \in Requests : SendRequest(t, v)
  <2>1. pc[t] \in InSession \ {"term"} /\ UNCHANGED <<global, free, sToNs, inHand>>
    BY <1>6 DEF GetResponse, CancelRequest, CancelFinish, SendResponse, GetRequest, WaitRequest,
                Poll, SendRequest, InSession
  <2>2. /\ handle[t] \in Slots
        /\ global[handle[t]] = "S_CONFIGURED" /\ call[t] \notin {"close", "config"}
        /\ call[t] = "poll" <=> pc[t] = "poll"
    BY <1>h, <1>u, <2>1 DEF InSession, UserOf, InCall, Knows
  <2>3. /\ \E p \in {"idle", "wait", "get_req", "test"} : pc' = [pc EXCEPT ![t] = p]
        /\ UNCHANGED <<call, handle>>
    <3>1. CASE GetResponse(t) \/ CancelFinish(t) \/ \E v \in Requests : SendRequest(t, v)
      BY <3>1, Zenon DEF GetResponse, CancelFinish, SendRequest, Goto, Return
    <3>2. CASE CancelRequest(t)
      BY <3>2, Zenon DEF CancelRequest, Goto, Return
    <3>3. CASE SendResponse(t) \/ GetRequest(t) \/ WaitRequest(t) \/ Poll(t)
      BY <3>3, Zenon DEF SendResponse, GetRequest, WaitRequest, Poll, Goto, Return
    <3> QED
      BY <1>6, <3>1, <3>2, <3>3
  <2>4. pc[t] = "poll" => pc' \in {[pc EXCEPT ![t] = "idle"], [pc EXCEPT ![t] = "test"]}
    <3> SUFFICES ASSUME pc[t] = "poll" PROVE Poll(t)
      BY Zenon DEF Poll, Goto, Return
    <3> QED
      BY <1>6 DEF GetResponse, CancelRequest, CancelFinish, SendResponse, GetRequest, WaitRequest,
                  Poll, SendRequest
  <2>5. \A x \in Slots : x # handle[t] => event'[x] = event[x] /\ client'[x] = client[x]
    <3>1. /\ event' = event \/ event' = [event EXCEPT ![handle[t]] = @ \ {"RESPONSE"}]
                            \/ event' = [event EXCEPT ![handle[t]] = @ \ {"REQUEST"}]
          /\ client' = client \/ \E c \in {"S_IDLE", "S_WAITING", "S_CANCEL_WAITING"} :
                                    client' = [client EXCEPT ![handle[t]] = c]
      <4>1. CASE GetResponse(t) \/ CancelFinish(t) \/ \E v \in Requests : SendRequest(t, v)
        BY <4>1, Zenon DEF GetResponse, CancelFinish, SendRequest
      <4>2. CASE CancelRequest(t)
        BY <4>2, Zenon DEF CancelRequest
      <4>3. CASE SendResponse(t) \/ GetRequest(t) \/ WaitRequest(t) \/ Poll(t)
        BY <4>3, Zenon DEF SendResponse, GetRequest, WaitRequest, Poll
      <4> QED
        BY <1>6, <4>1, <4>2, <4>3
    <3> QED
      BY <1>t, <3>1
  <2>6. UserOf(t)'
    <3>1. /\ pc'[t] \in {"idle", "wait", "get_req", "test"}
          /\ pc[t] = "poll" => pc'[t] \in {"idle", "test"}
      BY <1>t, <2>3, <2>4
    <3> QED
      BY <2>1, <2>2, <2>3, <3>1 DEF UserOf, InCall, Knows, InSession
  <2> QED
    BY <1>p, <2>1, <2>2, <2>3, <2>5, <2>6, UserOthers
<1>7. CASE GiveUp(t)
  BY <1>7 DEF GiveUp, Interrupted
<1>8. CASE ConfigFinish(t)
  <2>1. /\ pc[t] = "config_fin" /\ pc' = [pc EXCEPT ![t] = "idle"]
        /\ UNCHANGED <<call, handle, global, free, event, client, sToNs, inHand>>
    BY <1>8 DEF ConfigFinish, Interrupted, Return
  <2>2. UserOf(t)'
    BY <1>p, <1>u, <2>1 DEF UserOf, InCall, Knows, InSession
  <2> QED
    BY <1>h, <1>p, <2>1, <2>2, UserOthers
<1>9. ASSUME NEW r \in {"OK", "ETIMEDOUT", "ERESTARTSYS"}, Wake(t, r) PROVE UserInv'
  <2>1. /\ pc[t] = "wait" /\ pc' = [pc EXCEPT ![t] = "clear"]
        /\ (r = "OK") = (event[handle[t]] \cap Mask(call[t]) # {})
        /\ r = "ETIMEDOUT" => MayTimeOut(t)
        /\ r # "ERESTARTSYS"
        /\ UNCHANGED <<call, handle, global, free, event, client, sToNs, inHand>>
    BY <1>9 DEF Wake
  <2>2. ~(call[t] = "config" /\ event[handle[t]] = {})
    BY <2>1 DEF MayTimeOut
  <2>3. UserOf(t)'
    BY <1>h, <1>p, <1>u, <2>1, <2>2 DEF UserOf, InCall, Knows, InSession
  <2> QED
    BY <1>h, <1>p, <2>1, <2>3, UserOthers
<1>10. CASE Clear(t)
  <2>1. /\ pc[t] = "clear" /\ pc' = [pc EXCEPT ![t] = "test"]
        /\ event' = event \/ event' = [event EXCEPT ![handle[t]] = @ \ Mask(call[t])]
        /\ UNCHANGED <<call, handle, global, free, client, sToNs, inHand>>
    BY <1>10, Zenon DEF Clear, Interrupted, Goto
  <2>2. UserOf(t)'
    BY <1>h, <1>p, <1>u, <2>1 DEF UserOf, InCall, Knows, InSession
  <2>3. \A x \in Slots : x # handle[t] => event'[x] = event[x]
    BY <1>t, <2>1
  <2> QED
    BY <1>h, <1>p, <2>1, <2>2, <2>3, UserOthers
<1>11. CASE Test(t)
  <2>1. pc[t] = "test" /\ UNCHANGED <<global, free, event, client, sToNs, inHand>>
    BY <1>11 DEF Test
  <2>2. CASE global[handle[t]] = "S_CONFIGURED"
    <3>1. WaitReturn(t, wret[t])
      BY <1>11, <2>2 DEF Test
    <3>2. Moves(t)
      BY <1>t, <3>1, WaitReturnType DEF CallInv
    <3>3. call[t] # "close"
      BY <1>h, <1>u, <2>1, <2>2 DEF UserOf, Knows
    <3>4. UserOf(t)'
      BY <1>h, <1>t, <1>u, <2>1, <2>2, <3>1, <3>3, WaitReturnPc DEF UserOf, InCall, Knows, InSession
    <3> QED
      BY <1>h, <2>1, <3>2, <3>4, UserOthers DEF Moves
  <2>3. CASE global[handle[t]] # "S_CONFIGURED"
    <3>1. pc' = [pc EXCEPT ![t] = "reap"] /\ UNCHANGED <<call, handle>>
      BY <1>11, <2>3 DEF Test, Goto
    <3>2. UserOf(t)'
      BY <1>h, <1>p, <1>u, <2>1, <2>3, <3>1 DEF UserOf, InCall, Knows, InSession
    <3> QED
      BY <1>h, <1>p, <2>1, <3>1, <3>2, UserOthers
  <2> QED
    BY <2>2, <2>3
<1>12. CASE Reap(t)
  <2>1. /\ pc[t] = "reap" /\ global' = [global EXCEPT ![handle[t]] = "S_NULL"]
        /\ UNCHANGED <<free, event, client, sToNs, inHand>>
    BY <1>12 DEF Reap, Interrupted
  <2>2. global'[handle[t]] = "S_NULL" /\ \A x \in Slots : x # handle[t] => global'[x] = global[x]
    BY <1>h, <1>t, <2>1
  <2>3. CASE global[handle[t]] = "S_TERM_WAITING"
    <3>1. WaitReturn(t, wret[t])
      BY <1>12, <2>3 DEF Reap, Interrupted
    <3>2. Moves(t)
      BY <1>t, <3>1, WaitReturnType DEF CallInv
    <3>3. call[t] = "close"
      BY <1>h, <1>u, <2>1, <2>3 DEF UserOf, Knows
    <3>4. pc'[t] = "close_fin"
      BY <3>1, <3>3, WaitReturnPc
    <3>5. UserOf(t)'
      BY <2>2, <3>2, <3>4 DEF UserOf, InCall, Knows, InSession, Moves
    <3> QED
      BY <1>h, <2>1, <2>2, <3>2, <3>5, UserOthers DEF Moves
  <2>4. CASE global[handle[t]] # "S_TERM_WAITING"
    <3>1. pc' = [pc EXCEPT ![t] = "reap_free"] /\ UNCHANGED <<call, handle>>
      BY <1>12, <2>4 DEF Reap, Interrupted, Goto
    <3>2. UserOf(t)'
      BY <1>p, <2>2, <3>1 DEF UserOf, InCall, Knows, InSession
    <3> QED
      BY <1>h, <1>p, <2>1, <2>2, <3>1, <3>2, UserOthers
  <2> QED
    BY <2>3, <2>4
<1>13. CASE ReapFree(t)
  <2>1. /\ pc[t] = "reap_free" /\ free' = [free EXCEPT ![handle[t]] = TRUE]
        /\ WaitReturn(t, "EPIPE")
        /\ UNCHANGED <<global, event, client, sToNs, inHand>>
    BY <1>13 DEF ReapFree
  <2>2. free'[handle[t]] /\ \A x \in Slots : x # handle[t] => free'[x] = free[x]
    BY <1>h, <1>t, <2>1
  <2>3. Moves(t)
    BY <2>1, WaitReturnType DEF CallInv
  <2>4. pc'[t] \in {"close_fin", "config_fin", "idle"}
    BY <2>1, WaitReturnPc
  <2>5. global[handle[t]] = "S_NULL"
    BY <2>1 DEF FreeInv
  <2>6. UserOf(t)'
    BY <2>1, <2>2, <2>3, <2>4, <2>5 DEF UserOf, InCall, Knows, InSession, Moves
  <2> QED
    BY <1>h, <2>1, <2>2, <2>3, <2>6, UserOthers DEF Moves
<1>14. CASE SendTerm(t)
  <2>1. /\ pc[t] = "term" /\ global' = [global EXCEPT ![handle[t]] = "S_TERM_WAITING"]
        /\ pc' = [pc EXCEPT ![t] = "wait"]
        /\ UNCHANGED <<call, handle, free, event, client, sToNs, inHand>>
    BY <1>14 DEF SendTerm, Interrupted, Goto
  <2>2. /\ global'[handle[t]] = "S_TERM_WAITING"
        /\ \A x \in Slots : x # handle[t] => global'[x] = global[x]
    BY <1>h, <1>t, <2>1
  <2>3. call[t] = "close"
    BY <1>u, <2>1 DEF UserOf, InCall
  <2>4. UserOf(t)'
    BY <1>p, <2>1, <2>2, <2>3 DEF UserOf, InCall, Knows, InSession
  <2> QED
    BY <1>h, <1>p, <2>1, <2>2, <2>4, UserOthers
<1>15. CASE CloseFinish(t)
  <2>1. /\ pc[t] = "close_fin" /\ global' = [global EXCEPT ![handle[t]] = "S_NULL"]
        /\ event' = [event EXCEPT ![handle[t]] = Events]
        /\ pc' = [pc EXCEPT ![t] = "close_free"]
        /\ UNCHANGED <<call, handle, free, client, sToNs, inHand>>
    BY <1>15 DEF CloseFinish, Goto
  <2>2. /\ global'[handle[t]] = "S_NULL"
        /\ \A x \in Slots : x # handle[t] => global'[x] = global[x] /\ event'[x] = event[x]
    BY <1>h, <1>t, <2>1
  <2>3. UserOf(t)'
    BY <1>p, <2>1, <2>2 DEF UserOf, InCall, Knows, InSession
  <2> QED
    BY <1>h, <1>p, <2>1, <2>2, <2>3, UserOthers
<1>16. CASE CloseFree(t)
  <2>1. /\ pc[t] = "close_free" /\ free' = [free EXCEPT ![handle[t]] = TRUE]
        /\ pc' = [pc EXCEPT ![t] = "idle"] /\ handle' = [handle EXCEPT ![t] = NoSlot]
        /\ UNCHANGED <<call, global, event, client, sToNs, inHand>>
    BY <1>16 DEF CloseFree
  <2>2. /\ \A x \in Slots : x # handle[t] => free'[x] = free[x]
        /\ handle'[t] \notin Slots /\ \A u \in Threads : u # t => handle'[u] = handle[u]
    BY <1>h, <1>t, <2>1
  <2>3. UserOf(t)'
    BY <1>p, <2>1, <2>2 DEF UserOf, InCall, Knows, InSession
  <2> QED
    BY <1>h, <1>p, <2>1, <2>2, <2>3, UserOthers, ZenonT(40)
<1> QED
  BY <1>1, <1>2, <1>3, <1>4, <1>5, <1>6, <1>7, <1>8, <1>9, <1>10, <1>11, <1>12, <1>13, <1>14,
     <1>15, <1>16
     DEF Thread, WaitSteps, CallSteps

LEMMA UserStep ==
    ASSUME Interrupts = FALSE, "term" \notin SecureCalls,
           CallInv, FreeInv, UserInv, OwnHandles, OwnHandles', [Next]_vars
    PROVE  UserInv'
<1>t. /\ global \in [Slots -> GlobalStates] /\ client \in [Slots -> ClientStates]
      /\ event \in [Slots -> SUBSET Events]
      /\ sToNs \in Seq(SecureMessages) /\ inHand \in Seq(SecureMessages)
  BY DEF CallInv, TypeOK
<1>k. ASSUME UNCHANGED <<pc, call, handle, global, free, event, client>>
      PROVE  \A t \in Threads : UserOf(t)'
  BY <1>k DEF UserInv, UserOf, InCall, Knows
<1>1. CASE WorkerTake
  <2>1. UNCHANGED <<pc, call, handle, global, free, event, client>>
    BY <1>1 DEF WorkerTake
  <2>2. /\ sToNs # <<>> /\ sToNs' = Tail(sToNs) /\ inHand' \in {<<>>, <<Head(sToNs)>>}
    BY <1>1, Zenon DEF WorkerTake
  <2>3. Head(sToNs).act # "A_TERM" /\ \A i \in DOMAIN Tail(sToNs) : Tail(sToNs)[i].act # "A_TERM"
    BY <1>t, <2>2 DEF UserInv
  <2> QED
    BY <1>k, <2>1, <2>2, <2>3 DEF UserInv
<1>2. CASE WorkerHandle
  <2>1. PICK m : m = Head(inHand)
    OBVIOUS
  <2>2. /\ m.slot \in Slots /\ inHand' = <<>>
        /\ UNCHANGED <<free, pc, call, handle, sToNs>> /\ m.act # "A_TERM"
    BY <1>2, <2>1, HandlerCases DEF UserInv, WorkerHandle
  <2> DEFINE s == m.slot
  <2>3. \A x \in Slots : x # s => global'[x] = global[x] /\ event'[x] = event[x] /\ client'[x] = client[x]
    <3>1. \/ OnRequest(s, m) \/ OnResponse(s, m) \/ OnConfigAck(s, m) \/ OnCancel(s, m)
          \/ OnTermAck(s, m)
      BY <1>2, <2>1, <2>2, HandlerCases
    <3> QED
      BY <1>t, <2>2, <3>1 DEF OnRequest, OnResponse, OnConfigAck, OnCancel, OnTermAck
  <2>4. \/ global'[s] = global[s] /\ event'[s] = event[s] /\ client'[s] = client[s]
        \/ /\ global[s] = "S_CONFIGURED" /\ global'[s] = "S_CONFIGURED"
           /\ client[s] = "S_IDLE" => client'[s] = "S_IDLE"
        \/ /\ global[s] = "S_CONFIG_WAITING"
           /\ global'[s] = "S_NULL" \/ (global'[s] = "S_CONFIGURED" /\ client'[s] = "S_IDLE")
        \/ global[s] = "S_TERM_WAITING" /\ global'[s] = "S_TERM_WAITING"
    <3>1. CASE OnRequest(s, m) \/ OnResponse(s, m)
      BY <1>t, <2>2, <3>1 DEF OnRequest, OnResponse, Awaits
    <3>2. CASE OnConfigAck(s, m)
      BY <1>t, <2>2, <3>2 DEF OnConfigAck
    <3>3. CASE OnCancel(s, m) \/ OnTermAck(s, m)
      BY <1>t, <2>2, <3>3 DEF OnCancel, OnTermAck
    <3> QED
      BY <1>2, <2>1, <2>2, <3>1, <3>2, <3>3, HandlerCases
  <2> HIDE DEF s
  <2>5. ASSUME NEW t \in Threads PROVE UserOf(t)'
    <3>1. UserOf(t)
      BY DEF UserInv
    <3>2. CASE handle[t] # s
      BY <2>2, <2>3, <3>1, <3>2 DEF UserOf, InCall, Knows
    <3>3. CASE handle[t] = s
      BY <2>2, <2>4, <3>1, <3>3 DEF UserOf, InCall, Knows, InSession
    <3> QED
      BY <3>2, <3>3
  <2> QED
    BY <2>2, <2>5 DEF UserInv
<1>3. CASE Secure
  <2>1. UNCHANGED <<pc, call, handle, global, free, event, client, inHand>>
    BY <1>3 DEF Secure, SecureStep, SecureRespond, SecureStart
  <2>2. \/ UNCHANGED sToNs
        \/ \E s, v : \E a \in {"A_CONFIG_ACK", "A_CANCEL_ACK", "A_TERM_ACK", "A_RESPONSE", "A_REQUEST",
                               "A_CANCEL"} : sToNs' = Append(sToNs, Message(s, a, v))
    <3>1. CASE SecureStep
      BY <3>1, Zenon DEF SecureStep, SecureSends
    <3>2. ASSUME NEW s \in Slots, SecureRespond(s) \/ SecureStart(s)
          PROVE \E v : \E a \in {"A_RESPONSE", "A_REQUEST", "A_CANCEL"} :
                    sToNs' = Append(sToNs, Message(s, a, v))
      BY <3>2, Zenon DEF SecureRespond, SecureStart, SecureSends
    <3> QED
      BY <1>3, <3>1, <3>2 DEF Secure
  <2>3. \A i \in DOMAIN sToNs' : sToNs'[i].act # "A_TERM"
    <3>1. CASE UNCHANGED sToNs
      BY <3>1 DEF UserInv
    <3>2. ASSUME NEW m, m.act # "A_TERM", sToNs' = Append(sToNs, m)
          PROVE  \A i \in DOMAIN sToNs' : sToNs'[i].act # "A_TERM"
      <4>1. DOMAIN sToNs' = 1 .. Len(sToNs) + 1
        BY <1>t, <3>2
      <4>2. \A i \in 1 .. Len(sToNs) + 1 :
                sToNs'[i] = IF i <= Len(sToNs) THEN sToNs[i] ELSE m
        BY <1>t, <3>2
      <4>3. DOMAIN sToNs = 1 .. Len(sToNs) /\ Len(sToNs) \in Nat
        BY <1>t
      <4> QED
        BY <3>2, <4>1, <4>2, <4>3 DEF UserInv
    <3> QED
      BY <2>2, <3>1, <3>2, MessageType
  <2> QED
    BY <1>k, <2>1, <2>3 DEF UserInv
<1>4. CASE UNCHANGED vars
  BY <1>k, <1>4 DEF vars, UserInv
<1> QED
  BY <1>1, <1>2, <1>3, <1>4, UserThread DEF Next

-----------------------------------------------------------------------------
(* What is delivered is announced *)

LEMMA AnnounceOwn ==
    ASSUME AnnounceInv, OwnHandles, NEW t \in Threads, handle[t] \in Slots,
           global[handle[t]] = "S_CONFIGURED"
    PROVE  /\ client[handle[t]] = "S_NOTIFIED" =>
                "RESPONSE" \in event[handle[t]] \/ FetchesResponse(t)
           /\ server[handle[t]] = "S_NOTIFIED" =>
                "REQUEST" \in event[handle[t]] \/ FetchesRequest(t)
BY DEF AnnounceInv, OwnHandles

LEMMA AnnounceOthers ==
    ASSUME AnnounceInv, NEW t \in Threads, NEW s \in Slots, handle[t] \in Slots => handle[t] = s,
           \A u \in Threads : call'[u] # "wait_event",
           \A u \in Threads : u # t => /\ pc'[u] = pc[u] /\ handle'[u] = handle[u]
                                       /\ call'[u] = call[u] /\ wret'[u] = wret[u],
           \A x \in Slots : x # s => /\ global'[x] = global[x] /\ client'[x] = client[x]
                                     /\ server'[x] = server[x] /\ event'[x] = event[x],
           global'[s] = "S_CONFIGURED" =>
             /\ handle'[t] = s
             /\ client'[s] = "S_NOTIFIED" => "RESPONSE" \in event'[s] \/ FetchesResponse(t)'
             /\ server'[s] = "S_NOTIFIED" => "REQUEST" \in event'[s] \/ FetchesRequest(t)'
    PROVE  AnnounceInv'
<1>1. ASSUME NEW x \in Slots, x # s, global'[x] = "S_CONFIGURED"
      PROVE  /\ client'[x] = "S_NOTIFIED" =>
                  "RESPONSE" \in event'[x] \/ \E u \in Threads : handle'[u] = x /\ FetchesResponse(u)'
             /\ server'[x] = "S_NOTIFIED" =>
                  "REQUEST" \in event'[x] \/ \E u \in Threads : handle'[u] = x /\ FetchesRequest(u)'
  <2>1. \A u \in Threads : handle[u] = x =>
            /\ handle'[u] = x
            /\ FetchesResponse(u) => FetchesResponse(u)'
            /\ FetchesRequest(u) => FetchesRequest(u)'
    BY <1>1 DEF FetchesResponse, FetchesRequest
  <2>2. /\ global'[x] = global[x] /\ client'[x] = client[x]
        /\ server'[x] = server[x] /\ event'[x] = event[x]
    BY <1>1
  <2>3. /\ client[x] = "S_NOTIFIED" =>
             "RESPONSE" \in event[x] \/ \E u \in Threads : handle[u] = x /\ FetchesResponse(u)
        /\ server[x] = "S_NOTIFIED" =>
             "REQUEST" \in event[x] \/ \E u \in Threads : handle[u] = x /\ FetchesRequest(u)
    BY <1>1, <2>2 DEF AnnounceInv
  <2> QED
    BY <2>1, <2>2, <2>3
<1> QED
  BY <1>1 DEF AnnounceInv

LEMMA AnnounceThread ==
    ASSUME Interrupts = FALSE, "wait_event" \notin Calls,
           CallInv, FreeInv, UserInv, AnnounceInv, OwnHandles, OwnHandles',
           NEW t \in Threads, Thread(t)
    PROVE  AnnounceInv'
<1>t. /\ pc \in [Threads -> Pcs] /\ handle \in [Threads -> Slots \cup {NoSlot}]
      /\ global \in [Slots -> GlobalStates] /\ server \in [Slots -> ServerStates]
      /\ event \in [Slots -> SUBSET Events] /\ client \in [Slots -> ClientStates]
      /\ call \in [Threads -> CheckedCalls \cup {"none", "open", "alloc", "config"}]
      /\ wret \in [Threads -> {"OK", "ETIMEDOUT", "ERESTARTSYS"}] /\ NoSlot \notin Slots
  BY SessionAssumption DEF CallInv, TypeOK
<1>h. pc[t] # "idle" => handle[t] \in Slots
  BY DEF CallInv
<1>u. UserOf(t)
  BY DEF UserInv
<1>p. \A p : pc' = [pc EXCEPT ![t] = p] =>
          pc'[t] = p /\ \A u \in Threads : u # t => pc'[u] = pc[u]
  BY <1>t
<1>c. \A p : call' = [call EXCEPT ![t] = p] =>
          call'[t] = p /\ \A u \in Threads : u # t => call'[u] = call[u]
  BY <1>t
<1>r. \A p : wret' = [wret EXCEPT ![t] = p] =>
          wret'[t] = p /\ \A u \in Threads : u # t => wret'[u] = wret[u]
  BY <1>t
<1>n. \A u \in Threads : call[u] # "wait_event"
  BY DEF AnnounceInv
(* Nothing is fetched, and no event cleared, by a thread that was not about *)
(* to fetch anything.                                                      *)
<1>q. ASSUME handle[t] \in Slots, ~FetchesResponse(t), ~FetchesRequest(t),
             \A u \in Threads : call'[u] # "wait_event",
             \A u \in Threads : u # t => pc'[u] = pc[u] /\ call'[u] = call[u] /\ wret'[u] = wret[u],
             UNCHANGED <<handle, event>>,
             \A x \in Slots : x # handle[t] => /\ global'[x] = global[x] /\ client'[x] = client[x]
                                               /\ server'[x] = server[x],
             global'[handle[t]] = "S_CONFIGURED" =>
                /\ global[handle[t]] = "S_CONFIGURED"
                /\ client'[handle[t]] \in {client[handle[t]], "S_IDLE", "S_WAITING", "S_CANCEL_WAITING"}
                /\ server'[handle[t]] \in {server[handle[t]], "S_IDLE", "S_BUSY"}
      PROVE  AnnounceInv'
  BY <1>q, AnnounceOwn, AnnounceOthers
<1>1. CASE Open(t)
  <2>1. PICK s \in Slots : free[s] /\ event' = [event EXCEPT ![s] = {}]
                           /\ handle' = [handle EXCEPT ![t] = s]
    BY <1>1, Zenon DEF Open
  <2>2. /\ handle[t] = NoSlot /\ call' = [call EXCEPT ![t] = "open"]
        /\ UNCHANGED <<pc, wret, global, client, server>>
    BY <1>1 DEF Open
  <2>3. global[s] = "S_NULL"
    BY <2>1 DEF FreeInv
  <2>4. /\ \A x \in Slots : x # s => event'[x] = event[x]
        /\ \A u \in Threads : u # t => handle'[u] = handle[u]
    BY <1>t, <2>1
  <2>5. \A u \in Threads : call'[u] # "wait_event"
    BY <1>c, <1>n, <2>2
  <2> QED
    BY <1>c, <1>t, <2>2, <2>3, <2>4, <2>5, AnnounceOthers
<1>2. CASE Alloc(t)
  <2>1. /\ pc[t] = "idle" /\ handle[t] \in Slots /\ call' = [call EXCEPT ![t] = "alloc"]
        /\ UNCHANGED <<pc, wret, handle, global, event, client, server>>
    BY <1>2, <1>t DEF Alloc
  <2>2. \A u \in Threads : call'[u] # "wait_event"
    BY <1>c, <1>n, <2>1
  <2> QED
    BY <1>c, <1>q, <2>1, <2>2 DEF FetchesResponse, FetchesRequest
<1>3. ASSUME NEW u \in Threads, Share(t, u) PROVE FALSE
  <2>1. handle[t] \in Slots /\ handle[u] = NoSlot /\ handle' = [handle EXCEPT ![u] = handle[t]]
    BY <1>3, <1>t DEF Share
  <2>2. u # t /\ handle'[u] = handle[t] /\ handle'[t] = handle[t]
    BY <1>t, <2>1
  <2> QED
    BY <2>1, <2>2 DEF OwnHandles
<1>4. ASSUME NEW b \in BOOLEAN, Configure(t, b) PROVE AnnounceInv'
  <2>1. /\ handle[t] \in Slots /\ pc[t] = "idle" /\ call' = [call EXCEPT ![t] = "config"]
        /\ UNCHANGED <<wret, handle, event, client, server>>
    BY <1>4, <1>t DEF Configure
  <2>2. /\ pc' = pc \/ pc' = [pc EXCEPT ![t] = "wait"]
        /\ global' = global \/ global' = [global EXCEPT ![handle[t]] = "S_CONFIG_WAITING"]
    BY <1>4, Zenon DEF Configure
  <2>3. \A u \in Threads : call'[u] # "wait_event"
    BY <1>c, <1>n, <2>1
  <2>4. /\ \A x \in Slots : x # handle[t] => global'[x] = global[x]
        /\ global'[handle[t]] = "S_CONFIGURED" => global[handle[t]] = "S_CONFIGURED"
    BY <1>t, <2>1, <2>2
  <2> QED
    BY <1>c, <1>p, <1>q, <2>1, <2>2, <2>3, <2>4 DEF FetchesResponse, FetchesRequest
<1>5. ASSUME NEW c \in CheckedCalls, Begin(t, c) PROVE AnnounceInv'
  <2>1. /\ handle[t] \in Slots /\ pc[t] = "idle" /\ call' = [call EXCEPT ![t] = c]
        /\ c \in Calls /\ UNCHANGED <<wret, handle, global, event, client, server>>
    BY <1>5, <1>t DEF Begin
  <2>2. pc' = pc \/ \E p : pc' = [pc EXCEPT ![t] = p]
    BY <1>5, Zenon DEF Begin
  <2>3. \A u \in Threads : call'[u] # "wait_event"
    BY <1>c, <1>n, <2>1
  <2> QED
    BY <1>c, <1>p, <1>q, <2>1, <2>2, <2>3 DEF FetchesResponse, FetchesRequest
<1>6. CASE SendResponse(t) \/ Poll(t) \/ \E v \in Requests : SendRequest(t, v)
  <2>1. /\ pc[t] \in {"respond", "poll", "send"} /\ handle[t] \in Slots
        /\ UNCHANGED <<global, event, call, handle>>
    BY <1>6, <1>h DEF SendResponse, Poll, SendRequest, Goto, Return
  <2>2. /\ \E p : pc' = [pc EXCEPT ![t] = p]
        /\ wret' = wret \/ wret' = [wret EXCEPT ![t] = "OK"]
        /\ client' = client \/ client' = [client EXCEPT ![handle[t]] = "S_WAITING"]
        /\ server' = server \/ server' = [server EXCEPT ![handle[t]] = "S_IDLE"]
    BY <1>6, Zenon DEF SendResponse, Poll, SendRequest, Goto, Return
  <2>3. /\ \A u \in Threads : u # t => pc'[u] = pc[u] /\ wret'[u] = wret[u]
        /\ \A x \in Slots : x # handle[t] => client'[x] = client[x] /\ server'[x] = server[x]
        /\ client'[handle[t]] \in {client[handle[t]], "S_WAITING"}
        /\ server'[handle[t]] \in {server[handle[t]], "S_IDLE"}
    BY <1>p, <1>r, <1>t, <2>1, <2>2
  <2>4. ~FetchesResponse(t) /\ ~FetchesRequest(t)
    BY <2>1 DEF FetchesResponse, FetchesRequest
  <2> QED
    BY <1>n, <1>q, <2>1, <2>3, <2>4
<1>7. CASE GetResponse(t) \/ CancelFinish(t) \/ CancelRequest(t)
  <2>1. /\ pc[t] \in {"get_rsp", "cancel_fin", "cancel"} /\ handle[t] \in Slots
        /\ UNCHANGED <<global, call, handle, server>>
    <3>1. UNCHANGED <<call, handle>>
      BY <1>7, Zenon DEF GetResponse, CancelFinish, CancelRequest, Goto, Return
    <3> QED
      BY <1>7, <1>h, <3>1 DEF GetResponse, CancelFinish, CancelRequest
  <2>2. /\ \E p : pc' = [pc EXCEPT ![t] = p]
        /\ wret' = wret \/ wret' = [wret EXCEPT ![t] = "OK"]
        /\ event' = event \/ event' = [event EXCEPT ![handle[t]] = @ \ {"RESPONSE"}]
        /\ \/ client' = client /\ client[handle[t]] # "S_NOTIFIED"
           \/ client' = [client EXCEPT ![handle[t]] = "S_IDLE"]
           \/ client' = [client EXCEPT ![handle[t]] = "S_CANCEL_WAITING"]
    <3>1. CASE GetResponse(t) \/ CancelFinish(t)
      BY <3>1, Zenon DEF GetResponse, CancelFinish, Goto, Return
    <3>2. CASE CancelRequest(t)
      <4>1. client[handle[t]] = "S_WAITING" \/ client[handle[t]] = "S_CANCEL_WAITING"
              => client[handle[t]] # "S_NOTIFIED"
        OBVIOUS
      <4> QED
        BY <3>2, <4>1, Zenon DEF CancelRequest, Goto, Return
    <3> QED
      BY <1>7, <3>1, <3>2
  <2>3. /\ \A u \in Threads : u # t => pc'[u] = pc[u] /\ wret'[u] = wret[u]
        /\ \A x \in Slots : x # handle[t] => client'[x] = client[x] /\ event'[x] = event[x]
        /\ client'[handle[t]] # "S_NOTIFIED"
        /\ "REQUEST" \in event[handle[t]] => "REQUEST" \in event'[handle[t]]
    BY <1>p, <1>r, <1>t, <2>1, <2>2
  <2>4. ~FetchesRequest(t)
    BY <2>1 DEF FetchesRequest
  <2> QED
    BY <1>n, <2>1, <2>3, <2>4, AnnounceOwn, AnnounceOthers
<1>8. CASE GetRequest(t)
  <2>1. /\ pc[t] = "get_req" /\ handle[t] \in Slots
        /\ UNCHANGED <<global, call, handle, client>>
    <3>1. UNCHANGED <<call, handle>>
      BY <1>8, Zenon DEF GetRequest, Goto, Return
    <3> QED
      BY <1>8, <1>h, <3>1 DEF GetRequest
  <2>2. /\ \E p : pc' = [pc EXCEPT ![t] = p]
        /\ wret' = wret \/ wret' = [wret EXCEPT ![t] = "OK"]
        /\ event' = event \/ event' = [event EXCEPT ![handle[t]] = @ \ {"REQUEST"}]
        /\ \/ server' = server /\ server[handle[t]] # "S_NOTIFIED"
           \/ server' = [server EXCEPT ![handle[t]] = "S_BUSY"]
    BY <1>8, Zenon DEF GetRequest, Goto, Return
  <2>3. /\ \A u \in Threads : u # t => pc'[u] = pc[u] /\ wret'[u] = wret[u]
        /\ \A x \in Slots : x # handle[t] => server'[x] = server[x] /\ event'[x] = event[x]
        /\ server'[handle[t]] # "S_NOTIFIED"
        /\ "RESPONSE" \in event[handle[t]] => "RESPONSE" \in event'[handle[t]]
    BY <1>p, <1>r, <1>t, <2>1, <2>2
  <2>4. ~FetchesResponse(t)
    BY <2>1 DEF FetchesResponse
  <2> QED
    BY <1>n, <2>1, <2>3, <2>4, AnnounceOwn, AnnounceOthers
<1>9. CASE WaitRequest(t)
  <2>1. /\ handle[t] \in Slots /\ UNCHANGED <<global, event, client, server, call, handle>>
        /\ pc[t] \in {"wait_req", "get_req_check"}
    BY <1>9, <1>h DEF WaitRequest, Goto, Return
  <2>2. /\ \E p : pc' = [pc EXCEPT ![t] = p]
        /\ wret' = wret \/ wret' = [wret EXCEPT ![t] = "OK"]
    BY <1>9, Zenon DEF WaitRequest, Goto, Return
  <2>3. \A u \in Threads : u # t => pc'[u] = pc[u] /\ wret'[u] = wret[u]
    BY <1>p, <1>r, <2>2
  <2>4. CASE pc[t] = "wait_req"
    BY <1>n, <1>q, <2>1, <2>3, <2>4 DEF FetchesResponse, FetchesRequest
  <2>5. CASE pc[t] = "get_req_check"
    <3>1. CheckResult(handle[t]) = "OK"
      BY <1>u, <2>1, <2>5 DEF CheckResult, UserOf, Knows, InSession, FreeInv
    <3>2. pc'[t] = "get_req"
      BY <1>9, <1>p, <2>5, <3>1 DEF WaitRequest, Goto
    <3>3. FetchesRequest(t)' /\ ~FetchesResponse(t)
      BY <2>5, <3>2 DEF FetchesRequest, FetchesResponse
    <3> QED
      BY <1>n, <2>1, <2>3, <3>3, AnnounceOwn, AnnounceOthers
  <2> QED
    BY <2>1, <2>4, <2>5
<1>10. CASE GiveUp(t)
  BY <1>10 DEF GiveUp, Interrupted
<1>11. ASSUME NEW r \in {"OK", "ETIMEDOUT", "ERESTARTSYS"}, Wake(t, r) PROVE AnnounceInv'
  <2>1. /\ pc[t] = "wait" /\ pc' = [pc EXCEPT ![t] = "clear"] /\ wret' = [wret EXCEPT ![t] = r]
        /\ UNCHANGED <<call, handle, global, event, client, server>>
    BY <1>11 DEF Wake
  <2> QED
    BY <1>h, <1>n, <1>p, <1>q, <1>r, <2>1 DEF FetchesResponse, FetchesRequest
<1>12. CASE Clear(t)
  <2>1. /\ pc[t] = "clear" /\ handle[t] \in Slots /\ pc' = [pc EXCEPT ![t] = "test"]
        /\ \/ wret[t] = "OK" /\ event' = [event EXCEPT ![handle[t]] = @ \ Mask(call[t])]
           \/ UNCHANGED event
        /\ UNCHANGED <<call, wret, handle, global, client, server>>
    BY <1>12, <1>h, Zenon DEF Clear, Interrupted, Goto
  <2>2. CASE UNCHANGED event
    BY <1>n, <1>p, <1>q, <2>1, <2>2 DEF FetchesResponse, FetchesRequest
  <2>3. CASE wret[t] = "OK" /\ event' = [event EXCEPT ![handle[t]] = @ \ Mask(call[t])]
    <3>1. /\ \A x \in Slots : x # handle[t] => event'[x] = event[x]
          /\ event'[handle[t]] = event[handle[t]] \ Mask(call[t])
      BY <1>t, <2>1, <2>3
    <3>2. /\ "RESPONSE" \in Mask(call[t]) => call[t] # "wait_request"
          /\ "REQUEST" \in Mask(call[t]) => call[t] = "wait_request"
      BY <1>n DEF Mask
    <3>3. call[t] # "poll" /\ ~FetchesResponse(t) /\ ~FetchesRequest(t)
      BY <1>u, <2>1 DEF UserOf, InCall, FetchesResponse, FetchesRequest
    <3>4. (global[handle[t]] = "S_CONFIGURED" /\ call[t] = "config") => client[handle[t]] = "S_IDLE"
      BY <1>u, <2>1 DEF UserOf
    <3>5. ASSUME global[handle[t]] = "S_CONFIGURED"
          PROVE  /\ client[handle[t]] = "S_NOTIFIED" =>
                      "RESPONSE" \in event'[handle[t]] \/ FetchesResponse(t)'
                 /\ server[handle[t]] = "S_NOTIFIED" =>
                      "REQUEST" \in event'[handle[t]] \/ FetchesRequest(t)'
      <4>1. pc'[t] = "test" /\ wret'[t] = "OK" /\ call'[t] = call[t]
        BY <1>p, <2>1, <2>3
      <4>2. CASE client[handle[t]] = "S_NOTIFIED" /\ "RESPONSE" \in Mask(call[t])
        BY <3>1, <3>2, <3>3, <3>4, <3>5, <4>1, <4>2, <2>1, AnnounceOwn
           DEF FetchesResponse, FetchesRequest
      <4>3. CASE ~(client[handle[t]] = "S_NOTIFIED" /\ "RESPONSE" \in Mask(call[t]))
        BY <3>1, <3>2, <3>3, <3>5, <4>1, <4>3, <2>1, AnnounceOwn DEF FetchesRequest
      <4> QED
        BY <4>2, <4>3
    <3> QED
      BY <1>n, <1>p, <2>1, <3>1, <3>5, AnnounceOthers
  <2> QED
    BY <2>1, <2>2, <2>3
<1>13. CASE Test(t)
  <2>1. pc[t] = "test" /\ handle[t] \in Slots /\ UNCHANGED <<global, event, client, server>>
    BY <1>13, <1>h DEF Test
  <2>2. CASE global[handle[t]] = "S_CONFIGURED"
    <3>1. WaitReturn(t, wret[t])
      BY <1>13, <2>2 DEF Test
    <3>2. /\ \A u \in Threads : u # t => pc'[u] = pc[u] /\ wret'[u] = wret[u]
          /\ UNCHANGED <<call, handle>>
      <4>1. /\ \E p : pc' = [pc EXCEPT ![t] = p]
            /\ wret' = wret \/ wret' = [wret EXCEPT ![t] = "OK"]
            /\ UNCHANGED <<call, handle>>
        BY <3>1, Zenon DEF WaitReturn, Goto, Return
      <4> QED
        BY <1>p, <1>r, <4>1
    <3>3. call[t] # "close"
      BY <1>u, <2>1, <2>2 DEF UserOf, Knows
    <3>4. /\ FetchesResponse(t) => FetchesResponse(t)'
          /\ FetchesRequest(t) => FetchesRequest(t)'
      BY <1>n, <2>1, <3>1, <3>3, WaitReturnPc DEF FetchesResponse, FetchesRequest
    <3> QED
      BY <1>n, <2>1, <3>2, <3>4, AnnounceOwn, AnnounceOthers
  <2>3. CASE global[handle[t]] # "S_CONFIGURED"
    <3>1. pc' = [pc EXCEPT ![t] = "reap"] /\ UNCHANGED <<call, wret, handle>>
      BY <1>13, <2>3 DEF Test, Goto
    <3> QED
      BY <1>n, <1>p, <2>1, <2>3, <3>1, AnnounceOthers
  <2> QED
    BY <2>2, <2>3
<1>14. CASE ReapFree(t) \/ ConfigFinish(t) \/ Reap(t)
  <2>1. pc[t] \in {"reap_free", "config_fin", "reap"} /\ UNCHANGED <<event, client, server>>
    BY <1>14 DEF ReapFree, ConfigFinish, Reap, Interrupted
  <2>2. /\ global' = global \/ global' = [global EXCEPT ![handle[t]] = "S_NULL"]
        /\ pc[t] = "reap" => global' = [global EXCEPT ![handle[t]] = "S_NULL"]
    BY <1>14 DEF ReapFree, ConfigFinish, Reap, Interrupted
  <2>3. /\ \A x \in Slots : x # handle[t] => global'[x] = global[x]
        /\ global'[handle[t]] = "S_NULL"
    BY <1>h, <1>t, <2>1, <2>2 DEF FreeInv
  <2>4. /\ \A u \in Threads : u # t => pc'[u] = pc[u] /\ wret'[u] = wret[u]
        /\ UNCHANGED <<call, handle>>
    <3>1. /\ \E p : pc' = [pc EXCEPT ![t] = p]
          /\ wret' = wret \/ wret' = [wret EXCEPT ![t] = "OK"]
          /\ UNCHANGED <<call, handle>>
      <4>1. CASE ConfigFinish(t)
        BY <4>1, Zenon DEF ConfigFinish, Interrupted, Return
      <4>2. CASE ReapFree(t)
        BY <4>2, Zenon DEF ReapFree, WaitReturn, Goto, Return
      <4>3. CASE Reap(t)
        <5>1. Goto(t, "reap_free") \/ WaitReturn(t, wret[t]) \/ WaitReturn(t, "ERESTARTSYS")
          BY <4>3, Zenon DEF Reap, Interrupted
        <5> QED
          BY <5>1, Zenon DEF WaitReturn, Goto, Return
      <4> QED
        BY <1>14, <4>1, <4>2, <4>3
    <3> QED
      BY <1>p, <1>r, <3>1
  <2> QED
    BY <1>h, <1>n, <2>1, <2>3, <2>4, AnnounceOthers
<1>15. CASE SendTerm(t) \/ CloseFinish(t) \/ CloseFree(t)
  <2>1. pc[t] \in {"term", "close_fin", "close_free"} /\ UNCHANGED <<client, server, call>>
    BY <1>15 DEF SendTerm, CloseFinish, CloseFree, Interrupted, Goto
  <2>2. /\ event' = event \/ event' = [event EXCEPT ![handle[t]] = Events]
        /\ \E p : pc' = [pc EXCEPT ![t] = p]
        /\ wret' = wret \/ wret' = [wret EXCEPT ![t] = "OK"]
        /\ handle' = handle \/ handle' = [handle EXCEPT ![t] = NoSlot]
    BY <1>15, Zenon DEF SendTerm, CloseFinish, CloseFree, Interrupted, Goto
  <2>3. \/ global' = [global EXCEPT ![handle[t]] = "S_TERM_WAITING"]
        \/ global' = [global EXCEPT ![handle[t]] = "S_NULL"]
        \/ global' = global /\ global[handle[t]] = "S_NULL"
    BY <1>15 DEF SendTerm, CloseFinish, CloseFree, Interrupted, FreeInv
  <2>4. /\ \A x \in Slots : x # handle[t] => global'[x] = global[x] /\ event'[x] = event[x]
        /\ global'[handle[t]] # "S_CONFIGURED"
        /\ \A u \in Threads : u # t => pc'[u] = pc[u] /\ wret'[u] = wret[u] /\ handle'[u] = handle[u]
    BY <1>h, <1>p, <1>r, <1>t, <2>1, <2>2, <2>3
  <2> QED
    BY <1>h, <1>n, <2>1, <2>4, AnnounceOthers
<1> QED
  BY <1>1, <1>2, <1>3, <1>4, <1>5, <1>6, <1>7, <1>8, <1>9, <1>10, <1>11, <1>12, <1>13, <1>14,
     <1>15
     DEF Thread, WaitSteps, CallSteps

LEMMA AnnounceStep ==
    ASSUME Interrupts = FALSE, "wait_event" \notin Calls,
           CallInv, FreeInv, UserInv, AnnounceInv, OwnHandles, OwnHandles', [Next]_vars
    PROVE  AnnounceInv'
<1>t. /\ global \in [Slots -> GlobalStates] /\ client \in [Slots -> ClientStates]
      /\ server \in [Slots -> ServerStates] /\ event \in [Slots -> SUBSET Events]
  BY DEF CallInv, TypeOK
(* The work item fetches nothing, and what it delivers it announces.       *)
<1>k. ASSUME UNCHANGED threadVars,
             \A s \in Slots : global'[s] = "S_CONFIGURED" =>
                /\ client'[s] = "S_NOTIFIED" =>
                      \/ "RESPONSE" \in event'[s]
                      \/ /\ global[s] = "S_CONFIGURED" /\ client[s] = "S_NOTIFIED"
                         /\ "RESPONSE" \in event[s] => "RESPONSE" \in event'[s]
                /\ server'[s] = "S_NOTIFIED" =>
                      \/ "REQUEST" \in event'[s]
                      \/ /\ global[s] = "S_CONFIGURED" /\ server[s] = "S_NOTIFIED"
                         /\ "REQUEST" \in event[s] => "REQUEST" \in event'[s]
      PROVE  AnnounceInv'
  <2>1. /\ \A t \in Threads : FetchesResponse(t)' <=> FetchesResponse(t)
        /\ \A t \in Threads : FetchesRequest(t)' <=> FetchesRequest(t)
        /\ UNCHANGED <<handle, call>>
    BY <1>k DEF threadVars, FetchesResponse, FetchesRequest
  <2> QED
    BY <1>k, <2>1 DEF AnnounceInv
<1>1. CASE WorkerHandle
  <2>1. PICK m : m = Head(inHand)
    OBVIOUS
  <2>2. m.slot \in Slots /\ UNCHANGED threadVars /\ m.act # "A_TERM"
    BY <1>1, <2>1, HandlerCases DEF UserInv, WorkerHandle
  <2>3. CASE OnRequest(m.slot, m)
    BY <1>k, <1>t, <2>2, <2>3 DEF OnRequest
  <2>4. CASE OnResponse(m.slot, m)
    BY <1>k, <1>t, <2>2, <2>4 DEF OnResponse
  <2>5. CASE OnConfigAck(m.slot, m)
    BY <1>k, <1>t, <2>2, <2>5 DEF OnConfigAck
  <2>6. CASE OnCancel(m.slot, m)
    BY <1>k, <1>t, <2>2, <2>6 DEF OnCancel
  <2>7. CASE OnTermAck(m.slot, m)
    BY <1>k, <1>t, <2>2, <2>7 DEF OnTermAck
  <2> QED
    BY <1>1, <2>1, <2>2, <2>3, <2>4, <2>5, <2>6, <2>7, HandlerCases
<1>2. CASE WorkerTake \/ Secure \/ UNCHANGED vars
  <2>1. UNCHANGED <<threadVars, global, client, server, event>>
    BY <1>2 DEF WorkerTake, Secure, SecureStep, SecureRespond, SecureStart, vars, slotVars
  <2> QED
    BY <1>k, <2>1
<1> QED
  BY <1>1, <1>2, AnnounceThread DEF Next

LEMMA UserInitial == Init => UserInv /\ AnnounceInv
BY SessionAssumption DEF Init, UserInv, UserOf, InCall, InSession, AnnounceInv

(* With one user per handle, no signals, no termination by the secure      *)
(* world and no wait for all the events at once, every answer and every    *)
(* request that was delivered and not fetched is announced, or fetched by  *)
(* a thread that cleared its event: wait_session_event loses no wake-up to *)
(* timeouts, crossing cancellations or the reuse of a slot.                *)
THEOREM AnnouncedTheorem ==
    ASSUME Interrupts = FALSE, "term" \notin SecureCalls, "wait_event" \notin Calls
    PROVE  Spec /\ []OwnHandles => []NotifiedIsAnnounced
<1> DEFINE Inv == CallInv /\ FreeInv /\ UserInv /\ AnnounceInv
<1>1. Init => Inv
  BY CallInitial, FreeInitial, UserInitial
<1>2. Inv /\ OwnHandles /\ OwnHandles' /\ [Next]_vars => Inv'
  BY CallStep, FreeStep, UserStep, AnnounceStep
<1>3. Inv => NotifiedIsAnnounced
  <2>1. ASSUME NEW t \in Threads
        PROVE  /\ FetchesResponse(t) => pc[t] \in {"test", "reap", "get_rsp", "cancel_fin"}
               /\ FetchesRequest(t) => pc[t] \in {"test", "reap", "get_req_check", "get_req"}
    BY DEF FetchesResponse, FetchesRequest
  <2> QED
    BY <2>1 DEF AnnounceInv, NotifiedIsAnnounced
<1> HIDE DEF Inv
<1> QED
  BY <1>1, <1>2, <1>3, PTL DEF Spec

-----------------------------------------------------------------------------
(* Counting the messages of a ring *)

PendingAt(q, S, T) == {i \in DOMAIN q : q[i] \in S /\ \A j \in i .. Len(q) : q[j] \notin T}

LEMMA PendingFinite ==
    ASSUME NEW M, NEW q \in Seq(M), NEW S, NEW T
    PROVE  /\ IsFiniteSet(PendingAt(q, S, T)) /\ Pending(q, S, T) \in Nat
           /\ Pending(q, S, T) = Cardinality(PendingAt(q, S, T))
           /\ Pending(q, S, T) = 0 <=> PendingAt(q, S, T) = {}
<1>1. IsFiniteSet(1 .. Len(q)) /\ DOMAIN q = 1 .. Len(q)
  BY FS_Interval
<1>2. PendingAt(q, S, T) \in SUBSET (1 .. Len(q))
  BY <1>1 DEF PendingAt
<1>3. IsFiniteSet(PendingAt(q, S, T))
  BY <1>1, <1>2, FS_Subset
<1>4. Pending(q, S, T) = Cardinality(PendingAt(q, S, T))
  BY DEF Pending, PendingAt
<1> QED
  BY <1>3, <1>4, FS_CardinalityType, FS_EmptySet

(* The set decides nothing: a smaller set counts less, marks count out.    *)
LEMMA PendingMonotone ==
    ASSUME NEW M, NEW q \in Seq(M), NEW S, NEW R \in SUBSET S, NEW T, NEW U \in SUBSET T
    PROVE  /\ Pending(q, R, T) <= Pending(q, S, U)
           /\ Pending(q, T, {}) = 0 => Pending(q, S, T) = Pending(q, S, {})
<1>1. PendingAt(q, R, T) \in SUBSET PendingAt(q, S, U)
  BY DEF PendingAt
<1>2. Pending(q, R, T) <= Pending(q, S, U)
  BY <1>1, PendingFinite, FS_Subset
<1>3. ASSUME Pending(q, T, {}) = 0 PROVE Pending(q, S, T) = Pending(q, S, {})
  <2>1. PendingAt(q, T, {}) = {}
    BY <1>3, PendingFinite
  <2>2. \A i \in DOMAIN q : q[i] \notin T
    BY <2>1 DEF PendingAt
  <2>3. \A i \in DOMAIN q : \A j \in i .. Len(q) : j \in DOMAIN q
    OBVIOUS
  <2>4. PendingAt(q, S, T) = PendingAt(q, S, {})
    BY <2>2, <2>3 DEF PendingAt
  <2> QED
    BY <2>4, PendingFinite
<1> QED
  BY <1>2, <1>3

LEMMA PendingAppend ==
    ASSUME NEW M, NEW q \in Seq(M), NEW m \in M, NEW S, NEW T
    PROVE  Pending(Append(q, m), S, T) =
             IF m \in T THEN 0 ELSE Pending(q, S, T) + One(m \in S)
<1> DEFINE n == Len(q)
           p == Append(q, m)
<1>1. /\ n \in Nat /\ DOMAIN q = 1 .. n /\ p \in Seq(M)
      /\ DOMAIN p = 1 .. n + 1 /\ Len(p) = n + 1 /\ p[n + 1] = m
      /\ \A i \in 1 .. n : p[i] = q[i]
  OBVIOUS
<1> HIDE DEF n, p
<1>l. Len(q) = n
  BY DEF n
<1>2. CASE m \in T
  <2>1. \A i \in DOMAIN p : n + 1 \in i .. Len(p)
    BY <1>1
  <2>2. PendingAt(p, S, T) = {}
    BY <1>1, <1>2, <2>1 DEF PendingAt
  <2> QED
    BY <1>1, <1>2, <2>2, PendingFinite DEF p
<1>3. CASE m \notin T
  <2>1. ASSUME NEW i \in 1 .. n
        PROVE  i \in PendingAt(p, S, T) <=> i \in PendingAt(q, S, T)
    <3>1. \A j : j \in i .. n + 1 <=> j \in i .. n \/ j = n + 1
      BY <1>1, <2>1
    <3>2. \A j \in i .. n : j \in 1 .. n
      BY <1>1, <2>1
    <3>3. (\A j \in i .. n + 1 : p[j] \notin T) <=> (\A j \in i .. n : q[j] \notin T)
      BY <1>1, <1>3, <3>1, <3>2
    <3> QED
      BY <1>1, <1>l, <2>1, <3>3 DEF PendingAt
  <2>2. n + 1 \in PendingAt(p, S, T) <=> m \in S
    <3>1. \A j : j \in n + 1 .. n + 1 <=> j = n + 1
      BY <1>1
    <3> QED
      BY <1>1, <1>3, <3>1 DEF PendingAt
  <2>3. /\ PendingAt(p, S, T) \subseteq 1 .. n + 1 /\ PendingAt(q, S, T) \subseteq 1 .. n
        /\ n + 1 \notin 1 .. n /\ \A i \in 1 .. n + 1 : i \in 1 .. n \/ i = n + 1
    BY <1>1 DEF PendingAt
  <2>4. CASE m \in S
    <3>1. PendingAt(p, S, T) = PendingAt(q, S, T) \cup {n + 1}
      BY <1>1, <2>1, <2>2, <2>3, <2>4
    <3>2. n + 1 \notin PendingAt(q, S, T)
      BY <2>3
    <3>3. Cardinality(PendingAt(p, S, T)) = Cardinality(PendingAt(q, S, T)) + 1
      <4>1. IsFiniteSet(PendingAt(q, S, T))
        BY PendingFinite
      <4> QED
        BY <3>1, <3>2, <4>1, FS_AddElement
    <3> QED
      BY <1>1, <1>3, <2>4, <3>3, PendingFinite DEF p, One
  <2>5. CASE m \notin S
    <3>1. PendingAt(p, S, T) = PendingAt(q, S, T)
      BY <1>1, <2>1, <2>2, <2>3, <2>5
    <3>2. Pending(p, S, T) = Pending(q, S, T) /\ Pending(q, S, T) \in Nat
      BY <1>1, <3>1, PendingFinite
    <3> QED
      BY <1>3, <2>5, <3>2 DEF p, One
  <2> QED
    BY <2>4, <2>5
<1> QED
  BY <1>2, <1>3

LEMMA PendingTail ==
    ASSUME NEW M, NEW q \in Seq(M), q # <<>>, NEW S, NEW T
    PROVE  Pending(Tail(q), S, T) =
             Pending(q, S, T) - One(Head(q) \in S /\ Pending(q, T, {}) = 0)
<1> DEFINE n == Len(q)
           p == Tail(q)
           f == [i \in PendingAt(p, S, T) |-> i + 1]
<1>1. /\ n \in Nat /\ n >= 1 /\ DOMAIN q = 1 .. n /\ p \in Seq(M)
      /\ DOMAIN p = 1 .. n - 1 /\ Len(p) = n - 1 /\ q[1] = Head(q)
      /\ \A i \in 1 .. n - 1 : p[i] = q[i + 1]
  OBVIOUS
<1> HIDE DEF n, p
<1>l. Len(q) = n
  BY DEF n
<1>2. ASSUME NEW i \in 1 .. n - 1
      PROVE  i \in PendingAt(p, S, T) <=> i + 1 \in PendingAt(q, S, T)
  <2>1. ASSUME \A j \in i .. n - 1 : p[j] \notin T, NEW j \in i + 1 .. n PROVE q[j] \notin T
    <3>1. j - 1 \in i .. n - 1 /\ j - 1 \in 1 .. n - 1 /\ (j - 1) + 1 = j
      BY <1>1, <1>2, <2>1
    <3> QED
      BY <1>1, <2>1, <3>1
  <2>2. ASSUME \A j \in i + 1 .. n : q[j] \notin T, NEW j \in i .. n - 1 PROVE p[j] \notin T
    <3>1. j + 1 \in i + 1 .. n /\ j \in 1 .. n - 1
      BY <1>1, <1>2, <2>2
    <3> QED
      BY <1>1, <2>2, <3>1
  <2>3. i + 1 \in 1 .. n /\ p[i] = q[i + 1]
    BY <1>1, <1>2
  <2> QED
    BY <1>1, <1>2, <1>l, <2>1, <2>2, <2>3 DEF PendingAt
<1>3. 1 \in PendingAt(q, S, T) <=> Head(q) \in S /\ Pending(q, T, {}) = 0
  <2>1. Pending(q, T, {}) = 0 <=> \A j \in 1 .. n : q[j] \notin T
    <3>1. Pending(q, T, {}) = 0 <=> PendingAt(q, T, {}) = {}
      BY PendingFinite
    <3>2. PendingAt(q, T, {}) = {i \in 1 .. n : q[i] \in T}
      BY <1>1 DEF PendingAt
    <3> QED
      BY <3>1, <3>2
  <2> QED
    BY <1>1, <1>l, <2>1 DEF PendingAt
<1>4. /\ PendingAt(p, S, T) \subseteq 1 .. n - 1 /\ PendingAt(q, S, T) \subseteq 1 .. n
      /\ \A i \in 1 .. n : i # 1 => i - 1 \in 1 .. n - 1 /\ (i - 1) + 1 = i
      /\ \A i \in 1 .. n - 1 : i + 1 # 1
  BY <1>1 DEF PendingAt
<1>5. f \in Bijection(PendingAt(p, S, T), PendingAt(q, S, T) \ {1})
  <2>1. f \in [PendingAt(p, S, T) -> PendingAt(q, S, T) \ {1}]
    BY <1>2, <1>4
  <2>2. \A a, b \in PendingAt(p, S, T) : f[a] = f[b] => a = b
    BY <1>4
  <2>3. \A b \in PendingAt(q, S, T) \ {1} : \E a \in PendingAt(p, S, T) : f[a] = b
    <3>1. SUFFICES ASSUME NEW b \in PendingAt(q, S, T) \ {1}
                   PROVE  b - 1 \in PendingAt(p, S, T) /\ f[b - 1] = b
      OBVIOUS
    <3>2. b - 1 \in 1 .. n - 1 /\ (b - 1) + 1 = b
      BY <1>4, <3>1
    <3>3. b - 1 \in PendingAt(p, S, T)
      BY <1>2, <3>1, <3>2
    <3> QED
      BY <3>2, <3>3
  <2> HIDE DEF f
  <2>4. f \in Injection(PendingAt(p, S, T), PendingAt(q, S, T) \ {1})
    BY <2>1, <2>2 DEF Injection, IsInjective
  <2>5. f \in Surjection(PendingAt(p, S, T), PendingAt(q, S, T) \ {1})
    BY <2>1, <2>3 DEF Surjection
  <2> QED
    BY <2>4, <2>5 DEF Bijection
<1> HIDE DEF f
<1>6. Cardinality(PendingAt(p, S, T)) = Cardinality(PendingAt(q, S, T) \ {1})
  BY <1>1, <1>5, PendingFinite, FS_Bijection DEF ExistsBijection
<1>7. Cardinality(PendingAt(q, S, T) \ {1}) =
        IF 1 \in PendingAt(q, S, T) THEN Cardinality(PendingAt(q, S, T)) - 1
                                    ELSE Cardinality(PendingAt(q, S, T))
  BY PendingFinite, FS_RemoveElement
<1>8. /\ Pending(p, S, T) = Cardinality(PendingAt(p, S, T))
      /\ Pending(q, S, T) = Cardinality(PendingAt(q, S, T)) /\ Pending(q, S, T) \in Nat
  BY <1>1, PendingFinite
<1> QED
  BY <1>3, <1>6, <1>7, <1>8 DEF p, One

(* The messages that count for a session.                                  *)
LEMMA AboutMember ==
    ASSUME NEW m \in Messages, NEW s
    PROVE  /\ \A acts : m \in About(s, acts) <=> m.slot = s /\ m.act \in acts
           /\ \A a, v : m \in Other(s, a, v) <=> m.slot = s /\ m.act = a /\ m.val # v
           /\ m.slot = s <=> m \in About(s, Actions)
BY MessageType DEF About, Other

LEMMA CountPending ==
    ASSUME NEW q \in Seq(Messages), NEW s, NEW acts
    PROVE  Count(q, s, acts) = Pending(q, About(s, acts), {})
<1>1. \A i \in DOMAIN q : q[i] \in Messages
  OBVIOUS
<1>2. {i \in DOMAIN q : q[i].slot = s /\ q[i].act \in acts} = PendingAt(q, About(s, acts), {})
  BY <1>1, AboutMember DEF PendingAt
<1> QED
  BY <1>2, PendingFinite DEF Count

(* How the counts of a session relate.                                     *)
LEMMA PendingSubset ==
    ASSUME NEW q \in Seq(Messages), NEW s, NEW acts \in SUBSET Actions, NEW T
    PROVE  /\ Pending(q, About(s, acts), T) \in Nat
           /\ Pending(q, About(s, Actions), T) = 0 => Pending(q, About(s, acts), T) = 0
<1>1. About(s, acts) \in SUBSET About(s, Actions)
  BY DEF About
<1>2. Pending(q, About(s, acts), T) <= Pending(q, About(s, Actions), T)
  BY <1>1, PendingMonotone
<1> QED
  BY <1>2, PendingFinite

LEMMA RingBounds ==
    ASSUME NEW q \in Seq(Messages), NEW s
    PROVE  /\ \A S, T : Pending(q, S, T) \in Nat
           /\ Pending(q, About(s, {"A_REQUEST"}), About(s, {"A_CANCEL"}))
                <= Pending(q, About(s, {"A_REQUEST"}), {})
           /\ Pending(q, About(s, {"A_CANCEL"}), {}) = 0 =>
                Pending(q, About(s, {"A_REQUEST"}), About(s, {"A_CANCEL"}))
                  = Pending(q, About(s, {"A_REQUEST"}), {})
           /\ \A v : Pending(q, Other(s, "A_REQUEST", v), {})
                       <= Pending(q, About(s, {"A_REQUEST"}), {})
           /\ (/\ Pending(q, About(s, {"A_CONFIG"}), {}) = 0
               /\ Pending(q, About(s, Actions), About(s, {"A_CONFIG"})) = 0) =>
                /\ Pending(q, About(s, {"A_TERM"}), {}) = 0
                /\ Pending(q, About(s, {"A_REQUEST"}), {}) = 0
                /\ Pending(q, About(s, {"A_CANCEL"}), {}) = 0
                /\ Pending(q, About(s, Answers), {}) = 0
<1>1. \A S, T : Pending(q, S, T) \in Nat
  BY PendingFinite
<1>2. /\ Pending(q, About(s, {"A_REQUEST"}), About(s, {"A_CANCEL"}))
           <= Pending(q, About(s, {"A_REQUEST"}), {})
      /\ Pending(q, About(s, {"A_CANCEL"}), {}) = 0 =>
           Pending(q, About(s, {"A_REQUEST"}), About(s, {"A_CANCEL"}))
             = Pending(q, About(s, {"A_REQUEST"}), {})
  BY PendingMonotone
<1>3. ASSUME NEW v
      PROVE  Pending(q, Other(s, "A_REQUEST", v), {}) <= Pending(q, About(s, {"A_REQUEST"}), {})
  <2>1. Other(s, "A_REQUEST", v) \in SUBSET About(s, {"A_REQUEST"})
    BY DEF Other
  <2> QED
    BY <2>1, PendingMonotone
<1>4. ASSUME Pending(q, About(s, {"A_CONFIG"}), {}) = 0,
             Pending(q, About(s, Actions), About(s, {"A_CONFIG"})) = 0
      PROVE  /\ Pending(q, About(s, {"A_TERM"}), {}) = 0
             /\ Pending(q, About(s, {"A_REQUEST"}), {}) = 0
             /\ Pending(q, About(s, {"A_CANCEL"}), {}) = 0
             /\ Pending(q, About(s, Answers), {}) = 0
  <2>1. Pending(q, About(s, Actions), {}) = 0
    BY <1>4, PendingMonotone
  <2>2. /\ {"A_TERM"} \in SUBSET Actions /\ {"A_REQUEST"} \in SUBSET Actions
        /\ {"A_CANCEL"} \in SUBSET Actions /\ Answers \in SUBSET Actions
    BY DEF Actions, Answers
  <2> QED
    BY <2>1, <2>2, PendingSubset
<1> QED
  BY <1>1, <1>2, <1>3, <1>4

LEMMA SentBounds ==
    ASSUME nsToS \in Seq(Messages), NEW s
    PROVE  /\ SentConfig(s) \in Nat /\ SentTerm(s) \in Nat /\ SentRequest(s) \in Nat
           /\ SentCancel(s) \in Nat /\ SentAnswer(s) \in Nat /\ SentSinceConfig(s) \in Nat
           /\ RequestsSinceCancel(s) \in Nat /\ \A v : SentOther(s, v) \in Nat
           /\ RequestsSinceCancel(s) <= SentRequest(s)
           /\ SentCancel(s) = 0 => RequestsSinceCancel(s) = SentRequest(s)
           /\ \A v : SentOther(s, v) <= SentRequest(s)
           /\ (SentConfig(s) = 0 /\ SentSinceConfig(s) = 0) =>
                SentTerm(s) = 0 /\ SentRequest(s) = 0 /\ SentCancel(s) = 0 /\ SentAnswer(s) = 0
BY RingBounds DEF SentConfig, SentTerm, SentRequest, SentCancel, SentAnswer, SentSinceConfig,
                  RequestsSinceCancel, SentOther

LEMMA SentBoundsNext ==
    ASSUME CallInv', NEW s
    PROVE  /\ SentConfig(s)' \in Nat /\ SentTerm(s)' \in Nat /\ SentRequest(s)' \in Nat
           /\ SentCancel(s)' \in Nat /\ SentAnswer(s)' \in Nat /\ SentSinceConfig(s)' \in Nat
           /\ RequestsSinceCancel(s)' \in Nat /\ \A v : SentOther(s, v)' \in Nat
           /\ RequestsSinceCancel(s)' <= SentRequest(s)'
           /\ \A v : SentOther(s, v)' <= SentRequest(s)'
           /\ (SentConfig(s)' = 0 /\ SentSinceConfig(s)' = 0) =>
                SentTerm(s)' = 0 /\ SentRequest(s)' = 0 /\ SentCancel(s)' = 0 /\ SentAnswer(s)' = 0
<1>1. nsToS' \in Seq(Messages)
  BY DEF CallInv, TypeOK
<1> QED
  BY <1>1, RingBounds DEF SentConfig, SentTerm, SentRequest, SentCancel, SentAnswer,
                          SentSinceConfig, RequestsSinceCancel, SentOther

LEMMA ToNsType == ASSUME CallInv PROVE ToNs \in Seq(Messages) /\ nsToS \in Seq(Messages)
BY MessageType DEF CallInv, TypeOK, ToNs

LEMMA ComingBounds ==
    ASSUME NEW q \in Seq(Messages), NEW s
    PROVE  /\ \A S, T : Pending(q, S, T) \in Nat
           /\ Pending(q, About(s, {"A_CONFIG_ACK"}) \ Other(s, "A_CONFIG_ACK", 0), {})
                <= Pending(q, About(s, {"A_CONFIG_ACK"}), {})
           /\ Pending(q, About(s, {"A_CANCEL_ACK"}), About(s, {"A_CONFIG_ACK"}))
                <= Pending(q, About(s, Answers), About(s, {"A_CONFIG_ACK"}))
           /\ \A v : Pending(q, Other(s, "A_RESPONSE", v), About(s, {"A_CONFIG_ACK"}))
                <= Pending(q, About(s, Answers), About(s, {"A_CONFIG_ACK"}))
<1>1. \A S, T : Pending(q, S, T) \in Nat
  BY PendingFinite
<1>2. Pending(q, About(s, {"A_CONFIG_ACK"}) \ Other(s, "A_CONFIG_ACK", 0), {})
        <= Pending(q, About(s, {"A_CONFIG_ACK"}), {})
  BY PendingMonotone
<1>3. Pending(q, About(s, {"A_CANCEL_ACK"}), About(s, {"A_CONFIG_ACK"}))
        <= Pending(q, About(s, Answers), About(s, {"A_CONFIG_ACK"}))
  <2>1. About(s, {"A_CANCEL_ACK"}) \in SUBSET About(s, Answers)
    BY DEF About, Answers
  <2> QED
    BY <2>1, PendingMonotone
<1>4. ASSUME NEW v
      PROVE  Pending(q, Other(s, "A_RESPONSE", v), About(s, {"A_CONFIG_ACK"}))
               <= Pending(q, About(s, Answers), About(s, {"A_CONFIG_ACK"}))
  <2>1. Other(s, "A_RESPONSE", v) \in SUBSET About(s, Answers)
    BY DEF Other, About, Answers
  <2> QED
    BY <2>1, PendingMonotone
<1> QED
  BY <1>1, <1>2, <1>3, <1>4

LEMMA DueBounds ==
    ASSUME ToNs \in Seq(Messages), NEW s
    PROVE  /\ DueAck(s) \in Nat /\ DueGrant(s) \in Nat /\ DueRequest(s) \in Nat
           /\ DueAnswer(s) \in Nat /\ DueCancelAck(s) \in Nat /\ \A v : DueOther(s, v) \in Nat
           /\ DueGrant(s) <= DueAck(s) /\ DueCancelAck(s) <= DueAnswer(s)
           /\ \A v : DueOther(s, v) <= DueAnswer(s)
BY ComingBounds DEF DueAck, DueGrant, DueRequest, DueAnswer, DueCancelAck, DueOther

LEMMA DueBoundsNext ==
    ASSUME CallInv', NEW s
    PROVE  /\ DueAck(s)' \in Nat /\ DueGrant(s)' \in Nat /\ DueRequest(s)' \in Nat
           /\ DueAnswer(s)' \in Nat /\ DueCancelAck(s)' \in Nat /\ \A v : DueOther(s, v)' \in Nat
           /\ DueGrant(s)' <= DueAck(s)' /\ DueCancelAck(s)' <= DueAnswer(s)'
           /\ \A v : DueOther(s, v)' <= DueAnswer(s)'
<1>1. ToNs' \in Seq(Messages)
  BY DEF CallInv, TypeOK, ToNs
<1> QED
  BY <1>1, ComingBounds DEF DueAck, DueGrant, DueRequest, DueAnswer, DueCancelAck, DueOther

(* A message enters, or leaves, the ring of the normal world.              *)
LEMMA SentAppend ==
    ASSUME nsToS \in Seq(Messages), NEW m \in Messages, nsToS' = Append(nsToS, m), NEW s
    PROVE  /\ SentConfig(s)' = SentConfig(s) + One(m.slot = s /\ m.act = "A_CONFIG")
           /\ SentTerm(s)' = SentTerm(s) + One(m.slot = s /\ m.act = "A_TERM")
           /\ SentRequest(s)' = SentRequest(s) + One(m.slot = s /\ m.act = "A_REQUEST")
           /\ SentCancel(s)' = SentCancel(s) + One(m.slot = s /\ m.act = "A_CANCEL")
           /\ SentAnswer(s)' = SentAnswer(s) + One(m.slot = s /\ m.act \in Answers)
           /\ SentSinceConfig(s)' = IF m.slot = s /\ m.act = "A_CONFIG" THEN 0
                                    ELSE SentSinceConfig(s) + One(m.slot = s)
           /\ RequestsSinceCancel(s)' =
                IF m.slot = s /\ m.act = "A_CANCEL" THEN 0
                ELSE RequestsSinceCancel(s) + One(m.slot = s /\ m.act = "A_REQUEST")
           /\ \A v : SentOther(s, v)' =
                       SentOther(s, v) + One(m.slot = s /\ m.act = "A_REQUEST" /\ m.val # v)
<1>1. \A S, T : Pending(nsToS', S, T) = IF m \in T THEN 0 ELSE Pending(nsToS, S, T) + One(m \in S)
  BY PendingAppend
<1>2. /\ m \in About(s, {"A_CONFIG"}) <=> m.slot = s /\ m.act = "A_CONFIG"
      /\ m \in About(s, {"A_TERM"}) <=> m.slot = s /\ m.act = "A_TERM"
      /\ m \in About(s, {"A_REQUEST"}) <=> m.slot = s /\ m.act = "A_REQUEST"
      /\ m \in About(s, {"A_CANCEL"}) <=> m.slot = s /\ m.act = "A_CANCEL"
      /\ m \in About(s, Answers) <=> m.slot = s /\ m.act \in Answers
      /\ m \in About(s, Actions) <=> m.slot = s
      /\ \A v : m \in Other(s, "A_REQUEST", v) <=> m.slot = s /\ m.act = "A_REQUEST" /\ m.val # v
  BY AboutMember
<1>3. /\ SentConfig(s)' = SentConfig(s) + One(m.slot = s /\ m.act = "A_CONFIG")
      /\ SentTerm(s)' = SentTerm(s) + One(m.slot = s /\ m.act = "A_TERM")
      /\ SentRequest(s)' = SentRequest(s) + One(m.slot = s /\ m.act = "A_REQUEST")
      /\ SentCancel(s)' = SentCancel(s) + One(m.slot = s /\ m.act = "A_CANCEL")
  BY <1>1, <1>2 DEF SentConfig, SentTerm, SentRequest, SentCancel, One
<1>4. SentAnswer(s)' = SentAnswer(s) + One(m.slot = s /\ m.act \in Answers)
  BY <1>1, <1>2 DEF SentAnswer, One
<1>5. SentSinceConfig(s)' = IF m.slot = s /\ m.act = "A_CONFIG" THEN 0
                            ELSE SentSinceConfig(s) + One(m.slot = s)
  BY <1>1, <1>2 DEF SentSinceConfig, One
<1>6. RequestsSinceCancel(s)' =
        IF m.slot = s /\ m.act = "A_CANCEL" THEN 0
        ELSE RequestsSinceCancel(s) + One(m.slot = s /\ m.act = "A_REQUEST")
  BY <1>1, <1>2 DEF RequestsSinceCancel, One
<1>7. \A v : SentOther(s, v)' =
               SentOther(s, v) + One(m.slot = s /\ m.act = "A_REQUEST" /\ m.val # v)
  BY <1>1, <1>2 DEF SentOther, One
<1> QED
  BY <1>3, <1>4, <1>5, <1>6, <1>7

LEMMA SentTail ==
    ASSUME nsToS \in Seq(Messages), nsToS # <<>>, nsToS' = Tail(nsToS),
           NEW m, m = Head(nsToS), NEW s
    PROVE  /\ SentConfig(s)' = SentConfig(s) - One(m.slot = s /\ m.act = "A_CONFIG")
           /\ SentTerm(s)' = SentTerm(s) - One(m.slot = s /\ m.act = "A_TERM")
           /\ SentRequest(s)' = SentRequest(s) - One(m.slot = s /\ m.act = "A_REQUEST")
           /\ SentCancel(s)' = SentCancel(s) - One(m.slot = s /\ m.act = "A_CANCEL")
           /\ SentAnswer(s)' = SentAnswer(s) - One(m.slot = s /\ m.act \in Answers)
           /\ SentSinceConfig(s)' = SentSinceConfig(s) - One(m.slot = s /\ SentConfig(s) = 0)
           /\ RequestsSinceCancel(s)' = RequestsSinceCancel(s)
                - One(m.slot = s /\ m.act = "A_REQUEST" /\ SentCancel(s) = 0)
           /\ \A v : SentOther(s, v)' =
                       SentOther(s, v) - One(m.slot = s /\ m.act = "A_REQUEST" /\ m.val # v)
<1>m. m \in Messages
  BY HeadTail
<1>0. \A S : Pending(nsToS, {}, S) = 0
  <2>1. \A S : PendingAt(nsToS, {}, S) = {}
    BY DEF PendingAt
  <2> QED
    BY <2>1, PendingFinite
<1>1. \A S, T : Pending(nsToS', S, T) =
                  Pending(nsToS, S, T) - One(m \in S /\ Pending(nsToS, T, {}) = 0)
  BY PendingTail
<1>2. /\ m \in About(s, {"A_CONFIG"}) <=> m.slot = s /\ m.act = "A_CONFIG"
      /\ m \in About(s, {"A_TERM"}) <=> m.slot = s /\ m.act = "A_TERM"
      /\ m \in About(s, {"A_REQUEST"}) <=> m.slot = s /\ m.act = "A_REQUEST"
      /\ m \in About(s, {"A_CANCEL"}) <=> m.slot = s /\ m.act = "A_CANCEL"
      /\ m \in About(s, Answers) <=> m.slot = s /\ m.act \in Answers
      /\ m \in About(s, Actions) <=> m.slot = s
      /\ \A v : m \in Other(s, "A_REQUEST", v) <=> m.slot = s /\ m.act = "A_REQUEST" /\ m.val # v
  BY <1>m, AboutMember
<1>3. /\ SentConfig(s)' = SentConfig(s) - One(m.slot = s /\ m.act = "A_CONFIG")
      /\ SentTerm(s)' = SentTerm(s) - One(m.slot = s /\ m.act = "A_TERM")
      /\ SentRequest(s)' = SentRequest(s) - One(m.slot = s /\ m.act = "A_REQUEST")
      /\ SentCancel(s)' = SentCancel(s) - One(m.slot = s /\ m.act = "A_CANCEL")
  BY <1>0, <1>1, <1>2 DEF SentConfig, SentTerm, SentRequest, SentCancel, One
<1>4. SentAnswer(s)' = SentAnswer(s) - One(m.slot = s /\ m.act \in Answers)
  BY <1>0, <1>1, <1>2 DEF SentAnswer, One
<1>5. SentSinceConfig(s)' = SentSinceConfig(s) - One(m.slot = s /\ SentConfig(s) = 0)
  BY <1>1, <1>2 DEF SentSinceConfig, SentConfig, One
<1>6. RequestsSinceCancel(s)' = RequestsSinceCancel(s)
        - One(m.slot = s /\ m.act = "A_REQUEST" /\ SentCancel(s) = 0)
  BY <1>1, <1>2 DEF RequestsSinceCancel, SentCancel, One
<1>7. \A v : SentOther(s, v)' =
               SentOther(s, v) - One(m.slot = s /\ m.act = "A_REQUEST" /\ m.val # v)
  BY <1>0, <1>1, <1>2 DEF SentOther, One
<1> QED
  BY <1>3, <1>4, <1>5, <1>6, <1>7

(* The same for the messages of the secure world.                          *)
LEMMA DueAppend ==
    ASSUME ToNs \in Seq(Messages), NEW m \in Messages, ToNs' = Append(ToNs, m), NEW s
    PROVE  /\ DueAck(s)' = DueAck(s) + One(m.slot = s /\ m.act = "A_CONFIG_ACK")
           /\ DueGrant(s)' = DueGrant(s) + One(m.slot = s /\ m.act = "A_CONFIG_ACK" /\ m.val = 0)
           /\ (m.slot = s /\ m.act = "A_CONFIG_ACK") =>
                /\ DueRequest(s)' = 0 /\ DueAnswer(s)' = 0 /\ DueCancelAck(s)' = 0
                /\ \A v : DueOther(s, v)' = 0
           /\ ~(m.slot = s /\ m.act = "A_CONFIG_ACK") =>
                /\ DueRequest(s)' = DueRequest(s) + One(m.slot = s /\ m.act = "A_REQUEST")
                /\ DueAnswer(s)' = DueAnswer(s) + One(m.slot = s /\ m.act \in Answers)
                /\ DueCancelAck(s)' = DueCancelAck(s) + One(m.slot = s /\ m.act = "A_CANCEL_ACK")
                /\ \A v : DueOther(s, v)' =
                     DueOther(s, v) + One(m.slot = s /\ m.act = "A_RESPONSE" /\ m.val # v)
<1>1. \A S, T : Pending(ToNs', S, T) = IF m \in T THEN 0 ELSE Pending(ToNs, S, T) + One(m \in S)
  BY PendingAppend
<1>2. /\ m \in About(s, {"A_CONFIG_ACK"}) <=> m.slot = s /\ m.act = "A_CONFIG_ACK"
      /\ m \in About(s, {"A_REQUEST"}) <=> m.slot = s /\ m.act = "A_REQUEST"
      /\ m \in About(s, {"A_CANCEL_ACK"}) <=> m.slot = s /\ m.act = "A_CANCEL_ACK"
      /\ m \in About(s, Answers) <=> m.slot = s /\ m.act \in Answers
      /\ \A v : m \in Other(s, "A_RESPONSE", v) <=> m.slot = s /\ m.act = "A_RESPONSE" /\ m.val # v
      /\ m \in Other(s, "A_CONFIG_ACK", 0) <=> m.slot = s /\ m.act = "A_CONFIG_ACK" /\ m.val # 0
  BY AboutMember
<1>3. m \in About(s, {"A_CONFIG_ACK"}) \ Other(s, "A_CONFIG_ACK", 0)
        <=> m.slot = s /\ m.act = "A_CONFIG_ACK" /\ m.val = 0
  BY <1>2
<1>4. DueAck(s)' = DueAck(s) + One(m.slot = s /\ m.act = "A_CONFIG_ACK")
  BY <1>1, <1>2 DEF DueAck, One
<1>5. DueGrant(s)' = DueGrant(s) + One(m.slot = s /\ m.act = "A_CONFIG_ACK" /\ m.val = 0)
  BY <1>1, <1>3 DEF DueGrant, One
<1>6. ASSUME m.slot = s /\ m.act = "A_CONFIG_ACK"
      PROVE  /\ DueRequest(s)' = 0 /\ DueAnswer(s)' = 0 /\ DueCancelAck(s)' = 0
             /\ \A v : DueOther(s, v)' = 0
  BY <1>1, <1>2, <1>6 DEF DueRequest, DueAnswer, DueCancelAck, DueOther
<1>7. ASSUME ~(m.slot = s /\ m.act = "A_CONFIG_ACK")
      PROVE  /\ DueRequest(s)' = DueRequest(s) + One(m.slot = s /\ m.act = "A_REQUEST")
             /\ DueAnswer(s)' = DueAnswer(s) + One(m.slot = s /\ m.act \in Answers)
             /\ DueCancelAck(s)' = DueCancelAck(s) + One(m.slot = s /\ m.act = "A_CANCEL_ACK")
             /\ \A v : DueOther(s, v)' =
                  DueOther(s, v) + One(m.slot = s /\ m.act = "A_RESPONSE" /\ m.val # v)
  BY <1>1, <1>2, <1>7 DEF DueRequest, DueAnswer, DueCancelAck, DueOther, One
<1> QED
  BY <1>4, <1>5, <1>6, <1>7

LEMMA DueTail ==
    ASSUME ToNs \in Seq(Messages), ToNs # <<>>, ToNs' = Tail(ToNs), NEW m, m = Head(ToNs), NEW s
    PROVE  /\ DueAck(s)' = DueAck(s) - One(m.slot = s /\ m.act = "A_CONFIG_ACK")
           /\ DueGrant(s)' = DueGrant(s) - One(m.slot = s /\ m.act = "A_CONFIG_ACK" /\ m.val = 0)
           /\ DueRequest(s)' = DueRequest(s)
                - One(m.slot = s /\ m.act = "A_REQUEST" /\ DueAck(s) = 0)
           /\ DueAnswer(s)' = DueAnswer(s) - One(m.slot = s /\ m.act \in Answers /\ DueAck(s) = 0)
           /\ DueCancelAck(s)' = DueCancelAck(s)
                - One(m.slot = s /\ m.act = "A_CANCEL_ACK" /\ DueAck(s) = 0)
           /\ \A v : DueOther(s, v)' = DueOther(s, v)
                - One(m.slot = s /\ m.act = "A_RESPONSE" /\ m.val # v /\ DueAck(s) = 0)
<1>m. m \in Messages
  BY HeadTail
<1>0. \A S : Pending(ToNs, {}, S) = 0
  <2>1. \A S : PendingAt(ToNs, {}, S) = {}
    BY DEF PendingAt
  <2> QED
    BY <2>1, PendingFinite
<1>1. \A S, T : Pending(ToNs', S, T) =
                  Pending(ToNs, S, T) - One(m \in S /\ Pending(ToNs, T, {}) = 0)
  BY PendingTail
<1>2. /\ m \in About(s, {"A_CONFIG_ACK"}) <=> m.slot = s /\ m.act = "A_CONFIG_ACK"
      /\ m \in About(s, {"A_REQUEST"}) <=> m.slot = s /\ m.act = "A_REQUEST"
      /\ m \in About(s, {"A_CANCEL_ACK"}) <=> m.slot = s /\ m.act = "A_CANCEL_ACK"
      /\ m \in About(s, Answers) <=> m.slot = s /\ m.act \in Answers
      /\ \A v : m \in Other(s, "A_RESPONSE", v) <=> m.slot = s /\ m.act = "A_RESPONSE" /\ m.val # v
      /\ m \in Other(s, "A_CONFIG_ACK", 0) <=> m.slot = s /\ m.act = "A_CONFIG_ACK" /\ m.val # 0
  BY <1>m, AboutMember, ZenonT(40)
<1>3. m \in About(s, {"A_CONFIG_ACK"}) \ Other(s, "A_CONFIG_ACK", 0)
        <=> m.slot = s /\ m.act = "A_CONFIG_ACK" /\ m.val = 0
  BY <1>2
<1>4. DueAck(s)' = DueAck(s) - One(m.slot = s /\ m.act = "A_CONFIG_ACK")
  BY <1>0, <1>1, <1>2 DEF DueAck, One
<1>5. DueGrant(s)' = DueGrant(s) - One(m.slot = s /\ m.act = "A_CONFIG_ACK" /\ m.val = 0)
  BY <1>0, <1>1, <1>3 DEF DueGrant, One
<1>6. DueRequest(s)' = DueRequest(s) - One(m.slot = s /\ m.act = "A_REQUEST" /\ DueAck(s) = 0)
  BY <1>1, <1>2 DEF DueRequest, DueAck, One
<1>7. DueAnswer(s)' = DueAnswer(s) - One(m.slot = s /\ m.act \in Answers /\ DueAck(s) = 0)
  BY <1>1, <1>2 DEF DueAnswer, DueAck, One
<1>8. DueCancelAck(s)' = DueCancelAck(s)
        - One(m.slot = s /\ m.act = "A_CANCEL_ACK" /\ DueAck(s) = 0)
  BY <1>1, <1>2 DEF DueCancelAck, DueAck, One
<1>9. \A v : DueOther(s, v)' = DueOther(s, v)
        - One(m.slot = s /\ m.act = "A_RESPONSE" /\ m.val # v /\ DueAck(s) = 0)
  BY <1>1, <1>2 DEF DueOther, DueAck, One
<1> QED
  BY <1>4, <1>5, <1>6, <1>7, <1>8, <1>9

(* The two places a message of the secure world passes through.            *)
LEMMA ToNsSend ==
    ASSUME CallInv, NEW m \in Messages, UNCHANGED inHand, sToNs' = Append(sToNs, m)
    PROVE  ToNs' = Append(ToNs, m)
<1>1. inHand \in Seq(Messages) /\ sToNs \in Seq(Messages)
  BY DEF CallInv, TypeOK
<1>2. ToNs' = inHand \o Append(sToNs, m)
  BY DEF ToNs
<1> QED
  BY <1>1, <1>2 DEF ToNs

LEMMA ToNsTake ==
    ASSUME CallInv, WorkerTake
    PROVE  /\ ToNs # <<>> /\ Head(ToNs) = Head(sToNs)
           /\ \/ ToNs' = ToNs
              \/ free[Head(ToNs).slot] /\ ToNs' = Tail(ToNs)
<1>1. inHand = <<>> /\ sToNs \in Seq(Messages) /\ sToNs # <<>> /\ sToNs' = Tail(sToNs)
  BY DEF CallInv, TypeOK, WorkerTake
<1>2. ToNs = sToNs
  BY <1>1 DEF ToNs
<1>3. CASE free[Head(sToNs).slot]
  <2>1. inHand' = <<>>
    BY <1>3 DEF WorkerTake
  <2>2. ToNs' = Tail(sToNs)
    <3>1. Tail(sToNs) \in Seq(Messages)
      BY <1>1, HeadTail
    <3>2. ToNs' = <<>> \o Tail(sToNs)
      BY <1>1, <2>1 DEF ToNs
    <3> QED
      BY <3>1, <3>2
  <2> QED
    BY <1>1, <1>2, <1>3, <2>2
<1>4. CASE ~free[Head(sToNs).slot]
  <2>1. inHand' = <<Head(sToNs)>>
    BY <1>4 DEF WorkerTake
  <2>2. ToNs' = <<Head(sToNs)>> \o Tail(sToNs)
    BY <1>1, <2>1 DEF ToNs
  <2>3. <<Head(sToNs)>> \o Tail(sToNs) = sToNs
    BY <1>1
  <2> QED
    BY <1>1, <1>2, <2>2, <2>3, Zenon
<1> QED
  BY <1>3, <1>4

LEMMA OneBefore ==
    ASSUME NEW M, NEW h \in Seq(M), NEW q \in Seq(M), h # <<>>, Len(h) <= 1
    PROVE  h \o q # <<>> /\ Head(h \o q) = Head(h) /\ Tail(h \o q) = q
<1> DEFINE p == h \o q
<1>1. Len(h) \in Nat \ {0} /\ Len(q) \in Nat
  BY EmptySeq, LenProperties
<1>2. Len(h) = 1
  <2>1. \A n \in Nat \ {0} : n <= 1 => n = 1
    OBVIOUS
  <2> QED
    BY <1>1, <2>1, Zenon
<1>3. /\ p \in Seq(M) /\ Len(p) = 1 + Len(q)
      /\ \A i \in 1 .. 1 + Len(q) : p[i] = IF i <= 1 THEN h[i] ELSE q[i - 1]
  <2>1. /\ p \in Seq(M) /\ Len(p) = Len(h) + Len(q)
        /\ \A i \in 1 .. Len(h) + Len(q) : p[i] = IF i <= Len(h) THEN h[i] ELSE q[i - Len(h)]
    BY ConcatProperties
  <2> QED
    BY <1>2, <2>1, Zenon
<1> HIDE DEF p
<1>4. p[1] = h[1] /\ \A i \in 1 .. Len(q) : p[i + 1] = q[i]
  BY <1>1, <1>3
<1>5. p # <<>> /\ Head(p) = p[1] /\ Head(h) = h[1]
  BY <1>1, <1>2, <1>3
<1>6. /\ Tail(p) \in Seq(M) /\ Len(Tail(p)) = Len(q)
      /\ \A i \in 1 .. Len(q) : Tail(p)[i] = p[i + 1]
  BY <1>1, <1>3, <1>5, HeadTailProperties
<1>7. Tail(p) = q
  BY <1>4, <1>6, SeqEqual
<1> QED
  BY <1>4, <1>5, <1>7 DEF p

LEMMA ToNsHandle ==
    ASSUME CallInv, inHand # <<>>, inHand' = <<>>, UNCHANGED sToNs
    PROVE  ToNs # <<>> /\ Head(ToNs) = Head(inHand) /\ ToNs' = Tail(ToNs)
<1>1. inHand \in Seq(Messages) /\ sToNs \in Seq(Messages) /\ Len(inHand) <= 1
  BY DEF CallInv, TypeOK
<1>2. ToNs' = sToNs
  <2>1. ToNs' = <<>> \o sToNs
    BY DEF ToNs
  <2> QED
    BY <1>1, <2>1
<1>3. ToNs # <<>> /\ Head(ToNs) = Head(inHand) /\ Tail(ToNs) = sToNs
  BY <1>1, OneBefore DEF ToNs
<1> QED
  BY <1>2, <1>3

-----------------------------------------------------------------------------
(* The two worlds agree on what is under way *)

SentSame(s) ==
    /\ SentConfig(s)' = SentConfig(s) /\ SentTerm(s)' = SentTerm(s)
    /\ SentRequest(s)' = SentRequest(s) /\ SentCancel(s)' = SentCancel(s)
    /\ SentAnswer(s)' = SentAnswer(s) /\ SentSinceConfig(s)' = SentSinceConfig(s)
    /\ RequestsSinceCancel(s)' = RequestsSinceCancel(s)
    /\ \A v : SentOther(s, v)' = SentOther(s, v)

DueSame(s) ==
    /\ DueAck(s)' = DueAck(s) /\ DueGrant(s)' = DueGrant(s) /\ DueRequest(s)' = DueRequest(s)
    /\ DueAnswer(s)' = DueAnswer(s) /\ DueCancelAck(s)' = DueCancelAck(s)
    /\ \A v : DueOther(s, v)' = DueOther(s, v)

SecureSame(s) == sState'[s] = sState[s] /\ sSrv'[s] = sSrv[s] /\ sCli'[s] = sCli[s]

StateSame(s) ==
    /\ global'[s] = global[s] /\ client'[s] = client[s] /\ server'[s] = server[s]
    /\ asked'[s] = asked[s]

LEMMA SentKept ==
    ASSUME CallInv, NEW s,
           \/ UNCHANGED nsToS
           \/ \E m \in Messages : m.slot # s /\ nsToS' = Append(nsToS, m)
           \/ nsToS # <<>> /\ Head(nsToS).slot # s /\ nsToS' = Tail(nsToS)
    PROVE  SentSame(s)
<1>t. nsToS \in Seq(Messages)
  BY ToNsType
<1>b. /\ SentConfig(s) \in Nat /\ SentTerm(s) \in Nat /\ SentRequest(s) \in Nat
      /\ SentCancel(s) \in Nat /\ SentAnswer(s) \in Nat /\ SentSinceConfig(s) \in Nat
      /\ RequestsSinceCancel(s) \in Nat /\ \A v : SentOther(s, v) \in Nat
  BY <1>t, SentBounds
<1>1. CASE UNCHANGED nsToS
  BY <1>1 DEF SentSame, SentConfig, SentTerm, SentRequest, SentCancel, SentAnswer,
              SentSinceConfig, RequestsSinceCancel, SentOther
<1>2. ASSUME NEW m \in Messages, m.slot # s, nsToS' = Append(nsToS, m) PROVE SentSame(s)
  BY <1>b, <1>t, <1>2, SentAppend DEF SentSame, One
<1>3. CASE nsToS # <<>> /\ Head(nsToS).slot # s /\ nsToS' = Tail(nsToS)
  BY <1>b, <1>t, <1>3, SentTail DEF SentSame, One
<1> QED
  BY <1>1, <1>2, <1>3

LEMMA DueKept ==
    ASSUME CallInv, NEW s,
           \/ UNCHANGED ToNs
           \/ \E m \in Messages : m.slot # s /\ ToNs' = Append(ToNs, m)
           \/ ToNs # <<>> /\ Head(ToNs).slot # s /\ ToNs' = Tail(ToNs)
    PROVE  DueSame(s)
<1>t. ToNs \in Seq(Messages)
  BY ToNsType
<1>b. /\ DueAck(s) \in Nat /\ DueGrant(s) \in Nat /\ DueRequest(s) \in Nat
      /\ DueAnswer(s) \in Nat /\ DueCancelAck(s) \in Nat /\ \A v : DueOther(s, v) \in Nat
  BY <1>t, DueBounds
<1>1. CASE UNCHANGED ToNs
  BY <1>1 DEF DueSame, DueAck, DueGrant, DueRequest, DueAnswer, DueCancelAck, DueOther
<1>2. ASSUME NEW m \in Messages, m.slot # s, ToNs' = Append(ToNs, m) PROVE DueSame(s)
  BY <1>b, <1>t, <1>2, DueAppend DEF DueSame, One
<1>3. CASE ToNs # <<>> /\ Head(ToNs).slot # s /\ ToNs' = Tail(ToNs)
  BY <1>b, <1>t, <1>3, DueTail DEF DueSame, One
<1> QED
  BY <1>1, <1>2, <1>3

LEMMA ExchangeKept ==
    ASSUME NEW s, ExchangeOf(s), SentSame(s), DueSame(s), SecureSame(s), StateSame(s),
           cMsg'[s] = cMsg[s] \/ cMsg'[s].act # "A_RESPONSE"
    PROVE  ExchangeOf(s)'
<1>1. ConfigOf(s)' /\ (Synced(s)' <=> Synced(s))
  BY DEF ExchangeOf, ConfigOf, Synced, SentSame, DueSame, SecureSame, StateSame
<1>2. Synced(s) => ClientOf(s)' /\ ServerOf(s)' /\ AnswerOf(s)'
  BY DEF ExchangeOf, ClientOf, ServerOf, AnswerOf, SentSame, DueSame, SecureSame, StateSame
<1> QED
  BY <1>1, <1>2 DEF ExchangeOf, StateSame

(* What a thread does to the session it uses.                              *)
LEMMA ExchangeConfigures ==
    ASSUME CallInv, NoneDropped, NEW s \in Slots, ExchangeOf(s), DueSame(s), SecureSame(s),
           Configures(s)
    PROVE  ExchangeOf(s)'
<1>t. nsToS \in Seq(Messages) /\ ToNs \in Seq(Messages) /\ global \in [Slots -> GlobalStates]
  BY ToNsType DEF CallInv, TypeOK
<1> DEFINE m == Message(s, "A_CONFIG", 0)
<1>m. m \in Messages /\ m.slot = s /\ m.act = "A_CONFIG"
  BY MessageType DEF Actions, Values
<1>1. nsToS' = Append(nsToS, m)
  BY DEF Configures, write_ns_message, NoneDropped
<1> HIDE DEF m
<1>2. SentConfig(s)' = SentConfig(s) + 1 /\ SentSinceConfig(s)' = 0 /\ SentConfig(s) \in Nat
  BY <1>1, <1>m, <1>t, SentAppend, SentBounds DEF One
<1>3. /\ global[s] = "S_NULL" /\ global'[s] = "S_CONFIG_WAITING"
      /\ client'[s] = client[s] /\ cMsg'[s] = cMsg[s] /\ asked'[s] = asked[s]
  BY <1>t DEF Configures
<1>4. DueAck(s) \in Nat
  BY <1>t, DueBounds
<1>5. ConfigOf(s)' /\ ~Synced(s)'
  BY <1>2, <1>3, <1>4 DEF ExchangeOf, ConfigOf, Synced, One, DueSame, SecureSame
<1> QED
  BY <1>3, <1>5 DEF ExchangeOf

LEMMA ExchangeEnds ==
    ASSUME CallInv, NEW s \in Slots, ExchangeOf(s), DueSame(s), SentSame(s), SecureSame(s),
           Ends(s), global[s] # "S_CONFIG_WAITING"
    PROVE  ExchangeOf(s)'
<1>1. /\ global'[s] = "S_NULL" /\ client'[s] = client[s] /\ cMsg'[s] = cMsg[s]
      /\ asked'[s] = asked[s]
  BY DEF CallInv, TypeOK, Ends
<1>2. ConfigOf(s)' /\ ~Synced(s)'
  BY <1>1 DEF ExchangeOf, ConfigOf, Synced, One, DueSame, SentSame, SecureSame
<1> QED
  BY <1>1, <1>2 DEF ExchangeOf

LEMMA ExchangeTerminates ==
    ASSUME CallInv, NoneDropped, NEW s \in Slots, ExchangeOf(s), DueSame(s), SecureSame(s),
           Terminates(s), global[s] = "S_CONFIGURED"
    PROVE  ExchangeOf(s)'
<1>t. nsToS \in Seq(Messages) /\ ToNs \in Seq(Messages) /\ global \in [Slots -> GlobalStates]
  BY ToNsType DEF CallInv, TypeOK
<1> DEFINE m == Message(s, "A_TERM", 0)
<1>m. m \in Messages /\ m.slot = s /\ m.act = "A_TERM"
  BY MessageType DEF Actions, Values
<1>1. nsToS' = Append(nsToS, m)
  BY DEF Terminates, write_ns_message, NoneDropped
<1> HIDE DEF m
<1>2. SentConfig(s)' = SentConfig(s) /\ SentConfig(s) \in Nat
  BY <1>1, <1>m, <1>t, SentAppend, SentBounds, SMTT(30) DEF One
<1>3. /\ global'[s] = "S_TERM_WAITING" /\ client'[s] = client[s] /\ cMsg'[s] = cMsg[s]
      /\ asked'[s] = asked[s]
  BY <1>t DEF Terminates
<1>5. ConfigOf(s)' /\ ~Synced(s)'
  BY <1>2, <1>3 DEF ExchangeOf, ConfigOf, Synced, One, DueSame, SecureSame
<1> QED
  BY <1>3, <1>5 DEF ExchangeOf

LEMMA ExchangeAsks ==
    ASSUME CallInv, NoneDropped, NEW s \in Slots, ExchangeOf(s), DueSame(s), SecureSame(s),
           NEW v \in Requests, Asks(s, v), global[s] = "S_CONFIGURED"
    PROVE  ExchangeOf(s)'
<1>t. nsToS \in Seq(Messages) /\ ToNs \in Seq(Messages) /\ client \in [Slots -> ClientStates]
      /\ asked \in [Slots -> Requests \cup {0}]
  BY ToNsType DEF CallInv, TypeOK
<1> DEFINE m == Message(s, "A_REQUEST", v)
<1>m. m \in Messages /\ m.slot = s /\ m.act = "A_REQUEST" /\ m.val = v
  BY MessageType DEF Actions, Values
<1>1. nsToS' = Append(nsToS, m)
  BY DEF Asks, write_ns_message, NoneDropped
<1> HIDE DEF m
<1>2. /\ SentConfig(s)' = SentConfig(s) /\ SentTerm(s)' = SentTerm(s)
      /\ SentRequest(s)' = SentRequest(s) + 1 /\ SentCancel(s)' = SentCancel(s)
      /\ SentAnswer(s)' = SentAnswer(s) /\ SentOther(s, v)' = SentOther(s, v)
      /\ RequestsSinceCancel(s)' = RequestsSinceCancel(s) + 1
  <2>1. m.act \notin Answers
    BY <1>m DEF Answers
  <2>2. /\ SentConfig(s)' = SentConfig(s) + 0 /\ SentTerm(s)' = SentTerm(s) + 0
        /\ SentRequest(s)' = SentRequest(s) + 1 /\ SentCancel(s)' = SentCancel(s) + 0
        /\ SentAnswer(s)' = SentAnswer(s) + 0 /\ SentOther(s, v)' = SentOther(s, v) + 0
        /\ RequestsSinceCancel(s)' = RequestsSinceCancel(s) + 1
    BY <1>1, <1>m, <1>t, <2>1, SentAppend DEF One
  <2> QED
    BY <1>t, <2>2, SentBounds
<1>3. /\ global'[s] = "S_CONFIGURED" /\ client[s] = "S_IDLE" /\ client'[s] = "S_WAITING"
      /\ server'[s] = server[s] /\ cMsg'[s] = cMsg[s] /\ asked'[s] = v /\ v # 0
  BY <1>t, SessionAssumption DEF Asks
<1>b. /\ SentConfig(s) \in Nat /\ SentRequest(s) \in Nat /\ SentOther(s, v) \in Nat
      /\ SentOther(s, v) <= SentRequest(s)
      /\ DueAnswer(s) \in Nat /\ DueOther(s, v) \in Nat /\ DueOther(s, v) <= DueAnswer(s)
      /\ DueAck(s) \in Nat /\ DueCancelAck(s) \in Nat /\ DueCancelAck(s) <= DueAnswer(s)
  BY <1>t, SentBounds, DueBounds
<1>4. ConfigOf(s)'
  BY <1>2, <1>3 DEF ExchangeOf, ConfigOf, One, DueSame, SecureSame
<1>5. Synced(s) /\ ClientOf(s) /\ ServerOf(s) /\ AnswerOf(s)
  BY <1>3, <1>b DEF ExchangeOf, ConfigOf, Synced, One
<1>6. SentRequest(s) = 0 /\ sSrv[s] = 0 /\ DueAnswer(s) = 0
  <2>1. SentRequest(s) + One(sSrv[s] # 0) + DueAnswer(s) = 0
    BY <1>3, <1>5 DEF ClientOf, One
  <2>2. CASE sSrv[s] # 0
    BY <1>b, <2>1, <2>2 DEF One
  <2>3. CASE sSrv[s] = 0
    BY <1>b, <2>1, <2>3 DEF One
  <2> QED
    BY <2>2, <2>3
<1>7. ClientOf(s)'
  BY <1>2, <1>3, <1>5, <1>6, <1>b DEF ClientOf, One, DueSame, SecureSame
<1>8. ServerOf(s)'
  BY <1>2, <1>3, <1>5 DEF ServerOf, One, DueSame, SecureSame
<1>9. AnswerOf(s)'
  BY <1>2, <1>3, <1>6, <1>b DEF AnswerOf, DueSame, SecureSame
<1> QED
  BY <1>3, <1>4, <1>7, <1>8, <1>9 DEF ExchangeOf

LEMMA ExchangeCancels ==
    ASSUME CallInv, NoneDropped, NEW s \in Slots, ExchangeOf(s), DueSame(s), SecureSame(s),
           Cancels(s), global[s] = "S_CONFIGURED"
    PROVE  ExchangeOf(s)'
<1>t. nsToS \in Seq(Messages) /\ ToNs \in Seq(Messages) /\ client \in [Slots -> ClientStates]
  BY ToNsType DEF CallInv, TypeOK
<1> DEFINE m == Message(s, "A_CANCEL", 0)
<1>m. m \in Messages /\ m.slot = s /\ m.act = "A_CANCEL"
  BY MessageType DEF Actions, Values
<1>1. nsToS' = Append(nsToS, m)
  BY DEF Cancels, write_ns_message, NoneDropped
<1> HIDE DEF m
<1>2. /\ SentConfig(s)' = SentConfig(s) /\ SentTerm(s)' = SentTerm(s)
      /\ SentRequest(s)' = SentRequest(s) /\ SentAnswer(s)' = SentAnswer(s)
      /\ \A v : SentOther(s, v)' = SentOther(s, v)
  <2>1. m.act \notin Answers
    BY <1>m DEF Answers
  <2>2. /\ SentConfig(s)' = SentConfig(s) + 0 /\ SentTerm(s)' = SentTerm(s) + 0
        /\ SentRequest(s)' = SentRequest(s) + 0 /\ SentAnswer(s)' = SentAnswer(s) + 0
        /\ \A v : SentOther(s, v)' = SentOther(s, v) + 0
    BY <1>1, <1>m, <1>t, <2>1, SentAppend DEF One
  <2> QED
    BY <1>t, <2>2, SentBounds
<1>3. /\ global'[s] = "S_CONFIGURED" /\ client[s] = "S_WAITING"
      /\ client'[s] = "S_CANCEL_WAITING"
      /\ server'[s] = server[s] /\ cMsg'[s] = cMsg[s] /\ asked'[s] = asked[s]
  BY <1>t DEF Cancels
<1>4. ConfigOf(s)' /\ (Synced(s)' => Synced(s))
  BY <1>2, <1>3 DEF ExchangeOf, ConfigOf, Synced, One, DueSame, SecureSame
<1>5. ASSUME Synced(s) PROVE ClientOf(s)' /\ ServerOf(s)' /\ AnswerOf(s)'
  BY <1>2, <1>3, <1>5 DEF ExchangeOf, ClientOf, ServerOf, AnswerOf, One, DueSame, SecureSame
<1> QED
  BY <1>3, <1>4, <1>5 DEF ExchangeOf

LEMMA ExchangeTakes ==
    ASSUME CallInv, NEW s \in Slots, ExchangeOf(s), DueSame(s), SentSame(s), SecureSame(s),
           TakesResponse(s) \/ TakesRequest(s)
    PROVE  ExchangeOf(s)'
<1>t. /\ client \in [Slots -> ClientStates] /\ server \in [Slots -> ServerStates]
      /\ cMsg \in [Slots -> Bodies]
  BY DEF CallInv, TypeOK
<1>1. /\ global'[s] = global[s] /\ asked'[s] = asked[s]
      /\ \/ client[s] = "S_NOTIFIED" /\ client'[s] = "S_IDLE" /\ server'[s] = server[s]
         \/ client'[s] = client[s] /\ cMsg'[s] = cMsg[s]
            /\ server[s] = "S_NOTIFIED" /\ server'[s] = "S_BUSY"
  BY <1>t DEF TakesResponse, TakesRequest
<1>4. ConfigOf(s)' /\ (Synced(s)' => Synced(s))
  BY <1>1 DEF ExchangeOf, ConfigOf, Synced, One, DueSame, SentSame, SecureSame
<1>5. ASSUME Synced(s) PROVE ClientOf(s)' /\ ServerOf(s)' /\ AnswerOf(s)'
  BY <1>1, <1>5 DEF ExchangeOf, ClientOf, ServerOf, AnswerOf, One, DueSame, SentSame, SecureSame
<1> QED
  BY <1>1, <1>4, <1>5 DEF ExchangeOf

LEMMA ExchangeResponds ==
    ASSUME CallInv, NoneDropped, NEW s \in Slots, ExchangeOf(s), DueSame(s), SecureSame(s),
           NEW m \in Messages, m.slot = s, m.act \in Answers, nsToS' = Append(nsToS, m),
           global[s] = "S_CONFIGURED", server[s] \in {"S_NOTIFIED", "S_BUSY"},
           server'[s] = "S_IDLE", global'[s] = global[s], client'[s] = client[s],
           cMsg'[s] = cMsg[s], asked'[s] = asked[s]
    PROVE  ExchangeOf(s)'
<1>t. nsToS \in Seq(Messages) /\ ToNs \in Seq(Messages)
  BY ToNsType
<1>1. m.act \notin {"A_CONFIG", "A_TERM", "A_REQUEST", "A_CANCEL"}
  BY DEF Answers
<1>2. /\ SentConfig(s)' = SentConfig(s) /\ SentTerm(s)' = SentTerm(s)
      /\ SentRequest(s)' = SentRequest(s) /\ SentAnswer(s)' = SentAnswer(s) + 1
      /\ SentCancel(s)' = SentCancel(s) /\ RequestsSinceCancel(s)' = RequestsSinceCancel(s)
      /\ \A v : SentOther(s, v)' = SentOther(s, v)
  <2>1. /\ SentConfig(s)' = SentConfig(s) + 0 /\ SentTerm(s)' = SentTerm(s) + 0
        /\ SentRequest(s)' = SentRequest(s) + 0 /\ SentAnswer(s)' = SentAnswer(s) + 1
        /\ SentCancel(s)' = SentCancel(s) + 0
        /\ RequestsSinceCancel(s)' = RequestsSinceCancel(s) + 0
        /\ \A v : SentOther(s, v)' = SentOther(s, v) + 0
    BY <1>1, <1>t, SentAppend DEF One
  <2> QED
    BY <1>t, <2>1, SentBounds
<1>b. SentAnswer(s) \in Nat /\ DueRequest(s) \in Nat
  BY <1>t, SentBounds, DueBounds
<1>3. ConfigOf(s)' /\ (Synced(s)' => Synced(s))
  BY <1>2 DEF ExchangeOf, ConfigOf, Synced, One, DueSame, SecureSame
<1>4. ASSUME Synced(s) PROVE ClientOf(s)' /\ AnswerOf(s)'
  BY <1>2, <1>4 DEF ExchangeOf, ClientOf, AnswerOf, One, DueSame, SecureSame
<1>5. ASSUME Synced(s) PROVE ServerOf(s)'
  BY <1>2, <1>5, <1>b DEF ExchangeOf, ServerOf, One, DueSame, SecureSame
<1> QED
  BY <1>3, <1>4, <1>5 DEF ExchangeOf

LEMMA ExchangeThread ==
    ASSUME CallInv, FreeInv, UserInv, NoneDropped, ExchangeInv, NEW t \in Threads, Thread(t)
    PROVE  ExchangeInv'
<1>1. SUFFICES ASSUME NEW s \in Slots PROVE ExchangeOf(s)'
  BY DEF ExchangeInv
<1>2. ExchangeOf(s) /\ UserOf(t)
  BY DEF ExchangeInv, UserInv
<1>3. Effect(t) /\ UNCHANGED <<sState, sSrv, sCli, sToNs, inHand>>
  BY ThreadEffect
<1>4. SecureSame(s) /\ DueSame(s)
  <2>1. UNCHANGED ToNs
    BY <1>3 DEF ToNs
  <2> QED
    BY <1>3, <2>1, DueKept DEF SecureSame
<1>t. /\ global \in [Slots -> GlobalStates] /\ client \in [Slots -> ClientStates]
      /\ server \in [Slots -> ServerStates] /\ cMsg \in [Slots -> Bodies]
      /\ asked \in [Slots -> Requests \cup {0}]
  BY DEF CallInv, TypeOK
<1>n. NoMessage.act # "A_RESPONSE"
  BY DEF NoMessage
<1>5. CASE Nothing
  BY <1>2, <1>4, <1>5, SentKept, ExchangeKept DEF Nothing, StateSame
<1>6. ASSUME NEW x \in Slots, Opens(x) \/ Forgets(x) PROVE ExchangeOf(s)'
  <2>1. UNCHANGED <<nsToS, global, client, server, asked>>
    BY <1>6 DEF Opens, Forgets
  <2>2. cMsg'[s] = cMsg[s] \/ cMsg'[s] = NoMessage
    BY <1>6, <1>t DEF Opens, Forgets
  <2> QED
    BY <1>2, <1>4, <1>n, <2>1, <2>2, SentKept, ExchangeKept DEF StateSame
<1>7. ASSUME handle[t] \in Slots, handle[t] # s,
             Configures(handle[t]) \/ Exchanges(handle[t]) \/ Ends(handle[t])
      PROVE  ExchangeOf(s)'
  <2>1. StateSame(s) /\ cMsg'[s] = cMsg[s]
    BY <1>7, <1>t DEF Configures, Exchanges, Ends, Asks, Cancels, TakesResponse, TakesRequest,
                      Responds, Terminates, StateSame
  <2>2. \/ UNCHANGED nsToS
        \/ \E a \in Actions, v \in Requests \cup {0} :
              write_ns_message(Message(handle[t], a, v))
    <3>1. CASE Configures(handle[t]) \/ Cancels(handle[t]) \/ Responds(handle[t])
               \/ Terminates(handle[t])
      BY <3>1 DEF Configures, Cancels, Responds, Terminates, Actions
    <3>2. CASE \E v \in Requests : Asks(handle[t], v)
      BY <3>2 DEF Asks, Actions
    <3>3. CASE Ends(handle[t]) \/ TakesResponse(handle[t]) \/ TakesRequest(handle[t])
      BY <3>3 DEF Ends, TakesResponse, TakesRequest
    <3> QED
      BY <1>7, <3>1, <3>2, <3>3 DEF Exchanges
  <2>3. ASSUME NEW a \in Actions, NEW v \in Requests \cup {0},
               write_ns_message(Message(handle[t], a, v))
        PROVE  \E m \in Messages : m.slot # s /\ nsToS' = Append(nsToS, m)
    <3>1. Message(handle[t], a, v) \in Messages /\ Message(handle[t], a, v).slot # s
      BY <1>7, <2>3, MessageType DEF Values
    <3>2. nsToS' = Append(nsToS, Message(handle[t], a, v))
      BY <2>3 DEF write_ns_message, NoneDropped
    <3> QED
      BY <3>1, <3>2
  <2>4. SentSame(s)
    BY <2>2, <2>3, SentKept
  <2> QED
    BY <1>2, <1>4, <2>1, <2>4, ExchangeKept
<1>8. ASSUME handle[t] = s, pc[t] = "idle", Configures(s) PROVE ExchangeOf(s)'
  BY <1>2, <1>4, <1>8, ExchangeConfigures
<1>9. ASSUME handle[t] = s, pc[t] \in InSession, Exchanges(s) PROVE ExchangeOf(s)'
  <2>1. global[s] = "S_CONFIGURED"
    BY <1>2, <1>9 DEF UserOf, Knows
  <2>2. CASE Responds(s)
    <3>1. Message(s, "A_RESPONSE", 0) \in Messages /\ Message(s, "A_RESPONSE", 0).slot = s
          /\ Message(s, "A_RESPONSE", 0).act \in Answers
      BY MessageType DEF Values, Actions, Answers
    <3>2. nsToS' = Append(nsToS, Message(s, "A_RESPONSE", 0))
      BY <2>2 DEF Responds, write_ns_message, NoneDropped
    <3>3. /\ server[s] \in {"S_NOTIFIED", "S_BUSY"} /\ server'[s] = "S_IDLE"
          /\ global'[s] = global[s] /\ client'[s] = client[s] /\ cMsg'[s] = cMsg[s]
          /\ asked'[s] = asked[s]
      BY <1>t, <2>2 DEF Responds
    <3> QED
      BY <1>2, <1>4, <2>1, <3>1, <3>2, <3>3, ExchangeResponds
  <2>3. CASE TakesResponse(s) \/ TakesRequest(s)
    <3>1. UNCHANGED nsToS
      BY <2>3 DEF TakesResponse, TakesRequest
    <3> QED
      BY <1>2, <1>4, <2>3, <3>1, SentKept, ExchangeTakes
  <2> QED
    BY <1>2, <1>4, <1>9, <2>1, <2>2, <2>3, ExchangeAsks, ExchangeCancels, ExchangeTerminates
       DEF Exchanges
<1>10. ASSUME handle[t] = s, pc[t] \in {"reap", "close_fin"}, Ends(s) PROVE ExchangeOf(s)'
  <2>1. global[s] # "S_CONFIG_WAITING"
    BY <1>2, <1>10 DEF UserOf, Knows
  <2>2. UNCHANGED nsToS
    BY <1>10 DEF Ends
  <2> QED
    BY <1>2, <1>4, <1>10, <2>1, <2>2, SentKept, ExchangeEnds
<1> QED
  BY <1>3, <1>5, <1>6, <1>7, <1>8, <1>9, <1>10 DEF Effect

(* What the work item does to the session of the message it handles.       *)
LEMMA ExchangeOnRequest ==
    ASSUME CallInv, CallInv', ToNs # <<>>, ToNs' = Tail(ToNs), NEW m, m = Head(ToNs),
           NEW s \in Slots, m.slot = s, m.act = "A_REQUEST", OnRequest(s, m),
           UNCHANGED asked, SecureSame(s), ExchangeOf(s)
    PROVE  ExchangeOf(s)'
<1>t. ToNs \in Seq(Messages) /\ nsToS \in Seq(Messages) /\ server \in [Slots -> ServerStates]
  BY ToNsType DEF CallInv, TypeOK
<1>b. /\ SentConfig(s) \in Nat /\ SentAnswer(s) \in Nat /\ DueAck(s) \in Nat /\ DueGrant(s) \in Nat
      /\ DueRequest(s) \in Nat /\ DueRequest(s)' \in Nat
      /\ DueAnswer(s) \in Nat /\ DueCancelAck(s) \in Nat /\ \A v : DueOther(s, v) \in Nat
  BY <1>t, SentBounds, DueBounds, DueBoundsNext
<1>1. /\ DueAck(s)' = DueAck(s) /\ DueGrant(s)' = DueGrant(s) /\ DueAnswer(s)' = DueAnswer(s)
      /\ DueCancelAck(s)' = DueCancelAck(s) /\ \A v : DueOther(s, v)' = DueOther(s, v)
      /\ DueAck(s) = 0 => DueRequest(s)' = DueRequest(s) - 1
      /\ DueAck(s) # 0 => DueRequest(s)' = DueRequest(s)
  <2>1. m.act \notin Answers
    BY DEF Answers
  <2>2. /\ DueAck(s)' = DueAck(s) - 0 /\ DueGrant(s)' = DueGrant(s) - 0
        /\ DueAnswer(s)' = DueAnswer(s) - 0 /\ DueCancelAck(s)' = DueCancelAck(s) - 0
    BY <1>t, <2>1, DueTail DEF One
  <2>3. ASSUME NEW v PROVE DueOther(s, v)' = DueOther(s, v) - 0
    <3>1. DueOther(s, v)' = DueOther(s, v)
            - One(m.slot = s /\ m.act = "A_RESPONSE" /\ m.val # v /\ DueAck(s) = 0)
      BY <1>t, DueTail
    <3>2. One(m.slot = s /\ m.act = "A_RESPONSE" /\ m.val # v /\ DueAck(s) = 0) = 0
      BY DEF One
    <3> QED
      BY <3>1, <3>2
  <2>4. DueRequest(s)' = DueRequest(s) - One(DueAck(s) = 0)
    BY <1>t, DueTail DEF One
  <2> QED
    BY <1>b, <2>2, <2>3, <2>4 DEF One
<1>2. SentSame(s) /\ global'[s] = global[s] /\ client'[s] = client[s]
      /\ cMsg'[s] = cMsg[s] /\ asked'[s] = asked[s]
  BY SentKept DEF OnRequest
<1>3. CASE global[s] = "S_CONFIGURED"
  <2>1. DueAck(s) = 0 /\ SentConfig(s) = 0 /\ Synced(s) /\ server[s] # "S_NULL"
    BY <1>3, <1>b DEF ExchangeOf, ConfigOf, Synced, One
  <2>2. ClientOf(s) /\ ServerOf(s) /\ AnswerOf(s)
    BY <2>1 DEF ExchangeOf
  <2>3. server[s] = "S_IDLE"
    BY <1>1, <1>3, <1>b, <1>t, <2>1, <2>2 DEF ServerOf, One, ServerStates
  <2>4. server'[s] = "S_NOTIFIED"
    BY <1>3, <1>t, <2>3 DEF OnRequest
  <2>5. ServerOf(s)'
    BY <1>1, <1>2, <1>3, <1>b, <2>1, <2>2, <2>3, <2>4 DEF ServerOf, One, SentSame, SecureSame
  <2>6. ConfigOf(s)'
    BY <1>1, <1>2, <2>4 DEF ExchangeOf, ConfigOf, SentSame, SecureSame
  <2>7. ClientOf(s)' /\ AnswerOf(s)'
    BY <1>1, <1>2, <2>2 DEF ClientOf, AnswerOf, SentSame, SecureSame
  <2> QED
    BY <1>2, <2>5, <2>6, <2>7 DEF ExchangeOf
<1>4. CASE global[s] # "S_CONFIGURED"
  <2>1. server'[s] = server[s]
    BY <1>4 DEF OnRequest
  <2>2. CASE Synced(s)
    <3>0. DueAck(s) # 0
      <4>1. global[s] = "S_CONFIG_WAITING" /\ SentConfig(s) = 0
        BY <1>4, <2>2 DEF Synced
      <4>2. SentConfig(s) + DueAck(s) = 1
        BY <4>1 DEF ExchangeOf, ConfigOf, One
      <4> QED
        BY <1>b, <4>1, <4>2
    <3>1. DueSame(s)
      BY <1>1, <3>0 DEF DueSame
    <3> QED
      BY <1>2, <2>1, <3>1, ExchangeKept DEF StateSame
  <2>3. CASE ~Synced(s)
    <3>1. ConfigOf(s)' /\ ~Synced(s)'
      BY <1>1, <1>2, <2>1, <2>3 DEF ExchangeOf, ConfigOf, Synced, SentSame, SecureSame
    <3> QED
      BY <1>2, <3>1 DEF ExchangeOf
  <2> QED
    BY <2>2, <2>3
<1> QED
  BY <1>3, <1>4

LEMMA ExchangeOnResponse ==
    ASSUME CallInv, CallInv', ToNs # <<>>, ToNs' = Tail(ToNs), NEW m, m = Head(ToNs),
           NEW s \in Slots, m.slot = s, m.act \in Answers, OnResponse(s, m),
           UNCHANGED asked, SecureSame(s), ExchangeOf(s)
    PROVE  ExchangeOf(s)'
<1>t. /\ ToNs \in Seq(Messages) /\ nsToS \in Seq(Messages) /\ client \in [Slots -> ClientStates]
      /\ cMsg \in [Slots -> Bodies]
  BY ToNsType DEF CallInv, TypeOK
<1>b. /\ SentConfig(s) \in Nat /\ SentRequest(s) \in Nat /\ RequestsSinceCancel(s) \in Nat
      /\ RequestsSinceCancel(s) <= SentRequest(s)
      /\ DueAck(s) \in Nat /\ DueGrant(s) \in Nat /\ DueRequest(s) \in Nat
      /\ DueAnswer(s) \in Nat /\ DueAnswer(s)' \in Nat
      /\ DueCancelAck(s) \in Nat /\ DueCancelAck(s)' \in Nat /\ DueCancelAck(s)' <= DueAnswer(s)'
      /\ \A v : DueOther(s, v) \in Nat /\ DueOther(s, v)' \in Nat /\ DueOther(s, v)' <= DueAnswer(s)'
  BY <1>t, SentBounds, DueBounds, DueBoundsNext
<1>1. /\ DueAck(s)' = DueAck(s) /\ DueGrant(s)' = DueGrant(s) /\ DueRequest(s)' = DueRequest(s)
      /\ DueAck(s) = 0 => DueAnswer(s)' = DueAnswer(s) - 1
      /\ (DueAck(s) = 0 /\ m.act = "A_CANCEL_ACK") => DueCancelAck(s)' = DueCancelAck(s) - 1
      /\ (DueAck(s) = 0 /\ m.act = "A_RESPONSE" /\ m.val # asked[s]) =>
            DueOther(s, asked[s])' = DueOther(s, asked[s]) - 1
      /\ DueAck(s) # 0 => DueSame(s)
  <2>1. m.act # "A_CONFIG_ACK" /\ m.act # "A_REQUEST"
    BY DEF Answers
  <2>2. /\ DueAck(s)' = DueAck(s) /\ DueGrant(s)' = DueGrant(s) /\ DueRequest(s)' = DueRequest(s)
        /\ DueAck(s) = 0 => DueAnswer(s)' = DueAnswer(s) - 1
        /\ (DueAck(s) = 0 /\ m.act = "A_CANCEL_ACK") => DueCancelAck(s)' = DueCancelAck(s) - 1
        /\ (DueAck(s) = 0 /\ m.act = "A_RESPONSE" /\ m.val # asked[s]) =>
              DueOther(s, asked[s])' = DueOther(s, asked[s]) - 1
    BY <1>b, <1>t, <2>1, DueTail, SMTT(30) DEF One
  <2>3. DueAck(s) # 0 => DueSame(s)
    BY <1>b, <1>t, <2>1, DueTail DEF One, DueSame
  <2> QED
    BY <2>2, <2>3
<1>2. SentSame(s) /\ global'[s] = global[s] /\ server'[s] = server[s] /\ asked'[s] = asked[s]
  BY SentKept DEF OnResponse
<1>3. CASE global[s] = "S_CONFIGURED"
  <2>1. DueAck(s) = 0 /\ SentConfig(s) = 0 /\ Synced(s)
    BY <1>3, <1>b DEF ExchangeOf, ConfigOf, Synced, One
  <2>2. ClientOf(s) /\ ServerOf(s) /\ AnswerOf(s)
    BY <2>1 DEF ExchangeOf
  <2>3. /\ client[s] \in {"S_WAITING", "S_CANCEL_WAITING"} /\ DueAnswer(s) = 1
        /\ SentRequest(s) = 0 /\ sSrv[s] = 0
    <3>1. DueAnswer(s) >= 1
      BY <1>1, <1>b, <2>1
    <3>2. SentRequest(s) + One(sSrv[s] # 0) + DueAnswer(s)
            = One(client[s] \in {"S_WAITING", "S_CANCEL_WAITING"})
      BY <1>3, <2>2 DEF ClientOf, One
    <3>3. CASE sSrv[s] # 0
      BY <1>b, <3>1, <3>2, <3>3 DEF One
    <3>4. CASE sSrv[s] = 0
      BY <1>b, <3>1, <3>2, <3>4 DEF One
    <3> QED
      BY <3>3, <3>4
  <2>4. m.act = "A_CANCEL_ACK" => client[s] = "S_CANCEL_WAITING"
    BY <1>1, <1>b, <2>1, <2>2 DEF ClientOf
  <2>5. client[s] \in Awaits(m.act)
    BY <2>3, <2>4 DEF Awaits, Answers
  <2>6. client'[s] = "S_NOTIFIED" /\ cMsg'[s].act = m.act /\ cMsg'[s].val = m.val
    BY <1>3, <1>t, <2>5 DEF OnResponse
  <2>7. m.act = "A_RESPONSE" => m.val = asked[s]
    BY <1>1, <1>b, <2>1, <2>2 DEF AnswerOf
  <2>8. DueAnswer(s)' = 0 /\ DueCancelAck(s)' = 0 /\ \A v : DueOther(s, v)' = 0
    <3>1. DueAnswer(s)' = 0
      BY <1>1, <2>1, <2>3
    <3> QED
      BY <1>b, <3>1
  <2>9. ClientOf(s)'
    BY <1>2, <1>3, <1>b, <2>3, <2>6, <2>8 DEF ClientOf, One, SentSame, SecureSame
  <2>10. ServerOf(s)' /\ AnswerOf(s)'
    BY <1>1, <1>2, <2>2, <2>8 DEF ServerOf, AnswerOf, SentSame, SecureSame
  <2>11. ConfigOf(s)'
    BY <1>1, <1>2, <2>6 DEF ExchangeOf, ConfigOf, SentSame, SecureSame
  <2> QED
    BY <1>2, <2>6, <2>7, <2>9, <2>10, <2>11 DEF ExchangeOf
<1>4. CASE global[s] # "S_CONFIGURED"
  <2>1. client'[s] = client[s] /\ cMsg'[s] = cMsg[s]
    BY <1>4 DEF OnResponse
  <2>2. CASE Synced(s)
    <3>0. DueAck(s) # 0
      <4>1. global[s] = "S_CONFIG_WAITING" /\ SentConfig(s) = 0
        BY <1>4, <2>2 DEF Synced
      <4>2. SentConfig(s) + DueAck(s) = 1
        BY <4>1 DEF ExchangeOf, ConfigOf, One
      <4> QED
        BY <1>b, <4>1, <4>2
    <3>1. DueSame(s)
      BY <1>1, <3>0
    <3> QED
      BY <1>2, <2>1, <3>1, ExchangeKept DEF StateSame
  <2>3. CASE ~Synced(s)
    <3>1. ConfigOf(s)' /\ ~Synced(s)'
      BY <1>1, <1>2, <2>1, <2>3 DEF ExchangeOf, ConfigOf, Synced, SentSame, SecureSame
    <3> QED
      BY <1>2, <2>1, <3>1 DEF ExchangeOf
  <2> QED
    BY <2>2, <2>3
<1> QED
  BY <1>3, <1>4

LEMMA ExchangeOnConfigAck ==
    ASSUME CallInv, CallInv', ToNs # <<>>, ToNs' = Tail(ToNs), NEW m, m = Head(ToNs),
           NEW s \in Slots, m.slot = s, m.act = "A_CONFIG_ACK", OnConfigAck(s, m),
           UNCHANGED asked, SecureSame(s), ExchangeOf(s)
    PROVE  ExchangeOf(s)'
<1>t. /\ ToNs \in Seq(Messages) /\ nsToS \in Seq(Messages) /\ client \in [Slots -> ClientStates]
      /\ server \in [Slots -> ServerStates] /\ global \in [Slots -> GlobalStates]
      /\ cMsg \in [Slots -> Bodies]
  BY ToNsType DEF CallInv, TypeOK
<1>b. /\ SentConfig(s) \in Nat /\ SentRequest(s) \in Nat /\ RequestsSinceCancel(s) \in Nat
      /\ RequestsSinceCancel(s) <= SentRequest(s)
      /\ (SentConfig(s) = 0 /\ SentSinceConfig(s) = 0) =>
           SentTerm(s) = 0 /\ SentRequest(s) = 0 /\ SentCancel(s) = 0
      /\ DueAck(s) \in Nat /\ DueAck(s)' \in Nat /\ DueGrant(s) \in Nat /\ DueGrant(s)' \in Nat
      /\ DueGrant(s)' <= DueAck(s)' /\ DueRequest(s) \in Nat
      /\ DueAnswer(s) \in Nat /\ DueCancelAck(s) \in Nat /\ DueCancelAck(s) <= DueAnswer(s)
      /\ \A v : DueOther(s, v) \in Nat
  BY <1>t, SentBounds, DueBounds, DueBoundsNext
<1>1. /\ DueAck(s)' = DueAck(s) - 1
      /\ m.val = 0 => DueGrant(s)' = DueGrant(s) - 1
      /\ DueRequest(s)' = DueRequest(s) /\ DueAnswer(s)' = DueAnswer(s)
      /\ DueCancelAck(s)' = DueCancelAck(s) /\ \A v : DueOther(s, v)' = DueOther(s, v)
  <2>1. m.act \notin Answers
    BY DEF Answers
  <2> QED
    BY <1>b, <1>t, <2>1, DueTail, SMTT(30) DEF One
<1>2. SentSame(s) /\ asked'[s] = asked[s]
  BY SentKept DEF OnConfigAck
<1>3. global[s] = "S_CONFIG_WAITING" /\ SentConfig(s) = 0 /\ DueAck(s) = 1 /\ SentSinceConfig(s) = 0
  BY <1>1, <1>b DEF ExchangeOf, ConfigOf, One
<1>4. DueAck(s)' = 0 /\ DueGrant(s)' = 0
  BY <1>1, <1>3, <1>b
<1>5. CASE m.val = 0
  <2>1. global'[s] = "S_CONFIGURED" /\ server'[s] = "S_IDLE" /\ client'[s] = "S_IDLE"
        /\ cMsg'[s] = cMsg[s]
    BY <1>3, <1>5, <1>t DEF OnConfigAck
  <2>2. sState[s] = "conf"
    BY <1>1, <1>5, <1>b DEF ExchangeOf, ConfigOf
  <2>3. ClientOf(s) /\ ServerOf(s) /\ AnswerOf(s)
    BY <1>3, <2>2 DEF ExchangeOf, Synced
  <2>4. ConfigOf(s)'
    BY <1>2, <1>3, <1>4, <1>b, <2>1, <2>2 DEF ConfigOf, One, SentSame, SecureSame
  <2>5. sSrv[s] = 0 /\ DueAnswer(s) = 0 /\ SentRequest(s) = 0 /\ SentCancel(s) = 0
    <3>1. SentRequest(s) + One(sSrv[s] # 0) + DueAnswer(s) = 0
      BY <1>3, <2>3 DEF ClientOf, One
    <3>2. CASE sSrv[s] # 0
      BY <1>b, <3>1, <3>2 DEF One
    <3>3. CASE sSrv[s] = 0
      BY <1>3, <1>b, <3>1, <3>3 DEF One
    <3> QED
      BY <3>2, <3>3
  <2>6. ClientOf(s)'
    BY <1>1, <1>2, <1>b, <2>1, <2>5 DEF ClientOf, One, SentSame, SecureSame
  <2>7. ServerOf(s)'
    BY <1>1, <1>2, <1>3, <2>1, <2>3 DEF ServerOf, One, SentSame, SecureSame
  <2>8. AnswerOf(s)'
    BY <1>1, <1>2, <2>3 DEF AnswerOf, SentSame, SecureSame
  <2> QED
    BY <2>1, <2>4, <2>6, <2>7, <2>8 DEF ExchangeOf
<1>6. CASE m.val # 0
  <2>1. global'[s] = "S_NULL" /\ client'[s] = client[s] /\ cMsg'[s].act # "A_RESPONSE"
    BY <1>3, <1>6, <1>t DEF OnConfigAck
  <2>2. ConfigOf(s)' /\ ~Synced(s)'
    BY <1>2, <1>3, <1>4, <2>1 DEF ConfigOf, Synced, One, SentSame, SecureSame
  <2> QED
    BY <1>2, <2>1, <2>2 DEF ExchangeOf
<1> QED
  BY <1>5, <1>6

LEMMA ExchangeOnCancel ==
    ASSUME CallInv, NoneDropped, NEW s \in Slots, NEW m, OnCancel(s, m), DueSame(s),
           UNCHANGED asked, SecureSame(s), ExchangeOf(s)
    PROVE  ExchangeOf(s)'
<1>1. global'[s] = global[s] /\ client'[s] = client[s] /\ cMsg'[s] = cMsg[s] /\ asked'[s] = asked[s]
  BY DEF OnCancel
<1>2. CASE global[s] = "S_CONFIGURED" /\ server[s] = "S_NOTIFIED"
  <2>1. server'[s] = "S_IDLE"
    BY <1>2 DEF OnCancel, CallInv, TypeOK
  <2>2. nsToS' = Append(nsToS, Message(s, "A_CANCEL_ACK", 0))
    BY <1>2 DEF OnCancel, write_ns_message, NoneDropped
  <2>3. /\ Message(s, "A_CANCEL_ACK", 0) \in Messages /\ Message(s, "A_CANCEL_ACK", 0).slot = s
        /\ Message(s, "A_CANCEL_ACK", 0).act \in Answers
    BY MessageType DEF Values, Actions, Answers
  <2> QED
    BY <1>1, <1>2, <2>1, <2>2, <2>3, ExchangeResponds
<1>3. CASE ~(global[s] = "S_CONFIGURED" /\ server[s] = "S_NOTIFIED")
  <2>1. UNCHANGED <<server, nsToS>>
    BY <1>3 DEF OnCancel
  <2> QED
    BY <1>1, <2>1, SentKept, ExchangeKept DEF StateSame
<1> QED
  BY <1>2, <1>3

LEMMA ExchangeWorker ==
    ASSUME CallInv, CallInv', FreeInv, UserInv, NoneDropped, ExchangeInv, WorkerTake \/ WorkerHandle
    PROVE  ExchangeInv'
<1>1. SUFFICES ASSUME NEW s \in Slots PROVE ExchangeOf(s)'
  BY DEF ExchangeInv
<1>2. ExchangeOf(s)
  BY DEF ExchangeInv
<1>t. /\ global \in [Slots -> GlobalStates] /\ client \in [Slots -> ClientStates]
      /\ server \in [Slots -> ServerStates] /\ cMsg \in [Slots -> Bodies]
      /\ ToNs \in Seq(Messages) /\ nsToS \in Seq(Messages)
  BY ToNsType DEF CallInv, TypeOK
<1>3. CASE WorkerTake
  <2>1. /\ StateSame(s) /\ cMsg'[s] = cMsg[s] /\ SecureSame(s) /\ UNCHANGED nsToS
    BY <1>3 DEF WorkerTake, StateSame, SecureSame
  <2>2. SentSame(s)
    BY <2>1, SentKept
  <2>3. CASE ToNs' = ToNs
    BY <1>2, <2>1, <2>2, <2>3, DueKept, ExchangeKept
  <2>4. CASE free[Head(ToNs).slot] /\ ToNs' = Tail(ToNs) /\ ToNs # <<>>
    <3>1. CASE Head(ToNs).slot # s
      BY <1>2, <2>1, <2>2, <2>4, <3>1, DueKept, ExchangeKept
    <3>2. CASE Head(ToNs).slot = s
      <4>1. global[s] = "S_NULL"
        BY <2>4, <3>2 DEF FreeInv
      <4>b. SentConfig(s) \in Nat /\ DueAck(s) \in Nat /\ DueAck(s)' \in Nat
            /\ DueGrant(s)' \in Nat /\ DueGrant(s)' <= DueAck(s)'
        BY <1>t, SentBounds, DueBounds, DueBoundsNext
      <4>2. DueAck(s) = 0 /\ SentConfig(s) = 0
        BY <1>2, <4>1, <4>b DEF ExchangeOf, ConfigOf, One
      <4>3. DueAck(s)' <= DueAck(s)
        BY <1>t, <2>4, <4>b, DueTail, SMTT(30) DEF One
      <4>4. DueAck(s)' = 0 /\ DueGrant(s)' = 0
        BY <4>2, <4>3, <4>b
      <4>5. ConfigOf(s)' /\ ~Synced(s)'
        BY <2>1, <2>2, <4>1, <4>2, <4>4 DEF ConfigOf, Synced, One, StateSame, SentSame, SecureSame
      <4> QED
        BY <1>2, <2>1, <4>5 DEF ExchangeOf, StateSame
    <3> QED
      BY <3>1, <3>2
  <2> QED
    BY <1>3, <2>3, <2>4, ToNsTake
<1>4. CASE WorkerHandle
  <2>1. PICK m : m = Head(inHand)
    OBVIOUS
  <2>2. /\ inHand # <<>> /\ inHand' = <<>> /\ m.slot \in Slots /\ m \in Messages /\ m.act # "A_TERM"
        /\ UNCHANGED <<sToNs, sState, sSrv, sCli, asked>>
    BY <1>4, <2>1, HandlerCases, MessageType DEF WorkerHandle, UserInv
  <2>3. ToNs # <<>> /\ m = Head(ToNs) /\ ToNs' = Tail(ToNs)
    BY <2>1, <2>2, ToNsHandle
  <2>4. SecureSame(s)
    BY <2>2 DEF SecureSame
  <2>5. \/ m.act = "A_REQUEST" /\ OnRequest(m.slot, m)
        \/ m.act \in Answers /\ OnResponse(m.slot, m)
        \/ m.act = "A_CONFIG_ACK" /\ OnConfigAck(m.slot, m)
        \/ m.act = "A_CANCEL" /\ OnCancel(m.slot, m)
        \/ m.act = "A_TERM_ACK" /\ OnTermAck(m.slot, m)
    BY <1>4, <2>1, <2>2, HandlerCases DEF Answers
  <2>6. CASE m.slot # s
    <3>1. StateSame(s) /\ cMsg'[s] = cMsg[s]
      BY <1>t, <2>2, <2>5, <2>6
         DEF OnRequest, OnResponse, OnConfigAck, OnCancel, OnTermAck, StateSame
    <3>2. UNCHANGED nsToS \/ nsToS' = Append(nsToS, Message(m.slot, "A_CANCEL_ACK", 0))
      BY <2>5 DEF OnRequest, OnResponse, OnConfigAck, OnCancel, OnTermAck, write_ns_message
    <3>3. /\ Message(m.slot, "A_CANCEL_ACK", 0) \in Messages
          /\ Message(m.slot, "A_CANCEL_ACK", 0).slot # s
      BY <2>2, <2>6, MessageType DEF Values, Actions
    <3> QED
      BY <1>2, <2>3, <2>4, <2>6, <3>1, <3>2, <3>3, SentKept, DueKept, ExchangeKept
  <2>7. CASE m.slot = s
    <3>1. CASE m.act = "A_REQUEST" /\ OnRequest(s, m)
      BY <1>2, <2>2, <2>3, <2>4, <2>7, <3>1, ExchangeOnRequest
    <3>2. CASE m.act \in Answers /\ OnResponse(s, m)
      BY <1>2, <2>2, <2>3, <2>4, <2>7, <3>2, ExchangeOnResponse
    <3>3. CASE m.act = "A_CONFIG_ACK" /\ OnConfigAck(s, m)
      BY <1>2, <2>2, <2>3, <2>4, <2>7, <3>3, ExchangeOnConfigAck
    <3>4. ASSUME m.act \in {"A_CANCEL", "A_TERM_ACK"} PROVE DueSame(s)
      <4>1. m.act \notin Answers /\ m.act # "A_REQUEST" /\ m.act # "A_CONFIG_ACK"
            /\ m.act # "A_RESPONSE" /\ m.act # "A_CANCEL_ACK"
        BY <3>4 DEF Answers
      <4>b. /\ DueAck(s) \in Nat /\ DueGrant(s) \in Nat /\ DueRequest(s) \in Nat
            /\ DueAnswer(s) \in Nat /\ DueCancelAck(s) \in Nat /\ \A v : DueOther(s, v) \in Nat
        BY <1>t, DueBounds
      <4>2. /\ DueAck(s)' = DueAck(s) - 0 /\ DueGrant(s)' = DueGrant(s) - 0
            /\ DueRequest(s)' = DueRequest(s) - 0
            /\ DueAnswer(s)' = DueAnswer(s) - 0 /\ DueCancelAck(s)' = DueCancelAck(s) - 0
        BY <1>t, <2>3, <4>1, DueTail DEF One
      <4>3. ASSUME NEW v PROVE DueOther(s, v)' = DueOther(s, v) - 0
        <5>1. DueOther(s, v)' = DueOther(s, v)
                - One(m.slot = s /\ m.act = "A_RESPONSE" /\ m.val # v /\ DueAck(s) = 0)
          BY <1>t, <2>3, DueTail
        <5>2. One(m.slot = s /\ m.act = "A_RESPONSE" /\ m.val # v /\ DueAck(s) = 0) = 0
          BY <4>1 DEF One
        <5> QED
          BY <5>1, <5>2
      <4> QED
        BY <4>2, <4>3, <4>b DEF DueSame
    <3>5. CASE m.act = "A_CANCEL" /\ OnCancel(s, m)
      BY <1>2, <2>2, <2>4, <3>4, <3>5, ExchangeOnCancel
    <3>6. CASE m.act = "A_TERM_ACK" /\ OnTermAck(s, m)
      <4>1. UNCHANGED <<nsToS, global, client, server, cMsg>>
        BY <3>6 DEF OnTermAck
      <4> QED
        BY <1>2, <2>2, <2>4, <3>4, <3>6, <4>1, SentKept, ExchangeKept DEF StateSame
    <3> QED
      BY <2>5, <2>7, <3>1, <3>2, <3>3, <3>5, <3>6
  <2> QED
    BY <2>6, <2>7
<1> QED
  BY <1>3, <1>4

(* What the secure world does to the session of the message it consumes.   *)
LEMMA ExchangeSecureConfig ==
    ASSUME CallInv, CallInv', nsToS # <<>>, nsToS' = Tail(nsToS), NEW m, m = Head(nsToS),
           NEW s \in Slots, m.slot = s, m.act = "A_CONFIG", ExchangeOf(s), StateSame(s),
           cMsg'[s] = cMsg[s], NEW v \in {0, 1},
           ToNs' = Append(ToNs, Message(s, "A_CONFIG_ACK", v)),
           \/ v = 0 /\ sState'[s] = "conf" /\ sSrv'[s] = 0 /\ sCli'[s] = "idle"
           \/ v = 1 /\ sState'[s] = "null"
    PROVE  ExchangeOf(s)'
<1>t. ToNs \in Seq(Messages) /\ nsToS \in Seq(Messages)
  BY ToNsType
<1> DEFINE a == Message(s, "A_CONFIG_ACK", v)
<1>a. a \in Messages /\ a.slot = s /\ a.act = "A_CONFIG_ACK" /\ a.val = v /\ ToNs' = Append(ToNs, a)
  BY MessageType DEF Actions, Values
<1> HIDE DEF a
<1>b. /\ SentConfig(s) \in Nat /\ SentConfig(s)' \in Nat /\ SentSinceConfig(s) \in Nat
      /\ (SentConfig(s)' = 0 /\ SentSinceConfig(s)' = 0) =>
           SentTerm(s)' = 0 /\ SentRequest(s)' = 0 /\ SentCancel(s)' = 0 /\ SentAnswer(s)' = 0
      /\ RequestsSinceCancel(s)' \in Nat /\ RequestsSinceCancel(s)' <= SentRequest(s)'
      /\ \A w : SentOther(s, w)' \in Nat /\ SentOther(s, w)' <= SentRequest(s)'
      /\ DueAck(s) \in Nat /\ DueGrant(s) \in Nat /\ DueGrant(s) <= DueAck(s)
  BY <1>t, SentBounds, SentBoundsNext, DueBounds
<1>1. /\ SentConfig(s)' = SentConfig(s) - 1
      /\ SentSinceConfig(s)' = SentSinceConfig(s) - One(SentConfig(s) = 0)
  BY <1>t, SentTail DEF One
<1>2. /\ DueAck(s)' = DueAck(s) + 1 /\ DueGrant(s)' = DueGrant(s) + One(v = 0)
      /\ DueRequest(s)' = 0 /\ DueAnswer(s)' = 0 /\ DueCancelAck(s)' = 0
      /\ \A w : DueOther(s, w)' = 0
  BY <1>a, <1>t, DueAppend DEF One
<1>3. /\ global[s] = "S_CONFIG_WAITING" /\ SentConfig(s) = 1 /\ DueAck(s) = 0 /\ DueGrant(s) = 0
      /\ SentSinceConfig(s) = 0
  <2>1. SentConfig(s) # 0
    BY <1>1, <1>b
  <2>2. SentConfig(s) + DueAck(s) = One(global[s] = "S_CONFIG_WAITING")
    BY DEF ExchangeOf, ConfigOf
  <2>3. global[s] = "S_CONFIG_WAITING"
    BY <1>b, <2>1, <2>2 DEF One
  <2>4. SentConfig(s) + DueAck(s) = 1 /\ SentSinceConfig(s) = 0
    BY <2>2, <2>3 DEF One, ExchangeOf, ConfigOf
  <2>5. SentConfig(s) = 1 /\ DueAck(s) = 0
    BY <1>b, <2>1, <2>4
  <2> QED
    BY <1>b, <2>3, <2>4, <2>5
<1>4. SentConfig(s)' = 0 /\ SentSinceConfig(s)' = 0 /\ DueAck(s)' = 1
  BY <1>1, <1>2, <1>3 DEF One
<1>5. global'[s] = "S_CONFIG_WAITING" /\ client'[s] = client[s] /\ asked'[s] = asked[s]
  BY <1>3 DEF StateSame
<1>6. CASE v = 0 /\ sState'[s] = "conf" /\ sSrv'[s] = 0 /\ sCli'[s] = "idle"
  <2>1. ConfigOf(s)'
    BY <1>4, <1>5, <1>6 DEF ConfigOf, One
  <2>2. SentRequest(s)' = 0 /\ SentCancel(s)' = 0 /\ SentAnswer(s)' = 0
    BY <1>4, <1>b
  <2>3. RequestsSinceCancel(s)' = 0 /\ \A w : SentOther(s, w)' = 0
    BY <1>b, <2>2
  <2>4. ClientOf(s)'
    BY <1>2, <1>5, <1>6, <2>2, <2>3 DEF ClientOf, One
  <2>5. ServerOf(s)'
    BY <1>2, <1>5, <1>6, <2>2 DEF ServerOf, One
  <2>6. AnswerOf(s)'
    BY <1>2, <1>6, <2>3 DEF AnswerOf
  <2> QED
    BY <1>5, <2>1, <2>4, <2>5, <2>6 DEF ExchangeOf
<1>7. CASE v = 1 /\ sState'[s] = "null"
  <2>1. DueGrant(s)' = 0
    BY <1>2, <1>3, <1>7 DEF One
  <2>2. ConfigOf(s)' /\ ~Synced(s)'
    BY <1>4, <1>5, <1>7, <2>1 DEF ConfigOf, Synced, One
  <2> QED
    BY <1>5, <2>2 DEF ExchangeOf
<1> QED
  BY <1>6, <1>7

(* The counts after a message other than a configuration was consumed.     *)
LEMMA SentLeaves ==
    ASSUME CallInv, CallInv', nsToS # <<>>, nsToS' = Tail(nsToS), NEW m, m = Head(nsToS),
           NEW s \in Slots, m.slot = s, m.act # "A_CONFIG", ExchangeOf(s)
    PROVE  /\ SentConfig(s)' = SentConfig(s)
           /\ SentSinceConfig(s) = 0 => SentSinceConfig(s)' = 0
           /\ SentTerm(s) = 0 => SentTerm(s)' = 0 /\ m.act # "A_TERM"
<1>t. nsToS \in Seq(Messages)
  BY ToNsType
<1>b. /\ SentConfig(s) \in Nat /\ SentSinceConfig(s) \in Nat /\ SentSinceConfig(s)' \in Nat
      /\ SentTerm(s) \in Nat /\ SentTerm(s)' \in Nat
  BY <1>t, SentBounds, SentBoundsNext
<1>1. SentConfig(s)' = SentConfig(s) - 0
  BY <1>t, SentTail DEF One
<1>2. SentSinceConfig(s)' = SentSinceConfig(s) - One(SentConfig(s) = 0)
  BY <1>t, SentTail DEF One
<1>3. SentTerm(s)' = SentTerm(s) - One(m.act = "A_TERM")
  BY <1>t, SentTail DEF One
<1> QED
  BY <1>1, <1>2, <1>3, <1>b DEF One

LEMMA RequestLeaves ==
    ASSUME nsToS \in Seq(Messages), nsToS # <<>>, nsToS' = Tail(nsToS),
           NEW m, m = Head(nsToS), NEW s, NEW v, m.slot = s, m.act = "A_REQUEST"
    PROVE  SentOther(s, v)' = SentOther(s, v) - One(m.val # v)
<1>1. SentOther(s, v)' = SentOther(s, v) - One(m.slot = s /\ m.act = "A_REQUEST" /\ m.val # v)
  BY SentTail
<1>2. One(m.slot = s /\ m.act = "A_REQUEST" /\ m.val # v) = One(m.val # v)
  BY DEF One
<1> QED
  BY <1>1, <1>2

LEMMA ExchangeSecureRequest ==
    ASSUME CallInv, CallInv', nsToS # <<>>, nsToS' = Tail(nsToS), NEW m, m = Head(nsToS),
           NEW s \in Slots, m.slot = s, m.act = "A_REQUEST", ExchangeOf(s), StateSame(s),
           cMsg'[s] = cMsg[s], DueSame(s), sState'[s] = sState[s], sCli'[s] = sCli[s],
           sSrv'[s] = IF sState[s] = "conf" /\ sSrv[s] = 0 THEN m.val ELSE sSrv[s]
    PROVE  ExchangeOf(s)'
<1>t. ToNs \in Seq(Messages) /\ nsToS \in Seq(Messages)
  BY ToNsType
<1>b. /\ SentRequest(s) \in Nat /\ SentRequest(s)' \in Nat /\ SentCancel(s) \in Nat
      /\ SentAnswer(s) \in Nat
      /\ RequestsSinceCancel(s) \in Nat /\ RequestsSinceCancel(s)' \in Nat
      /\ RequestsSinceCancel(s)' <= SentRequest(s)'
      /\ \A w : /\ SentOther(s, w) \in Nat /\ SentOther(s, w)' \in Nat
                /\ SentOther(s, w)' <= SentRequest(s)'
      /\ DueAnswer(s) \in Nat
  BY <1>t, SentBounds, SentBoundsNext, DueBounds
<1>1. /\ SentRequest(s)' = SentRequest(s) - 1
      /\ RequestsSinceCancel(s)' = RequestsSinceCancel(s) - One(SentCancel(s) = 0)
  BY <1>t, SentTail DEF One
<1>2. SentAnswer(s)' = SentAnswer(s) /\ SentCancel(s)' = SentCancel(s)
  <2>1. m.act \notin Answers
    BY DEF Answers
  <2>2. SentAnswer(s)' = SentAnswer(s) - 0 /\ SentCancel(s)' = SentCancel(s) - 0
    BY <1>t, <2>1, SentTail DEF One
  <2> QED
    BY <1>b, <2>2
<1>3. SentOther(s, asked[s])' = SentOther(s, asked[s]) - One(m.val # asked[s])
  BY <1>t, RequestLeaves DEF StateSame
<1>4. /\ SentConfig(s)' = SentConfig(s)
      /\ SentSinceConfig(s) = 0 => SentSinceConfig(s)' = 0
      /\ SentTerm(s) = 0 => SentTerm(s)' = 0
  BY SentLeaves
<1>5. ConfigOf(s)' /\ (Synced(s)' => Synced(s))
  BY <1>4 DEF ExchangeOf, ConfigOf, Synced, StateSame, DueSame
<1>6. ASSUME Synced(s) PROVE ClientOf(s)' /\ ServerOf(s)' /\ AnswerOf(s)'
  <2>1. ClientOf(s) /\ ServerOf(s) /\ AnswerOf(s) /\ sState[s] = "conf"
    BY <1>6 DEF ExchangeOf, Synced
  <2>2. SentRequest(s) >= 1
    BY <1>1, <1>b
  <2>3. /\ global[s] = "S_CONFIGURED" /\ client[s] \in {"S_WAITING", "S_CANCEL_WAITING"}
        /\ sSrv[s] = 0 /\ SentRequest(s) = 1 /\ DueAnswer(s) = 0
    <3>1. SentRequest(s) + One(sSrv[s] # 0) + DueAnswer(s)
            = One(global[s] = "S_CONFIGURED" /\ client[s] \in {"S_WAITING", "S_CANCEL_WAITING"})
      BY <2>1 DEF ClientOf
    <3>2. CASE sSrv[s] # 0
      BY <1>b, <2>2, <3>1, <3>2 DEF One
    <3>3. CASE sSrv[s] = 0
      BY <1>b, <2>2, <3>1, <3>3 DEF One
    <3> QED
      BY <3>2, <3>3
  <2>4. m.val = asked[s] /\ asked[s] # 0
    <3>1. SentOther(s, asked[s]) = 0
      BY <2>1 DEF AnswerOf
    <3>2. m.val = asked[s]
      BY <1>3, <1>b, <3>1 DEF One
    <3> QED
      BY <2>3, <3>2 DEF ExchangeOf
  <2>5. sSrv'[s] = asked[s] /\ sSrv'[s] # 0
    BY <2>1, <2>3, <2>4
  <2>6. SentRequest(s)' = 0 /\ RequestsSinceCancel(s)' = 0 /\ SentOther(s, asked[s])' = 0
    <3>1. SentRequest(s)' = 0
      BY <1>1, <2>3
    <3> QED
      BY <1>b, <3>1
  <2>7. client[s] # "S_CANCEL_WAITING" => SentCancel(s) = 0
    <3>1. client[s] # "S_CANCEL_WAITING" => RequestsSinceCancel(s) = 1
      BY <2>1, <2>3 DEF ClientOf
    <3> QED
      BY <1>1, <1>b, <2>6, <3>1 DEF One
  <2>8. ClientOf(s)'
    BY <1>2, <2>1, <2>3, <2>5, <2>6, <2>7 DEF ClientOf, One, StateSame, DueSame
  <2>9. ServerOf(s)'
    BY <1>2, <2>1 DEF ServerOf, StateSame, DueSame
  <2>10. AnswerOf(s)'
    BY <2>1, <2>5, <2>6 DEF AnswerOf, StateSame, DueSame
  <2> QED
    BY <2>8, <2>9, <2>10
<1> QED
  BY <1>5, <1>6 DEF ExchangeOf, StateSame

LEMMA ExchangeSecureCancel ==
    ASSUME CallInv, CallInv', nsToS # <<>>, nsToS' = Tail(nsToS), NEW m, m = Head(nsToS),
           NEW s \in Slots, m.slot = s, m.act = "A_CANCEL", ExchangeOf(s), StateSame(s),
           cMsg'[s] = cMsg[s], sState'[s] = sState[s], sCli'[s] = sCli[s],
           \/ /\ sSrv[s] # 0 /\ sSrv'[s] = 0
              /\ ToNs' = Append(ToNs, Message(s, "A_CANCEL_ACK", 0))
           \/ sSrv'[s] = sSrv[s] /\ UNCHANGED ToNs
    PROVE  ExchangeOf(s)'
<1>t. ToNs \in Seq(Messages) /\ nsToS \in Seq(Messages)
  BY ToNsType
<1>b. /\ SentRequest(s) \in Nat /\ SentCancel(s) \in Nat /\ SentCancel(s)' \in Nat
      /\ SentAnswer(s) \in Nat /\ RequestsSinceCancel(s) \in Nat
      /\ \A w : SentOther(s, w) \in Nat
      /\ DueAck(s) \in Nat /\ DueGrant(s) \in Nat /\ DueRequest(s) \in Nat /\ DueAnswer(s) \in Nat
      /\ DueCancelAck(s) \in Nat /\ \A w : DueOther(s, w) \in Nat
  BY <1>t, SentBounds, SentBoundsNext, DueBounds
<1>1. /\ SentRequest(s)' = SentRequest(s) /\ SentAnswer(s)' = SentAnswer(s)
      /\ RequestsSinceCancel(s)' = RequestsSinceCancel(s) /\ SentCancel(s) # 0
      /\ \A w : SentOther(s, w)' = SentOther(s, w)
  <2>1. m.act \notin Answers
    BY DEF Answers
  <2>2. /\ SentRequest(s)' = SentRequest(s) - 0 /\ SentAnswer(s)' = SentAnswer(s) - 0
        /\ RequestsSinceCancel(s)' = RequestsSinceCancel(s) - 0
        /\ SentCancel(s)' = SentCancel(s) - 1
    BY <1>t, <2>1, SentTail DEF One
  <2>3. ASSUME NEW w PROVE SentOther(s, w)' = SentOther(s, w) - 0
    <3>1. SentOther(s, w)' =
            SentOther(s, w) - One(m.slot = s /\ m.act = "A_REQUEST" /\ m.val # w)
      BY <1>t, SentTail, ZenonT(40)
    <3>2. One(m.slot = s /\ m.act = "A_REQUEST" /\ m.val # w) = 0
      BY DEF One
    <3> QED
      BY <3>1, <3>2
  <2> QED
    BY <1>b, <2>2, <2>3
<1>2. /\ SentConfig(s)' = SentConfig(s)
      /\ SentSinceConfig(s) = 0 => SentSinceConfig(s)' = 0
      /\ SentTerm(s) = 0 => SentTerm(s)' = 0
  BY SentLeaves
<1>3. CASE sSrv'[s] = sSrv[s] /\ UNCHANGED ToNs
  <2>1. DueSame(s)
    BY <1>3, DueKept
  <2>2. ConfigOf(s)' /\ (Synced(s)' => Synced(s))
    BY <1>2, <2>1 DEF ExchangeOf, ConfigOf, Synced, StateSame, DueSame
  <2>3. ASSUME Synced(s) PROVE ClientOf(s)' /\ ServerOf(s)' /\ AnswerOf(s)'
    BY <1>1, <1>3, <2>1, <2>3 DEF ExchangeOf, ClientOf, ServerOf, AnswerOf, StateSame, DueSame
  <2> QED
    BY <2>2, <2>3 DEF ExchangeOf, StateSame
<1>4. CASE sSrv[s] # 0 /\ sSrv'[s] = 0 /\ ToNs' = Append(ToNs, Message(s, "A_CANCEL_ACK", 0))
  <2> DEFINE a == Message(s, "A_CANCEL_ACK", 0)
  <2>a. /\ a \in Messages /\ a.slot = s /\ a.act = "A_CANCEL_ACK" /\ a.act \in Answers
        /\ ToNs' = Append(ToNs, a)
    BY <1>4, MessageType DEF Actions, Values, Answers
  <2> HIDE DEF a
  <2>1. /\ DueAck(s)' = DueAck(s) /\ DueGrant(s)' = DueGrant(s) /\ DueRequest(s)' = DueRequest(s)
        /\ DueAnswer(s)' = DueAnswer(s) + 1 /\ \A w : DueOther(s, w)' = DueOther(s, w)
    <3>1. /\ DueAck(s)' = DueAck(s) + 0 /\ DueGrant(s)' = DueGrant(s) + 0
          /\ DueRequest(s)' = DueRequest(s) + 0 /\ DueAnswer(s)' = DueAnswer(s) + 1
      BY <1>t, <2>a, DueAppend DEF One
    <3>2. ASSUME NEW w PROVE DueOther(s, w)' = DueOther(s, w) + 0
      <4>1. DueOther(s, w)' =
              DueOther(s, w) + One(a.slot = s /\ a.act = "A_RESPONSE" /\ a.val # w)
        BY <1>t, <2>a, DueAppend, ZenonT(40)
      <4>2. One(a.slot = s /\ a.act = "A_RESPONSE" /\ a.val # w) = 0
        BY <2>a DEF One
      <4> QED
        BY <4>1, <4>2
    <3> QED
      BY <1>b, <3>1, <3>2
  <2>2. ConfigOf(s)' /\ (Synced(s)' => Synced(s))
    BY <1>2, <2>1 DEF ExchangeOf, ConfigOf, Synced, StateSame
  <2>3. ASSUME Synced(s) PROVE ClientOf(s)' /\ ServerOf(s)' /\ AnswerOf(s)'
    <3>1. ClientOf(s) /\ ServerOf(s) /\ AnswerOf(s)
      BY <2>3 DEF ExchangeOf
    <3>2. client'[s] = "S_CANCEL_WAITING" /\ client[s] = "S_CANCEL_WAITING"
      BY <1>1, <1>4, <3>1 DEF ClientOf, StateSame
    <3>3. ClientOf(s)'
      BY <1>1, <1>4, <1>b, <2>1, <3>1, <3>2 DEF ClientOf, One, StateSame
    <3>4. ServerOf(s)' /\ AnswerOf(s)'
      BY <1>1, <1>4, <2>1, <3>1 DEF ServerOf, AnswerOf, StateSame
    <3> QED
      BY <3>3, <3>4
  <2> QED
    BY <2>2, <2>3 DEF ExchangeOf, StateSame
<1> QED
  BY <1>3, <1>4

LEMMA RequestsStay ==
    ASSUME nsToS \in Seq(Messages), nsToS # <<>>, nsToS' = Tail(nsToS),
           NEW m, m = Head(nsToS), NEW s, NEW v
    PROVE  m.act # "A_REQUEST" => SentOther(s, v)' = SentOther(s, v) - 0
<1> DEFINE S == Other(s, "A_REQUEST", v)
<1>1. m \in Messages
  BY HeadTail
<1>2. SentOther(s, v)' = SentOther(s, v) - One(m \in S /\ Pending(nsToS, {}, {}) = 0)
  BY PendingTail DEF SentOther
<1>3. m.act # "A_REQUEST" => m \notin S
  BY <1>1, AboutMember
<1>4. m \notin S => One(m \in S /\ Pending(nsToS, {}, {}) = 0) = 0
  BY DEF One
<1> QED
  BY <1>2, <1>3, <1>4

LEMMA ExchangeSecureAnswer ==
    ASSUME CallInv, CallInv', nsToS # <<>>, nsToS' = Tail(nsToS), NEW m, m = Head(nsToS),
           NEW s \in Slots, m.slot = s, m.act \in Answers, ExchangeOf(s), StateSame(s),
           cMsg'[s] = cMsg[s], DueSame(s), sState'[s] = sState[s], sSrv'[s] = sSrv[s],
           sCli'[s] = IF sState[s] = "conf" THEN "idle" ELSE sCli[s]
    PROVE  ExchangeOf(s)'
<1>t. ToNs \in Seq(Messages) /\ nsToS \in Seq(Messages)
  BY ToNsType
<1>a. m.act # "A_CONFIG" /\ m.act # "A_TERM" /\ m.act # "A_REQUEST" /\ m.act # "A_CANCEL"
  BY DEF Answers
<1>b. /\ SentRequest(s) \in Nat /\ SentCancel(s) \in Nat
      /\ SentAnswer(s) \in Nat /\ SentAnswer(s)' \in Nat /\ RequestsSinceCancel(s) \in Nat
      /\ \A w : SentOther(s, w) \in Nat /\ DueRequest(s) \in Nat
  BY <1>t, SentBounds, SentBoundsNext, DueBounds
<1>1. /\ SentRequest(s)' = SentRequest(s) /\ SentCancel(s)' = SentCancel(s)
      /\ RequestsSinceCancel(s)' = RequestsSinceCancel(s) /\ SentAnswer(s)' = SentAnswer(s) - 1
      /\ \A w : SentOther(s, w)' = SentOther(s, w)
  <2>1. /\ SentRequest(s)' = SentRequest(s) - 0 /\ SentCancel(s)' = SentCancel(s) - 0
        /\ RequestsSinceCancel(s)' = RequestsSinceCancel(s) - 0
        /\ SentAnswer(s)' = SentAnswer(s) - 1
    BY <1>a, <1>t, SentTail DEF One
  <2>2. ASSUME NEW w PROVE SentOther(s, w)' = SentOther(s, w) - 0
    BY <1>a, <1>t, RequestsStay
  <2> QED
    BY <1>b, <2>1, <2>2
<1>2. /\ SentConfig(s)' = SentConfig(s)
      /\ SentSinceConfig(s) = 0 => SentSinceConfig(s)' = 0
      /\ SentTerm(s) = 0 => SentTerm(s)' = 0
  BY <1>a, SentLeaves
<1>3. ConfigOf(s)' /\ (Synced(s)' => Synced(s))
  BY <1>2 DEF ExchangeOf, ConfigOf, Synced, StateSame, DueSame
<1>4. ASSUME Synced(s) PROVE ClientOf(s)' /\ ServerOf(s)' /\ AnswerOf(s)'
  <2>1. ClientOf(s) /\ ServerOf(s) /\ AnswerOf(s) /\ sState[s] = "conf"
    BY <1>4 DEF ExchangeOf, Synced
  <2>2. ClientOf(s)' /\ AnswerOf(s)'
    BY <1>1, <2>1 DEF ClientOf, AnswerOf, StateSame, DueSame
  <2>3. SentAnswer(s) >= 1 /\ sCli'[s] = "idle"
    BY <1>1, <1>b, <2>1
  <2>4. CASE global[s] = "S_CONFIGURED" /\ server[s] \in {"S_NOTIFIED", "S_BUSY"}
    <3>1. DueRequest(s) + 1 + SentAnswer(s) = One(sCli[s] # "idle")
      BY <2>1, <2>4 DEF ServerOf, One
    <3> QED
      BY <1>b, <2>3, <3>1 DEF One
  <2>5. CASE ~(global[s] = "S_CONFIGURED" /\ server[s] \in {"S_NOTIFIED", "S_BUSY"})
    <3>1. DueRequest(s) + 0 + SentAnswer(s) = One(sCli[s] # "idle")
      BY <2>1, <2>5 DEF ServerOf, One
    <3>b. DueRequest(s) \in Nat /\ SentAnswer(s) \in Nat /\ SentAnswer(s) >= 1
      BY <1>b, <2>3
    <3>c. One(sCli[s] # "idle") \in {0, 1}
      BY DEF One
    <3>2. DueRequest(s) = 0 /\ SentAnswer(s) = 1
      BY <3>1, <3>b, <3>c
    <3> QED
      BY <1>1, <2>2, <2>3, <2>5, <3>2 DEF ServerOf, One, StateSame, DueSame
  <2> QED
    BY <2>4, <2>5
<1> QED
  BY <1>3, <1>4 DEF ExchangeOf, StateSame

LEMMA ExchangeSecureTerm ==
    ASSUME CallInv, CallInv', nsToS # <<>>, nsToS' = Tail(nsToS), NEW m, m = Head(nsToS),
           NEW s \in Slots, m.slot = s, m.act = "A_TERM", ExchangeOf(s), StateSame(s),
           cMsg'[s] = cMsg[s], sState'[s] = "null",
           ToNs' = Append(ToNs, Message(s, "A_TERM_ACK", 0))
    PROVE  ExchangeOf(s)'
<1>t. ToNs \in Seq(Messages) /\ nsToS \in Seq(Messages)
  BY ToNsType
<1> DEFINE a == Message(s, "A_TERM_ACK", 0)
<1>a. a \in Messages /\ a.act = "A_TERM_ACK" /\ ToNs' = Append(ToNs, a)
  BY MessageType DEF Actions, Values
<1> HIDE DEF a
<1>b. /\ SentConfig(s) \in Nat /\ DueAck(s) \in Nat /\ DueGrant(s) \in Nat /\ DueGrant(s) <= DueAck(s)
      /\ (SentConfig(s) = 0 /\ SentSinceConfig(s) = 0) => SentTerm(s) = 0
  BY <1>t, SentBounds, DueBounds
<1>1. /\ SentConfig(s)' = SentConfig(s)
      /\ SentSinceConfig(s) = 0 => SentSinceConfig(s)' = 0
      /\ SentTerm(s) # 0
  BY SentLeaves
<1>2. DueAck(s)' = DueAck(s) /\ DueGrant(s)' = DueGrant(s)
  <2>1. DueAck(s)' = DueAck(s) + 0 /\ DueGrant(s)' = DueGrant(s) + 0
    BY <1>a, <1>t, DueAppend DEF One
  <2> QED
    BY <1>b, <2>1
<1>3. global[s] # "S_CONFIGURED" /\ ConfigOf(s)
  BY <1>1 DEF ExchangeOf, ConfigOf
<1>4. DueGrant(s) = 0
  <2>1. SUFFICES ASSUME DueGrant(s) # 0 PROVE FALSE
    OBVIOUS
  <2>2. DueAck(s) # 0
    BY <1>b, <2>1
  <2>3. SentConfig(s) = 0 /\ global[s] = "S_CONFIG_WAITING"
    BY <1>3, <1>b, <2>2 DEF ConfigOf, One
  <2> QED
    BY <1>1, <1>3, <1>b, <2>3 DEF ConfigOf
<1>5. ConfigOf(s)' /\ ~Synced(s)'
  BY <1>1, <1>2, <1>3, <1>4 DEF ConfigOf, Synced, StateSame
<1> QED
  BY <1>5 DEF ExchangeOf, StateSame

LEMMA ExchangeSecureTermAck ==
    ASSUME CallInv, CallInv', nsToS # <<>>, nsToS' = Tail(nsToS), NEW m, m = Head(nsToS),
           NEW s \in Slots, m.slot = s, m.act = "A_TERM_ACK", ExchangeOf(s), StateSame(s),
           cMsg'[s] = cMsg[s], DueSame(s), sSrv'[s] = sSrv[s], sCli'[s] = sCli[s],
           sState'[s] = IF sState[s] = "term" THEN "null" ELSE sState[s]
    PROVE  ExchangeOf(s)'
<1>t. nsToS \in Seq(Messages)
  BY ToNsType
<1>a. m.act \notin Answers
  BY DEF Answers
<1>b. /\ SentRequest(s) \in Nat /\ SentCancel(s) \in Nat
      /\ SentAnswer(s) \in Nat /\ RequestsSinceCancel(s) \in Nat
      /\ \A w : SentOther(s, w) \in Nat
  BY <1>t, SentBounds
<1>1. /\ SentRequest(s)' = SentRequest(s) /\ SentCancel(s)' = SentCancel(s)
      /\ RequestsSinceCancel(s)' = RequestsSinceCancel(s) /\ SentAnswer(s)' = SentAnswer(s)
      /\ \A w : SentOther(s, w)' = SentOther(s, w)
  <2>1. /\ SentRequest(s)' = SentRequest(s) - 0 /\ SentCancel(s)' = SentCancel(s) - 0
        /\ RequestsSinceCancel(s)' = RequestsSinceCancel(s) - 0
        /\ SentAnswer(s)' = SentAnswer(s) - 0
    BY <1>a, <1>t, SentTail DEF One
  <2>2. ASSUME NEW w PROVE SentOther(s, w)' = SentOther(s, w) - 0
    BY <1>t, RequestsStay
  <2> QED
    BY <1>b, <2>1, <2>2
<1>2. /\ SentConfig(s)' = SentConfig(s)
      /\ SentSinceConfig(s) = 0 => SentSinceConfig(s)' = 0
      /\ SentTerm(s) = 0 => SentTerm(s)' = 0
  BY SentLeaves
<1>3. ConfigOf(s)' /\ (Synced(s)' => Synced(s))
  BY <1>2 DEF ExchangeOf, ConfigOf, Synced, StateSame, DueSame
<1>4. ASSUME Synced(s) PROVE ClientOf(s)' /\ ServerOf(s)' /\ AnswerOf(s)'
  BY <1>1, <1>4 DEF ExchangeOf, ClientOf, ServerOf, AnswerOf, StateSame, DueSame
<1> QED
  BY <1>3, <1>4 DEF ExchangeOf, StateSame

LEMMA ExchangeSecureRespond ==
    ASSUME CallInv, CallInv', UNCHANGED nsToS, NEW s \in Slots, ExchangeOf(s), StateSame(s),
           cMsg'[s] = cMsg[s], sState[s] = "conf", sSrv[s] # 0, sSrv'[s] = 0,
           sState'[s] = sState[s], sCli'[s] = sCli[s],
           ToNs' = Append(ToNs, Message(s, "A_RESPONSE", sSrv[s]))
    PROVE  ExchangeOf(s)'
<1>t. /\ ToNs \in Seq(Messages) /\ nsToS \in Seq(Messages) /\ sSrv[s] \in Values
  BY ToNsType DEF CallInv, TypeOK, Values
<1> DEFINE a == Message(s, "A_RESPONSE", sSrv[s])
<1>a. /\ a \in Messages /\ a.slot = s /\ a.act = "A_RESPONSE" /\ a.act \in Answers
      /\ a.val = sSrv[s] /\ ToNs' = Append(ToNs, a)
  BY <1>t, MessageType DEF Actions, Answers
<1> HIDE DEF a
<1>b. /\ DueAck(s) \in Nat /\ DueGrant(s) \in Nat /\ DueRequest(s) \in Nat /\ DueAnswer(s) \in Nat
      /\ DueCancelAck(s) \in Nat /\ (\A w : DueOther(s, w) \in Nat) /\ SentRequest(s) \in Nat
  BY <1>t, SentBounds, DueBounds
<1>1. SentSame(s)
  BY SentKept
<1>2. /\ DueAck(s)' = DueAck(s) /\ DueGrant(s)' = DueGrant(s) /\ DueRequest(s)' = DueRequest(s)
      /\ DueAnswer(s)' = DueAnswer(s) + 1 /\ DueCancelAck(s)' = DueCancelAck(s)
  <2>1. /\ DueAck(s)' = DueAck(s) + 0 /\ DueGrant(s)' = DueGrant(s) + 0
        /\ DueRequest(s)' = DueRequest(s) + 0 /\ DueAnswer(s)' = DueAnswer(s) + 1
        /\ DueCancelAck(s)' = DueCancelAck(s) + 0
    BY <1>a, <1>t, DueAppend DEF One
  <2> QED
    BY <1>b, <2>1
<1>3. \A w : DueOther(s, w)' = DueOther(s, w) + One(sSrv[s] # w)
  <2>1. ASSUME NEW w PROVE DueOther(s, w)' = DueOther(s, w) + One(sSrv[s] # w)
    <3>1. DueOther(s, w)' =
            DueOther(s, w) + One(a.slot = s /\ a.act = "A_RESPONSE" /\ a.val # w)
      BY <1>a, <1>t, DueAppend
    <3>2. One(a.slot = s /\ a.act = "A_RESPONSE" /\ a.val # w) = One(sSrv[s] # w)
      BY <1>a DEF One
    <3> QED
      BY <3>1, <3>2
  <2> QED
    BY <2>1
<1>4. ConfigOf(s)' /\ (Synced(s)' => Synced(s))
  BY <1>1, <1>2 DEF ExchangeOf, ConfigOf, Synced, StateSame, SentSame
<1>5. ASSUME Synced(s) PROVE ClientOf(s)' /\ ServerOf(s)' /\ AnswerOf(s)'
  <2>1. ClientOf(s) /\ ServerOf(s) /\ AnswerOf(s)
    BY <1>5 DEF ExchangeOf
  <2>2. SentRequest(s) + 0 + (DueAnswer(s) + 1) = SentRequest(s) + 1 + DueAnswer(s)
    BY <1>b
  <2>3. One(sSrv[s] # 0) = 1 /\ One(sSrv'[s] # 0) = 0
    BY DEF One
  <2>4. ClientOf(s)'
    BY <1>1, <1>2, <2>1, <2>2, <2>3 DEF ClientOf, StateSame, SentSame
  <2>5. ServerOf(s)'
    BY <1>1, <1>2, <2>1 DEF ServerOf, StateSame, SentSame
  <2>6. sSrv[s] = asked[s] /\ DueOther(s, asked[s]) = 0
    BY <2>1 DEF AnswerOf
  <2>7. DueOther(s, asked[s])' = 0
    BY <1>3, <2>6 DEF One, StateSame
  <2>8. AnswerOf(s)'
    BY <1>1, <2>1, <2>7 DEF AnswerOf, StateSame, SentSame
  <2> QED
    BY <2>4, <2>5, <2>8
<1> QED
  BY <1>4, <1>5 DEF ExchangeOf, StateSame

LEMMA ResponsesStay ==
    ASSUME ToNs \in Seq(Messages), NEW m \in Messages, ToNs' = Append(ToNs, m), NEW s, NEW v
    PROVE  (m.act # "A_RESPONSE" /\ m.act # "A_CONFIG_ACK") => DueOther(s, v)' = DueOther(s, v) + 0
<1> DEFINE S == Other(s, "A_RESPONSE", v)  T == About(s, {"A_CONFIG_ACK"})
<1>1. DueOther(s, v)' = IF m \in T THEN 0 ELSE DueOther(s, v) + One(m \in S)
  <2>1. \A A, B : Pending(ToNs', A, B) = IF m \in B THEN 0 ELSE Pending(ToNs, A, B) + One(m \in A)
    BY PendingAppend
  <2> QED
    BY <2>1 DEF DueOther
<1>2. (m.act # "A_RESPONSE" /\ m.act # "A_CONFIG_ACK") => m \notin S /\ m \notin T
  BY DEF Other, About
<1>3. m \notin S => One(m \in S) = 0
  BY DEF One
<1> QED
  BY <1>1, <1>2, <1>3

LEMMA ExchangeSecureStart ==
    ASSUME CallInv, CallInv', UNCHANGED nsToS, NEW s \in Slots, ExchangeOf(s), StateSame(s),
           cMsg'[s] = cMsg[s], sState'[s] = sState[s], sSrv'[s] = sSrv[s],
           NEW a \in Messages, a.slot = s, ToNs' = Append(ToNs, a),
           \/ a.act = "A_REQUEST" /\ sCli[s] = "idle" /\ sCli'[s] = "waiting"
           \/ a.act = "A_CANCEL" /\ sCli[s] = "waiting" /\ sCli'[s] = "cancelling"
    PROVE  ExchangeOf(s)'
<1>t. ToNs \in Seq(Messages) /\ nsToS \in Seq(Messages)
  BY ToNsType
<1>b. /\ DueAck(s) \in Nat /\ DueGrant(s) \in Nat /\ DueRequest(s) \in Nat /\ DueAnswer(s) \in Nat
      /\ DueCancelAck(s) \in Nat /\ (\A w : DueOther(s, w) \in Nat) /\ SentAnswer(s) \in Nat
  BY <1>t, SentBounds, DueBounds
<1>1. SentSame(s)
  BY SentKept
<1>a. a.act # "A_CONFIG_ACK" /\ a.act \notin Answers /\ a.act # "A_RESPONSE" /\ a.act # "A_CANCEL_ACK"
  BY DEF Answers
<1>2. /\ DueAck(s)' = DueAck(s) /\ DueGrant(s)' = DueGrant(s)
      /\ DueRequest(s)' = DueRequest(s) + One(a.act = "A_REQUEST")
      /\ DueAnswer(s)' = DueAnswer(s) /\ DueCancelAck(s)' = DueCancelAck(s)
      /\ \A w : DueOther(s, w)' = DueOther(s, w)
  <2>1. /\ DueAck(s)' = DueAck(s) + 0 /\ DueGrant(s)' = DueGrant(s) + 0
        /\ DueRequest(s)' = DueRequest(s) + One(a.act = "A_REQUEST")
        /\ DueAnswer(s)' = DueAnswer(s) + 0 /\ DueCancelAck(s)' = DueCancelAck(s) + 0
    BY <1>a, <1>t, DueAppend DEF One
  <2>2. ASSUME NEW w PROVE DueOther(s, w)' = DueOther(s, w) + 0
    BY <1>a, <1>t, ResponsesStay
  <2> QED
    BY <1>b, <2>1, <2>2
<1>3. ConfigOf(s)' /\ (Synced(s)' => Synced(s))
  BY <1>1, <1>2 DEF ExchangeOf, ConfigOf, Synced, StateSame, SentSame
<1>4. ASSUME Synced(s) PROVE ClientOf(s)' /\ ServerOf(s)' /\ AnswerOf(s)'
  <2>1. ClientOf(s) /\ ServerOf(s) /\ AnswerOf(s)
    BY <1>4 DEF ExchangeOf
  <2>2. ClientOf(s)' /\ AnswerOf(s)'
    BY <1>1, <1>2, <2>1 DEF ClientOf, AnswerOf, StateSame, SentSame
  <2>3. CASE a.act = "A_REQUEST" /\ sCli[s] = "idle" /\ sCli'[s] = "waiting"
    <3> DEFINE n == One(global[s] = "S_CONFIGURED" /\ server[s] \in {"S_NOTIFIED", "S_BUSY"})
    <3>1. DueRequest(s) + n + SentAnswer(s) = 0 /\ n \in Nat
      BY <2>1, <2>3 DEF ServerOf, One
    <3>2. DueRequest(s)' = DueRequest(s) + 1
      BY <1>2, <2>3 DEF One
    <3>3. DueRequest(s)' + n + SentAnswer(s) = 1
      <4> HIDE DEF n
      <4> QED BY <1>b, <3>1, <3>2
    <3> QED
      BY <1>1, <2>2, <2>3, <3>3 DEF ServerOf, One, StateSame, SentSame
  <2>4. CASE a.act = "A_CANCEL" /\ sCli[s] = "waiting" /\ sCli'[s] = "cancelling"
    <3>1. DueRequest(s)' = DueRequest(s)
      BY <1>2, <1>b, <2>4 DEF One
    <3>2. One(sCli'[s] # "idle") = One(sCli[s] # "idle")
      BY <2>4 DEF One
    <3> QED
      BY <1>1, <2>1, <2>2, <3>1, <3>2 DEF ServerOf, StateSame, SentSame
  <2> QED
    BY <2>3, <2>4
<1> QED
  BY <1>3, <1>4 DEF ExchangeOf, StateSame

LEMMA ExchangeSecureStep ==
    ASSUME CallInv, CallInv', ExchangeInv, SecureStep
    PROVE  ExchangeInv'
<1>1. SUFFICES ASSUME NEW s \in Slots PROVE ExchangeOf(s)'
  BY DEF ExchangeInv
<1>2. ExchangeOf(s)
  BY DEF ExchangeInv
<1>t. /\ sState \in [Slots -> {"null", "conf", "term"}] /\ sSrv \in [Slots -> Requests \cup {0}]
      /\ sCli \in [Slots -> {"idle", "waiting", "cancelling"}]
      /\ ToNs \in Seq(Messages) /\ nsToS \in Seq(Messages)
  BY ToNsType DEF CallInv, TypeOK
<1>3. PICK m : m = Head(nsToS)
  OBVIOUS
<1>4. /\ nsToS # <<>> /\ nsToS' = Tail(nsToS) /\ UNCHANGED inHand
      /\ StateSame(s) /\ cMsg'[s] = cMsg[s] /\ m \in Messages /\ m.slot \in Slots
  BY <1>3, <1>t, HeadTail, MessageType DEF SecureStep, slotVars, StateSame
<1>5. \/ /\ m.act = "A_CONFIG" /\ SecureSends(m.slot, "A_CONFIG_ACK", 0)
         /\ sState' = [sState EXCEPT ![m.slot] = "conf"]
         /\ sSrv' = [sSrv EXCEPT ![m.slot] = 0] /\ sCli' = [sCli EXCEPT ![m.slot] = "idle"]
      \/ /\ m.act = "A_CONFIG" /\ SecureSends(m.slot, "A_CONFIG_ACK", 1)
         /\ sState' = [sState EXCEPT ![m.slot] = "null"] /\ UNCHANGED <<sSrv, sCli>>
      \/ /\ m.act = "A_REQUEST" /\ UNCHANGED <<sState, sCli, sToNs>>
         /\ sSrv' = IF sState[m.slot] = "conf" /\ sSrv[m.slot] = 0
                      THEN [sSrv EXCEPT ![m.slot] = m.val] ELSE sSrv
      \/ /\ m.act = "A_CANCEL" /\ UNCHANGED <<sState, sCli>>
         /\ \/ /\ sSrv[m.slot] # 0 /\ sSrv' = [sSrv EXCEPT ![m.slot] = 0]
               /\ SecureSends(m.slot, "A_CANCEL_ACK", 0)
            \/ UNCHANGED <<sSrv, sToNs>>
      \/ /\ m.act \in Answers /\ UNCHANGED <<sState, sSrv, sToNs>>
         /\ sCli' = IF sState[m.slot] = "conf" THEN [sCli EXCEPT ![m.slot] = "idle"] ELSE sCli
      \/ /\ m.act = "A_TERM" /\ SecureSends(m.slot, "A_TERM_ACK", 0)
         /\ sState' = [sState EXCEPT ![m.slot] = "null"] /\ UNCHANGED <<sSrv, sCli>>
      \/ /\ m.act = "A_TERM_ACK" /\ UNCHANGED <<sSrv, sCli, sToNs>>
         /\ sState' = IF sState[m.slot] = "term" THEN [sState EXCEPT ![m.slot] = "null"] ELSE sState
  BY <1>3, Zenon DEF SecureStep, Answers
<1>6. ASSUME NEW act \in Actions, NEW v \in {0, 1}, SecureSends(m.slot, act, v)
      PROVE  /\ ToNs' = Append(ToNs, Message(m.slot, act, v))
             /\ Message(m.slot, act, v) \in Messages /\ Message(m.slot, act, v).slot = m.slot
  <2>1. Message(m.slot, act, v) \in Messages /\ Message(m.slot, act, v).slot = m.slot
    BY <1>4, MessageType DEF Values
  <2> QED
    BY <1>4, <1>6, <2>1, ToNsSend DEF SecureSends
<1>7. ASSUME UNCHANGED sToNs PROVE UNCHANGED ToNs
  BY <1>4, <1>7 DEF ToNs
<1>8. {"A_CONFIG_ACK", "A_CANCEL_ACK", "A_TERM_ACK"} \subseteq Actions
  BY DEF Actions
<1>9. CASE m.slot # s
  <2>1. SecureSame(s)
    BY <1>5, <1>9, <1>t DEF SecureSame
  <2>2. \/ UNCHANGED sToNs
        \/ \E act \in {"A_CONFIG_ACK", "A_CANCEL_ACK", "A_TERM_ACK"}, v \in {0, 1} :
             SecureSends(m.slot, act, v)
    BY <1>5
  <2>3. UNCHANGED ToNs \/ \E a \in Messages : a.slot # s /\ ToNs' = Append(ToNs, a)
    BY <1>6, <1>7, <1>8, <1>9, <2>2
  <2>4. SentSame(s) /\ DueSame(s)
    BY <1>3, <1>4, <1>9, <2>3, SentKept, DueKept
  <2> QED
    BY <1>2, <1>4, <2>1, <2>4, ExchangeKept
<1>10. CASE m.slot = s
  <2>1. CASE m.act = "A_CONFIG"
    <3>1. \/ /\ SecureSends(s, "A_CONFIG_ACK", 0)
             /\ sState'[s] = "conf" /\ sSrv'[s] = 0 /\ sCli'[s] = "idle"
          \/ SecureSends(s, "A_CONFIG_ACK", 1) /\ sState'[s] = "null"
      BY <1>10, <1>5, <1>t, <2>1 DEF Answers
    <3>2. CASE SecureSends(s, "A_CONFIG_ACK", 0) /\ sState'[s] = "conf" /\ sSrv'[s] = 0 /\ sCli'[s] = "idle"
      <4>1. ToNs' = Append(ToNs, Message(s, "A_CONFIG_ACK", 0))
        BY <1>10, <1>6, <1>8, <3>2
      <4> QED
        BY <1>2, <1>3, <1>4, <1>10, <2>1, <3>2, <4>1, ExchangeSecureConfig
    <3>3. CASE SecureSends(s, "A_CONFIG_ACK", 1) /\ sState'[s] = "null"
      <4>1. ToNs' = Append(ToNs, Message(s, "A_CONFIG_ACK", 1))
        BY <1>10, <1>6, <1>8, <3>3
      <4> QED
        BY <1>2, <1>3, <1>4, <1>10, <2>1, <3>3, <4>1, ExchangeSecureConfig
    <3> QED
      BY <3>1, <3>2, <3>3
  <2>2. CASE m.act = "A_REQUEST"
    <3>1. /\ sState'[s] = sState[s] /\ sCli'[s] = sCli[s] /\ UNCHANGED sToNs
          /\ sSrv'[s] = IF sState[s] = "conf" /\ sSrv[s] = 0 THEN m.val ELSE sSrv[s]
      BY <1>10, <1>5, <1>t, <2>2 DEF Answers
    <3>2. DueSame(s)
      BY <1>7, <3>1, DueKept
    <3> QED
      BY <1>2, <1>3, <1>4, <1>10, <2>2, <3>1, <3>2, ExchangeSecureRequest
  <2>3. CASE m.act = "A_CANCEL"
    <3>1. /\ sState'[s] = sState[s] /\ sCli'[s] = sCli[s]
          /\ \/ sSrv[s] # 0 /\ sSrv'[s] = 0 /\ SecureSends(s, "A_CANCEL_ACK", 0)
             \/ sSrv'[s] = sSrv[s] /\ UNCHANGED sToNs
      BY <1>10, <1>5, <1>t, <2>3 DEF Answers
    <3>2. SecureSends(s, "A_CANCEL_ACK", 0) => ToNs' = Append(ToNs, Message(s, "A_CANCEL_ACK", 0))
      BY <1>10, <1>6, <1>8
    <3> QED
      BY <1>2, <1>3, <1>4, <1>7, <1>10, <2>3, <3>1, <3>2, ExchangeSecureCancel
  <2>4. CASE m.act \in Answers
    <3>1. /\ sState'[s] = sState[s] /\ sSrv'[s] = sSrv[s] /\ UNCHANGED sToNs
          /\ sCli'[s] = IF sState[s] = "conf" THEN "idle" ELSE sCli[s]
      BY <1>10, <1>5, <1>t, <2>4 DEF Answers
    <3>2. DueSame(s)
      BY <1>7, <3>1, DueKept
    <3> QED
      BY <1>2, <1>3, <1>4, <1>10, <2>4, <3>1, <3>2, ExchangeSecureAnswer
  <2>5. CASE m.act = "A_TERM"
    <3>1. SecureSends(s, "A_TERM_ACK", 0) /\ sState'[s] = "null"
      BY <1>10, <1>5, <1>t, <2>5 DEF Answers
    <3>2. ToNs' = Append(ToNs, Message(s, "A_TERM_ACK", 0))
      BY <1>10, <1>6, <1>8, <3>1
    <3> QED
      BY <1>2, <1>3, <1>4, <1>10, <2>5, <3>1, <3>2, ExchangeSecureTerm
  <2>6. CASE m.act = "A_TERM_ACK"
    <3>1. /\ sSrv'[s] = sSrv[s] /\ sCli'[s] = sCli[s] /\ UNCHANGED sToNs
          /\ sState'[s] = IF sState[s] = "term" THEN "null" ELSE sState[s]
      BY <1>10, <1>5, <1>t, <2>6 DEF Answers
    <3>2. DueSame(s)
      BY <1>7, <3>1, DueKept
    <3> QED
      BY <1>2, <1>3, <1>4, <1>10, <2>6, <3>1, <3>2, ExchangeSecureTermAck
  <2> QED
    BY <1>5, <2>1, <2>2, <2>3, <2>4, <2>5, <2>6
<1> QED
  BY <1>9, <1>10

LEMMA ExchangeSecure ==
    ASSUME "term" \notin SecureCalls, CallInv, CallInv', ExchangeInv, Secure
    PROVE  ExchangeInv'
<1>1. ASSUME NEW x \in Slots, SecureRespond(x) \/ SecureStart(x) PROVE ExchangeInv'
  <2>1. SUFFICES ASSUME NEW s \in Slots PROVE ExchangeOf(s)'
    BY DEF ExchangeInv
  <2>2. ExchangeOf(s)
    BY DEF ExchangeInv
  <2>t. /\ sState \in [Slots -> {"null", "conf", "term"}] /\ sSrv \in [Slots -> Requests \cup {0}]
        /\ sCli \in [Slots -> {"idle", "waiting", "cancelling"}]
    BY DEF CallInv, TypeOK
  <2>3. StateSame(s) /\ cMsg'[s] = cMsg[s] /\ UNCHANGED <<nsToS, inHand>> /\ sState[x] = "conf"
        /\ UNCHANGED sState
    BY <1>1, SessionAssumption DEF SecureRespond, SecureStart, slotVars, StateSame
  <2>4. ASSUME NEW act \in Actions, NEW v \in Values, SecureSends(x, act, v)
        PROVE  /\ ToNs' = Append(ToNs, Message(x, act, v))
               /\ Message(x, act, v) \in Messages
               /\ Message(x, act, v).slot = x /\ Message(x, act, v).act = act
    <3>1. /\ Message(x, act, v) \in Messages
          /\ Message(x, act, v).slot = x /\ Message(x, act, v).act = act
      BY MessageType
    <3> QED
      BY <2>3, <2>4, <3>1, ToNsSend DEF SecureSends
  <2>5. {"A_RESPONSE", "A_REQUEST", "A_CANCEL"} \subseteq Actions /\ Requests \cup {0, sSrv[x]} \subseteq Values
    BY <2>t DEF Actions, Values
  <2>6. \/ /\ sSrv[x] # 0 /\ SecureSends(x, "A_RESPONSE", sSrv[x])
           /\ sSrv' = [sSrv EXCEPT ![x] = 0] /\ UNCHANGED sCli
        \/ /\ \E v \in Requests : SecureSends(x, "A_REQUEST", v)
           /\ sCli[x] = "idle" /\ sCli' = [sCli EXCEPT ![x] = "waiting"] /\ UNCHANGED sSrv
        \/ /\ SecureSends(x, "A_CANCEL", 0)
           /\ sCli[x] = "waiting" /\ sCli' = [sCli EXCEPT ![x] = "cancelling"] /\ UNCHANGED sSrv
    BY <1>1 DEF SecureRespond, SecureStart
  <2>7. CASE x # s
    <3>1. SecureSame(s)
      BY <2>3, <2>6, <2>7, <2>t DEF SecureSame
    <3>2. \E act \in {"A_RESPONSE", "A_REQUEST", "A_CANCEL"}, v \in Requests \cup {0, sSrv[x]} :
            SecureSends(x, act, v)
      BY <2>6
    <3>3. \E a \in Messages : a.slot # s /\ ToNs' = Append(ToNs, a)
      BY <2>4, <2>5, <2>7, <3>2
    <3>4. SentSame(s) /\ DueSame(s)
      BY <2>3, <3>3, SentKept, DueKept
    <3> QED
      BY <2>2, <2>3, <3>1, <3>4, ExchangeKept
  <2>8. CASE x = s
    <3>1. CASE /\ sSrv[s] # 0 /\ SecureSends(s, "A_RESPONSE", sSrv[s])
               /\ sSrv' = [sSrv EXCEPT ![s] = 0] /\ UNCHANGED sCli
      <4>1. ToNs' = Append(ToNs, Message(s, "A_RESPONSE", sSrv[s]))
        BY <2>4, <2>5, <2>8, <3>1
      <4>2. sSrv'[s] = 0 /\ sCli'[s] = sCli[s] /\ sState'[s] = sState[s] /\ sState[s] = "conf"
        BY <2>3, <2>8, <2>t, <3>1
      <4> QED
        BY <2>2, <2>3, <3>1, <4>1, <4>2, ExchangeSecureRespond
    <3>2. ASSUME NEW v \in Requests, SecureSends(s, "A_REQUEST", v), sCli[s] = "idle",
                 sCli' = [sCli EXCEPT ![s] = "waiting"], UNCHANGED sSrv
          PROVE  ExchangeOf(s)'
      <4>1. /\ ToNs' = Append(ToNs, Message(s, "A_REQUEST", v)) /\ Message(s, "A_REQUEST", v) \in Messages
            /\ Message(s, "A_REQUEST", v).slot = s /\ Message(s, "A_REQUEST", v).act = "A_REQUEST"
        BY <2>4, <2>5, <2>8, <3>2
      <4>2. sCli'[s] = "waiting" /\ sSrv'[s] = sSrv[s] /\ sState'[s] = sState[s]
        BY <2>3, <2>t, <3>2
      <4> QED
        BY <2>2, <2>3, <3>2, <4>1, <4>2, ExchangeSecureStart
    <3>3. CASE /\ SecureSends(s, "A_CANCEL", 0) /\ sCli[s] = "waiting"
               /\ sCli' = [sCli EXCEPT ![s] = "cancelling"] /\ UNCHANGED sSrv
      <4>1. /\ ToNs' = Append(ToNs, Message(s, "A_CANCEL", 0)) /\ Message(s, "A_CANCEL", 0) \in Messages
            /\ Message(s, "A_CANCEL", 0).slot = s /\ Message(s, "A_CANCEL", 0).act = "A_CANCEL"
        BY <2>4, <2>5, <2>8, <3>3
      <4>2. sCli'[s] = "cancelling" /\ sSrv'[s] = sSrv[s] /\ sState'[s] = sState[s]
        BY <2>3, <2>t, <3>3
      <4> QED
        BY <2>2, <2>3, <3>3, <4>1, <4>2, ExchangeSecureStart
    <3> QED
      BY <2>6, <2>8, <3>1, <3>2, <3>3
  <2> QED
    BY <2>7, <2>8
<1> QED
  BY <1>1, ExchangeSecureStep DEF Secure

LEMMA ExchangeStep ==
    ASSUME "term" \notin SecureCalls, CallInv, CallInv', FreeInv, UserInv, NoneDropped,
           ExchangeInv, [Next]_vars
    PROVE  ExchangeInv'
<1>1. CASE UNCHANGED vars
  <2>1. ASSUME NEW s \in Slots PROVE ExchangeOf(s)'
    <3>1. UNCHANGED ToNs /\ UNCHANGED nsToS
      BY <1>1 DEF vars, ToNs
    <3>2. SecureSame(s) /\ StateSame(s) /\ cMsg'[s] = cMsg[s]
      BY <1>1 DEF vars, slotVars, secureVars, SecureSame, StateSame
    <3> QED
      BY <3>1, <3>2, SentKept, DueKept, ExchangeKept DEF ExchangeInv
  <2> QED
    BY <2>1 DEF ExchangeInv
<1> QED
  BY <1>1, ExchangeThread, ExchangeWorker, ExchangeSecure DEF Next

LEMMA ExchangeInitial == Init => ExchangeInv
<1> SUFFICES ASSUME Init, NEW s \in Slots PROVE ExchangeOf(s)
  BY DEF ExchangeInv
<1>1. ToNs = <<>> /\ nsToS = <<>>
  BY DEF Init, ToNs
<1>2. ASSUME NEW S, NEW T PROVE Pending(<<>>, S, T) = 0
  <2>1. PendingAt(<<>>, S, T) = {} /\ <<>> \in Seq(Messages)
    BY DEF PendingAt
  <2> QED
    BY <2>1, PendingFinite
<1>3. SentConfig(s) = 0 /\ DueAck(s) = 0 /\ DueGrant(s) = 0
  BY <1>1, <1>2 DEF SentConfig, DueAck, DueGrant
<1> QED
  BY <1>3 DEF Init, ExchangeOf, ConfigOf, Synced, One

(* The three parts of the exchange in terms of the messages in the rings.  *)
LEMMA ExchangeAgrees ==
    ASSUME CallInv, ExchangeInv
    PROVE  ClientAgreement /\ ServerAgreement /\ ResponseAnswersRequest
<1>t. ToNs \in Seq(Messages) /\ nsToS \in Seq(Messages)
  BY ToNsType
<1>1. ASSUME NEW s \in Slots, global[s] = "S_CONFIGURED", sState[s] = "conf"
      PROVE  /\ Count(nsToS, s, {"A_REQUEST"}) = SentRequest(s)
             /\ Count(nsToS, s, {"A_RESPONSE", "A_CANCEL_ACK"}) = SentAnswer(s)
             /\ Count(ToNs, s, {"A_REQUEST"}) = DueRequest(s)
             /\ Count(ToNs, s, {"A_RESPONSE", "A_CANCEL_ACK"}) = DueAnswer(s)
             /\ ClientOf(s) /\ ServerOf(s)
  <2>1. ExchangeOf(s) /\ SentConfig(s) \in Nat /\ DueAck(s) \in Nat
    BY <1>t, SentBounds, DueBounds DEF ExchangeInv
  <2>2. SentConfig(s) = 0 /\ DueAck(s) = 0
    BY <1>1, <2>1 DEF ExchangeOf, ConfigOf, One
  <2>3. ClientOf(s) /\ ServerOf(s)
    BY <1>1, <2>1, <2>2 DEF ExchangeOf, Synced
  <2>4. /\ Count(nsToS, s, {"A_REQUEST"}) = SentRequest(s)
        /\ Count(nsToS, s, {"A_RESPONSE", "A_CANCEL_ACK"}) = SentAnswer(s)
    BY <1>t, CountPending DEF SentRequest, SentAnswer, Answers
  <2>5. \A S : Pending(ToNs, S, About(s, {"A_CONFIG_ACK"})) = Pending(ToNs, S, {})
    BY <1>t, <2>2, PendingMonotone DEF DueAck
  <2>6. /\ Count(ToNs, s, {"A_REQUEST"}) = DueRequest(s)
        /\ Count(ToNs, s, {"A_RESPONSE", "A_CANCEL_ACK"}) = DueAnswer(s)
    BY <1>t, <2>5, CountPending DEF DueRequest, DueAnswer, Answers
  <2> QED
    BY <2>3, <2>4, <2>6
<1>2. ClientAgreement
  BY <1>1 DEF ClientAgreement, ClientOf, One
<1>3. ServerAgreement
  BY <1>1 DEF ServerAgreement, ServerOf, One
<1>4. ResponseAnswersRequest
  BY DEF ResponseAnswersRequest, ExchangeInv, ExchangeOf
<1> QED
  BY <1>2, <1>3, <1>4

(* With one user per handle, room in the ring of the normal world, no      *)
(* signals and no termination by the secure world, the two worlds agree on *)
(* every session: the configuration under way, the request of each side    *)
(* and its answer are each in exactly one place (configure_session,        *)
(* send_request, send_response, pnc_session_cancel_request and the         *)
(* handlers of handle_s_message).                                          *)
THEOREM ExchangeTheorem ==
    ASSUME Interrupts = FALSE, "term" \notin SecureCalls
    PROVE  Spec /\ []OwnHandles /\ []NoneDropped => [](CallInv /\ ExchangeInv)
<1> DEFINE Inv == CallInv /\ FreeInv /\ UserInv /\ ExchangeInv
<1>1. Init => Inv
  BY CallInitial, FreeInitial, UserInitial, ExchangeInitial
<1>2. Inv /\ OwnHandles /\ OwnHandles' /\ NoneDropped /\ [Next]_vars => Inv'
  BY CallStep, FreeStep, UserStep, ExchangeStep
<1>3. Inv => CallInv /\ ExchangeInv
  OBVIOUS
<1> HIDE DEF Inv
<1> QED
  BY <1>1, <1>2, <1>3, PTL DEF Spec

(* Under the same conditions a client that waits has exactly one thing     *)
(* under way for its request (the request, its service or its answer),     *)
(* whatever the timeouts, the cancellations that cross a response, the     *)
(* refused configurations and the reuse of the slot by later owners        *)
(* (send_request, pnc_session_cancel_request, handle_s_response,           *)
(* handle_s_cancel_ack).                                                   *)
THEOREM ClientTheorem ==
    ASSUME Interrupts = FALSE, "term" \notin SecureCalls
    PROVE  Spec /\ []OwnHandles /\ []NoneDropped => []ClientAgreement
<1>1. CallInv /\ ExchangeInv => ClientAgreement
  BY ExchangeAgrees
<1> QED
  BY <1>1, ExchangeTheorem, PTL

(* The same for the requests of the secure world: in the ring, at the      *)
(* server of the normal world or answered, never lost and never answered   *)
(* twice (handle_s_request, handle_s_cancel, get_request, send_response).  *)
THEOREM ServerTheorem ==
    ASSUME Interrupts = FALSE, "term" \notin SecureCalls
    PROVE  Spec /\ []OwnHandles /\ []NoneDropped => []ServerAgreement
<1>1. CallInv /\ ExchangeInv => ServerAgreement
  BY ExchangeAgrees
<1> QED
  BY <1>1, ExchangeTheorem, PTL

(* Under the same conditions a response kept for the client carries the    *)
(* code of the request it sent last: an answer to a cancelled or timed out *)
(* request, or to one of an earlier owner of the slot, is never delivered  *)
(* for a later one.                                                        *)
THEOREM AnswerTheorem ==
    ASSUME Interrupts = FALSE, "term" \notin SecureCalls
    PROVE  Spec /\ []OwnHandles /\ []NoneDropped => []ResponseAnswersRequest
<1>1. CallInv /\ ExchangeInv => ResponseAnswersRequest
  BY ExchangeAgrees
<1> QED
  BY <1>1, ExchangeTheorem, PTL

-----------------------------------------------------------------------------
(* One user per handle, where the secure world refuses and ends no session *)

LEMMA HoldOthers ==
    ASSUME HoldInv, NEW t \in Threads, NEW s \in Slots, handle'[t] \in {s, NoSlot},
           \A u \in Threads : u # t =>
               /\ pc'[u] = pc[u] /\ call'[u] = call[u] /\ mine'[u] = mine[u]
               /\ handle'[u] = handle[u] /\ handle[u] # s,
           \A x \in Slots : x # s => global'[x] = global[x] /\ free'[x] = free[x],
           UNCHANGED <<sToNs, inHand>>, Holds(t)'
    PROVE  HoldInv'
<1>1. ASSUME NEW u \in Threads, u # t PROVE Holds(u)'
  <2>1. Holds(u) /\ handle'[u] = handle[u] /\ handle[u] # s
    BY <1>1 DEF HoldInv
  <2>2. handle[u] \in Slots =>
          global'[handle[u]] = global[handle[u]] /\ free'[handle[u]] = free[handle[u]]
    BY <2>1
  <2> QED
    BY <1>1, <2>1, <2>2 DEF Holds
<1>2. OwnHandles'
  <2>1. ASSUME NEW u \in Threads, NEW w \in Threads, handle'[u] \in Slots, handle'[u] = handle'[w]
        PROVE  u = w
    BY <2>1, SessionAssumption DEF HoldInv, OwnHandles
  <2> QED
    BY <2>1 DEF OwnHandles
<1> QED
  BY <1>1, <1>2 DEF HoldInv

LEMMA HoldThread ==
    ASSUME Interrupts = FALSE, Sharing = FALSE, CallInv, UserInv, HoldInv,
           NEW t \in Threads, Thread(t)
    PROVE  HoldInv'
<1>t. /\ pc \in [Threads -> Pcs] /\ handle \in [Threads -> Slots \cup {NoSlot}]
      /\ global \in [Slots -> GlobalStates] /\ free \in [Slots -> BOOLEAN]
      /\ call \in [Threads -> CheckedCalls \cup {"none", "open", "alloc", "config"}]
      /\ mine \in [Threads -> BOOLEAN]
      /\ wret[t] \in {"OK", "ETIMEDOUT", "ERESTARTSYS"} /\ NoSlot \notin Slots
  BY SessionAssumption DEF CallInv, TypeOK
<1>h. pc[t] # "idle" => handle[t] \in Slots
  BY DEF CallInv
<1>u. UserOf(t) /\ Holds(t)
  BY DEF UserInv, HoldInv
<1>p. \A p : pc' = [pc EXCEPT ![t] = p] =>
          pc'[t] = p /\ \A u \in Threads : u # t => pc'[u] = pc[u]
  BY <1>t
<1>c. \A p : call' = [call EXCEPT ![t] = p] =>
          call'[t] = p /\ \A u \in Threads : u # t => call'[u] = call[u]
  BY <1>t
<1>k. ASSUME handle[t] \in Slots, UNCHANGED <<handle, mine, free, sToNs, inHand>>,
             \A u \in Threads : u # t => pc'[u] = pc[u] /\ call'[u] = call[u],
             \A x \in Slots : x # handle[t] => global'[x] = global[x],
             pc'[t] \notin {"reap_free", "config_fin"},
             (pc'[t] \in {"wait", "clear", "test", "reap"} /\ call'[t] = "config")
               => global'[handle[t]] # "S_NULL"
      PROVE  HoldInv'
  <2>1. \A u \in Threads : u # t => handle[u] # handle[t]
    BY <1>k DEF HoldInv, OwnHandles
  <2>2. Holds(t)'
    BY <1>k, <1>u DEF Holds
  <2> QED
    BY <1>k, <2>1, <2>2, HoldOthers
<1>1. CASE Open(t)
  <2>1. PICK s \in Slots : /\ free[s] /\ free' = [free EXCEPT ![s] = FALSE]
                           /\ handle' = [handle EXCEPT ![t] = s]
                           /\ mine' = [u \in Threads |-> u = t \/ (mine[u] /\ handle[u] # s)]
    BY <1>1, Zenon DEF Open
  <2>2. /\ pc[t] = "idle" /\ call' = [call EXCEPT ![t] = "open"]
        /\ UNCHANGED <<pc, global, sToNs, inHand>>
    BY <1>1 DEF Open
  <2>3. \A u \in Threads : handle[u] # s
    BY <2>1 DEF HoldInv, Holds
  <2>4. /\ handle'[t] = s /\ mine'[t] /\ ~free'[s]
        /\ \A u \in Threads : u # t => handle'[u] = handle[u]
        /\ \A x \in Slots : x # s => free'[x] = free[x]
    BY <1>t, <2>1
  <2>5. \A u \in Threads : u # t => mine'[u] = mine[u]
    BY <1>t, <2>1, <2>3
  <2>6. Holds(t)'
    BY <2>2, <2>4 DEF Holds
  <2> QED
    BY <1>c, <2>2, <2>3, <2>4, <2>5, <2>6, HoldOthers
<1>2. CASE Alloc(t)
  <2>1. /\ pc[t] = "idle" /\ handle[t] \in Slots /\ call' = [call EXCEPT ![t] = "alloc"]
        /\ UNCHANGED <<pc, handle, mine, global, free, sToNs, inHand>>
    BY <1>2, <1>t DEF Alloc
  <2> QED
    BY <1>c, <1>k, <2>1
<1>3. ASSUME NEW u \in Threads, Share(t, u) PROVE FALSE
  BY <1>3 DEF Share
<1>4. ASSUME NEW b \in BOOLEAN, Configure(t, b) PROVE HoldInv'
  <2>1. /\ handle[t] \in Slots /\ pc[t] = "idle" /\ call' = [call EXCEPT ![t] = "config"]
        /\ UNCHANGED <<handle, mine, free, sToNs, inHand>>
    BY <1>4, <1>t DEF Configure
  <2>2. \/ UNCHANGED <<pc, global>>
        \/ /\ global' = [global EXCEPT ![handle[t]] = "S_CONFIG_WAITING"]
           /\ pc' = [pc EXCEPT ![t] = "wait"]
    BY <1>4, Zenon DEF Configure
  <2>3. CASE UNCHANGED <<pc, global>>
    BY <1>c, <1>k, <2>1, <2>3
  <2>4. CASE /\ global' = [global EXCEPT ![handle[t]] = "S_CONFIG_WAITING"]
             /\ pc' = [pc EXCEPT ![t] = "wait"]
    <3>1. /\ global'[handle[t]] = "S_CONFIG_WAITING"
          /\ \A x \in Slots : x # handle[t] => global'[x] = global[x]
      BY <1>t, <2>1, <2>4
    <3> QED
      BY <1>c, <1>k, <1>p, <2>1, <2>4, <3>1
  <2> QED
    BY <2>2, <2>3, <2>4
<1>5. ASSUME NEW c \in CheckedCalls, Begin(t, c) PROVE HoldInv'
  <2>1. /\ handle[t] \in Slots /\ pc[t] = "idle" /\ call' = [call EXCEPT ![t] = c]
        /\ UNCHANGED <<handle, mine, free, global, sToNs, inHand>>
    BY <1>5, <1>t DEF Begin
  <2>2. pc' \in {pc, [pc EXCEPT ![t] = FirstStep(c)], [pc EXCEPT ![t] = "close_fin"]}
    BY <1>5, Zenon DEF Begin
  <2>3. FirstStep(c) \notin {"reap_free", "config_fin"} /\ c # "config"
    BY DEF FirstStep, CheckedCalls
  <2>4. /\ pc'[t] \in {"idle", FirstStep(c), "close_fin"}
        /\ \A u \in Threads : u # t => pc'[u] = pc[u]
    BY <1>p, <2>1, <2>2
  <2> QED
    BY <1>c, <1>k, <2>1, <2>3, <2>4
<1>6. CASE \/ GetResponse(t) \/ CancelRequest(t) \/ CancelFinish(t) \/ SendResponse(t)
           \/ GetRequest(t) \/ WaitRequest(t) \/ Poll(t) \/ \E v \in Requests : SendRequest(t, v)
  <2>1. pc[t] \in InSession \ {"term"} /\ UNCHANGED <<global, free, sToNs, inHand>>
    BY <1>6 DEF GetResponse, CancelRequest, CancelFinish, SendResponse, GetRequest, WaitRequest,
                Poll, SendRequest, InSession
  <2>2. handle[t] \in Slots /\ call[t] # "config"
    BY <1>h, <1>u, <2>1 DEF InSession, UserOf, InCall
  <2>3. /\ \E p \in {"idle", "wait", "get_req", "test"} : pc' = [pc EXCEPT ![t] = p]
        /\ UNCHANGED <<call, handle, mine>>
    <3>1. CASE GetResponse(t) \/ CancelFinish(t) \/ \E v \in Requests : SendRequest(t, v)
      BY <3>1, Zenon DEF GetResponse, CancelFinish, SendRequest, Goto, Return
    <3>2. CASE CancelRequest(t)
      BY <3>2, Zenon DEF CancelRequest, Goto, Return
    <3>3. CASE SendResponse(t) \/ GetRequest(t) \/ WaitRequest(t) \/ Poll(t)
      BY <3>3, Zenon DEF SendResponse, GetRequest, WaitRequest, Poll, Goto, Return
    <3> QED
      BY <1>6, <3>1, <3>2, <3>3
  <2> QED
    BY <1>k, <1>p, <2>1, <2>2, <2>3
<1>7. CASE GiveUp(t) \/ ConfigFinish(t) \/ ReapFree(t)
  BY <1>7, <1>h, <1>u DEF GiveUp, Interrupted, ConfigFinish, ReapFree, Holds
<1>8. CASE Clear(t) \/ \E r \in {"OK", "ETIMEDOUT", "ERESTARTSYS"} : Wake(t, r)
  <2>1. /\ pc[t] \in {"wait", "clear"}
        /\ pc' = [pc EXCEPT ![t] = "test"] \/ pc' = [pc EXCEPT ![t] = "clear"]
        /\ UNCHANGED <<call, handle, mine, global, free, sToNs, inHand>>
    BY <1>8, Zenon DEF Clear, Wake, Interrupted, Goto
  <2> QED
    BY <1>h, <1>k, <1>p, <1>u, <2>1 DEF Holds
<1>9. CASE Test(t)
  <2>1. pc[t] = "test" /\ UNCHANGED <<global, free, sToNs, inHand>>
    BY <1>9 DEF Test
  <2>2. CASE WaitReturn(t, wret[t])
    <3>1. Moves(t)
      BY <1>t, <2>2, WaitReturnType DEF CallInv
    <3>2. pc'[t] \in {"close_fin", "idle", "get_req_check", "cancel_fin", "get_rsp"}
      BY <1>t, <2>2, WaitReturnPc
    <3> QED
      BY <1>h, <1>k, <2>1, <3>1, <3>2 DEF Moves
  <2>3. CASE Goto(t, "reap")
    BY <1>h, <1>k, <1>p, <1>u, <2>1, <2>3 DEF Goto, Holds
  <2> QED
    BY <1>9, <2>2, <2>3 DEF Test
<1>10. CASE Reap(t)
  <2>1. /\ pc[t] = "reap" /\ global' = [global EXCEPT ![handle[t]] = "S_NULL"]
        /\ UNCHANGED <<free, sToNs, inHand>>
    BY <1>10 DEF Reap, Interrupted
  <2>2. call[t] = "close" /\ global[handle[t]] = "S_TERM_WAITING"
    BY <1>h, <1>u, <2>1 DEF UserOf, Knows, Holds
  <2>3. WaitReturn(t, wret[t])
    BY <1>10, <2>2 DEF Reap, Interrupted
  <2>4. Moves(t) /\ pc'[t] = "close_fin"
    BY <1>t, <2>2, <2>3, WaitReturnType, WaitReturnPc DEF CallInv
  <2>5. \A x \in Slots : x # handle[t] => global'[x] = global[x]
    BY <1>t, <2>1
  <2> QED
    BY <1>h, <1>k, <2>1, <2>4, <2>5 DEF Moves
<1>11. CASE SendTerm(t) \/ CloseFinish(t)
  <2>1. /\ pc[t] \in {"term", "close_fin"}
        /\ \/ pc[t] = "term" /\ pc' = [pc EXCEPT ![t] = "wait"]
           \/ pc' = [pc EXCEPT ![t] = "close_free"]
        /\ \E g \in {"S_TERM_WAITING", "S_NULL"} : global' = [global EXCEPT ![handle[t]] = g]
        /\ UNCHANGED <<call, handle, mine, free, sToNs, inHand>>
    BY <1>11, Zenon DEF SendTerm, CloseFinish, Interrupted, Goto
  <2>2. pc[t] = "term" => call[t] = "close"
    BY <1>u DEF UserOf, InCall
  <2>3. \A x \in Slots : x # handle[t] => global'[x] = global[x]
    BY <1>t, <2>1
  <2> QED
    BY <1>h, <1>k, <1>p, <2>1, <2>2, <2>3
<1>12. CASE CloseFree(t)
  <2>1. /\ pc[t] = "close_free" /\ free' = [free EXCEPT ![handle[t]] = TRUE]
        /\ pc' = [pc EXCEPT ![t] = "idle"] /\ handle' = [handle EXCEPT ![t] = NoSlot]
        /\ mine' = [mine EXCEPT ![t] = FALSE]
        /\ UNCHANGED <<call, global, sToNs, inHand>>
    BY <1>12 DEF CloseFree
  <2>2. /\ \A x \in Slots : x # handle[t] => free'[x] = free[x]
        /\ handle'[t] = NoSlot
        /\ \A u \in Threads : u # t => handle'[u] = handle[u] /\ mine'[u] = mine[u]
    BY <1>h, <1>t, <2>1
  <2>3. Holds(t)'
    BY <1>t, <2>2 DEF Holds
  <2>4. handle[t] \in Slots /\ \A u \in Threads : u # t => handle[u] # handle[t]
    BY <1>h, <2>1 DEF HoldInv, OwnHandles
  <2> QED
    BY <1>p, <2>1, <2>2, <2>3, <2>4, HoldOthers
<1> QED
  BY <1>1, <1>2, <1>3, <1>4, <1>5, <1>6, <1>7, <1>8, <1>9, <1>10, <1>11, <1>12
     DEF Thread, WaitSteps, CallSteps

LEMMA HoldStep ==
    ASSUME Interrupts = FALSE, Sharing = FALSE, "term" \notin SecureCalls, "refuse" \notin SecureCalls,
           CallInv, UserInv, HoldInv, [Next]_vars
    PROVE  HoldInv'
<1>t. /\ global \in [Slots -> GlobalStates]
      /\ sToNs \in Seq(SecureMessages) /\ inHand \in Seq(SecureMessages)
  BY DEF CallInv, TypeOK
<1>k. ASSUME UNCHANGED <<pc, call, handle, mine, free>>,
             \A s \in Slots : global[s] # "S_NULL" => global'[s] # "S_NULL"
      PROVE  OwnHandles' /\ \A t \in Threads : Holds(t)'
  BY <1>k DEF HoldInv, OwnHandles, Holds
<1>1. CASE WorkerTake
  <2>1. UNCHANGED <<pc, call, handle, mine, global, free>>
    BY <1>1 DEF WorkerTake, slotVars, threadVars
  <2>2. sToNs # <<>> /\ sToNs' = Tail(sToNs) /\ inHand' \in {<<>>, <<Head(sToNs)>>}
    BY <1>1, Zenon DEF WorkerTake
  <2>3. /\ Head(sToNs).act = "A_CONFIG_ACK" => Head(sToNs).val = 0
        /\ \A i \in DOMAIN Tail(sToNs) : Tail(sToNs)[i].act = "A_CONFIG_ACK" => Tail(sToNs)[i].val = 0
    BY <1>t, <2>2 DEF HoldInv
  <2> QED
    BY <1>k, <2>1, <2>2, <2>3 DEF HoldInv
<1>2. CASE WorkerHandle
  <2>1. PICK m : m = Head(inHand)
    OBVIOUS
  <2>2. /\ m.slot \in Slots /\ inHand' = <<>> /\ inHand # <<>>
        /\ UNCHANGED <<free, pc, call, handle, mine, sToNs>> /\ m.act # "A_TERM"
        /\ m.act = "A_CONFIG_ACK" => m.val = 0
    BY <1>2, <2>1, HandlerCases DEF UserInv, HoldInv, WorkerHandle, threadVars
  <2>3. global' = global \/ global' = [global EXCEPT ![m.slot] = "S_CONFIGURED"]
    BY <1>2, <2>1, <2>2, HandlerCases DEF OnRequest, OnResponse, OnConfigAck, OnCancel, OnTermAck
  <2>4. \A s \in Slots : global[s] # "S_NULL" => global'[s] # "S_NULL"
    BY <1>t, <2>2, <2>3
  <2> QED
    BY <1>k, <2>2, <2>4 DEF HoldInv
<1>3. CASE Secure
  <2>1. UNCHANGED <<pc, call, handle, mine, global, free, inHand>>
    BY <1>3 DEF Secure, SecureStep, SecureRespond, SecureStart, slotVars, threadVars
  <2>2. \/ UNCHANGED sToNs
        \/ \E s, v : \E a \in Actions :
             /\ a = "A_CONFIG_ACK" => v = 0
             /\ sToNs' = Append(sToNs, Message(s, a, v))
    <3>1. CASE SecureStep
      <4>1. \/ UNCHANGED sToNs
            \/ \E s : \E a \in {"A_CONFIG_ACK", "A_CANCEL_ACK", "A_TERM_ACK"} :
                 sToNs' = Append(sToNs, Message(s, a, 0))
        BY <3>1, Zenon DEF SecureStep, SecureSends
      <4> QED
        BY <4>1 DEF Actions
    <3>2. ASSUME NEW s \in Slots, SecureRespond(s) \/ SecureStart(s)
          PROVE \E v : \E a \in {"A_RESPONSE", "A_REQUEST", "A_CANCEL"} :
                    sToNs' = Append(sToNs, Message(s, a, v))
      BY <3>2, Zenon DEF SecureRespond, SecureStart, SecureSends
    <3>3. {"A_RESPONSE", "A_REQUEST", "A_CANCEL"} \subseteq Actions
      BY DEF Actions
    <3> QED
      BY <1>3, <3>1, <3>2, <3>3 DEF Secure
  <2>3. \A i \in DOMAIN sToNs' : sToNs'[i].act = "A_CONFIG_ACK" => sToNs'[i].val = 0
    <3>1. CASE UNCHANGED sToNs
      BY <3>1 DEF HoldInv
    <3>2. ASSUME NEW m, m.act = "A_CONFIG_ACK" => m.val = 0, sToNs' = Append(sToNs, m)
          PROVE  \A i \in DOMAIN sToNs' : sToNs'[i].act = "A_CONFIG_ACK" => sToNs'[i].val = 0
      <4>1. DOMAIN sToNs' = 1 .. Len(sToNs) + 1
        BY <1>t, <3>2
      <4>2. \A i \in 1 .. Len(sToNs) + 1 :
                sToNs'[i] = IF i <= Len(sToNs) THEN sToNs[i] ELSE m
        BY <1>t, <3>2
      <4>3. DOMAIN sToNs = 1 .. Len(sToNs) /\ Len(sToNs) \in Nat
        BY <1>t
      <4> QED
        BY <3>2, <4>1, <4>2, <4>3 DEF HoldInv
    <3> QED
      BY <2>2, <3>1, <3>2, MessageType
  <2> QED
    BY <1>k, <2>1, <2>3 DEF HoldInv
<1>4. CASE UNCHANGED vars
  BY <1>k, <1>4 DEF vars, slotVars, threadVars, HoldInv
<1> QED
  BY <1>1, <1>2, <1>3, <1>4, HoldThread DEF Next

LEMMA HoldInitial == Init => HoldInv
BY SessionAssumption DEF Init, HoldInv, Holds, OwnHandles

(* Where handles are not passed on, no signal arrives and the secure world *)
(* neither refuses nor ends a session, every handle has one user, for any  *)
(* number of threads and slots: pnc_session_open gives out a slot only     *)
(* when its last user has closed it.                                       *)
THEOREM HandlesTheorem ==
    ASSUME Interrupts = FALSE, Sharing = FALSE, "term" \notin SecureCalls, "refuse" \notin SecureCalls
    PROVE  Spec => [](CallInv /\ HoldInv /\ OwnHandles)
<1> DEFINE Inv == CallInv /\ FreeInv /\ UserInv /\ HoldInv
<1>1. Init => Inv
  BY CallInitial, FreeInitial, UserInitial, HoldInitial
<1>2. Inv /\ [Next]_vars => Inv'
  <2> SUFFICES ASSUME Inv, [Next]_vars PROVE Inv'
    OBVIOUS
  <2>1. CallInv' /\ HoldInv'
    BY CallStep, HoldStep
  <2>2. OwnHandles /\ OwnHandles'
    BY <2>1 DEF HoldInv
  <2> QED
    BY <2>1, <2>2, FreeStep, UserStep
<1>3. Inv => CallInv /\ HoldInv /\ OwnHandles
  BY DEF HoldInv
<1> HIDE DEF Inv
<1> QED
  BY <1>1, <1>2, <1>3, PTL DEF Spec

(* Under the same conditions a call never acts on a session that somebody  *)
(* else opened in the slot of its caller's handle: it takes a refusal, a   *)
(* termination or a signal to make check_and_handle_terminated_session or  *)
(* pnc_session_close give back a slot whose handle is still in use.        *)
THEOREM OwnSessionTheorem ==
    ASSUME Interrupts = FALSE, Sharing = FALSE, "term" \notin SecureCalls, "refuse" \notin SecureCalls
    PROVE  Spec => [](OnlyOwnSession /\ TerminatesOwnSession)
<1>1. CallInv /\ HoldInv => OnlyOwnSession
  BY DEF HoldInv, Holds, CallInv, OnlyOwnSession
<1>2. OnlyOwnSession => TerminatesOwnSession
  BY DEF OnlyOwnSession, TerminatesOwnSession
<1> QED
  BY <1>1, <1>2, HandlesTheorem, PTL
=============================================================================

---------------------------- MODULE NotifyProofs ----------------------------
(***************************************************************************)
(* Proofs about Notify: its inductive invariant NotifyInv is kept by every *)
(* step of the two worlds, and with it no signal is left unannounced in    *)
(* either direction.  PncModuleProofs uses the same lemmas for the         *)
(* properties that span handshakes, resets and the removal of the module.  *)
(***************************************************************************)
EXTENDS Notify, TLAPS

USE DEF regVars, ringVars, linkVars, workVars, noteVars, userVars, secureVars,
        Notifies, SecureNotifies, pnc_sched_smc

(* The successor of a session in the round of handle_s_notification is a   *)
(* session.                                                                *)
LEMMA SuccType == \A s \in Slots : Succ(s) \in Slots
BY NotifyAssumption DEF Slots, Succ

LEMMA SuccIs == \A s \in Slots : Succ(s) = IF s + 1 = NSlots THEN 0 ELSE s + 1
BY NotifyAssumption DEF Slots, Succ

(* Messages, and the head and the tail of a ring.                          *)
LEMMA MessageType ==
    /\ \A s \in Slots, a \in {"DATA", "A_TERM", "A_TERM_ACK"} :
         Message(s, a) \in Messages /\ Message(s, a).slot = s /\ Message(s, a).act = a
    /\ \A m \in Messages : m.slot \in Slots /\ m = Message(m.slot, m.act)
BY DEF Message, Messages

LEMMA HeadTail ==
    ASSUME NEW r \in Seq(Messages), r # <<>>
    PROVE  Head(r) \in Messages /\ Head(r).slot \in Slots /\ Tail(r) \in Seq(Messages)
<1>1. Head(r) \in Messages /\ Tail(r) \in Seq(Messages)
  OBVIOUS
<1> QED
  BY <1>1, MessageType

LEMMA AppendType ==
    ASSUME NEW r \in Seq(Messages), NEW m \in Messages PROVE Append(r, m) \in Seq(Messages)
OBVIOUS

-----------------------------------------------------------------------------
(* Type correctness *)

LEMMA NotifierType ==
    ASSUME TypeOK, NEW a \in Actors, Notifier(a) PROVE TypeOK'
<1>1. CASE Commit(a)
  BY <1>1 DEF Commit, TypeOK
<1>2. CASE SetBit(a)
  BY <1>2 DEF SetBit, TypeOK, Registers
<1>3. CASE Bell(a)
  BY <1>3 DEF Bell, TypeOK
<1> QED
  BY <1>1, <1>2, <1>3 DEF Notifier

LEMMA HandlerType ==
    ASSUME TypeOK, Handler PROVE TypeOK'
<1>1. CASE Irq
  BY <1>1, ZenonT(40) DEF Irq, TypeOK
<1>2. CASE IrqQueue
  BY <1>2 DEF IrqQueue, TypeOK
<1>3. CASE IrqSync
  BY <1>3 DEF IrqSync, TypeOK
<1> QED
  BY <1>1, <1>2, <1>3 DEF Handler

LEMMA WorkType ==
    ASSUME TypeOK, WorkInv, Work PROVE TypeOK'
<1>1. CASE WorkStart
  <2>1. /\ hand' \in Registers /\ sReg' \in Registers
        /\ wpc' \in {"idle", "signals", "messages", "reset", "invalidate"}
    BY <1>1 DEF WorkStart, After, TypeOK, Registers
  <2>2. cursor' \in 0 .. NSlots /\ first' \in Slots
    BY <1>1, NotifyAssumption DEF WorkStart, TypeOK, Slots
  <2> QED
    BY <1>1, <2>1, <2>2, ZenonT(40) DEF WorkStart, TypeOK
<1>2. CASE WorkSignal
  <2>1. /\ hand' \in Registers
        /\ wpc' \in {"idle", "signals", "messages", "reset", "invalidate"}
    BY <1>2 DEF WorkSignal, After, TypeOK, Registers
  <2>2. cursor' \in Slots /\ first' \in Slots
    BY <1>2, SuccType DEF WorkSignal, TypeOK, WorkInv
  <2>3. cursor' \in 0 .. NSlots
    BY <2>2, NotifyAssumption DEF Slots
  <2>4. event' \in [Slots -> BOOLEAN]
    BY <1>2, Zenon DEF WorkSignal, TypeOK
  <2> QED
    BY <1>2, <2>1, <2>2, <2>3, <2>4, SMTT(30) DEF WorkSignal, TypeOK
<1>3. CASE WorkMessage
  <2> DEFINE m == Head(sRing)
  <2>1. /\ sRing' \in Seq(Messages)
        /\ m.slot \in Slots /\ Message(m.slot, "A_TERM_ACK") \in Messages
    BY <1>3, HeadTail, MessageType DEF WorkMessage, TypeOK
  <2>2. nsOpen' \in Seq(Messages)
    <3>1. nsOpen' \in {nsOpen, Append(nsOpen, Message(m.slot, "A_TERM_ACK"))}
      BY <1>3, Zenon DEF WorkMessage
    <3> QED
      BY <2>1, <3>1, AppendType, ZenonT(30) DEF TypeOK
  <2>3. nsSig' \in [Slots -> SUBSET Bits]
    <3>1. nsSig' \in {nsSig, [nsSig EXCEPT ![m.slot] = {}], [nsSig EXCEPT ![m.slot] = @]}
      BY <1>3, Zenon DEF WorkMessage
    <3> QED
      BY <2>1, <3>1 DEF TypeOK
  <2>5. conf' \in [Slots -> {"null", "conf", "term"}]
    BY <1>3, <2>1 DEF WorkMessage, TypeOK
  <2>4. event' \in [Slots -> BOOLEAN]
    BY <1>3, Zenon DEF WorkMessage, TypeOK
  <2> QED
    BY <1>3, <2>1, <2>2, <2>3, <2>4, <2>5 DEF WorkMessage, TypeOK
<1>4. CASE WorkDrained
  BY <1>4 DEF WorkDrained, TypeOK, Actors, Registers
<1>5. CASE \E s \in Slots : ResetTerm(s)
  BY <1>5 DEF ResetTerm, Loop, TypeOK, Actors, Messages, Message
<1>6. CASE \E s \in Slots : ResetClose(s)
  BY <1>6, NotifyAssumption DEF ResetClose, Loop, TypeOK, Slots
<1>7. CASE Invalidate
  <2>1. /\ ready' = FALSE /\ wpc' \in {wpc, "invalidate"} /\ gone' \in {gone, "invalidating"}
        /\ UNCHANGED <<magic, toS, toNs, irq, queued, hand, cursor, first, regVars, ringVars,
                       noteVars, userVars, secureVars>>
    BY <1>7, Zenon DEF Invalidate
  <2>2. /\ ready' \in BOOLEAN /\ wpc' \in {"idle", "signals", "messages", "reset", "invalidate"}
        /\ gone' \in {"no", "flushed", "invalidating", "sent", "yes"}
    BY <2>1 DEF TypeOK
  <2> QED
    BY <2>1, <2>2 DEF TypeOK
<1>8. CASE InvalidateHeader
  <2>1. /\ npc' \in [Actors -> {"none", "commit", "set", "bell"}]
        /\ nbit' \in [Actors -> Slots \cup {MESSAGE, RESET}]
    BY <1>8 DEF InvalidateHeader, TypeOK, Actors
  <2>2. hand' \in Registers /\ cursor' \in 0 .. NSlots
    BY <1>8, NotifyAssumption DEF InvalidateHeader, TypeOK, Registers
  <2>3. /\ wpc' \in {wpc, "idle"} /\ gone' \in {gone, "sent"} /\ magic' = 1
        /\ UNCHANGED <<ready, toNs, irq, queued, first, regVars, ringVars, userVars, secureVars>>
    BY <1>8 DEF InvalidateHeader
  <2>4. toS' \in BOOLEAN
    BY <1>8 DEF InvalidateHeader, TypeOK
  <2> QED
    BY <2>1, <2>2, <2>3, <2>4 DEF TypeOK
<1> QED
  BY <1>1, <1>2, <1>3, <1>4, <1>5, <1>6, <1>7, <1>8 DEF Work, Handling, Resetting

LEMMA UserType ==
    ASSUME TypeOK, NEW s \in Slots,
           Open(s) \/ SignalStep(s) \/ Closing(s) \/ \E c \in Calls : Begin(s, c)
    PROVE  TypeOK'
<1>1. CASE Open(s)
  BY <1>1 DEF Open, TypeOK
<1>2. CASE \E c \in Calls : Begin(s, c)
  <2>1. PICK c \in {"send", "get", "wait", "close"} : Begin(s, c)
    BY <1>2, NotifyAssumption
  <2>2. upc' \in [Slots -> {"idle", "send", "get", "wait", "take", "close", "closing"}]
    BY <2>1 DEF Begin, TypeOK
  <2>3. UNCHANGED <<conf, open, event, regVars, ringVars, linkVars, workVars, noteVars,
                    secureVars, gone>>
    BY <2>1 DEF Begin
  <2> QED
    BY <2>2, <2>3 DEF TypeOK
<1>3. CASE \E b \in Bits : SendSignal(s, b)
  <2>1. PICK b \in Bits : SendSignal(s, b)
    BY <1>3
  <2>2. /\ upc' \in [Slots -> {"idle", "send", "get", "wait", "take", "close", "closing"}]
        /\ nsSig' \in [Slots -> SUBSET Bits]
    BY <2>1 DEF SendSignal, TypeOK
  <2>3. /\ npc' \in [Actors -> {"none", "commit", "set", "bell"}]
        /\ nbit' \in [Actors -> Slots \cup {MESSAGE, RESET}]
    <3>1. Notifies(s, "set", s) \/ UNCHANGED noteVars
      BY <2>1, Zenon DEF SendSignal
    <3>2. CASE Notifies(s, "set", s)
      BY <3>2 DEF Notifies, TypeOK, Actors
    <3>3. CASE UNCHANGED noteVars
      BY <3>3 DEF TypeOK
    <3> QED
      BY <3>1, <3>2, <3>3
  <2>4. UNCHANGED <<nsReg, sReg, sSig, conf, open, event, ringVars, linkVars, workVars,
                    secureVars, gone>>
    BY <2>1 DEF SendSignal
  <2> QED
    BY <2>2, <2>3, <2>4 DEF TypeOK
<1>4. CASE ClearEvent(s)
  <2>1. event' \in [Slots -> BOOLEAN] /\ open' \in [Slots -> BOOLEAN]
    BY <1>4 DEF ClearEvent, TypeOK
  <2>2. upc' \in [Slots -> {"idle", "send", "get", "wait", "take", "close", "closing"}]
    BY <1>4 DEF ClearEvent, TypeOK
  <2> QED
    BY <1>4, <2>1, <2>2 DEF ClearEvent, TypeOK
<1>5. CASE TakeSignals(s)
  BY <1>5 DEF TakeSignals, TypeOK
<1>6. CASE CloseTerm(s)
  BY <1>6 DEF CloseTerm, TypeOK, Actors, Messages, Message
<1>7. CASE CloseFinish(s)
  BY <1>7 DEF CloseFinish, TypeOK
<1> QED
  BY <1>1, <1>2, <1>3, <1>4, <1>5, <1>6, <1>7 DEF SignalStep, Closing

LEMMA SecureType ==
    ASSUME TypeOK, SecureStarts \/ SecureMessage \/ SecureReset \/ \E s \in Slots : SecureUses(s)
    PROVE  TypeOK'
<1>1. CASE SecureInit
  <2>1. nsReg' \in Registers /\ sReg' \in Registers /\ sHand' \in Registers
    BY <1>1 DEF SecureInit, Registers
  <2>2. sSig' \in [Slots -> SUBSET Bits]
    BY <1>1 DEF SecureInit
  <2>3. sConf' \in [Slots -> BOOLEAN] /\ sEvent' \in [Slots -> BOOLEAN]
    BY <1>1, Zenon DEF SecureInit
  <2>4. nsRing' \in Seq(Messages) /\ sRing' \in Seq(Messages)
    BY <1>1 DEF SecureInit
  <2>5. toS' \in BOOLEAN /\ toNs' \in BOOLEAN /\ nsAsk' \in BOOLEAN /\ sAsk' \in BOOLEAN
    BY <1>1, Zenon DEF SecureInit
  <2>6. /\ magic' \in 1 .. 2 /\ sBell' \subseteq Slots
        /\ UNCHANGED <<ready, irq, queued, nsSig, nsOpen, workVars, noteVars, userVars, spc,
                       resets, gone>>
    BY <1>1 DEF SecureInit
  <2>7. /\ ready' \in BOOLEAN /\ irq' \in {"none", "sync", "queue"} /\ queued' \in BOOLEAN
        /\ nsSig' \in [Slots -> SUBSET Bits] /\ nsOpen' \in Seq(Messages)
        /\ wpc' \in {"idle", "signals", "messages", "reset", "invalidate"}
        /\ hand' \in Registers /\ cursor' \in 0 .. NSlots /\ first' \in Slots
    BY <2>6 DEF TypeOK
  <2>8. /\ npc' \in [Actors -> {"none", "commit", "set", "bell"}]
        /\ nbit' \in [Actors -> Slots \cup {MESSAGE, RESET}]
        /\ upc' \in [Slots -> {"idle", "send", "get", "wait", "take", "close", "closing"}]
        /\ conf' \in [Slots -> {"null", "conf", "term"}]
        /\ open' \in [Slots -> BOOLEAN] /\ event' \in [Slots -> BOOLEAN]
    BY <2>6 DEF TypeOK
  <2>9. /\ gone' \in {"no", "flushed", "invalidating", "sent", "yes"}
        /\ spc' \in {"idle", "work", "messages"} /\ resets' \in 0 .. MaxResets
    BY <2>6 DEF TypeOK
  <2> QED
    BY <2>1, <2>2, <2>3, <2>4, <2>5, <2>6, <2>7, <2>8, <2>9, Zenon DEF TypeOK
<1>2. CASE SecureTake
  BY <1>2, ZenonT(40) DEF SecureTake, TypeOK, Registers
<1>3. CASE SecureWork
  BY <1>3 DEF SecureWork, TypeOK, Registers
<1>4. CASE SecureMessage
  <2>1. CASE nsRing = <<>>
    BY <1>4, <2>1 DEF SecureMessage, TypeOK
  <2>2. CASE nsRing # <<>>
    <3> DEFINE m == Head(nsRing)
    <3>1. /\ nsRing' \in Seq(Messages)
          /\ m.slot \in Slots /\ Message(m.slot, "A_TERM_ACK") \in Messages
      BY <1>4, <2>2, HeadTail, MessageType, ZenonT(40) DEF SecureMessage, TypeOK
    <3>2. sRing' \in Seq(Messages)
      <4>1. sRing' \in {sRing, Append(sRing, Message(m.slot, "A_TERM_ACK"))}
        BY <1>4, <2>2, Zenon DEF SecureMessage
      <4> QED
        BY <3>1, <4>1, AppendType, ZenonT(30) DEF TypeOK
    <3>3. sConf' \in [Slots -> BOOLEAN] /\ sSig' \in [Slots -> SUBSET Bits]
      BY <1>4, <2>2, <3>1 DEF SecureMessage, TypeOK
    <3>4. sReg' \in Registers /\ toNs' \in BOOLEAN /\ sAsk' \in BOOLEAN
      <4>1. \/ UNCHANGED <<sReg, toNs>>
            \/ sReg' = sReg \cup {MESSAGE} /\ toNs' = (toNs \/ sReg = {})
        BY <1>4, <2>2, Zenon DEF SecureMessage
      <4>2. sAsk' \in {sAsk, FALSE}
        BY <1>4, <2>2, Zenon DEF SecureMessage
      <4> QED
        BY <4>1, <4>2 DEF TypeOK, Registers
    <3> QED
      BY <1>4, <2>2, <3>1, <3>2, <3>3, <3>4 DEF SecureMessage, TypeOK
  <2> QED
    BY <2>1, <2>2
<1>5. CASE SecureReset
  BY <1>5, NotifyAssumption DEF SecureReset, TypeOK, Registers
<1>6. CASE \E s \in Slots : SecureFetch(s)
  BY <1>6 DEF SecureFetch, TypeOK
<1>7. CASE \E s \in Slots : SecureBell(s)
  BY <1>7 DEF SecureBell, TypeOK, Registers
<1>8. CASE \E s \in Slots, b \in Bits : SecureSignal(s, b)
  BY <1>8 DEF SecureSignal, TypeOK
<1>9. CASE \E s \in Slots, a \in {"DATA", "A_TERM"} : SecureSend(s, a)
  <2> PICK s \in Slots, a \in {"DATA", "A_TERM"} : SecureSend(s, a)
    BY <1>9
  <2>1. sRing' \in Seq(Messages)
    BY DEF SecureSend, TypeOK, Messages, Message
  <2>2. sConf' \in [Slots -> BOOLEAN]
    BY Zenon DEF SecureSend, TypeOK
  <2>3. sSig' \in [Slots -> SUBSET Bits]
    BY DEF SecureSend, TypeOK
  <2>4. sReg' \in Registers /\ toNs' \in BOOLEAN
    BY DEF SecureSend, TypeOK, Registers
  <2>5. /\ sAsk' = FALSE
        /\ UNCHANGED <<nsReg, nsSig, nsOpen, nsRing, nsAsk, ready, magic, toS, irq, queued,
                       workVars, noteVars, userVars, spc, sHand, sEvent, sBell, resets, gone>>
    BY DEF SecureSend
  <2>6. /\ ready' \in BOOLEAN /\ magic' \in 1 .. 2 /\ toS' \in BOOLEAN
        /\ irq' \in {"none", "sync", "queue"} /\ queued' \in BOOLEAN /\ nsReg' \in Registers
        /\ nsSig' \in [Slots -> SUBSET Bits]
        /\ nsOpen' \in Seq(Messages) /\ nsRing' \in Seq(Messages) /\ nsAsk' \in BOOLEAN
        /\ sAsk' \in BOOLEAN
    BY <2>5 DEF TypeOK
  <2> QED
    BY <2>1, <2>2, <2>3, <2>4, <2>5, <2>6 DEF TypeOK
<1> QED
  BY <1>1, <1>2, <1>3, <1>4, <1>5, <1>6, <1>7, <1>8, <1>9 DEF SecureStarts, SecureUses

LEMMA TypeStep ==
    ASSUME TypeOK, WorkInv, [AnyStep]_vars PROVE TypeOK'
<1>1. CASE UNCHANGED vars
  BY <1>1 DEF vars, TypeOK
<1>2. CASE AnyStep
  BY <1>2, NotifierType, HandlerType, WorkType, UserType, SecureType DEF AnyStep
<1> QED
  BY <1>1, <1>2

-----------------------------------------------------------------------------
(* The work item, the registers and the rings *)

(* Who notifies: an actor writes its own step only, and only when it is    *)
(* its turn.                                                               *)
LEMMA WorkStep ==
    ASSUME TypeOK, WorkInv, [AnyStep]_vars PROVE WorkInv'
<1>1. CASE \E a \in Actors : Notifier(a)
  BY <1>1 DEF Notifier, Commit, SetBit, Bell, TypeOK, WorkInv, Actors
<1>2. CASE WorkStart
  BY <1>2 DEF WorkStart, After, TypeOK, WorkInv
<1>3. CASE WorkSignal
  BY <1>3, SuccType DEF WorkSignal, After, TypeOK, WorkInv
<1>4. CASE WorkDrained
  BY <1>4, NotifyAssumption DEF WorkDrained, TypeOK, WorkInv, Actors
<1>5. CASE \E s \in Slots : ResetTerm(s) \/ ResetClose(s)
  BY <1>5, NotifyAssumption DEF ResetTerm, ResetClose, Loop, TypeOK, WorkInv, Actors
<1>6. CASE Invalidate
  BY <1>6 DEF Invalidate, Loop, Invalidating, TypeOK, WorkInv
<1>7. CASE InvalidateHeader
  BY <1>7, NotifyAssumption DEF InvalidateHeader, Invalidating, TypeOK, WorkInv, Actors
<1>8. CASE \E s \in Slots : CloseTerm(s) \/ \E b \in Bits : SendSignal(s, b)
  BY <1>8, NotifyAssumption DEF CloseTerm, SendSignal, TypeOK, WorkInv, Actors
<1>9. CASE SecureStarts \/ SecureMessage
  BY <1>9 DEF SecureStarts, SecureInit, SecureTake, SecureWork, SecureMessage, TypeOK, WorkInv
<1>10. ASSUME \/ UNCHANGED vars \/ Irq \/ IrqQueue \/ IrqSync \/ WorkMessage \/ SecureReset
              \/ \E s \in Slots : \/ Open(s) \/ ClearEvent(s) \/ TakeSignals(s) \/ CloseFinish(s)
                                  \/ SecureUses(s) \/ \E c \in Calls : Begin(s, c)
       PROVE WorkInv'
  <2>1. UNCHANGED <<wpc, hand, cursor, npc, spc, sHand, gone>>
    BY <1>10 DEF vars, Irq, IrqQueue, IrqSync, WorkMessage, SecureReset, Open, ClearEvent, TakeSignals,
                 CloseFinish, SecureUses, SecureFetch, SecureBell, SecureSignal, SecureSend, Begin
  <2> QED
    BY <2>1 DEF WorkInv
<1> QED
  BY <1>1, <1>2, <1>3, <1>4, <1>5, <1>6, <1>7, <1>8, <1>9, <1>10
  DEF AnyStep, Handler, Work, Handling, Resetting, SignalStep, Closing

LEMMA RegisterStep ==
    ASSUME TypeOK, WorkInv, RegisterInv, [AnyStep]_vars PROVE RegisterInv'
<1>1. CASE \E a \in Actors : SetBit(a)
  BY <1>1 DEF SetBit, TypeOK, RegisterInv
<1>2. CASE \E a \in Actors : Commit(a) \/ Bell(a)
  BY <1>2 DEF Commit, Bell, TypeOK, RegisterInv
<1>3. CASE Irq \/ IrqQueue \/ IrqSync
  BY <1>3 DEF Irq, IrqQueue, IrqSync, TypeOK, RegisterInv
<1>4. CASE WorkStart
  BY <1>4 DEF WorkStart, RegisterInv
<1>5. CASE WorkDrained
  BY <1>5, NotifyAssumption DEF WorkDrained, TypeOK, WorkInv, RegisterInv, Actors
<1>6. CASE \E s \in Slots : ResetTerm(s)
  BY <1>6, NotifyAssumption DEF ResetTerm, Loop, TypeOK, RegisterInv, Actors
<1>7. CASE InvalidateHeader
  BY <1>7, NotifyAssumption DEF InvalidateHeader, Invalidating, TypeOK, WorkInv, RegisterInv, Actors
<1>8. CASE \E s \in Slots : CloseTerm(s) \/ \E b \in Bits : SendSignal(s, b)
  BY <1>8, NotifyAssumption DEF CloseTerm, SendSignal, TypeOK, RegisterInv, Actors
<1>9. CASE SecureInit \/ SecureTake
  BY <1>9 DEF SecureInit, SecureTake, RegisterInv
<1>10. ASSUME SecureMessage \/ SecureReset
              \/ \E s \in Slots : SecureBell(s) \/ \E a \in {"DATA", "A_TERM"} : SecureSend(s, a)
       PROVE RegisterInv'
  <2>1. /\ UNCHANGED <<magic, queued, irq, nsReg, toS, npc>>
        /\ UNCHANGED <<sReg, toNs>> \/ toNs' = (toNs \/ sReg = {})
    BY <1>10 DEF SecureMessage, SecureReset, SecureBell, SecureSend
  <2> QED
    BY <2>1 DEF RegisterInv
<1>11. ASSUME \/ UNCHANGED vars \/ WorkSignal \/ WorkMessage \/ Invalidate \/ SecureWork
              \/ \E s \in Slots : \/ Open(s) \/ ClearEvent(s) \/ TakeSignals(s) \/ CloseFinish(s)
                                  \/ SecureFetch(s) \/ ResetClose(s)
                                  \/ \E b \in Bits : SecureSignal(s, b)
                                  \/ \E c \in Calls : Begin(s, c)
       PROVE RegisterInv'
  <2>1. UNCHANGED <<magic, sReg, toNs, queued, irq, nsReg, toS, npc>>
    BY <1>11 DEF vars, WorkSignal, WorkMessage, Invalidate, SecureWork, Open, ClearEvent,
                 TakeSignals, CloseFinish, SecureFetch, ResetClose, SecureSignal, Begin
  <2> QED
    BY <2>1 DEF RegisterInv
<1> QED
  BY <1>1, <1>2, <1>3, <1>4, <1>5, <1>6, <1>7, <1>8, <1>9, <1>10, <1>11
  DEF AnyStep, Notifier, Handler, Work, Handling, Resetting, SignalStep, Closing, SecureStarts,
      SecureUses

(* The two halves of RingInv, one per direction.                           *)
LEMMA SecureRingStep ==
    ASSUME TypeOK, WorkInv, RingInv, [AnyStep]_vars
    PROVE  (magic = 2 /\ (sRing # <<>> \/ ~sAsk) => SecureRingSeen)'
<1>1. CASE WorkStart
  BY <1>1 DEF WorkStart, After, TypeOK, RingInv, SecureRingSeen
<1>2. CASE WorkSignal
  BY <1>2 DEF WorkSignal, After, TypeOK, RingInv, SecureRingSeen
<1>3. CASE WorkMessage \/ WorkDrained
  BY <1>3 DEF WorkMessage, WorkDrained, RingInv, SecureRingSeen
<1>4. CASE Invalidate
  BY <1>4 DEF Invalidate, Loop, Invalidating, WorkInv, RingInv, SecureRingSeen
<1>5. CASE InvalidateHeader \/ SecureInit
  BY <1>5 DEF InvalidateHeader, SecureInit
<1>6. ASSUME SecureMessage \/ \E s \in Slots, a \in {"DATA", "A_TERM"} : SecureSend(s, a)
      PROVE (magic = 2 /\ (sRing # <<>> \/ ~sAsk) => SecureRingSeen)'
  <2>1. /\ UNCHANGED <<magic, wpc, hand>>
        /\ \/ UNCHANGED <<sRing, sAsk, sReg>>
           \/ ~sAsk /\ UNCHANGED sReg
           \/ sReg' = sReg \cup {MESSAGE}
    BY <1>6 DEF SecureMessage, SecureSend
  <2> QED
    BY <2>1 DEF RingInv, SecureRingSeen
<1>7. ASSUME SecureReset \/ \E s \in Slots : SecureBell(s)
      PROVE (magic = 2 /\ (sRing # <<>> \/ ~sAsk) => SecureRingSeen)'
  BY <1>7 DEF SecureReset, SecureBell, RingInv, SecureRingSeen
<1>8. ASSUME \/ UNCHANGED vars \/ Irq \/ IrqQueue \/ IrqSync \/ SecureTake \/ SecureWork
             \/ \E a \in Actors : Notifier(a)
             \/ \E s \in Slots : \/ Open(s) \/ SignalStep(s) \/ Closing(s) \/ SecureFetch(s)
                                 \/ ResetTerm(s) \/ ResetClose(s)
                                 \/ \E b \in Bits : SecureSignal(s, b)
                                 \/ \E c \in Calls : Begin(s, c)
      PROVE (magic = 2 /\ (sRing # <<>> \/ ~sAsk) => SecureRingSeen)'
  <2>1. UNCHANGED <<magic, sRing, sAsk, sReg, wpc, hand>>
    BY <1>8 DEF vars, Irq, IrqQueue, IrqSync, SecureTake, SecureWork, Notifier, Commit, SetBit, Bell, Open,
                SignalStep, ClearEvent, TakeSignals, SendSignal, Closing, CloseTerm, CloseFinish,
                SecureFetch, ResetTerm, ResetClose, SecureSignal, Begin
  <2> QED
    BY <2>1 DEF RingInv, SecureRingSeen
<1> QED
  BY <1>1, <1>2, <1>3, <1>4, <1>5, <1>6, <1>7, <1>8
  DEF AnyStep, Handler, Work, Handling, Resetting, SecureStarts, SecureUses

LEMMA NormalRingStep ==
    ASSUME TypeOK, WorkInv, RingInv, [AnyStep]_vars
    PROVE  (nsRing # <<>> \/ ~nsAsk => RingSeen)'
<1>1. CASE \E a \in Actors : Commit(a)
  <2> PICK a \in Actors : Commit(a)
    BY <1>1
  <2>1. CASE nsAsk /\ nsOpen # <<>>
    BY <2>1 DEF Commit, TypeOK, RingSeen
  <2>2. CASE ~(nsAsk /\ nsOpen # <<>>)
    <3>1. nsRing # <<>> \/ ~nsAsk \/ (nsRing' = <<>> /\ nsAsk')
      BY <2>2 DEF Commit, TypeOK
    <3>2. \A b \in Actors : npc[b] = "set" => npc'[b] = npc[b] /\ nbit'[b] = nbit[b]
      BY DEF Commit, TypeOK
    <3> QED
      BY <3>1, <3>2 DEF Commit, RingInv, RingSeen
  <2> QED
    BY <2>1, <2>2
<1>2. CASE \E a \in Actors : SetBit(a) \/ Bell(a)
  <2>1. nsRing # <<>> \/ ~nsAsk => RingSeen
    BY DEF RingInv
  <2> QED
    BY <1>2, <2>1 DEF SetBit, Bell, TypeOK, RingSeen
<1>3. CASE WorkDrained \/ \E s \in Slots : ResetTerm(s)
  <2>1. /\ UNCHANGED <<nsRing, nsAsk, nsReg, spc, sHand>>
        /\ \A a \in Actors : npc[a] = "set" => npc'[a] = npc[a] /\ nbit'[a] = nbit[a]
    BY <1>3, NotifyAssumption DEF WorkDrained, ResetTerm, Loop, TypeOK, WorkInv, Actors
  <2> QED
    BY <2>1 DEF RingInv, RingSeen
<1>4. CASE InvalidateHeader
  <2>1. /\ UNCHANGED <<nsRing, nsAsk, nsReg, spc, sHand>>
        /\ \A a \in Actors : npc[a] = "set" => npc'[a] = npc[a] /\ nbit'[a] = nbit[a]
    BY <1>4, NotifyAssumption DEF InvalidateHeader, Invalidating, TypeOK, WorkInv, Actors
  <2> QED
    BY <2>1 DEF RingInv, RingSeen
<1>5. CASE \E s \in Slots : CloseTerm(s) \/ \E b \in Bits : SendSignal(s, b)
  <2>1. /\ UNCHANGED <<nsRing, nsAsk, nsReg, spc, sHand>>
        /\ \A a \in Actors : npc[a] = "set" => npc'[a] = npc[a] /\ nbit'[a] = nbit[a]
    BY <1>5, NotifyAssumption DEF CloseTerm, SendSignal, TypeOK, Actors
  <2> QED
    BY <2>1 DEF RingInv, RingSeen
<1>6. CASE SecureStarts
  BY <1>6 DEF SecureStarts, SecureInit, SecureTake, SecureWork, WorkInv, RingInv, RingSeen
<1>7. CASE SecureMessage
  BY <1>7 DEF SecureMessage, RingSeen
<1>8. ASSUME \/ UNCHANGED vars \/ Irq \/ IrqQueue \/ IrqSync \/ WorkStart \/ WorkSignal \/ WorkMessage
             \/ Invalidate \/ SecureReset
             \/ \E s \in Slots : \/ Open(s) \/ ClearEvent(s) \/ TakeSignals(s) \/ CloseFinish(s)
                                 \/ SecureUses(s) \/ ResetClose(s) \/ \E c \in Calls : Begin(s, c)
      PROVE (nsRing # <<>> \/ ~nsAsk => RingSeen)'
  <2>1. UNCHANGED <<nsRing, nsAsk, nsReg, spc, sHand, npc, nbit>>
    BY <1>8 DEF vars, Irq, IrqQueue, IrqSync, WorkStart, WorkSignal, WorkMessage, Invalidate, SecureReset,
                Open, ClearEvent, TakeSignals, CloseFinish, SecureUses, SecureFetch, SecureBell,
                SecureSignal, SecureSend, ResetClose, Begin
  <2> QED
    BY <2>1 DEF RingInv, RingSeen
<1> QED
  BY <1>1, <1>2, <1>3, <1>4, <1>5, <1>6, <1>7, <1>8
  DEF AnyStep, Notifier, Handler, Work, Handling, Resetting, SignalStep, Closing

LEMMA OpenRingStep ==
    ASSUME TypeOK, WorkInv, RingInv, [AnyStep]_vars
    PROVE  (nsOpen # <<>> => wpc = "messages" \/ \E a \in Actors : npc[a] = "commit")'
<1>1. CASE \E a \in Actors : Notifier(a)
  BY <1>1 DEF Notifier, Commit, SetBit, Bell, TypeOK, RingInv
<1>2. CASE WorkStart \/ WorkSignal \/ WorkMessage
  BY <1>2 DEF WorkStart, WorkSignal, WorkMessage, RingInv
<1>3. CASE WorkDrained \/ \E s \in Slots : ResetTerm(s)
  <2>1. Worker \in Actors /\ npc'[Worker] = "commit"
    BY <1>3 DEF WorkDrained, ResetTerm, TypeOK, Actors
  <2> QED
    BY <2>1
<1>4. CASE Invalidate
  BY <1>4 DEF Invalidate, Loop, RingInv
<1>5. CASE InvalidateHeader
  <2>1. /\ UNCHANGED nsOpen /\ (wpc = "messages" => wpc' = "messages")
        /\ \A a \in Actors : npc[a] = "commit" => npc'[a] = "commit"
    BY <1>5, NotifyAssumption DEF InvalidateHeader, Invalidating, TypeOK, WorkInv, Actors
  <2> QED
    BY <2>1 DEF RingInv
<1>6. CASE \E s \in Slots : CloseTerm(s)
  <2>1. \E s \in Slots : s \in Actors /\ npc'[s] = "commit"
    BY <1>6 DEF CloseTerm, TypeOK, Actors
  <2> QED
    BY <2>1
<1>7. CASE \E s \in Slots, b \in Bits : SendSignal(s, b)
  <2>1. /\ UNCHANGED <<nsOpen, wpc>>
        /\ \A a \in Actors : npc[a] = "commit" => npc'[a] = "commit"
    BY <1>7 DEF SendSignal, TypeOK, Actors
  <2> QED
    BY <2>1 DEF RingInv
<1>8. ASSUME \/ UNCHANGED vars \/ Handler \/ SecureStarts \/ SecureMessage \/ SecureReset
             \/ \E s \in Slots : \/ Open(s) \/ ClearEvent(s) \/ TakeSignals(s) \/ CloseFinish(s)
                                 \/ SecureUses(s) \/ ResetClose(s) \/ \E c \in Calls : Begin(s, c)
      PROVE (nsOpen # <<>> => wpc = "messages" \/ \E a \in Actors : npc[a] = "commit")'
  <2>1. UNCHANGED <<nsOpen, wpc, npc>>
    BY <1>8 DEF vars, Handler, Irq, IrqQueue, IrqSync, SecureStarts, SecureInit, SecureTake, SecureWork,
                SecureMessage, SecureReset, Open, ClearEvent, TakeSignals, CloseFinish,
                SecureUses, SecureFetch, SecureBell, SecureSignal, SecureSend, ResetClose, Begin
  <2> QED
    BY <2>1 DEF RingInv
<1> QED
  BY <1>1, <1>2, <1>3, <1>4, <1>5, <1>6, <1>7, <1>8
  DEF AnyStep, Work, Handling, Resetting, SignalStep, Closing

LEMMA RingStep ==
    ASSUME TypeOK, WorkInv, RingInv, [AnyStep]_vars PROVE RingInv'
BY SecureRingStep, NormalRingStep, OpenRingStep DEF RingInv

(* The handler takes the lock of invalidate_sessions to set the flag.      *)
LEMMA ReadyStep ==
    ASSUME TypeOK, ReadyInv, [AnyStep]_vars PROVE ReadyInv'
<1>1. CASE Irq \/ IrqQueue \/ IrqSync
  BY <1>1 DEF Irq, IrqQueue, IrqSync, Invalidating, ReadyInv, TypeOK
<1>2. CASE Invalidate
  BY <1>2 DEF Invalidate, Invalidating, ReadyInv
<1>3. CASE InvalidateHeader
  BY <1>3 DEF InvalidateHeader, Invalidating, ReadyInv
<1>4. CASE SecureInit
  BY <1>4 DEF SecureInit, Invalidating, ReadyInv
<1>5. CASE WorkStart \/ WorkSignal \/ WorkDrained
  BY <1>5 DEF WorkStart, WorkSignal, WorkDrained, After, Invalidating, ReadyInv
<1>6. ASSUME \/ UNCHANGED vars \/ WorkMessage \/ SecureTake \/ SecureWork \/ SecureMessage
             \/ SecureReset \/ \E a \in Actors : Notifier(a)
             \/ \E s \in Slots : \/ Open(s) \/ SignalStep(s) \/ Closing(s) \/ SecureUses(s)
                                 \/ ResetTerm(s) \/ ResetClose(s) \/ \E c \in Calls : Begin(s, c)
      PROVE ReadyInv'
  <2>1. UNCHANGED <<ready, magic, irq, wpc, gone>>
    BY <1>6 DEF vars, WorkMessage, SecureTake, SecureWork, SecureMessage, SecureReset, Notifier,
                Commit, SetBit, Bell, Open, SignalStep, ClearEvent, TakeSignals, SendSignal,
                Closing, CloseTerm, CloseFinish, SecureUses, SecureFetch, SecureBell,
                SecureSignal, SecureSend, ResetTerm, ResetClose, Begin
  <2> QED
    BY <2>1 DEF Invalidating, ReadyInv
<1> QED
  BY <1>1, <1>2, <1>3, <1>4, <1>5, <1>6
  DEF AnyStep, Handler, Work, Handling, Resetting, SecureStarts

-----------------------------------------------------------------------------
(* Sessions and the messages that end them *)

(* What a ring holds after a message is appended, a ring is committed, or  *)
(* the first message is taken.                                             *)
LEMMA MessageDistinct ==
    \A s, t \in Slots, a, b \in {"DATA", "A_TERM", "A_TERM_ACK"} :
        Message(s, a) = Message(t, b) => s = t /\ a = b
BY DEF Message

LEMMA HoldsEmpty == \A m : ~Holds(<<>>, m)
BY DEF Holds

LEMMA HoldsAppend ==
    ASSUME NEW r \in Seq(Messages), NEW x \in Messages, NEW m
    PROVE  Holds(Append(r, x), m) <=> Holds(r, m) \/ x = m
<1>1. /\ DOMAIN Append(r, x) = 1 .. Len(r) + 1 /\ DOMAIN r = 1 .. Len(r) /\ Len(r) \in Nat
      /\ Append(r, x)[Len(r) + 1] = x
      /\ \A i \in 1 .. Len(r) : Append(r, x)[i] = r[i]
  OBVIOUS
<1> QED
  BY <1>1 DEF Holds

LEMMA HoldsConcat ==
    ASSUME NEW r \in Seq(Messages), NEW q \in Seq(Messages), NEW m
    PROVE  Holds(r \o q, m) <=> Holds(r, m) \/ Holds(q, m)
<1>1. /\ DOMAIN (r \o q) = 1 .. Len(r) + Len(q) /\ Len(r) \in Nat /\ Len(q) \in Nat
      /\ DOMAIN r = 1 .. Len(r) /\ DOMAIN q = 1 .. Len(q)
      /\ \A i \in 1 .. Len(r) : (r \o q)[i] = r[i]
      /\ \A i \in 1 .. Len(q) : (r \o q)[Len(r) + i] = q[i]
  OBVIOUS
<1>2. \A i \in 1 .. Len(r) + Len(q) : i \in 1 .. Len(r) \/ \E j \in 1 .. Len(q) : i = Len(r) + j
  <2> TAKE i \in 1 .. Len(r) + Len(q)
  <2>1. CASE i <= Len(r)
    BY <1>1, <2>1
  <2>2. CASE ~(i <= Len(r))
    <3>1. i - Len(r) \in 1 .. Len(q) /\ i = Len(r) + (i - Len(r))
      BY <1>1, <2>2
    <3> QED
      BY <3>1
  <2> QED
    BY <2>1, <2>2
<1>3. \A j \in 1 .. Len(q) : Len(r) + j \in 1 .. Len(r) + Len(q)
  BY <1>1
<1>4. \A i \in 1 .. Len(r) : i \in 1 .. Len(r) + Len(q)
  BY <1>1
<1>5. ASSUME Holds(r \o q, m) PROVE Holds(r, m) \/ Holds(q, m)
  <2> PICK i \in 1 .. Len(r) + Len(q) : (r \o q)[i] = m
    BY <1>1, <1>5 DEF Holds
  <2>1. CASE i \in 1 .. Len(r)
    BY <1>1, <2>1 DEF Holds
  <2>2. ASSUME NEW j \in 1 .. Len(q), i = Len(r) + j PROVE Holds(q, m)
    BY <1>1, <2>2 DEF Holds
  <2> QED
    BY <1>2, <2>1, <2>2
<1>6. ASSUME Holds(r, m) PROVE Holds(r \o q, m)
  BY <1>1, <1>4, <1>6 DEF Holds
<1>7. ASSUME Holds(q, m) PROVE Holds(r \o q, m)
  BY <1>1, <1>3, <1>7 DEF Holds
<1> QED
  BY <1>5, <1>6, <1>7

LEMMA HoldsTail ==
    ASSUME NEW r \in Seq(Messages), r # <<>>, NEW m
    PROVE  Holds(r, m) <=> Head(r) = m \/ Holds(Tail(r), m)
<1>1. /\ DOMAIN r = 1 .. Len(r) /\ Len(r) \in Nat /\ Len(r) >= 1 /\ Head(r) = r[1]
      /\ DOMAIN Tail(r) = 1 .. Len(r) - 1
      /\ \A i \in 1 .. Len(r) - 1 : Tail(r)[i] = r[i + 1]
  OBVIOUS
<1>2. \A i \in 1 .. Len(r) : i = 1 \/ \E j \in 1 .. Len(r) - 1 : i = j + 1
  <2> TAKE i \in 1 .. Len(r)
  <2>1. CASE i # 1
    <3>1. i - 1 \in 1 .. Len(r) - 1 /\ i = (i - 1) + 1
      BY <1>1, <2>1
    <3> QED
      BY <3>1
  <2> QED
    BY <2>1
<1>3. \A j \in 1 .. Len(r) - 1 : j + 1 \in 1 .. Len(r)
  BY <1>1
<1>4. 1 \in 1 .. Len(r)
  BY <1>1
<1>5. ASSUME Holds(r, m) PROVE Head(r) = m \/ Holds(Tail(r), m)
  <2> PICK i \in 1 .. Len(r) : r[i] = m
    BY <1>1, <1>5 DEF Holds
  <2>1. ASSUME NEW j \in 1 .. Len(r) - 1, i = j + 1 PROVE Holds(Tail(r), m)
    BY <1>1, <2>1 DEF Holds
  <2> QED
    BY <1>1, <1>2, <2>1
<1>6. ASSUME Head(r) = m PROVE Holds(r, m)
  BY <1>1, <1>4, <1>6 DEF Holds
<1>7. ASSUME Holds(Tail(r), m) PROVE Holds(r, m)
  <2> PICK j \in 1 .. Len(r) - 1 : Tail(r)[j] = m
    BY <1>1, <1>7 DEF Holds
  <2> QED
    BY <1>1, <1>3 DEF Holds
<1> QED
  BY <1>5, <1>6, <1>7

(* A session that is configured can be used, and its end has not begun on  *)
(* either side; one that the secure world knows is configured or ending.   *)
LEMMA SessionStep ==
    ASSUME TypeOK, WorkInv, ReadyInv, SessionInv, [AnyStep]_vars PROVE SessionInv'
<1> DEFINE T(s) == Message(s, "A_TERM")
<1>t. \A s \in Slots : /\ T(s) \in Messages /\ Message(s, "A_TERM_ACK") \in Messages
                       /\ \A t \in Slots : /\ T(s) # Message(t, "A_TERM_ACK")
                                           /\ T(s) # Message(t, "DATA")
                                           /\ T(s) = T(t) => s = t
  BY MessageType, MessageDistinct
<1> HIDE DEF T
<1>1. CASE \E a \in Actors : Commit(a)
  <2>1. \A s \in Slots : /\ ~Holds(nsOpen', T(s))
                         /\ Holds(nsRing', T(s)) <=> Holds(nsRing, T(s)) \/ Holds(nsOpen, T(s))
    BY <1>1, HoldsConcat, HoldsEmpty DEF Commit, TypeOK
  <2>2. UNCHANGED <<gone, open, conf, ready, magic, upc, wpc, cursor, sConf, sRing>>
    BY <1>1 DEF Commit
  <2> QED
    BY <2>1, <2>2 DEF SessionInv, Usable, T
<1>2. CASE IrqQueue \/ IrqSync
  BY <1>2 DEF IrqQueue, IrqSync, SessionInv, Usable
<1>3. CASE WorkStart \/ WorkSignal \/ WorkDrained
  <2>1. /\ UNCHANGED <<gone, open, conf, ready, magic, upc, nsOpen, nsRing, sConf, sRing>>
        /\ wpc' = "reset" => cursor' = 0
    BY <1>3 DEF WorkStart, WorkSignal, WorkDrained, After
  <2>2. \A s \in Slots : 0 <= s
    BY DEF Slots
  <2> QED
    BY <2>1, <2>2 DEF SessionInv, Usable
<1>4. CASE WorkMessage
  <2> DEFINE t == Head(sRing).slot
  <2>1. t \in Slots /\ \A s \in Slots : Holds(sRing, T(s)) <=> Head(sRing) = T(s) \/ Holds(sRing', T(s))
    BY <1>4, HeadTail, HoldsTail DEF WorkMessage, TypeOK
  <2>2. UNCHANGED <<gone, open, ready, magic, upc, nsRing, wpc, cursor, sConf>> /\ wpc = "messages"
    BY <1>4 DEF WorkMessage
  <2>3. CASE Head(sRing).act = "A_TERM" /\ open[t]
    <3>1. Head(sRing) = T(t)
      BY <1>4, <2>3, HeadTail, MessageType DEF WorkMessage, TypeOK, T
    <3>2. \A s \in Slots : Holds(nsOpen', T(s)) <=> Holds(nsOpen, T(s))
      <4>1. nsOpen' = Append(nsOpen, Message(t, "A_TERM_ACK"))
        BY <1>4, <2>3 DEF WorkMessage
      <4> QED
        BY <4>1, <2>1, <1>t, HoldsAppend DEF TypeOK
    <3>3. \A s \in Slots : conf'[s] = IF s = t THEN "null" ELSE conf[s]
      BY <1>4, <2>1, <2>3 DEF WorkMessage, TypeOK
    <3> QED
      BY <2>1, <2>2, <3>1, <3>2, <3>3 DEF SessionInv, Usable, T
  <2>4. CASE ~(Head(sRing).act = "A_TERM" /\ open[t])
    <3>1. UNCHANGED <<conf, nsOpen>>
      BY <1>4, <2>4 DEF WorkMessage
    <3> QED
      BY <2>1, <2>2, <3>1 DEF SessionInv, Usable, T
  <2> QED
    BY <2>3, <2>4
<1>5. CASE \E s \in Slots : ResetTerm(s) \/ CloseTerm(s)
  <2> PICK s \in Slots : ResetTerm(s) \/ CloseTerm(s)
    BY <1>5
  <2>1. \A t \in Slots : Holds(nsOpen', T(t)) <=> Holds(nsOpen, T(t)) \/ t = s
    <3>1. nsOpen' = Append(nsOpen, T(s))
      BY DEF ResetTerm, CloseTerm, T
    <3> QED
      BY <3>1, <1>t, HoldsAppend DEF TypeOK
  <2>2. /\ UNCHANGED <<gone, open, ready, magic, nsRing, wpc, cursor, sConf, sRing>>
        /\ \A t \in Slots : conf'[t] = IF t = s THEN "term" ELSE conf[t]
        /\ \A t \in Slots : t # s => upc'[t] = upc[t]
    BY DEF ResetTerm, CloseTerm, TypeOK
  <2> QED
    BY <2>1, <2>2 DEF SessionInv, Usable, T
<1>6. CASE \E s \in Slots : ResetClose(s)
  <2> PICK s \in Slots : ResetClose(s)
    BY <1>6
  <2>1. /\ UNCHANGED <<gone, ready, magic, upc, nsOpen, nsRing, wpc, sConf, sRing>>
        /\ wpc = "reset" /\ cursor = s /\ cursor' = s + 1
        /\ ~(open[s] /\ conf[s] = "conf")
        /\ \A t \in Slots : /\ conf'[t] = IF t = s /\ open[s] THEN "null" ELSE conf[t]
                            /\ open'[t] <=> open[t] /\ t # s
    BY DEF ResetClose, Loop, TypeOK
  <2>2. conf[s] # "conf" /\ \A t \in Slots : s <= t /\ t # s => s + 1 <= t
    BY <2>1 DEF SessionInv, Slots
  <2> QED
    BY <2>1, <2>2 DEF SessionInv, Usable
<1>7. CASE Invalidate
  <2>1. \A s \in Slots : conf[s] # "conf"
    BY <1>7, NotifyAssumption DEF Invalidate, Loop, SessionInv, Slots
  <2>2. /\ UNCHANGED <<open, conf, sConf, sRing, nsOpen, nsRing>>
        /\ gone' # "no" => gone # "no"
    BY <1>7 DEF Invalidate
  <2> QED
    BY <2>1, <2>2 DEF SessionInv
<1>8. CASE InvalidateHeader
  <2>1. \A s \in Slots : conf[s] # "conf"
    BY <1>8 DEF InvalidateHeader, ReadyInv, SessionInv, Usable
  <2>2. /\ UNCHANGED <<open, conf, sConf, sRing, nsOpen, nsRing>>
        /\ gone' # "no" => gone # "no"
    BY <1>8 DEF InvalidateHeader, Invalidating
  <2> QED
    BY <2>1, <2>2 DEF SessionInv
<1>9. CASE \E s \in Slots : Open(s)
  <2> PICK s \in Slots : Open(s)
    BY <1>9
  <2>1. ~Holds(nsOpen, T(s)) /\ ~Holds(nsRing, T(s)) /\ ~Holds(sRing, T(s))
    BY MessageType DEF Open, Holds, T
  <2>2. /\ UNCHANGED <<gone, ready, magic, upc, nsOpen, nsRing, wpc, cursor, sRing>>
        /\ gone = "no" /\ Usable /\ wpc # "reset" /\ upc[s] # "closing"
        /\ \A t \in Slots : /\ conf'[t] = IF t = s THEN "conf" ELSE conf[t]
                            /\ open'[t] <=> open[t] \/ t = s
                            /\ sConf'[t] <=> sConf[t] \/ t = s
    BY DEF Open, TypeOK
  <2> QED
    BY <2>1, <2>2 DEF SessionInv, Usable, T
<1>10. CASE \E s \in Slots : \E c \in Calls : Begin(s, c)
  <2> PICK s \in Slots, c \in Calls : Begin(s, c)
    BY <1>10
  <2>1. /\ UNCHANGED <<gone, open, conf, ready, magic, nsOpen, nsRing, wpc, cursor, sConf, sRing>>
        /\ \A t \in Slots : t # s => upc'[t] = upc[t]
        /\ upc'[s] # "closing" \/ ~Usable \/ conf[s] # "conf"
    BY NotifyAssumption DEF Begin, TypeOK
  <2> QED
    BY <2>1 DEF SessionInv, Usable
<1>11. CASE \E s \in Slots : ClearEvent(s)
  <2> PICK s \in Slots : ClearEvent(s)
    BY <1>11
  <2>1. /\ UNCHANGED <<gone, conf, ready, magic, nsOpen, nsRing, wpc, cursor, sConf, sRing>>
        /\ \A t \in Slots : /\ upc'[t] = "closing" => upc[t] = "closing"
                            /\ open'[t] => open[t]
                            /\ conf[t] = "conf" /\ open[t] => open'[t]
    BY DEF ClearEvent, TypeOK
  <2> QED
    BY <2>1 DEF SessionInv, Usable
<1>12. CASE \E s \in Slots : CloseFinish(s)
  <2> PICK s \in Slots : CloseFinish(s)
    BY <1>12
  <2>1. /\ UNCHANGED <<gone, ready, magic, nsOpen, nsRing, wpc, cursor, sConf, sRing>>
        /\ upc[s] = "closing"
        /\ \A t \in Slots : /\ conf'[t] = IF t = s THEN "null" ELSE conf[t]
                            /\ open'[t] <=> open[t] /\ t # s
                            /\ t # s => upc'[t] = upc[t]
    BY DEF CloseFinish, TypeOK
  <2> QED
    BY <2>1 DEF SessionInv, Usable
<1>13. CASE \E s \in Slots : TakeSignals(s) \/ \E b \in Bits : SendSignal(s, b)
  <2>1. /\ UNCHANGED <<gone, open, conf, ready, magic, nsOpen, nsRing, wpc, cursor, sConf, sRing>>
        /\ \A t \in Slots : upc'[t] = "closing" => upc[t] = "closing"
    BY <1>13 DEF TakeSignals, SendSignal, TypeOK
  <2> QED
    BY <2>1 DEF SessionInv, Usable
<1>14. CASE SecureInit
  <2>1. \A s \in Slots : conf[s] # "conf" /\ ~sConf'[s]
    BY <1>14 DEF SecureInit, SessionInv, Usable
  <2>2. UNCHANGED <<gone, open, conf>>
    BY <1>14 DEF SecureInit
  <2> QED
    BY <2>1, <2>2 DEF SessionInv
<1>15. CASE SecureMessage
  <2>1. CASE nsRing = <<>>
    <3>1. UNCHANGED <<gone, open, conf, ready, magic, upc, nsOpen, nsRing, wpc, cursor, sConf, sRing>>
      BY <1>15, <2>1 DEF SecureMessage
    <3> QED
      BY <3>1 DEF SessionInv, Usable
  <2>2. CASE nsRing # <<>>
    <3> DEFINE m == Head(nsRing)
    <3>1. /\ m \in Messages /\ m.slot \in Slots
          /\ \A s \in Slots : Holds(nsRing, T(s)) <=> m = T(s) \/ Holds(nsRing', T(s))
      BY <1>15, <2>2, HeadTail, HoldsTail DEF SecureMessage, TypeOK
    <3>2. UNCHANGED <<gone, open, conf, ready, magic, upc, nsOpen, wpc, cursor>>
      BY <1>15 DEF SecureMessage
    <3>3. CASE m.act = "A_TERM"
      <4>1. m = T(m.slot)
        BY <3>1, <3>3, MessageType DEF T
      <4>2. sRing' = Append(sRing, Message(m.slot, "A_TERM_ACK"))
        BY <1>15, <2>2, <3>3 DEF SecureMessage
      <4>3. \A s \in Slots : Holds(sRing', T(s)) <=> Holds(sRing, T(s))
        BY <3>1, <4>2, <1>t, HoldsAppend DEF TypeOK
      <4>4. \A s \in Slots : sConf'[s] <=> sConf[s] /\ s # m.slot
        BY <1>15, <2>2, <3>1, <3>3 DEF SecureMessage, TypeOK
      <4>5. \A s \in Slots : s # m.slot => m # T(s)
        BY <3>1, <4>1, <1>t
      <4> QED
        BY <3>1, <3>2, <4>3, <4>4, <4>5 DEF SessionInv, Usable, T
    <3>4. CASE m.act # "A_TERM"
      <4>1. UNCHANGED <<sConf, sRing>> /\ \A s \in Slots : m # T(s)
        BY <1>15, <2>2, <3>4, MessageType DEF SecureMessage, T
      <4> QED
        BY <3>1, <3>2, <4>1 DEF SessionInv, Usable, T
    <3> QED
      BY <3>3, <3>4
  <2> QED
    BY <2>1, <2>2
<1>16. CASE \E s \in Slots, a \in {"DATA", "A_TERM"} : SecureSend(s, a)
  <2> PICK s \in Slots, a \in {"DATA", "A_TERM"} : SecureSend(s, a)
    BY <1>16
  <2>1. \A t \in Slots : Holds(sRing', T(t)) <=> Holds(sRing, T(t)) \/ (t = s /\ a = "A_TERM")
    BY <1>t, HoldsAppend, MessageType, MessageDistinct DEF SecureSend, TypeOK, T
  <2>2. \A t \in Slots : sConf'[t] <=> sConf[t] /\ ~(t = s /\ a = "A_TERM")
    BY DEF SecureSend, TypeOK
  <2>3. UNCHANGED <<gone, open, conf, ready, magic, upc, nsOpen, nsRing, wpc, cursor>>
    BY DEF SecureSend
  <2> QED
    BY <2>1, <2>2, <2>3 DEF SessionInv, Usable, T
<1>17. ASSUME \/ UNCHANGED vars \/ Irq \/ SecureTake \/ SecureWork \/ SecureReset
              \/ \E a \in Actors : SetBit(a) \/ Bell(a)
              \/ \E s \in Slots : \/ SecureFetch(s) \/ SecureBell(s)
                                  \/ \E b \in Bits : SecureSignal(s, b)
       PROVE SessionInv'
  <2>1. UNCHANGED <<gone, open, conf, ready, magic, upc, nsOpen, nsRing, wpc, cursor, sConf, sRing>>
    BY <1>17 DEF vars, Irq, SecureTake, SecureWork, SecureReset, SetBit, Bell, SecureFetch,
                 SecureBell, SecureSignal
  <2> QED
    BY <2>1 DEF SessionInv, Usable
<1> QED
  BY <1>1, <1>2, <1>3, <1>4, <1>5, <1>6, <1>7, <1>8, <1>9, <1>10, <1>11, <1>12, <1>13, <1>14,
     <1>15, <1>16, <1>17
  DEF AnyStep, Notifier, Handler, Work, Handling, Resetting, SignalStep, Closing, SecureStarts,
      SecureUses

(* A session that can be used is known to the secure world, unless its end *)
(* is in the ring: SecureInit forgets sessions only when none is           *)
(* configured, and only A_TERM ends one.                                   *)
LEMMA AcrossResetStep ==
    ASSUME TypeOK, ReadyInv, SessionInv, NoSessionAcrossReset, [AnyStep]_vars
    PROVE  NoSessionAcrossReset'
<1> DEFINE T(s) == Message(s, "A_TERM")
           Known(s) == sConf[s] \/ Holds(sRing, T(s))
<1>0. /\ \A s \in Slots : conf[s] = "conf" => Known(s)
      /\ NoSessionAcrossReset' <=> \A s \in Slots : Usable' /\ conf'[s] = "conf" => Known(s)'
  BY DEF NoSessionAcrossReset, SessionInv, Holds
<1> HIDE DEF T
<1> SUFFICES ASSUME NEW s \in Slots, conf'[s] = "conf" PROVE Known(s)'
  BY <1>0
<1>1. CASE WorkMessage
  <2>1. Head(sRing).slot \in Slots /\ (Holds(sRing, T(s)) <=> Head(sRing) = T(s) \/ Holds(sRing', T(s)))
    BY <1>1, HeadTail, HoldsTail DEF WorkMessage, TypeOK
  <2>2. conf[s] = "conf" /\ open[s] /\ UNCHANGED sConf
    BY <1>1, <2>1 DEF WorkMessage, TypeOK, SessionInv
  <2>3. Head(sRing) # T(s)
    BY <1>1, <2>1, <2>2, MessageType DEF WorkMessage, TypeOK, T
  <2> QED
    BY <1>0, <2>1, <2>2, <2>3
<1>2. CASE \E t \in Slots : Open(t)
  <2>1. conf[s] = "conf" \/ sConf'[s]
    BY <1>2 DEF Open, TypeOK
  <2>2. (sConf[s] => sConf'[s]) /\ UNCHANGED sRing
    BY <1>2 DEF Open, TypeOK
  <2> QED
    BY <1>0, <2>1, <2>2
<1>3. CASE SecureInit
  <2>1. conf[s] = "conf" /\ magic # 2
    BY <1>3 DEF SecureInit
  <2> QED
    BY <2>1 DEF SessionInv, Usable
<1>4. CASE SecureMessage
  <2>1. conf[s] = "conf"
    BY <1>4 DEF SecureMessage
  <2>2. CASE nsRing # <<>> /\ Head(nsRing).act = "A_TERM"
    <3> DEFINE m == Head(nsRing)
    <3>1. /\ m \in Messages /\ m.slot \in Slots /\ m = T(m.slot)
          /\ Holds(nsRing, T(m.slot)) /\ Message(m.slot, "A_TERM_ACK") \in Messages
      BY <2>2, HeadTail, HoldsTail, MessageType DEF TypeOK, T
    <3>2. m.slot # s
      BY <2>1, <3>1 DEF SessionInv, T
    <3>3. sConf'[s] = sConf[s] /\ sRing' = Append(sRing, Message(m.slot, "A_TERM_ACK"))
      BY <1>4, <2>2, <3>1, <3>2 DEF SecureMessage, TypeOK
    <3>4. Holds(sRing, T(s)) => Holds(sRing', T(s))
      BY <3>1, <3>3, HoldsAppend DEF TypeOK
    <3> QED
      BY <1>0, <2>1, <3>3, <3>4
  <2>3. CASE ~(nsRing # <<>> /\ Head(nsRing).act = "A_TERM")
    <3>1. UNCHANGED <<sConf, sRing>>
      BY <1>4, <2>3 DEF SecureMessage
    <3> QED
      BY <1>0, <2>1, <3>1
  <2> QED
    BY <2>2, <2>3
<1>5. CASE \E t \in Slots, a \in {"DATA", "A_TERM"} : SecureSend(t, a)
  <2> PICK t \in Slots, a \in {"DATA", "A_TERM"} : SecureSend(t, a)
    BY <1>5
  <2>1. conf[s] = "conf" /\ sRing' = Append(sRing, Message(t, a)) /\ Message(t, a) \in Messages
    BY MessageType DEF SecureSend
  <2>2. Holds(sRing', T(s)) <=> Holds(sRing, T(s)) \/ Message(t, a) = T(s)
    BY <2>1, HoldsAppend DEF TypeOK
  <2>3. sConf[s] => sConf'[s] \/ Message(t, a) = T(s)
    BY DEF SecureSend, TypeOK, T
  <2> QED
    BY <1>0, <2>1, <2>2, <2>3
<1>6. ASSUME \/ UNCHANGED vars \/ Handler \/ SecureTake \/ SecureWork \/ SecureReset
             \/ WorkStart \/ WorkSignal \/ WorkDrained \/ Resetting
             \/ \E a \in Actors : Notifier(a)
             \/ \E t \in Slots : \/ SignalStep(t) \/ Closing(t) \/ SecureFetch(t) \/ SecureBell(t)
                                 \/ \E b \in Bits : SecureSignal(t, b)
                                 \/ \E c \in Calls : Begin(t, c)
      PROVE Known(s)'
  <2>1. UNCHANGED <<sConf, sRing>>
    BY <1>6 DEF vars, Handler, Irq, IrqQueue, IrqSync, SecureTake, SecureWork, SecureReset, WorkStart,
                WorkSignal, WorkDrained, Resetting, Invalidate, InvalidateHeader, ResetTerm,
                ResetClose, Notifier, Commit, SetBit, Bell, SignalStep, ClearEvent, TakeSignals,
                SendSignal, Closing, CloseTerm, CloseFinish, SecureFetch, SecureBell,
                SecureSignal, Begin
  <2>2. conf[s] = "conf"
    BY <1>6 DEF vars, Handler, Irq, IrqQueue, IrqSync, SecureTake, SecureWork, SecureReset, WorkStart,
                WorkSignal, WorkDrained, Resetting, Invalidate, InvalidateHeader, ResetTerm,
                ResetClose, Notifier, Commit, SetBit, Bell, SignalStep, ClearEvent, TakeSignals,
                SendSignal, Closing, CloseTerm, CloseFinish, SecureFetch, SecureBell,
                SecureSignal, Begin, TypeOK
  <2> QED
    BY <1>0, <2>1, <2>2
<1> QED
  BY <1>1, <1>2, <1>3, <1>4, <1>5, <1>6
  DEF AnyStep, Work, Handling, SecureStarts, SecureUses

-----------------------------------------------------------------------------
(* Signals of the secure world *)

(* The round over the sessions reaches the next session, or ends with the  *)
(* last one.                                                               *)
LEMMA RoundFacts ==
    ASSUME first \in Slots
    PROVE  /\ Round(first) = 0
           /\ \A s \in Slots : Round(s) \in Slots
           /\ \A c, s \in Slots : Round(c) <= Round(s) /\ s # c =>
                /\ Succ(c) # first
                /\ Round(Succ(c)) <= Round(s)
BY NotifyAssumption, SuccIs DEF Slots, Round

(* A signal stays announced until its session or its signals end.          *)
LEMMA SignalsStep ==
    ASSUME TypeOK, WorkInv, ReadyInv, SessionInv, SignalInv, [AnyStep]_vars PROVE SignalInv'
<1>1. CASE WorkStart
  <2>1. UNCHANGED <<sConf, sSig, conf, event, upc, sBell, first>> /\ wpc = "idle"
    BY <1>1 DEF WorkStart
  <2>2. \A s \in Slots : s \in sReg =>
          \/ s \in sReg'
          \/ s \in hand' /\ wpc' = "signals" /\ cursor' = first
          \/ RESET \in hand' /\ wpc' = "reset"
    BY <1>1 DEF WorkStart, After
  <2>3. \A s \in Slots : cursor' = first => (Round(cursor) <= Round(s))'
    BY <2>1, NotifyAssumption DEF TypeOK, Round, Slots
  <2> QED
    BY <2>1, <2>2, <2>3 DEF SignalInv, Announced, Both
<1>2. CASE WorkSignal
  <2>1. /\ UNCHANGED <<sConf, sSig, conf, upc, sReg, sBell>>
        /\ cursor \in Slots /\ first \in Slots /\ wpc = "signals"
        /\ \A s \in Slots : event'[s] <=> event[s] \/ (s = cursor /\ cursor \in hand)
    BY <1>2 DEF WorkSignal, WorkInv, TypeOK
  <2>2. ASSUME NEW s \in Slots, s \in hand, Round(cursor) <= Round(s), s # cursor
        PROVE  s \in hand' /\ wpc' = "signals" /\ (Round(cursor) <= Round(s))'
    <3>1. Succ(cursor) # first /\ Round(Succ(cursor)) <= Round(s)
      BY <2>1, <2>2, RoundFacts
    <3>2. cursor' = Succ(cursor) /\ UNCHANGED <<first, wpc, hand>>
      BY <1>2, <3>1 DEF WorkSignal
    <3> QED
      BY <2>1, <2>2, <3>1, <3>2 DEF Round
  <2> QED
    BY <2>1, <2>2 DEF SignalInv, Announced, Both
<1>3. CASE WorkMessage
  <2>1. /\ UNCHANGED <<sConf, sSig, upc, sReg, sBell, hand, wpc, cursor, first>>
        /\ Head(sRing).slot \in Slots
    BY <1>3, HeadTail DEF WorkMessage, TypeOK
  <2>2. \A s \in Slots : (conf'[s] = "conf" => conf[s] = "conf") /\ (event[s] => event'[s])
    BY <1>3, <2>1 DEF WorkMessage, TypeOK
  <2> QED
    BY <2>1, <2>2 DEF SignalInv, Announced, Both, Round
<1>4. CASE WorkDrained
  BY <1>4 DEF WorkDrained, SignalInv, Announced, Both
<1>5. CASE Invalidate \/ \E s \in Slots : ResetTerm(s) \/ ResetClose(s)
  <2>1. /\ UNCHANGED <<sConf, sSig, upc, sReg, sBell, hand, first>>
        /\ \/ wpc = "reset" /\ wpc' \in {"reset", "invalidate"}
           \/ UNCHANGED <<wpc, cursor, event, conf>>
    BY <1>5 DEF Invalidate, ResetTerm, ResetClose, Loop
  <2> QED
    BY <2>1 DEF WorkInv, SignalInv, Announced, Both, Round
<1>6. CASE InvalidateHeader
  <2>1. \A s \in Slots : conf[s] # "conf"
    BY <1>6 DEF InvalidateHeader, ReadyInv, SessionInv, Usable
  <2> QED
    BY <1>6, <2>1 DEF InvalidateHeader, SignalInv, Both
<1>7. CASE \E s \in Slots : Open(s)
  <2> PICK s \in Slots : Open(s)
    BY <1>7
  <2>1. ~sConf[s]
    <3>1. ~Holds(nsOpen, Message(s, "A_TERM")) /\ ~Holds(nsRing, Message(s, "A_TERM"))
      BY MessageType DEF Open, Holds
    <3> QED
      BY <3>1 DEF Open, SessionInv
  <2>2. /\ UNCHANGED <<sSig, upc, sReg, sBell, hand, wpc, cursor, first>>
        /\ \A t \in Slots : t # s => /\ conf'[t] = conf[t] /\ event'[t] = event[t]
                                     /\ sConf'[t] = sConf[t]
    BY DEF Open, TypeOK
  <2>3. sSig'[s] = {} /\ sConf'[s]
    BY <2>1 DEF Open, TypeOK, SignalInv
  <2> QED
    BY <2>2, <2>3 DEF SignalInv, Announced, Both, Round
<1>8. CASE \E s \in Slots : \/ CloseTerm(s) \/ CloseFinish(s) \/ ClearEvent(s)
                            \/ \E c \in Calls : Begin(s, c)
                            \/ \E b \in Bits : SendSignal(s, b)
  <2>1. /\ UNCHANGED <<sConf, sSig, sReg, sBell, hand, wpc, cursor, first>>
        /\ \A t \in Slots : /\ conf'[t] = "conf" => conf[t] = "conf"
                            /\ conf'[t] = "conf" /\ event[t] => event'[t] \/ upc'[t] = "take"
                            /\ upc[t] = "take" => upc'[t] = "take"
    BY <1>8, NotifyAssumption DEF CloseTerm, CloseFinish, ClearEvent, Begin, SendSignal, TypeOK
  <2> QED
    BY <2>1 DEF SignalInv, Announced, Both, Round
<1>9. CASE \E s \in Slots : TakeSignals(s)
  <2> PICK s \in Slots : TakeSignals(s)
    BY <1>9
  <2>1. /\ UNCHANGED <<sConf, conf, event, sReg, sBell, hand, wpc, cursor, first>>
        /\ sSig'[s] = {}
        /\ \A t \in Slots : t # s => sSig'[t] = sSig[t] /\ upc'[t] = upc[t]
    BY DEF TakeSignals, TypeOK
  <2> QED
    BY <2>1 DEF SignalInv, Announced, Both, Round
<1>10. CASE SecureInit
  BY <1>10 DEF SecureInit, SignalInv
<1>11. CASE SecureMessage
  <2>1. /\ UNCHANGED <<conf, event, upc, sBell, hand, wpc, cursor, first>> /\ sReg \subseteq sReg'
    BY <1>11 DEF SecureMessage
  <2>2. nsRing # <<>> => Head(nsRing).slot \in Slots
    BY HeadTail DEF TypeOK
  <2>3. \A s \in Slots : sSig'[s] = {} \/ (sSig'[s] = sSig[s] /\ sConf'[s] = sConf[s])
    BY <1>11, <2>2 DEF SecureMessage, TypeOK
  <2> QED
    BY <2>1, <2>3 DEF SignalInv, Announced, Both, Round
<1>12. CASE \E s \in Slots, b \in Bits : SecureSignal(s, b)
  <2> PICK s \in Slots, b \in Bits : SecureSignal(s, b)
    BY <1>12
  <2>1. /\ UNCHANGED <<sConf, conf, event, upc, sReg, hand, wpc, cursor, first>>
        /\ sConf[s] /\ sBell \subseteq sBell' /\ (sSig[s] = {} => s \in sBell')
        /\ \A t \in Slots : t # s => sSig'[t] = sSig[t]
    BY DEF SecureSignal, TypeOK
  <2> QED
    BY <2>1 DEF SignalInv, Announced, Both, Round
<1>13. CASE \E s \in Slots : SecureBell(s)
  BY <1>13 DEF SecureBell, SignalInv, Announced, Both, Round
<1>14. CASE \E s \in Slots, a \in {"DATA", "A_TERM"} : SecureSend(s, a)
  <2>1. /\ UNCHANGED <<conf, event, upc, sBell, hand, wpc, cursor, first>> /\ sReg \subseteq sReg'
        /\ \A s \in Slots : sSig'[s] = {} \/ (sSig'[s] = sSig[s] /\ sConf'[s] = sConf[s])
    BY <1>14 DEF SecureSend, TypeOK
  <2> QED
    BY <2>1 DEF SignalInv, Announced, Both, Round
<1>15. CASE SecureReset
  BY <1>15 DEF SecureReset, SignalInv, Announced, Both, Round
<1>16. ASSUME \/ UNCHANGED vars \/ Handler \/ SecureTake \/ SecureWork
              \/ \E a \in Actors : Notifier(a)
              \/ \E s \in Slots : SecureFetch(s)
       PROVE SignalInv'
  <2>1. UNCHANGED <<sConf, sSig, conf, event, upc, sReg, sBell, hand, wpc, cursor, first>>
    BY <1>16 DEF vars, Handler, Irq, IrqQueue, IrqSync, SecureTake, SecureWork, Notifier, Commit, SetBit,
                 Bell, SecureFetch
  <2> QED
    BY <2>1 DEF SignalInv, Announced, Both, Round
<1> QED
  BY <1>1, <1>2, <1>3, <1>4, <1>5, <1>6, <1>7, <1>8, <1>9, <1>10, <1>11, <1>12, <1>13, <1>14,
     <1>15, <1>16
  DEF AnyStep, Work, Handling, Resetting, SignalStep, Closing, SecureStarts, SecureUses

-----------------------------------------------------------------------------
(* The invariant *)

LEMMA NotifyInitial == SessionsInit /\ toS \in BOOLEAN => NotifyInv
<1> SUFFICES ASSUME SessionsInit, toS \in BOOLEAN PROVE NotifyInv
  OBVIOUS
<1>1. TypeOK
  <2>1. /\ nsReg \in Registers /\ sReg \in Registers /\ hand \in Registers /\ sHand \in Registers
        /\ cursor \in 0 .. NSlots /\ first \in Slots /\ resets \in 0 .. MaxResets /\ magic \in 1 .. 2
        /\ nsOpen \in Seq(Messages) /\ nsRing \in Seq(Messages) /\ sRing \in Seq(Messages)
    BY NotifyAssumption DEF SessionsInit, Registers, Slots
  <2>2. /\ nsSig \in [Slots -> SUBSET Bits] /\ sSig \in [Slots -> SUBSET Bits]
        /\ npc \in [Actors -> {"none", "commit", "set", "bell"}]
        /\ nbit \in [Actors -> Slots \cup {MESSAGE, RESET}]
        /\ upc \in [Slots -> {"idle", "send", "get", "wait", "take", "close", "closing"}]
        /\ conf \in [Slots -> {"null", "conf", "term"}]
    BY DEF SessionsInit
  <2>3. /\ open \in [Slots -> BOOLEAN] /\ event \in [Slots -> BOOLEAN]
        /\ sConf \in [Slots -> BOOLEAN] /\ sEvent \in [Slots -> BOOLEAN]
    BY Zenon DEF SessionsInit
  <2>4. /\ ready \in BOOLEAN /\ toNs \in BOOLEAN /\ queued \in BOOLEAN
        /\ nsAsk \in BOOLEAN /\ sAsk \in BOOLEAN
    BY Zenon DEF SessionsInit
  <2>5. /\ irq \in {"none", "sync"} /\ sBell \subseteq Slots
        /\ wpc \in {"idle", "signals", "messages", "reset", "invalidate"}
        /\ gone \in {"no", "flushed", "invalidating", "sent", "yes"}
        /\ spc \in {"idle", "work", "messages"}
    BY DEF SessionsInit
  <2> QED
    BY <2>1, <2>2, <2>3, <2>4, <2>5 DEF TypeOK
<1>2. WorkInv /\ RegisterInv /\ RingInv
  BY DEF SessionsInit, WorkInv, RegisterInv, RingInv, Actors
<1>3. ReadyInv /\ SessionInv /\ SignalInv
  BY DEF SessionsInit, ReadyInv, Invalidating, SessionInv, SignalInv, Both
<1> QED
  BY <1>1, <1>2, <1>3 DEF NotifyInv

(* Every step of the two worlds keeps the invariant: those of the users,   *)
(* of the handler and the work item, handshakes and resets included.       *)
THEOREM NotifyStep ==
    ASSUME NotifyInv, [AnyStep]_vars PROVE NotifyInv'
BY TypeStep, WorkStep, RegisterStep, RingStep, ReadyStep, SessionStep, SignalsStep DEF NotifyInv

(* The round of the work item only matters as long as it lasts.            *)
LEMMA InvAnnounces == NotifyInv => SignalIsAnnounced
BY DEF NotifyInv, SignalInv, Announced, SignalIsAnnounced

LEMMA NextIsStep == [Next]_vars => [AnyStep]_vars
BY DEF Next, AnyStep, Work

(* In every state of the notifications each part of the invariant holds,   *)
(* types included: _signal_session stays in the table of sessions.         *)
THEOREM NotifyInvariant == Spec => []NotifyInv
<1>1. Init => NotifyInv
  BY NotifyInitial DEF Init
<1>2. NotifyInv /\ [Next]_vars => NotifyInv'
  BY NotifyStep, NextIsStep
<1> QED
  BY <1>1, <1>2, PTL DEF Spec

(* No signal of the secure world lies in its register without an event, a  *)
(* notification or a user that is about to fetch it.                       *)
THEOREM AnnouncedTheorem == Spec => []SignalIsAnnounced
BY NotifyInvariant, InvAnnounces, PTL

-----------------------------------------------------------------------------
(* Signals of the normal world, while sessions last *)

LEMMA ReachStep ==
    ASSUME NotifyInv, ReachInv, [Next]_vars PROVE ReachInv'
<1> USE DEF NotifyInv
<1> DEFINE Told(s) == sEvent[s] \/ s \in nsReg \/ s \in sHand \/ (npc[s] = "set" /\ nbit[s] = s)
<1>1. CASE \E a \in Actors : Notifier(a)
  <2>1. UNCHANGED <<open, upc, conf, sConf, nsSig>>
    BY <1>1 DEF Notifier, Commit, SetBit, Bell
  <2>2. \A s \in Slots : Told(s) => Told(s)'
    BY <1>1 DEF Notifier, Commit, SetBit, Bell, TypeOK, Actors
  <2> QED
    BY <2>1, <2>2 DEF ReachInv, Both
<1>2. CASE WorkMessage
  <2>1. UNCHANGED <<open, upc, sConf, sEvent, nsReg, sHand, npc, nbit>>
    BY <1>2 DEF WorkMessage
  <2>2. Head(sRing).slot \in Slots
    BY <1>2, HeadTail DEF WorkMessage, TypeOK
  <2>3. \A s \in Slots : \/ nsSig'[s] = nsSig[s] /\ conf'[s] = conf[s]
                         \/ nsSig'[s] = nsSig[s] /\ conf'[s] # "conf" /\ conf[s] # "conf"
                         \/ nsSig'[s] = {}
    BY <1>2, <2>2 DEF WorkMessage, TypeOK
  <2> QED
    BY <2>1, <2>3 DEF ReachInv, Both
<1>3. CASE WorkDrained
  <2>1. /\ UNCHANGED <<open, upc, conf, sConf, nsSig, sEvent, nsReg, sHand>>
        /\ \A s \in Slots : npc'[s] = npc[s] /\ nbit'[s] = nbit[s]
    BY <1>3, NotifyAssumption DEF WorkDrained, TypeOK, Actors
  <2> QED
    BY <2>1 DEF ReachInv, Both
<1>4. CASE SecureInit
  BY <1>4 DEF SecureInit, ReachInv, Both
<1>5. CASE SecureTake \/ SecureWork
  <2>1. UNCHANGED <<open, upc, conf, sConf, nsSig, npc, nbit>>
    BY <1>5 DEF SecureTake, SecureWork
  <2>2. \A s \in Slots : Told(s) => Told(s)'
    BY <1>5 DEF SecureTake, SecureWork, WorkInv, TypeOK
  <2> QED
    BY <2>1, <2>2 DEF ReachInv, Both
<1>6. CASE \E s \in Slots : Open(s)
  <2> PICK s \in Slots : Open(s)
    BY <1>6
  <2>1. /\ UNCHANGED <<upc, nsSig, nsReg, sHand, npc, nbit>> /\ ~open[s] /\ open'[s]
        /\ upc[s] = "idle" /\ nsSig[s] = {}
        /\ \A t \in Slots : t # s => /\ open'[t] = open[t] /\ conf'[t] = conf[t]
                                     /\ sConf'[t] = sConf[t] /\ sEvent'[t] = sEvent[t]
    BY DEF Open, TypeOK, ReachInv
  <2> QED
    BY <2>1 DEF ReachInv, Both
<1>7. CASE \E s \in Slots : \E c \in Calls : Begin(s, c)
  <2> PICK s \in Slots, c \in Calls : Begin(s, c)
    BY <1>7
  <2>1. /\ UNCHANGED <<open, conf, nsSig, sConf, sEvent, nsReg, sHand, npc, nbit>> /\ open[s]
        /\ \A t \in Slots : t # s => upc'[t] = upc[t]
        /\ conf[s] # "conf" => upc'[s] = "closing"
    BY DEF Begin, TypeOK
  <2> QED
    BY <2>1 DEF ReachInv, Both
<1>8. CASE \E s \in Slots, b \in Bits : SendSignal(s, b)
  <2> PICK s \in Slots, b \in Bits : SendSignal(s, b)
    BY <1>8
  <2>1. UNCHANGED <<open, conf, sConf, sEvent, nsReg, sHand>> /\ open[s] /\ upc'[s] = "idle"
    BY DEF SendSignal, TypeOK, ReachInv
  <2>2. \A t \in Slots : t # s => /\ upc'[t] = upc[t] /\ nsSig'[t] = nsSig[t]
                                  /\ npc'[t] = npc[t] /\ nbit'[t] = nbit[t]
    BY DEF SendSignal, TypeOK, Actors
  <2>3. \/ nsSig[s] = {} /\ npc'[s] = "set" /\ nbit'[s] = s
        \/ nsSig[s] # {} /\ npc'[s] = npc[s] /\ nbit'[s] = nbit[s]
    BY DEF SendSignal, TypeOK, Actors
  <2> QED
    BY <2>1, <2>2, <2>3 DEF ReachInv, Both
<1>9. CASE \E s \in Slots : ClearEvent(s)
  <2> PICK s \in Slots : ClearEvent(s)
    BY <1>9
  <2>1. /\ UNCHANGED <<conf, nsSig, sConf, sEvent, nsReg, sHand, npc, nbit>>
        /\ \A t \in Slots : t # s => upc'[t] = upc[t] /\ open'[t] = open[t]
        /\ \/ upc[s] = "wait" /\ conf[s] # "conf" /\ upc'[s] = "idle"
           \/ upc'[s] = "take" /\ open'[s] = open[s]
        /\ open[s]
    BY DEF ClearEvent, TypeOK, ReachInv
  <2> QED
    BY <2>1 DEF ReachInv, Both
<1>10. CASE \E s \in Slots : TakeSignals(s)
  <2> PICK s \in Slots : TakeSignals(s)
    BY <1>10
  <2>1. /\ UNCHANGED <<open, conf, nsSig, sConf, sEvent, nsReg, sHand, npc, nbit>>
        /\ upc'[s] = "idle" /\ \A t \in Slots : t # s => upc'[t] = upc[t]
    BY DEF TakeSignals, TypeOK
  <2> QED
    BY <2>1 DEF ReachInv, Both
<1>11. CASE \E s \in Slots : SecureFetch(s)
  <2>1. /\ UNCHANGED <<open, upc, conf, sConf, nsReg, sHand, npc, nbit>>
        /\ \A s \in Slots : nsSig'[s] = {} \/ (nsSig'[s] = nsSig[s] /\ sEvent'[s] = sEvent[s])
    BY <1>11, ZenonT(40) DEF SecureFetch, TypeOK
  <2> QED
    BY <2>1 DEF ReachInv, Both
<1>12. CASE \E s \in Slots, a \in {"DATA", "A_TERM"} : SecureSend(s, a)
  <2>1. /\ UNCHANGED <<open, upc, conf, nsSig, sEvent, nsReg, sHand, npc, nbit>>
        /\ \A s \in Slots : sConf'[s] => sConf[s]
    BY <1>12 DEF SecureSend, TypeOK
  <2> QED
    BY <2>1 DEF ReachInv, Both
<1>13. ASSUME \/ UNCHANGED vars \/ Handler \/ WorkStart \/ WorkSignal
              \/ \E s \in Slots : SecureBell(s) \/ \E b \in Bits : SecureSignal(s, b)
       PROVE ReachInv'
  <2>1. UNCHANGED <<open, upc, conf, nsSig, sConf, sEvent, nsReg, sHand, npc, nbit>>
    BY <1>13 DEF vars, Handler, Irq, IrqQueue, IrqSync, WorkStart, WorkSignal, SecureBell, SecureSignal
  <2> QED
    BY <2>1 DEF ReachInv, Both
<1> QED
  BY <1>1, <1>2, <1>3, <1>4, <1>5, <1>6, <1>7, <1>8, <1>9, <1>10, <1>11, <1>12, <1>13
  DEF Next, Handling, SignalStep, SecureStarts, SecureUses

(* A signal that a user set is announced to the secure world, or its user  *)
(* is about to announce it: the notification that pnc_session_send_signal  *)
(* leaves out when a signal is pending is never the one that is needed.    *)
THEOREM ReachTheorem == Spec => []SignalReachesSecure
<1>1. Init => ReachInv
  BY DEF Init, SessionsInit, ReachInv, Both
<1>2. NotifyInv /\ ReachInv /\ [Next]_vars => ReachInv'
  BY ReachStep
<1>3. ReachInv => SignalReachesSecure
  BY DEF ReachInv, SignalReachesSecure
<1> QED
  BY <1>1, <1>2, <1>3, NotifyInvariant, PTL DEF Spec

=============================================================================

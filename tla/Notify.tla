------------------------------ MODULE Notify -------------------------------
(***************************************************************************)
(* How the two worlds wake each other (session.c, ree.h): the handshake on *)
(* the header of the shared memory, one notification register and one      *)
(* interrupt per direction, a signal register per session and direction,   *)
(* the interrupt handler, the work item handle_s_notification, the restart *)
(* that E_RESET asks for and pnc_sessions_exit.  PncModule adds when the   *)
(* module is loaded and removed, and the properties that depend on it.     *)
(*                                                                         *)
(* Every atomic access to a register is a step of its own.  Slot s is used *)
(* by user s.  Of the messages only A_TERM and its acknowledgement are     *)
(* told apart; opening and configuring a session is one step (Session      *)
(* models both in full), possible once no message about the slot is left   *)
(* in a ring, as the rings keep the order.                                 *)
(***************************************************************************)
EXTENDS Naturals, Sequences, FiniteSets

CONSTANTS
    NSlots,              \* REE_MAX_SESSIONS
    Bits,                \* the bits of a signal register
    MaxRing,             \* bound: messages in a ring
    MaxResets,           \* bound: how often the secure world asks for a reset
    MESSAGE, RESET,      \* E_MESSAGE and E_RESET, beside E_SIGNAL(0), ...
    Worker, Remover,     \* the work item and the thread that removes the module
    Calls,               \* what users do: of "send", "get", "wait", "close"
    SecureCalls          \* what the secure world does: {"signal", "message", "term"}

Slots == 0 .. NSlots - 1

ASSUME NotifyAssumption ==
    /\ NSlots \in Nat \ {0} /\ MaxRing \in Nat \ {0} /\ MaxResets \in Nat
    /\ MESSAGE \notin Slots /\ RESET \notin Slots /\ MESSAGE # RESET
    /\ Worker \notin Slots /\ Remover \notin Slots /\ Worker # Remover
    /\ Calls \subseteq {"send", "get", "wait", "close"}

VARIABLES
    ready,          \* _session_ready
    magic,          \* of the header: 1 (REE_MAGIC_1) or 2 (REE_MAGIC_2)
    nsReg, sReg,    \* notification registers NS-->S and S-->NS
    nsSig, sSig,    \* signal registers
    nsOpen,         \* messages produced and not committed
    nsRing, sRing,  \* messages the other world can see
    nsAsk, sAsk,    \* the consumer wants to be told of the next message
    toS, toNs,      \* an interrupt is pending in the other world
    irq,            \* the interrupt handler: "none", about to "queue" or to "sync"
    queued,         \* _notification_work is queued
    wpc, hand,      \* the work item: step, notifications it took
    cursor, first,  \* the session it looks at, _signal_session
    npc, nbit,      \* per actor that notifies: step, bit to set
    upc, conf, open, event,   \* per slot: step of its user, session, EVENT_PENDING_SIGNAL
    gone,           \* pnc_sessions_exit: "no", "flushed", ..., "yes" without interrupts
    spc, sHand, sConf, sEvent, sBell, resets  \* the secure world

regVars == <<nsReg, sReg, nsSig, sSig>>
ringVars == <<nsOpen, nsRing, sRing, nsAsk, sAsk>>
linkVars == <<ready, magic, toS, toNs, irq, queued>>
workVars == <<wpc, hand, cursor, first>>
noteVars == <<npc, nbit>>
userVars == <<upc, conf, open, event>>
secureVars == <<spc, sHand, sConf, sEvent, sBell, resets>>
vars == <<regVars, ringVars, linkVars, workVars, noteVars, userVars, secureVars, gone>>

Actors == Slots \cup {Worker, Remover}
Message(s, a) == [slot |-> s, act |-> a]

(* pnc_sessions_init, before any interrupt.                                *)
SessionsInit ==
    /\ ready = FALSE /\ magic = 1 /\ toNs = FALSE
    /\ irq = "none" /\ queued = FALSE
    /\ nsReg = {} /\ sReg = {}
    /\ nsSig = [s \in Slots |-> {}] /\ sSig = [s \in Slots |-> {}]
    /\ nsOpen = <<>> /\ nsRing = <<>> /\ sRing = <<>> /\ nsAsk = TRUE /\ sAsk = TRUE
    /\ wpc = "idle" /\ hand = {} /\ cursor = 0 /\ first = 0
    /\ npc = [a \in Actors |-> "none"] /\ nbit = [a \in Actors |-> MESSAGE]
    /\ upc = [s \in Slots |-> "idle"] /\ conf = [s \in Slots |-> "null"]
    /\ open = [s \in Slots |-> FALSE] /\ event = [s \in Slots |-> FALSE]
    /\ gone = "no"
    /\ spc = "idle" /\ sHand = {} /\ sBell = {} /\ resets = 0
    /\ sConf = [s \in Slots |-> FALSE] /\ sEvent = [s \in Slots |-> FALSE]

(* The end of pnc_init: the first action from NS is on its way.            *)
Init == SessionsInit /\ toS = TRUE

-----------------------------------------------------------------------------
(* Notifying the secure world *)

(* Actor a goes on to set a bit, to commit the ring, or is done.  (Locals  *)
(* that nobody reads any more, such as nbit, go back to one value.)        *)
Notifies(a, step, bit) ==
    /\ npc' = [npc EXCEPT ![a] = step]
    /\ nbit' = [nbit EXCEPT ![a] = bit]

(* notify_ns_message: the commit, which tells whether the other side asked *)
(* to be told of new messages.                                             *)
Commit(a) ==
    /\ npc[a] = "commit"
    /\ nsRing' = nsRing \o nsOpen /\ nsOpen' = <<>>
    /\ nsAsk' = (nsAsk /\ nsOpen = <<>>)
    /\ Notifies(a, IF nsAsk /\ nsOpen # <<>> THEN "set" ELSE "none", MESSAGE)
    /\ UNCHANGED <<sRing, sAsk, regVars, linkVars, workVars, userVars, secureVars, gone>>

(* atomic_fetch_or on the notification register: the interrupt is needed   *)
(* only when nothing was pending.                                          *)
SetBit(a) ==
    /\ npc[a] = "set"
    /\ nsReg' = nsReg \cup {nbit[a]}
    /\ Notifies(a, IF nsReg = {} THEN "bell" ELSE "none", MESSAGE)
    /\ UNCHANGED <<sReg, nsSig, sSig, ringVars, linkVars, workVars, userVars, secureVars, gone>>

(* The monitor call, made on processor 0 by whichever way: the secure      *)
(* world is interrupted, and handles it in its own time.                   *)
pnc_sched_smc == toS' = TRUE

(* notify_s                                                                *)
Bell(a) ==
    /\ npc[a] = "bell"
    /\ pnc_sched_smc
    /\ Notifies(a, "none", MESSAGE)
    /\ UNCHANGED <<ready, magic, toNs, irq, queued, regVars, ringVars, workVars, userVars,
                   secureVars, gone>>

-----------------------------------------------------------------------------
(* The interrupt handler *)

(* The spin lock of invalidate_sessions is held.                           *)
Invalidating == wpc = "invalidate" \/ gone = "invalidating"

(* _session_ready and the magic are read without a lock, beside a work     *)
(* item or a removal on another processor: what the handler then does may  *)
(* come after an invalidation.                                             *)
Irq ==
    /\ toNs /\ irq = "none" /\ gone # "yes"
    /\ toNs' = FALSE
    /\ irq' = IF ready THEN "queue" ELSE IF magic = 2 THEN "sync" ELSE "none"
    /\ UNCHANGED <<ready, magic, toS, queued, regVars, ringVars, workVars, noteVars, userVars,
                   secureVars, gone>>

(* schedule_work, which does nothing for a work item already queued.       *)
IrqQueue ==
    /\ irq = "queue"
    /\ irq' = "none" /\ queued' = TRUE
    /\ UNCHANGED <<ready, magic, toS, toNs, regVars, ringVars, workVars, noteVars, userVars,
                   secureVars, gone>>

(* The framework is enabled, under _session_lock, and the work item        *)
(* scheduled, as the secure world may have set bits before it was ready.   *)
IrqSync ==
    /\ irq = "sync" /\ ~Invalidating
    /\ ready' = TRUE /\ irq' = "queue"
    /\ UNCHANGED <<magic, toS, toNs, queued, regVars, ringVars, workVars, noteVars, userVars,
                   secureVars, gone>>

-----------------------------------------------------------------------------
(* The work item: handle_s_notification *)

(* What the work item goes on with: a reset, or signals, then messages.    *)
After(regs, step) ==
    IF step = "start" /\ RESET \in regs THEN "reset"
    ELSE IF step = "start" /\ regs \cap Slots # {} THEN "signals"
    ELSE IF MESSAGE \in regs THEN "messages" ELSE "idle"

WorkStart ==
    /\ queued /\ wpc = "idle" /\ npc[Worker] = "none"
    /\ queued' = FALSE
    /\ IF magic # 2 THEN UNCHANGED <<sReg, workVars>>
       ELSE /\ hand' = (IF RESET \in sReg THEN {RESET} ELSE sReg) /\ sReg' = {}
            /\ wpc' = After(sReg, "start") /\ cursor' = IF RESET \in sReg THEN 0 ELSE first
            /\ UNCHANGED first
    /\ UNCHANGED <<nsReg, nsSig, sSig, ready, magic, toS, toNs, irq, ringVars, noteVars,
                   userVars, secureVars, gone>>

Succ(s) == (s + 1) % NSlots

(* Mutant: the loop over the sessions stops one too early.                 *)
WorkSignalShort ==
    /\ wpc = "signals"
    /\ cursor' = Succ(cursor)
    /\ IF Succ(Succ(cursor)) = first
         THEN /\ first' = Succ(first) /\ wpc' = After(hand, "signals") /\ hand' = {}
              /\ UNCHANGED event
         ELSE /\ event' = [event EXCEPT ![cursor] = @ \/ cursor \in hand]
              /\ UNCHANGED <<first, wpc, hand>>
    /\ UNCHANGED <<upc, conf, open, regVars, ringVars, linkVars, noteVars, secureVars, gone>>

(* One round over the sessions, from _signal_session on; the next round    *)
(* starts one session further.                                             *)
WorkSignal ==
    /\ wpc = "signals"
    /\ event' = [event EXCEPT ![cursor] = @ \/ cursor \in hand]
    /\ cursor' = Succ(cursor)
    /\ IF Succ(cursor) = first
         THEN first' = Succ(first) /\ wpc' = After(hand, "signals") /\ hand' = {}
         ELSE UNCHANGED <<first, wpc, hand>>
    /\ UNCHANGED <<upc, conf, open, regVars, ringVars, linkVars, noteVars, secureVars, gone>>

(* One message: handle_s_term forgets the signals of the session, wakes    *)
(* its user and produces the acknowledgement, which is not committed yet.  *)
WorkMessage ==
    /\ wpc = "messages" /\ sRing # <<>>
    /\ sRing' = Tail(sRing)
    /\ LET s == Head(sRing).slot  live == conf[s] = "conf" IN
         IF Head(sRing).act = "A_TERM" /\ open[s]
           THEN /\ nsSig' = [nsSig EXCEPT ![s] = IF live THEN {} ELSE @]
                /\ event' = [event EXCEPT ![s] = @ \/ live]
                /\ conf' = [conf EXCEPT ![s] = "null"]
                /\ nsOpen' = Append(nsOpen, Message(s, "A_TERM_ACK"))
           ELSE UNCHANGED <<nsSig, event, conf, nsOpen>>
    /\ UNCHANGED <<nsReg, sReg, sSig, nsRing, nsAsk, sAsk, upc, open, linkVars, workVars,
                   noteVars, secureVars, gone>>

(* Mutant: the ring is left without asking for the next message.           *)
WorkDrainedSilent ==
    /\ wpc = "messages" /\ sRing = <<>>
    /\ wpc' = "idle" /\ hand' = {}
    /\ Notifies(Worker, "commit", MESSAGE)
    /\ UNCHANGED <<ringVars, cursor, first, regVars, linkVars, userVars, secureVars, gone>>

(* The ring is empty, and the secure world is asked to tell of the next    *)
(* message; what the handlers produced is committed.                       *)
WorkDrained ==
    /\ wpc = "messages" /\ sRing = <<>>
    /\ sAsk' = TRUE /\ wpc' = "idle" /\ hand' = {}
    /\ Notifies(Worker, "commit", MESSAGE)
    /\ UNCHANGED <<nsOpen, nsRing, sRing, nsAsk, cursor, first, regVars, linkVars,
                   userVars, secureVars, gone>>

-----------------------------------------------------------------------------
(* handle_s_reset, in the work item, and pnc_sessions_exit *)

Loop(i) == wpc = "reset" /\ npc[Worker] = "none" /\ cursor = i

(* pnc_session_close of every session that is not free: send_term if it is *)
(* configured ...                                                          *)
ResetTerm(s) ==
    /\ Loop(s) /\ open[s] /\ conf[s] = "conf"
    /\ nsSig' = [nsSig EXCEPT ![s] = {}]
    /\ nsOpen' = Append(nsOpen, Message(s, "A_TERM"))
    /\ conf' = [conf EXCEPT ![s] = "term"]
    /\ Notifies(Worker, "commit", MESSAGE)
    /\ UNCHANGED <<nsReg, sReg, sSig, nsRing, sRing, nsAsk, sAsk, upc, open, event, linkVars,
                   workVars, secureVars, gone>>

(* Mutant: the loop passes over configured sessions.                       *)
ResetCloseSkips(s) ==
    /\ Loop(s)
    /\ cursor' = s + 1
    /\ UNCHANGED <<wpc, hand, first, regVars, ringVars, linkVars, noteVars, userVars,
                   secureVars, gone>>

(* Mutant: the wait for A_TERM_ACK has no timeout.                         *)
ResetCloseWaits(s) ==
    /\ Loop(s) /\ ~(open[s] /\ conf[s] = "conf") /\ conf[s] # "term"
    /\ cursor' = s + 1
    /\ conf' = [conf EXCEPT ![s] = IF open[s] THEN "null" ELSE @]
    /\ event' = [event EXCEPT ![s] = @ \/ open[s]]
    /\ open' = [open EXCEPT ![s] = FALSE]
    /\ UNCHANGED <<wpc, hand, first, upc, regVars, ringVars, linkVars, noteVars, secureVars, gone>>

(* ... whose wait for A_TERM_ACK ends with its timeout, as the work item   *)
(* that would receive it is waiting; then the slot is given back.          *)
ResetClose(s) ==
    /\ Loop(s) /\ ~(open[s] /\ conf[s] = "conf")
    /\ cursor' = s + 1
    /\ conf' = [conf EXCEPT ![s] = IF open[s] THEN "null" ELSE @]
    /\ event' = [event EXCEPT ![s] = @ \/ open[s]]
    /\ open' = [open EXCEPT ![s] = FALSE]
    /\ UNCHANGED <<wpc, hand, first, upc, regVars, ringVars, linkVars, noteVars, secureVars, gone>>

(* invalidate_sessions: first the flag ...                                 *)
Invalidate ==
    /\ ~Invalidating
    /\ \/ Loop(NSlots) /\ wpc' = "invalidate" /\ UNCHANGED gone
       \/ gone = "flushed" /\ gone' = "invalidating" /\ UNCHANGED wpc
    /\ ready' = FALSE
    /\ UNCHANGED <<magic, toS, toNs, irq, queued, hand, cursor, first, regVars, ringVars,
                   noteVars, userVars, secureVars>>

(* Mutant: nobody tells the secure world.                                  *)
InvalidateHeaderQuiet ==
    /\ wpc = "invalidate"
    /\ magic' = 1 /\ wpc' = "idle" /\ hand' = {} /\ cursor' = 0
    /\ UNCHANGED <<gone, noteVars, toS, ready, toNs, irq, queued, first, regVars,
                   ringVars, userVars, secureVars>>

(* ... then the header.  A reset forwards the geometry and notifies the    *)
(* secure world; a removal leaves E_RESET for it.                          *)
InvalidateHeader ==
    /\ Invalidating
    /\ magic' = 1
    /\ IF wpc = "invalidate"
         THEN /\ wpc' = "idle" /\ hand' = {} /\ cursor' = 0
              /\ pnc_sched_smc /\ UNCHANGED <<gone, noteVars>>
         ELSE /\ gone' = "sent" /\ Notifies(Remover, "set", RESET)
              /\ UNCHANGED <<wpc, hand, cursor, toS>>
    /\ UNCHANGED <<ready, toNs, irq, queued, first, regVars, ringVars,
                   userVars, secureVars>>

(* pnc_sessions_exit, called when no user is left (so that its loop closes *)
(* no session): flush_work on _notification_work.                          *)
ExitFlush ==
    /\ gone = "no"
    /\ ~queued /\ wpc = "idle" /\ npc[Worker] = "none"
    /\ gone' = "flushed"
    /\ UNCHANGED <<regVars, ringVars, linkVars, workVars, noteVars, userVars, secureVars>>

-----------------------------------------------------------------------------
(* Users of sessions *)

Usable == ready /\ magic = 2

(* pnc_session_open and pnc_session_config; the work item is not in a      *)
(* reset, as it has to receive A_CONFIG_ACK.                               *)
Open(s) ==
    /\ gone = "no" /\ upc[s] = "idle" /\ ~open[s] /\ Usable /\ spc = "idle"
    /\ wpc \in {"idle", "messages"}
    /\ \A m \in {nsOpen, nsRing, sRing} : \A i \in DOMAIN m : m[i].slot # s
    /\ open' = [open EXCEPT ![s] = TRUE] /\ conf' = [conf EXCEPT ![s] = "conf"]
    /\ event' = [event EXCEPT ![s] = FALSE]
    /\ sConf' = [sConf EXCEPT ![s] = TRUE] /\ sEvent' = [sEvent EXCEPT ![s] = FALSE]
    /\ UNCHANGED <<upc, spc, sHand, sBell, resets, regVars, ringVars, linkVars, workVars,
                   noteVars, gone>>

(* check_session_configured succeeds.  (A call that fails changes nothing; *)
(* a close that finds the session ended goes straight to its end.)         *)
Begin(s, c) ==
    /\ c \in Calls /\ upc[s] = "idle" /\ open[s]
    /\ IF Usable /\ conf[s] = "conf" THEN upc' = [upc EXCEPT ![s] = c]
       ELSE c = "close" /\ upc' = [upc EXCEPT ![s] = "closing"]
    /\ UNCHANGED <<conf, open, event, regVars, ringVars, linkVars, workVars, noteVars,
                   secureVars, gone>>

(* Mutant: the test for signals already pending is inverted.               *)
SendSignalOnce(s, b) ==
    /\ upc[s] = "send" /\ npc[s] = "none"
    /\ upc' = [upc EXCEPT ![s] = "idle"]
    /\ nsSig' = [nsSig EXCEPT ![s] = @ \cup {b}]
    /\ IF nsSig[s] # {} THEN Notifies(s, "set", s) ELSE UNCHANGED noteVars
    /\ UNCHANGED <<nsReg, sReg, sSig, conf, open, event, ringVars, linkVars, workVars,
                   secureVars, gone>>

(* pnc_session_send_signal: the signal register, then the notification if  *)
(* no signal was pending.                                                  *)
SendSignal(s, b) ==
    /\ upc[s] = "send" /\ npc[s] = "none"
    /\ upc' = [upc EXCEPT ![s] = "idle"]
    /\ nsSig' = [nsSig EXCEPT ![s] = @ \cup {b}]
    /\ IF nsSig[s] = {} THEN Notifies(s, "set", s) ELSE UNCHANGED noteVars
    /\ UNCHANGED <<nsReg, sReg, sSig, conf, open, event, ringVars, linkVars, workVars,
                   secureVars, gone>>

(* pnc_session_get_signal clears the event; pnc_session_wait_signal waits  *)
(* for it first and gives the slot back if the session has ended.          *)
ClearEvent(s) ==
    /\ upc[s] = "get" \/ (upc[s] = "wait" /\ event[s])
    /\ event' = [event EXCEPT ![s] = FALSE]
    /\ IF upc[s] = "wait" /\ conf[s] # "conf"
         THEN upc' = [upc EXCEPT ![s] = "idle"] /\ open' = [open EXCEPT ![s] = FALSE]
         ELSE upc' = [upc EXCEPT ![s] = "take"] /\ UNCHANGED open
    /\ UNCHANGED <<conf, regVars, ringVars, linkVars, workVars, noteVars, secureVars, gone>>

(* Then the signals are fetched and acknowledged.                          *)
TakeSignals(s) ==
    /\ upc[s] = "take"
    /\ sSig' = [sSig EXCEPT ![s] = {}]
    /\ upc' = [upc EXCEPT ![s] = "idle"]
    /\ UNCHANGED <<nsReg, sReg, nsSig, conf, open, event, ringVars, linkVars, workVars,
                   noteVars, secureVars, gone>>

(* send_term: the signals are forgotten, A_TERM is written ...             *)
CloseTerm(s) ==
    /\ upc[s] = "close" /\ npc[s] = "none"
    /\ nsSig' = [nsSig EXCEPT ![s] = {}]
    /\ nsOpen' = Append(nsOpen, Message(s, "A_TERM"))
    /\ conf' = [conf EXCEPT ![s] = "term"]
    /\ Notifies(s, "commit", MESSAGE)
    /\ upc' = [upc EXCEPT ![s] = "closing"]
    /\ UNCHANGED <<nsReg, sReg, sSig, nsRing, sRing, nsAsk, sAsk, open, event, linkVars,
                   workVars, secureVars, gone>>

(* ... and the slot given back, after the acknowledgement or the timeout.  *)
CloseFinish(s) ==
    /\ upc[s] = "closing" /\ npc[s] = "none"
    /\ conf' = [conf EXCEPT ![s] = "null"]
    /\ event' = [event EXCEPT ![s] = TRUE]
    /\ open' = [open EXCEPT ![s] = FALSE]
    /\ upc' = [upc EXCEPT ![s] = "idle"]
    /\ UNCHANGED <<regVars, ringVars, linkVars, workVars, noteVars, secureVars, gone>>

-----------------------------------------------------------------------------
(* The secure world, the mirror image of the above as ree.h describes it *)

(* It sets bits, and raises the interrupt if none was pending.             *)
SecureNotifies(bits) ==
    /\ sReg' = sReg \cup bits
    /\ toNs' = (toNs \/ sReg = {})

(* Upon the first action it initialises its part and says so.              *)
SecureInit ==
    /\ toS /\ magic = 1 /\ spc = "idle" /\ gone = "no"
    /\ magic' = 2 /\ toS' = FALSE /\ toNs' = TRUE
    /\ nsReg' = {} /\ sReg' = {} /\ sSig' = [s \in Slots |-> {}]
    /\ nsRing' = <<>> /\ sRing' = <<>> /\ nsAsk' = TRUE /\ sAsk' = TRUE
    /\ sHand' = {} /\ sBell' = {}
    /\ sConf' = [s \in Slots |-> FALSE] /\ sEvent' = [s \in Slots |-> FALSE]
    /\ UNCHANGED <<ready, irq, queued, nsSig, nsOpen, workVars, noteVars, userVars, spc, resets,
                   gone>>

SecureTake ==
    /\ toS /\ magic = 2 /\ spc = "idle"
    /\ toS' = FALSE /\ sHand' = nsReg /\ nsReg' = {}
    /\ spc' = "work"
    /\ UNCHANGED <<ready, magic, toNs, irq, queued, sReg, nsSig, sSig, ringVars, workVars,
                   noteVars, userVars, sConf, sEvent, sBell, resets, gone>>

(* It wakes its applications, then handles the messages one by one.        *)
SecureWork ==
    /\ spc = "work"
    /\ sEvent' = [s \in Slots |-> sEvent[s] \/ s \in sHand]
    /\ spc' = IF MESSAGE \in sHand THEN "messages" ELSE "idle"
    /\ sHand' = {}
    /\ UNCHANGED <<sConf, sBell, resets, regVars, ringVars, linkVars, workVars, noteVars,
                   userVars, gone>>

SecureMessage ==
    /\ spc = "messages"
    /\ IF nsRing = <<>>
         THEN /\ nsAsk' = TRUE /\ spc' = "idle"
              /\ UNCHANGED <<nsRing, sRing, sAsk, sReg, toNs, sSig, sConf>>
         ELSE LET m == Head(nsRing) IN
              /\ nsRing' = Tail(nsRing)
              /\ IF m.act = "A_TERM"
                   THEN /\ sConf' = [sConf EXCEPT ![m.slot] = FALSE]
                        /\ sSig' = [sSig EXCEPT ![m.slot] = {}]
                        /\ sRing' = Append(sRing, Message(m.slot, "A_TERM_ACK"))
                        /\ sAsk' = FALSE
                        /\ IF sAsk THEN SecureNotifies({MESSAGE}) ELSE UNCHANGED <<sReg, toNs>>
                   ELSE UNCHANGED <<sRing, sAsk, sReg, toNs, sSig, sConf>>
              /\ UNCHANGED <<nsAsk, spc>>
    /\ UNCHANGED <<nsReg, nsSig, nsOpen, ready, magic, toS, irq, queued, workVars, noteVars,
                   userVars, sHand, sEvent, sBell, resets, gone>>

(* An application of the secure world fetches its signals.                 *)
SecureFetch(s) ==
    /\ sEvent[s] /\ sConf[s]
    /\ sEvent' = [sEvent EXCEPT ![s] = FALSE]
    /\ nsSig' = [nsSig EXCEPT ![s] = {}]
    /\ UNCHANGED <<nsReg, sReg, sSig, ringVars, linkVars, workVars, noteVars, userVars,
                   spc, sHand, sConf, sBell, resets, gone>>

(* It sends a signal in two steps ...                                      *)
SecureSignal(s, b) ==
    /\ "signal" \in SecureCalls /\ sConf[s] /\ magic = 2 /\ s \notin sBell
    /\ sSig' = [sSig EXCEPT ![s] = @ \cup {b}]
    /\ sBell' = IF sSig[s] = {} THEN sBell \cup {s} ELSE sBell
    /\ UNCHANGED <<nsReg, sReg, nsSig, ringVars, linkVars, workVars, noteVars, userVars,
                   spc, sHand, sConf, sEvent, resets, gone>>

SecureBell(s) ==
    /\ s \in sBell
    /\ sBell' = sBell \ {s}
    /\ SecureNotifies({s})
    /\ UNCHANGED <<nsReg, nsSig, sSig, ringVars, ready, magic, toS, irq, queued, workVars,
                   noteVars, userVars, spc, sHand, sConf, sEvent, resets, gone>>

(* ... a message, or the end of a session, or asks for a reset.            *)
SecureSend(s, a) ==
    /\ sConf[s] /\ magic = 2 /\ Len(sRing) < MaxRing
    /\ a \in {"DATA" : x \in SecureCalls \cap {"message"}}
             \cup {"A_TERM" : x \in SecureCalls \cap {"term"}}
    /\ sRing' = Append(sRing, Message(s, a))
    /\ sConf' = [sConf EXCEPT ![s] = @ /\ a # "A_TERM"]
    /\ sSig' = [sSig EXCEPT ![s] = IF a = "A_TERM" THEN {} ELSE @]
    /\ sAsk' = FALSE
    /\ IF sAsk THEN SecureNotifies({MESSAGE}) ELSE UNCHANGED <<sReg, toNs>>
    /\ UNCHANGED <<nsReg, nsSig, nsOpen, nsRing, nsAsk, ready, magic, toS, irq, queued,
                   workVars, noteVars, userVars, spc, sHand, sEvent, sBell, resets, gone>>

SecureReset ==
    /\ resets < MaxResets /\ magic = 2 /\ spc = "idle" /\ gone = "no"
    /\ resets' = resets + 1
    /\ SecureNotifies({RESET})
    /\ UNCHANGED <<nsReg, nsSig, sSig, ringVars, ready, magic, toS, irq, queued, workVars,
                   noteVars, userVars, spc, sHand, sConf, sEvent, sBell, gone>>

-----------------------------------------------------------------------------
Notifier(a) == Commit(a) \/ SetBit(a) \/ Bell(a)

Handler == Irq \/ IrqQueue \/ IrqSync
Handling == WorkStart \/ WorkSignal \/ WorkMessage \/ WorkDrained
Resetting ==
    \/ Invalidate \/ InvalidateHeader
    \/ \E s \in Slots : ResetTerm(s) \/ ResetClose(s)
Work == Handling \/ Resetting

SignalStep(s) == ClearEvent(s) \/ TakeSignals(s) \/ \E b \in Bits : SendSignal(s, b)
Closing(s) == CloseTerm(s) \/ CloseFinish(s)

SecureStarts == SecureInit \/ SecureTake \/ SecureWork
SecureUses(s) ==
    \/ SecureFetch(s) \/ SecureBell(s)
    \/ \E b \in Bits : SecureSignal(s, b)
    \/ \E a \in {"DATA", "A_TERM"} : SecureSend(s, a)

(* What happens as long as nobody closes a session and nothing is reset:   *)
(* the normal world then sends no message.  PncModule has these steps too. *)
Next ==
    \/ \E a \in Actors : Notifier(a)
    \/ Handler \/ Handling \/ SecureStarts
    \/ \E s \in Slots :
         Open(s) \/ SignalStep(s) \/ SecureUses(s) \/ \E c \in Calls : Begin(s, c)

Spec == Init /\ [][Next]_vars

-----------------------------------------------------------------------------
(* Properties *)

Registers == SUBSET (Slots \cup {MESSAGE, RESET})
Messages == [slot : Slots, act : {"DATA", "A_TERM", "A_TERM_ACK"}]

(* Every variable keeps to its type; _signal_session stays in the table.   *)
TypeOK ==
    /\ ready \in BOOLEAN /\ magic \in 1 .. 2 /\ toS \in BOOLEAN /\ toNs \in BOOLEAN
    /\ irq \in {"none", "sync", "queue"} /\ queued \in BOOLEAN
    /\ nsReg \in Registers /\ sReg \in Registers
    /\ nsSig \in [Slots -> SUBSET Bits] /\ sSig \in [Slots -> SUBSET Bits]
    /\ nsOpen \in Seq(Messages) /\ nsRing \in Seq(Messages) /\ sRing \in Seq(Messages)
    /\ nsAsk \in BOOLEAN /\ sAsk \in BOOLEAN
    /\ wpc \in {"idle", "signals", "messages", "reset", "invalidate"}
    /\ hand \in Registers /\ cursor \in 0 .. NSlots /\ first \in Slots
    /\ npc \in [Actors -> {"none", "commit", "set", "bell"}]
    /\ nbit \in [Actors -> Slots \cup {MESSAGE, RESET}]
    /\ upc \in [Slots -> {"idle", "send", "get", "wait", "take", "close", "closing"}]
    /\ conf \in [Slots -> {"null", "conf", "term"}]
    /\ open \in [Slots -> BOOLEAN] /\ event \in [Slots -> BOOLEAN]
    /\ gone \in {"no", "flushed", "invalidating", "sent", "yes"}
    /\ spc \in {"idle", "work", "messages"} /\ sHand \in Registers /\ sBell \subseteq Slots
    /\ sConf \in [Slots -> BOOLEAN] /\ sEvent \in [Slots -> BOOLEAN] /\ resets \in 0 .. MaxResets

Both(s) == conf[s] = "conf" /\ sConf[s]

(* A signal of the secure world is never left lying in its register: the   *)
(* event of the session is set, or the notification is still under way, or *)
(* the user is about to fetch it (handle_s_notification, handle_s_signal,  *)
(* pnc_session_get_signal and _wait_signal).                               *)
SignalIsAnnounced ==
    \A s \in Slots : (Both(s) /\ sSig[s] # {}) =>
        \/ event[s] \/ upc[s] = "take"
        \/ s \in sReg \/ s \in sBell \/ (s \in hand /\ wpc = "signals")
        \/ RESET \in hand /\ wpc \in {"reset", "invalidate"}

(* What one world left for the other never lies there unannounced, across  *)
(* handshakes and resets: a register that is not empty has an interrupt or *)
(* a run of the work item coming, although the interrupt is left out when  *)
(* something was pending; a message in a ring has a reader coming or at    *)
(* work, although commits announce only the message they were asked for.   *)
PendingIsAnnounced ==
    (magic = 2 /\ gone = "no") =>
        /\ sReg # {} => toNs \/ queued \/ irq # "none"
        /\ nsReg # {} => toS \/ \E a \in Actors : npc[a] = "bell"
        /\ sRing # <<>> =>
              \/ MESSAGE \in sReg \/ wpc = "messages"
              \/ MESSAGE \in hand /\ wpc = "signals"
              \/ RESET \in hand /\ wpc \in {"reset", "invalidate"}
        /\ nsRing # <<>> =>
              \/ MESSAGE \in nsReg \/ spc = "messages" \/ MESSAGE \in sHand
              \/ \E a \in Actors : npc[a] = "set" /\ nbit[a] = MESSAGE

(* A signal of the normal world is announced to the secure world, or about *)
(* to be: "set bits pending in session's signal register and [...] notify  *)
(* S if signal not already pending" (ree_session.h).                       *)
SignalReachesSecure ==
    \A s \in Slots : (Both(s) /\ nsSig[s] # {}) =>
        \/ sEvent[s] \/ s \in nsReg \/ s \in sHand
        \/ npc[s] = "set" /\ nbit[s] = s

(* No session outlives a reset: one that is usable is known to the secure  *)
(* world too, or its A_TERM is on the way.                                 *)
NoSessionAcrossReset ==
    \A s \in Slots : (Usable /\ conf[s] = "conf") =>
        sConf[s] \/ \E i \in DOMAIN sRing : sRing[i] = Message(s, "A_TERM")

-----------------------------------------------------------------------------
(* The inductive strengthening of the safety properties *)

(* All steps of the two worlds, those that close and reset included.       *)
AnyStep ==
    \/ \E a \in Actors : Notifier(a)
    \/ Handler \/ Work \/ SecureStarts \/ SecureMessage \/ SecureReset
    \/ \E s \in Slots : \/ Open(s) \/ SignalStep(s) \/ Closing(s) \/ SecureUses(s)
                         \/ \E c \in Calls : Begin(s, c)

(* What the work item, the secure world and the remover have in hand.      *)
WorkInv ==
    /\ wpc \in {"reset", "invalidate"} => RESET \in hand
    /\ wpc \in {"signals", "messages", "invalidate"} => npc[Worker] = "none"
    /\ wpc = "signals" => cursor \in Slots
    /\ spc # "work" => sHand = {}
    /\ gone \notin {"sent", "yes"} => npc[Remover] = "none"

(* The registers: whoever finds one empty raises the interrupt.            *)
RegisterInv ==
    /\ (magic = 2 /\ sReg # {}) => toNs \/ queued \/ irq # "none"
    /\ nsReg # {} => toS \/ \E a \in Actors : npc[a] = "bell"

(* The rings: a consumer that has not asked to be told is told already,    *)
(* and what is produced will be committed.                                 *)
SecureRingSeen ==
    \/ MESSAGE \in sReg \/ wpc = "messages"
    \/ MESSAGE \in hand /\ wpc = "signals"
    \/ RESET \in hand /\ wpc \in {"reset", "invalidate"}

RingSeen ==
    \/ MESSAGE \in nsReg \/ spc = "messages" \/ MESSAGE \in sHand
    \/ \E a \in Actors : npc[a] = "set" /\ nbit[a] = MESSAGE

RingInv ==
    /\ (magic = 2 /\ (sRing # <<>> \/ ~sAsk)) => SecureRingSeen
    /\ (nsRing # <<>> \/ ~nsAsk) => RingSeen
    /\ nsOpen # <<>> => wpc = "messages" \/ \E a \in Actors : npc[a] = "commit"

(* The flag stays down while the lock of invalidate_sessions is held.      *)
ReadyInv == Invalidating => ~ready

Holds(ring, m) == \E i \in DOMAIN ring : ring[i] = m

(* Sessions against the messages that end them, on both sides.             *)
SessionInv ==
    /\ gone # "no" => \A s \in Slots : ~open[s]
    /\ \A s \in Slots : conf[s] = "conf" =>
         /\ open[s] /\ Usable /\ upc[s] # "closing"
         /\ ~Holds(nsOpen, Message(s, "A_TERM")) /\ ~Holds(nsRing, Message(s, "A_TERM"))
         /\ wpc = "reset" => cursor <= s
    /\ \A s \in Slots : sConf[s] =>
         /\ ~Holds(sRing, Message(s, "A_TERM"))
         /\ \/ conf[s] = "conf"
            \/ Holds(nsOpen, Message(s, "A_TERM")) \/ Holds(nsRing, Message(s, "A_TERM"))

(* How far the round over the sessions is from a session.                  *)
Round(s) == IF s >= first THEN s - first ELSE s - first + NSlots

(* A signal of the secure world: the round has not passed its session.     *)
Announced(s) ==
    \/ event[s] \/ upc[s] = "take"
    \/ s \in sReg \/ s \in sBell
    \/ s \in hand /\ wpc = "signals" /\ Round(cursor) <= Round(s)
    \/ RESET \in hand /\ wpc \in {"reset", "invalidate"}

SignalInv ==
    \A s \in Slots :
        /\ ~sConf[s] => sSig[s] = {}
        /\ (Both(s) /\ sSig[s] # {}) => Announced(s)

NotifyInv ==
    TypeOK /\ WorkInv /\ RegisterInv /\ RingInv /\ ReadyInv /\ SessionInv /\ SignalInv

(* A signal of the normal world, while sessions last.                      *)
ReachInv ==
    \A s \in Slots :
        /\ ~open[s] => upc[s] = "idle" /\ nsSig[s] = {}
        /\ (conf[s] # "conf" /\ upc[s] = "wait") => nsSig[s] = {}
        /\ (Both(s) /\ nsSig[s] # {}) =>
              \/ sEvent[s] \/ s \in nsReg \/ s \in sHand
              \/ npc[s] = "set" /\ nbit[s] = s
=============================================================================

--------------------------- MODULE PncModuleProofs ---------------------------
(***************************************************************************)
(* Proofs about the life of the module: with the invariant of the          *)
(* notifications (NotifyProofs), what pnc_init acquires and pnc_exit       *)
(* releases (HeldInv), that nothing moves before pnc_init has come to its  *)
(* end (StartInv), and how the sessions are left (LeaveInv), the safety    *)
(* properties hold for every number of sessions and resets.                *)
(***************************************************************************)
EXTENDS PncModule, NotifyProofs

USE DEF regVars, ringVars, linkVars, workVars, noteVars, userVars, secureVars,
        Notifies, SecureNotifies, pnc_sched_smc

(* A step of the running module is a step of the two worlds, and leaves    *)
(* the life of the module alone ...                                        *)
LEMMA RunningStep ==
    ASSUME Running PROVE AnyStep /\ UNCHANGED <<life, at, held, base>>
<1>1. CASE \E a \in Actors : Beside(Commit(a)) \/ Beside(SetBit(a)) \/ Beside(Bell(a))
  BY <1>1, Zenon DEF Beside, AnyStep, Notifier
<1>2. CASE Interrupts
  BY <1>2, Zenon DEF Interrupts, Beside, AnyStep, Handler, Work, Handling, Resetting
<1>3. CASE SecureWorld
  BY <1>3, Zenon DEF SecureWorld, Beside, AnyStep, SecureStarts, SecureUses
<1>4. CASE \E s \in Slots : Users(s)
  BY <1>4, Zenon DEF Users, Beside, AnyStep, SignalStep, Closing
<1> QED
  BY <1>1, <1>2, <1>3, <1>4 DEF Running

(* ... and sessions are opened only while it lives.                        *)
LEMMA RunningOpens ==
    ASSUME TypeOK, Running, life # "live" PROVE \A s \in Slots : open'[s] => open[s]
<1>1. CASE \E a \in Actors : Beside(Commit(a)) \/ Beside(SetBit(a)) \/ Beside(Bell(a))
  <2>1. \E a \in Actors : Notifier(a)
    BY <1>1, Zenon DEF Beside, Notifier
  <2> QED
    BY <2>1 DEF Notifier, Commit, SetBit, Bell
<1>2. CASE Interrupts
  <2>1. Handler \/ Work
    BY <1>2, Zenon DEF Interrupts, Beside, Handler, Work, Handling, Resetting
  <2>2. UNCHANGED open \/ \E s \in Slots : ResetClose(s)
    BY <2>1 DEF Handler, Irq, IrqQueue, IrqSync, Work, Handling, WorkStart, WorkSignal, WorkMessage,
                WorkDrained, Resetting, Invalidate, InvalidateHeader, ResetTerm
  <2> QED
    BY <2>2, ZenonT(40) DEF ResetClose, TypeOK
<1>3. CASE SecureWorld
  <2>1. SecureStarts \/ SecureMessage \/ SecureReset \/ \E s \in Slots : SecureUses(s)
    BY <1>3, Zenon DEF SecureWorld, Beside, SecureStarts, SecureUses
  <2> QED
    BY <2>1 DEF SecureStarts, SecureInit, SecureTake, SecureWork, SecureMessage, SecureReset,
                SecureUses, SecureFetch, SecureBell, SecureSignal, SecureSend
<1>4. CASE \E s \in Slots : Users(s)
  <2>1. \E s \in Slots : \/ life = "live" \/ ClearEvent(s) \/ TakeSignals(s) \/ CloseTerm(s)
                         \/ CloseFinish(s) \/ \E c \in Calls : Begin(s, c)
    BY <1>4, Zenon DEF Users, Beside
  <2> QED
    BY <2>1 DEF ClearEvent, TakeSignals, CloseTerm, CloseFinish, Begin, TypeOK
<1> QED
  BY <1>1, <1>2, <1>3, <1>4 DEF Running

(* While nobody is inside a call and none is opened, only the handler, the *)
(* work item, the secure world and the remover take steps.                 *)
LEMMA QuietStep ==
    ASSUME TypeOK, WorkInv, AnyStep,
           \A s \in Slots : Quiet(s), \A s \in Slots : open'[s] => open[s]
    PROVE  /\ \A s \in Slots : Quiet(s)'
           /\ \/ Notifier(Worker) \/ Notifier(Remover) \/ Handler \/ Handling
              \/ Invalidate \/ InvalidateHeader \/ \E s \in Slots : ResetClose(s)
              \/ SecureStarts \/ SecureMessage \/ SecureReset \/ \E s \in Slots : SecureUses(s)
<1>1. ASSUME NEW s \in Slots, \/ Open(s) \/ SignalStep(s) \/ Closing(s) \/ ResetTerm(s)
                              \/ Notifier(s) \/ \E c \in Calls : Begin(s, c)
      PROVE  FALSE
  BY <1>1 DEF Open, SignalStep, ClearEvent, TakeSignals, SendSignal, Closing, CloseTerm, CloseFinish,
              ResetTerm, Notifier, Commit, SetBit, Bell, Begin, Quiet, TypeOK
<1>2. \/ Notifier(Worker) \/ Notifier(Remover) \/ Handler \/ Handling
      \/ Invalidate \/ InvalidateHeader \/ \E s \in Slots : ResetClose(s)
      \/ SecureStarts \/ SecureMessage \/ SecureReset \/ \E s \in Slots : SecureUses(s)
  BY <1>1 DEF AnyStep, Work, Resetting, Actors
<1> SUFFICES \A s \in Slots : Quiet(s)'
  BY <1>2
<1>3. CASE Notifier(Worker) \/ Notifier(Remover)
  BY <1>3, NotifyAssumption DEF Notifier, Commit, SetBit, Bell, Quiet, TypeOK, Actors
<1>4. CASE WorkDrained \/ InvalidateHeader
  BY <1>4, NotifyAssumption DEF WorkDrained, InvalidateHeader, Quiet, TypeOK, Actors
<1>5. CASE Handler \/ WorkStart \/ WorkSignal \/ WorkMessage \/ Invalidate
           \/ \E s \in Slots : ResetClose(s)
  <2>1. UNCHANGED <<upc, npc>>
    BY <1>5 DEF Handler, Irq, IrqQueue, IrqSync, WorkStart, WorkSignal, WorkMessage, Invalidate, ResetClose
  <2> QED
    BY <2>1 DEF Quiet
<1>6. CASE SecureStarts \/ SecureMessage \/ SecureReset \/ \E s \in Slots : SecureUses(s)
  <2>1. UNCHANGED <<upc, npc>>
    BY <1>6 DEF SecureStarts, SecureInit, SecureTake, SecureWork, SecureMessage, SecureReset,
                SecureUses, SecureFetch, SecureBell, SecureSignal, SecureSend
  <2> QED
    BY <2>1 DEF Quiet
<1> QED
  BY <1>2, <1>3, <1>4, <1>5, <1>6 DEF Handling

-----------------------------------------------------------------------------
(* The invariant of the notifications, in the life of the module *)

(* The last step of pnc_init, which tells the secure world of the memory.  *)
LEMMA StartKeeps ==
    ASSUME NotifyInv, toS' = TRUE,
           UNCHANGED <<ready, magic, toNs, irq, queued, regVars, ringVars, workVars, noteVars,
                       userVars, secureVars, gone>>
    PROVE  NotifyInv'
<1>1. TypeOK' /\ WorkInv'
  BY DEF NotifyInv, TypeOK, WorkInv
<1>2. RegisterInv' /\ RingInv'
  BY DEF NotifyInv, RegisterInv, RingInv, RingSeen, SecureRingSeen
<1>3. ReadyInv' /\ SessionInv' /\ SignalInv'
  BY DEF NotifyInv, ReadyInv, Invalidating, SessionInv, Usable, SignalInv, Announced, Both, Round
<1> QED
  BY <1>1, <1>2, <1>3 DEF NotifyInv

(* The two steps of the removal beside those of invalidate_sessions.       *)
LEMMA RemovalKeeps ==
    ASSUME NotifyInv, \A s \in Slots : ~open[s],
           \/ gone = "no" /\ gone' = "flushed"
           \/ gone = "sent" /\ gone' = "yes",
           UNCHANGED <<regVars, ringVars, linkVars, workVars, noteVars, userVars, secureVars>>
    PROVE  NotifyInv'
<1>1. TypeOK' /\ WorkInv'
  BY DEF NotifyInv, TypeOK, WorkInv
<1>2. RegisterInv' /\ RingInv'
  BY DEF NotifyInv, RegisterInv, RingInv, RingSeen, SecureRingSeen
<1>3. ReadyInv' /\ SessionInv' /\ SignalInv'
  BY DEF NotifyInv, ReadyInv, Invalidating, SessionInv, Usable, SignalInv, Announced, Both, Round
<1> QED
  BY <1>1, <1>2, <1>3 DEF NotifyInv

(* Every step of the module is one of these.                               *)
LEMMA LifeCases ==
    ASSUME LifeInv, [LifeNext]_allVars
    PROVE  \/ UNCHANGED vars
           \/ [AnyStep]_vars /\ Running
           \/ Start
           \/ ExitSessions \/ ExitIrq
BY RunningStep
   DEF LifeNext, Load, Loading, Acquire, Fail, Unwind, Exit, Exiting, ExitSync, ExitRelease, allVars

LEMMA LifeNotify ==
    ASSUME LifeInv, [LifeNext]_allVars
    PROVE  NotifyInv' /\ (NoSessionAcrossReset => NoSessionAcrossReset')
<1> USE DEF LifeInv
<1>1. CASE UNCHANGED vars \/ ([AnyStep]_vars /\ Running)
  <2>1. [AnyStep]_vars
    BY <1>1
  <2> QED
    BY <2>1, NotifyStep, AcrossResetStep DEF NotifyInv
<1>2. CASE Start
  BY <1>2, StartKeeps DEF Start, NoSessionAcrossReset, Usable
<1>3. CASE ExitSessions \/ ExitIrq
  <2>1. \A s \in Slots : ~open[s]
    BY <1>3 DEF ExitSessions, ExitIrq, LeaveInv, Quiet
  <2> QED
    BY <1>3, <2>1, RemovalKeeps DEF ExitSessions, ExitFlush, ExitIrq, NoSessionAcrossReset, Usable
<1> QED
  BY <1>1, <1>2, <1>3, LifeCases

-----------------------------------------------------------------------------
(* Resources *)

LEMMA HeldStep ==
    ASSUME LifeInv, [LifeNext]_allVars PROVE HeldInv'
<1>h. HeldInv
  BY DEF LifeInv
<1>1. CASE Load
  BY <1>1, <1>h DEF Load, HeldInv, Holding, Acquired
<1>2. CASE Acquire
  <2>1. at \in {"misc", "pages", "sgi", "map", "blocks", "irq", "wq"} /\ life' = "init"
    BY <1>2, <1>h DEF Acquire, HeldInv, Acquired
  <2>2. /\ at' \in DOMAIN Acquired /\ at \notin Acquired[at]
        /\ \A r \in Resources : r \in Acquired[at'] <=> r \in Acquired[at] \/ r = at
        /\ at' \notin {"misc", "pages"} <=> (at \notin {"misc", "pages"} \/ at = "pages")
    BY <1>2, <2>1 DEF Acquire, InitNext, Acquired, Memory, Mapped, Resources
  <2>3. held' \in [Resources -> Int] /\ Holding(Acquired[at])
    BY <1>2, <1>h DEF Acquire, HeldInv
  <2>4. \A r \in Resources : held'[r] = held[r] + IF r = at THEN 1 ELSE 0
    BY <1>2 DEF Acquire
  <2>5. (Holding(Acquired[at]))'
    BY <2>2, <2>3, <2>4 DEF Holding
  <2>6. base' = (at' \notin {"misc", "pages"})
    BY <1>2, <1>h, <2>2 DEF Acquire, HeldInv
  <2> QED
    BY <2>1, <2>2, <2>3, <2>5, <2>6 DEF HeldInv
<1>3. CASE Fail
  <2>1. /\ at \in {"misc", "pages", "sgi", "map", "blocks", "irq", "wq"} /\ Holding(Acquired[at])
        /\ UNCHANGED <<held, base>>
    BY <1>3, <1>h DEF Fail, HeldInv, Acquired
  <2>2. CASE at = "misc"
    BY <1>3, <1>h, <2>1, <2>2 DEF Fail, HeldInv, Holding, Acquired
  <2>3. CASE at # "misc"
    <3>1. at' \in DOMAIN ToUndo /\ Acquired[at] \in ToUndo[at']
      BY <1>3, <2>1, <2>3 DEF Fail, ErrLabel, Acquired, ToUndo
    <3>2. (\E R \in ToUndo[at] : Holding(R))'
      BY <2>1, <3>1 DEF Holding
    <3> QED
      BY <1>3, <1>h, <2>1, <2>3, <3>1, <3>2 DEF Fail, HeldInv
  <2> QED
    BY <2>2, <2>3
<1>4. CASE Unwind
  <2>1. at \in {"misc", "pages", "map", "blocks", "irq"} /\ held \in [Resources -> Int]
    BY <1>4, <1>h DEF Unwind, HeldInv, ToUndo
  <2> PICK R \in ToUndo[at] : Holding(R)
    BY <1>4, <1>h DEF Unwind, HeldInv
  <2>2. R \subseteq Resources /\ (at \in R \/ at \in {"map", "blocks"})
    BY <2>1 DEF ToUndo, Memory, Mapped, Resources
  <2>3. held' \in [Resources -> Int]
    BY <1>4, <2>1 DEF Unwind, Released, Resources
  <2>4. \A r \in Resources : held'[r] = IF r \in R \ {at} THEN 1 ELSE 0
    BY <1>4, <2>1, <2>2 DEF Unwind, Released, Holding
  <2>5. CASE at = "misc"
    <3>1. R \ {at} = {}
      BY <2>5 DEF ToUndo
    <3> QED
      BY <1>4, <2>3, <2>4, <2>5, <3>1 DEF Unwind, HeldInv, Holding
  <2>6. CASE at # "misc"
    <3>1. at' \in DOMAIN ToUndo /\ R \ {at} \in ToUndo[at']
      BY <1>4, <2>1, <2>6 DEF Unwind, ToUndo, Memory, Mapped
    <3>2. (\E Q \in ToUndo[at] : Holding(Q))'
      BY <2>4, <3>1 DEF Holding
    <3> QED
      BY <1>4, <2>3, <2>6, <3>1, <3>2 DEF Unwind, HeldInv
  <2> QED
    BY <2>5, <2>6
<1>5. CASE Start
  BY <1>5, <1>h DEF Start, HeldInv, Holding, Acquired
<1>6. CASE Exit
  BY <1>6, <1>h DEF Exit, HeldInv, Holding
<1>7. CASE ExitSync \/ ExitSessions
  BY <1>7, <1>h DEF ExitSync, ExitSessions, HeldInv, Holding
<1>8. CASE ExitIrq
  BY <1>8, <1>h DEF ExitIrq, Released, HeldInv, Holding, Resources
<1>9. CASE ExitRelease
  BY <1>9, <1>h DEF ExitRelease, Released, HeldInv, Holding, Resources
<1>10. CASE Running \/ UNCHANGED allVars
  <2>1. UNCHANGED <<life, at, held, base>>
    BY <1>10, RunningStep DEF allVars, lifeVars
  <2> QED
    BY <2>1, <1>h DEF HeldInv, Holding
<1> QED
  BY <1>1, <1>2, <1>3, <1>4, <1>5, <1>6, <1>7, <1>8, <1>9, <1>10 DEF LifeNext, Loading, Exiting

-----------------------------------------------------------------------------
(* The removal *)

LEMMA GoneStays ==
    ASSUME AnyStep, gone = "yes" PROVE gone' = "yes"
BY SMTT(30) DEF AnyStep, Notifier, Commit, SetBit, Bell, Handler, Irq, IrqQueue, IrqSync, Work, Handling,
       WorkStart, WorkSignal, WorkMessage, WorkDrained, Resetting, Invalidate, InvalidateHeader,
       Invalidating, ResetTerm, ResetClose, SecureStarts, SecureInit, SecureTake, SecureWork,
       SecureMessage, SecureReset, Open, SignalStep, ClearEvent, TakeSignals, SendSignal, Closing,
       CloseTerm, CloseFinish, SecureUses, SecureFetch, SecureBell, SecureSignal, SecureSend, Begin

(* Once the interrupt is freed the handler does not run again.             *)
LEMMA IrqFreed ==
    ASSUME TypeOK, AnyStep, gone' = "yes", gone # "yes" \/ irq = "none"
    PROVE  gone = "yes" /\ irq' = "none"
<1>1. CASE Handler
  BY <1>1 DEF Handler, Irq, IrqQueue, IrqSync
<1>2. CASE Work
  BY <1>2 DEF Work, Handling, WorkStart, WorkSignal, WorkMessage, WorkDrained, Resetting,
              Invalidate, InvalidateHeader, ResetTerm, ResetClose
<1>3. CASE SecureStarts \/ SecureMessage \/ SecureReset \/ \E s \in Slots : SecureUses(s)
  BY <1>3 DEF SecureStarts, SecureInit, SecureTake, SecureWork, SecureMessage, SecureReset,
              SecureUses, SecureFetch, SecureBell, SecureSignal, SecureSend
<1>4. CASE \/ \E a \in Actors : Notifier(a)
           \/ \E s \in Slots : \/ Open(s) \/ SignalStep(s) \/ Closing(s)
                               \/ \E c \in Calls : Begin(s, c)
  BY <1>4 DEF Notifier, Commit, SetBit, Bell, Open, SignalStep, ClearEvent, TakeSignals,
              SendSignal, Closing, CloseTerm, CloseFinish, Begin
<1> QED
  BY <1>1, <1>2, <1>3, <1>4 DEF AnyStep

(* What pnc_sessions_exit relies on while interrupts still arrive: nothing *)
(* is produced any more, and E_RESET stays where the remover put it.       *)
LEMMA LeavingStep ==
    ASSUME LifeInv, Running, life # "live", gone # "no"
    PROVE  LeaveInv'
<1> USE DEF LifeInv, NotifyInv
<1>1. /\ AnyStep /\ UNCHANGED <<life, at>>
      /\ \A s \in Slots : Quiet(s) /\ ~open[s]
      /\ nsOpen = <<>> /\ npc[Worker] \in {"none", "commit"}
  BY RunningStep DEF LeaveInv, Quiet
<1>2. /\ \A s \in Slots : Quiet(s)'
      /\ \/ Notifier(Worker) \/ Notifier(Remover) \/ Handler \/ Handling
         \/ Invalidate \/ InvalidateHeader \/ \E s \in Slots : ResetClose(s)
         \/ SecureStarts \/ SecureMessage \/ SecureReset \/ \E s \in Slots : SecureUses(s)
  BY <1>1, RunningOpens, QuietStep
<1> DEFINE Left == /\ gone' = gone \/ (gone = "flushed" /\ gone' = "invalidating")
                   /\ nsOpen' = <<>> /\ npc'[Worker] \in {"none", "commit"}
                   /\ gone' \in {"sent", "yes"} =>
                        /\ magic' = 1
                        /\ \/ RESET \in nsReg' /\ npc'[Remover] \in {"none", "bell"}
                           \/ npc'[Remover] = "set" /\ nbit'[Remover] = RESET
                   /\ gone' = "yes" => RESET \in nsReg' /\ toS' /\ npc'[Remover] = "none"
<1>a. gone' = "yes" => gone = "yes" /\ irq' = "none"
  BY <1>1, IrqFreed DEF LeaveInv
<1>3. ASSUME Left PROVE LeaveInv'
  BY <1>1, <1>2, <1>3, <1>a DEF LeaveInv
<1>4. CASE Notifier(Worker)
  <2>1. Commit(Worker)
    BY <1>1, <1>4 DEF Notifier, SetBit, Bell
  <2>2. /\ UNCHANGED <<gone, magic, nsReg, toS>> /\ nsOpen' = <<>>
        /\ npc'[Worker] = "none" /\ npc'[Remover] = npc[Remover] /\ nbit'[Remover] = nbit[Remover]
    BY <1>1, <2>1, NotifyAssumption DEF Commit, TypeOK, Actors
  <2> QED
    BY <2>2, <1>3 DEF LeaveInv
<1>5. CASE Notifier(Remover)
  <2>1. /\ UNCHANGED <<gone, magic>> /\ npc'[Worker] = npc[Worker] /\ nsOpen' = <<>>
        /\ gone = "sent" /\ npc[Remover] # "none"
    BY <1>1, <1>5, NotifyAssumption DEF Notifier, Commit, SetBit, Bell, TypeOK, Actors, WorkInv, LeaveInv
  <2>2. RESET \in nsReg' /\ npc'[Remover] \in {"none", "bell"}
    BY <1>5, <2>1 DEF Notifier, Commit, SetBit, Bell, TypeOK, Actors, LeaveInv
  <2> QED
    BY <1>1, <2>1, <2>2, <1>3 DEF LeaveInv
<1>6. CASE WorkMessage
  <2>1. Head(sRing).slot \in Slots
    BY <1>6, HeadTail DEF WorkMessage, TypeOK
  <2>2. UNCHANGED <<gone, magic, nsReg, toS, nsOpen, npc, nbit>>
    BY <1>1, <1>6, <2>1 DEF WorkMessage
  <2> QED
    BY <1>1, <2>2, <1>3 DEF LeaveInv
<1>7. CASE WorkDrained
  <2>1. /\ UNCHANGED <<gone, magic, nsReg, toS, nsOpen>>
        /\ npc'[Worker] = "commit" /\ npc'[Remover] = npc[Remover] /\ nbit'[Remover] = nbit[Remover]
    BY <1>7, NotifyAssumption DEF WorkDrained, TypeOK, Actors
  <2> QED
    BY <1>1, <2>1, <1>3 DEF LeaveInv
<1>8. CASE Invalidate
  <2>1. /\ UNCHANGED <<magic, nsReg, toS, nsOpen, npc, nbit>>
        /\ gone' = gone \/ (gone = "flushed" /\ gone' = "invalidating")
    BY <1>8 DEF Invalidate
  <2> QED
    BY <1>1, <2>1, <1>3 DEF LeaveInv
<1>9. CASE InvalidateHeader
  <2>1. CASE wpc = "invalidate"
    <3>1. UNCHANGED <<gone, nsReg, nsOpen, npc, nbit>> /\ magic' = 1 /\ toS' = TRUE
      BY <1>9, <2>1 DEF InvalidateHeader
    <3> QED
      BY <1>1, <3>1, <1>3 DEF LeaveInv
  <2>2. CASE wpc # "invalidate"
    <3>1. /\ gone = "invalidating" /\ gone' = "sent" /\ magic' = 1 /\ UNCHANGED nsOpen
          /\ npc'[Remover] = "set" /\ nbit'[Remover] = RESET /\ npc'[Worker] = npc[Worker]
      BY <1>9, <2>2, NotifyAssumption DEF InvalidateHeader, Invalidating, TypeOK, Actors
    <3> QED
      BY <1>1, <1>2, <3>1 DEF LeaveInv
  <2> QED
    BY <2>1, <2>2
<1>10. CASE SecureInit \/ SecureTake
  <2>1. /\ SecureTake /\ magic = 2
    BY <1>10 DEF SecureInit, SecureTake
  <2>2. UNCHANGED <<gone, nsOpen, npc>> /\ gone \notin {"sent", "yes"}
    BY <2>1 DEF SecureTake, LeaveInv
  <2> QED
    BY <1>1, <2>2, <1>3
<1>11. CASE \/ Handler \/ WorkStart \/ WorkSignal \/ \E s \in Slots : ResetClose(s)
            \/ SecureWork \/ SecureMessage \/ SecureReset \/ \E s \in Slots : SecureUses(s)
  <2>1. UNCHANGED <<gone, magic, nsReg, toS, nsOpen, npc, nbit>>
    BY <1>11 DEF Handler, Irq, IrqQueue, IrqSync, WorkStart, WorkSignal, ResetClose, SecureWork, SecureMessage,
                 SecureReset, SecureUses, SecureFetch, SecureBell, SecureSignal, SecureSend
  <2> QED
    BY <1>1, <2>1, <1>3 DEF LeaveInv
<1> QED
  BY <1>2, <1>4, <1>5, <1>6, <1>7, <1>8, <1>9, <1>10, <1>11 DEF Handling, SecureStarts

LEMMA LeaveStep ==
    ASSUME LifeInv, [LifeNext]_allVars PROVE LeaveInv'
<1> USE DEF LifeInv
<1>1. CASE Load \/ Loading \/ Exit \/ ExitSync
  <2>1. gone = "no" /\ UNCHANGED <<gone, open, upc, npc>>
    BY <1>1 DEF Load, Loading, Acquire, Fail, Unwind, Start, Exit, ExitSync, LeaveInv, NotifyInv,
                TypeOK, vars
  <2>2. life' = "live" \/ \A s \in Slots : Quiet(s)
    BY <1>1 DEF Load, Loading, Acquire, Fail, Unwind, Start, Exit, ExitSync, LeaveInv, Quiet
  <2>3. ~(life' = "exit" /\ at' = "wq")
    BY <1>1 DEF Load, Loading, Acquire, Fail, Unwind, Start, Exit, ExitSync, HeldInv
  <2> QED
    BY <2>1, <2>2, <2>3 DEF LeaveInv, Quiet
<1>2. CASE ExitSessions
  <2>1. \A s \in Slots : Quiet(s)
    BY <1>2 DEF ExitSessions, LeaveInv
  <2>2. nsOpen = <<>> /\ npc[Worker] = "none"
    BY <1>2, <2>1 DEF ExitSessions, ExitFlush, NotifyInv, RingInv, WorkInv, Actors, Quiet
  <2> QED
    BY <1>2, <2>1, <2>2 DEF ExitSessions, ExitFlush, LeaveInv, Quiet
<1>3. CASE ExitIrq
  <2>1. /\ \A s \in Slots : Quiet(s)
        /\ nsOpen = <<>> /\ npc[Worker] \in {"none", "commit"} /\ npc[Remover] = "none"
        /\ magic = 1 /\ RESET \in nsReg
    BY <1>3 DEF ExitIrq, LeaveInv
  <2>2. toS
    BY <2>1 DEF NotifyInv, RegisterInv, Actors, Quiet
  <2> QED
    BY <1>3, <2>1, <2>2 DEF ExitIrq, LeaveInv, Quiet
<1>4. CASE ExitRelease
  BY <1>4 DEF ExitRelease, LeaveInv, Quiet, vars
<1>5. CASE Running
  <2>1. CASE gone = "no"
    <3>1. gone' = "no" /\ UNCHANGED <<life, at>>
      BY <1>5, <2>1, RunningStep, ZenonT(40) DEF AnyStep, Notifier, Commit, SetBit, Bell, Handler, Irq, IrqQueue, IrqSync,
         Work, Handling, WorkStart, WorkSignal, WorkMessage, WorkDrained, Resetting, Invalidate,
         InvalidateHeader, Invalidating, ResetTerm, ResetClose, SecureStarts, SecureInit, SecureTake,
         SecureWork, SecureMessage, SecureReset, Open, SignalStep, ClearEvent, TakeSignals,
         SendSignal, Closing, CloseTerm, CloseFinish, SecureUses, SecureFetch, SecureBell,
         SecureSignal, SecureSend, Begin
    <3>2. life # "live" => \A s \in Slots : Quiet(s)'
      BY <1>5, RunningStep, RunningOpens, QuietStep DEF NotifyInv, LeaveInv
    <3> QED
      BY <2>1, <3>1, <3>2 DEF LeaveInv
  <2>2. CASE gone # "no"
    BY <1>5, <2>2, LeavingStep DEF LeaveInv, NotifyInv, TypeOK
  <2> QED
    BY <2>1, <2>2
<1>6. CASE UNCHANGED allVars
  BY <1>6 DEF allVars, vars, lifeVars, LeaveInv, Quiet
<1> QED
  BY <1>1, <1>2, <1>3, <1>4, <1>5, <1>6 DEF LifeNext, Exiting

-----------------------------------------------------------------------------
(* Before the first action *)

(* No step of the two worlds is possible before pnc_init tells the secure  *)
(* world of the memory ...                                                 *)
LEMMA AsleepStays ==
    ASSUME Asleep, gone = "no", \A s \in Slots : Quiet(s), AnyStep PROVE FALSE
<1>1. CASE Handler \/ Work
  BY <1>1 DEF Asleep, Handler, Irq, IrqQueue, IrqSync, Work, Handling, WorkStart, WorkSignal,
              WorkMessage, WorkDrained, Resetting, Invalidate, InvalidateHeader, Invalidating,
              ResetTerm, ResetClose, Loop
<1>2. CASE SecureStarts \/ SecureMessage \/ SecureReset \/ \E s \in Slots : SecureUses(s)
  BY <1>2 DEF Asleep, SecureStarts, SecureInit, SecureTake, SecureWork, SecureMessage,
              SecureReset, SecureUses, SecureFetch, SecureBell, SecureSignal, SecureSend
<1>3. CASE \/ \E a \in Actors : Notifier(a)
           \/ \E s \in Slots : \/ Open(s) \/ SignalStep(s) \/ Closing(s)
                               \/ \E c \in Calls : Begin(s, c)
  BY <1>3 DEF Asleep, Quiet, Notifier, Commit, SetBit, Bell, Open, Usable, SignalStep,
              ClearEvent, TakeSignals, SendSignal, Closing, CloseTerm, CloseFinish, Begin
<1> QED
  BY <1>1, <1>2, <1>3 DEF AnyStep

(* ... whatever steps of pnc_init fail.                                    *)
LEMMA StartStep ==
    ASSUME LifeInv, [LifeNext]_allVars PROVE StartInv'
<1> USE DEF LifeInv
<1>1. CASE Load \/ Acquire \/ Fail \/ Unwind \/ UNCHANGED allVars
  BY <1>1 DEF Load, Acquire, Fail, Unwind, allVars, lifeVars, vars, StartInv, Asleep
<1>2. CASE Start \/ ExitSync \/ ExitSessions \/ ExitIrq
  BY <1>2 DEF Start, ExitSync, ExitSessions, ExitIrq, StartInv
<1>3. CASE Exit
  BY <1>3 DEF Exit, HeldInv, vars, StartInv, Asleep
<1>4. CASE ExitRelease
  BY <1>4 DEF ExitRelease, LeaveInv, StartInv, vars
<1>5. CASE Running
  <2>1. AnyStep /\ UNCHANGED life
    BY <1>5, RunningStep
  <2>2. CASE life \in {"live", "exit"}
    BY <2>1, <2>2 DEF StartInv
  <2>3. CASE life \notin {"live", "exit"} /\ gone = "no"
    BY <2>1, <2>3, AsleepStays DEF StartInv, LeaveInv
  <2>4. CASE life \notin {"live", "exit"} /\ gone # "no"
    <3>1. gone = "yes"
      BY <2>4 DEF LeaveInv, NotifyInv, TypeOK
    <3>2. UNCHANGED gone
      BY <2>1, <3>1, GoneStays
    <3> QED
      BY <3>1, <3>2 DEF StartInv
  <2> QED
    BY <2>2, <2>3, <2>4
<1> QED
  BY <1>1, <1>2, <1>3, <1>4, <1>5 DEF LifeNext, Loading, Exiting

-----------------------------------------------------------------------------
(* Theorems *)

LEMMA LifeInitial == LifeInit => LifeInv /\ NoSessionAcrossReset
<1> SUFFICES ASSUME LifeInit PROVE LifeInv /\ NoSessionAcrossReset
  OBVIOUS
<1>1. NotifyInv
  BY NotifyInitial DEF LifeInit
<1>2. HeldInv
  BY DEF LifeInit, HeldInv, Holding
<1>3. LeaveInv /\ NoSessionAcrossReset
  BY DEF LifeInit, SessionsInit, LeaveInv, Quiet, Actors, NoSessionAcrossReset
<1>4. StartInv
  BY DEF LifeInit, SessionsInit, StartInv, Asleep
<1> QED
  BY <1>1, <1>2, <1>3, <1>4 DEF LifeInv

(* The invariant holds in the whole life of the module, whatever step of   *)
(* pnc_init fails, however often the secure world resets and whenever the  *)
(* module is removed.                                                      *)
THEOREM LifeInvariant == LifeSpec => [](LifeInv /\ NoSessionAcrossReset)
<1>1. (LifeInv /\ NoSessionAcrossReset) /\ [LifeNext]_allVars
        => (LifeInv /\ NoSessionAcrossReset)'
  BY LifeNotify, HeldStep, StartStep, LeaveStep DEF LifeInv
<1>2. LifeSpec => LifeInit /\ [][LifeNext]_allVars
  BY DEF LifeSpec, LifeSafety
<1> QED
  BY <1>1, <1>2, LifeInitial, PTL

(* Across handshakes and resets, what one world leaves for the other in a  *)
(* register or a ring is announced: an interrupt, a run of the work item   *)
(* or a reader is on its way (notify_s, notify_ns_message, pnc_s_irq).     *)
THEOREM PendingTheorem == LifeSpec => []PendingIsAnnounced
<1>1. LifeInv => PendingIsAnnounced
  BY DEF LifeInv, NotifyInv, RegisterInv, RingInv, SecureRingSeen, RingSeen, PendingIsAnnounced
<1> QED
  BY <1>1, LifeInvariant, PTL

(* A session that can be used after a reset is known to the secure world,  *)
(* or its A_TERM is in the ring: handle_s_reset ends them all first.       *)
THEOREM AcrossResetTheorem == LifeSpec => []NoSessionAcrossReset
BY LifeInvariant, PTL

(* Nothing is released twice or kept, whichever step of pnc_init fails and *)
(* whatever its result is taken for, and E_RESET is left for the secure    *)
(* world by pnc_exit.                                                      *)
THEOREM LeakTheorem == LifeSpec => []NothingLeaks
<1>1. LifeInv => NothingLeaks
  <2> SUFFICES ASSUME LifeInv PROVE NothingLeaks
    OBVIOUS
  <2>1. \A r \in Resources : held[r] \in {0, 1}
    BY DEF LifeInv, HeldInv, Holding
  <2>2. life \in {"absent", "dead"} => \A r \in Resources : held[r] = 0
    BY DEF LifeInv, HeldInv, Holding
  <2>3. gone = "yes" => RESET \in nsReg /\ toS
    BY DEF LifeInv, LeaveInv
  <2> QED
    BY <2>1, <2>2, <2>3 DEF NothingLeaks
<1> QED
  BY <1>1, LifeInvariant, PTL

(* The handler never reads memory that is not mapped, and whoever is       *)
(* inside a call, or sends the last E_RESET, has what the call uses; so    *)
(* has a work item that is queued or runs before pnc_exit has freed the    *)
(* interrupt, from whichever step of pnc_init on.                          *)
THEOREM InUseTheorem == LifeSpec => []InUseIsHeld
<1>1. LifeInv => InUseIsHeld
  <2> SUFFICES ASSUME LifeInv PROVE InUseIsHeld
    OBVIOUS
  <2>1. held["irq"] = 1 => held["map"] = 1 /\ held["pages"] = 1
    BY DEF LifeInv, HeldInv, Holding, Acquired, ToUndo, Memory, Mapped, Resources
  <2>2. (npc[Remover] # "none" \/ \E s \in Slots : open[s] \/ upc[s] # "idle" \/ npc[s] # "none")
          => life \in {"live", "exit"}
    BY DEF LifeInv, NotifyInv, WorkInv, LeaveInv, Quiet
  <2>3. irq # "none" \/ (gone # "yes" /\ (queued \/ wpc # "idle" \/ npc[Worker] # "none"))
          => life \in {"live", "exit"}
    BY DEF LifeInv, NotifyInv, TypeOK, LeaveInv, StartInv, Asleep, Actors
  <2>4. life \in {"live", "exit"} => \A r \in {"map", "blocks", "wq"} : held[r] = 1
    BY DEF LifeInv, HeldInv, Holding, Resources
  <2> QED
    BY <2>1, <2>2, <2>3, <2>4 DEF InUseIsHeld
<1> QED
  BY <1>1, LifeInvariant, PTL

=============================================================================

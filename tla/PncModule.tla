----------------------------- MODULE PncModule -----------------------------
(***************************************************************************)
(* The life of the kernel module (main.c, smc.c) around the notifications: *)
(* pnc_init acquires one resource after the other and undoes them when a   *)
(* step fails, its last step starts the handshake with the secure world;   *)
(* pnc_exit waits for that handshake, shuts the sessions down and releases *)
(* everything, while interrupts, work items and the secure world go on.    *)
(*                                                                         *)
(* This is the build that allocates its memory (no device tree).  A loaded *)
(* module is removed only when no file is open (its reference count), and  *)
(* a module that has once come up is not loaded again here.                *)
(***************************************************************************)
EXTENDS Notify, Integers

VARIABLES
    life,     \* "absent", "init", "unwind", "live", "dead" (loaded, not working), "exit"
    at,       \* the step of pnc_init or pnc_exit
    held,     \* how often each resource is held
    base,     \* _base is not 0
    taken,    \* the failure will be taken for a success: pnc_init returns 0 or more
    synced    \* _sync_work is not scheduled, or has been able to end

lifeVars == <<life, at, held, base, taken, synced>>
allVars == <<vars, lifeVars>>

(* The misc device, the pages, their mapping, the list of blocks, the      *)
(* interrupt and the work queue of the monitor calls.                      *)
Resources == {"misc", "pages", "map", "blocks", "irq", "wq"}

LifeInit ==
    /\ SessionsInit /\ toS = FALSE
    /\ life = "absent" /\ at = "misc" /\ held = [r \in Resources |-> 0]
    /\ base = FALSE /\ taken = FALSE /\ synced = TRUE

-----------------------------------------------------------------------------
(* pnc_init *)

(* Mutant: the interrupt is requested before the memory is mapped.         *)
InitNextEarlyIrq ==
    [misc |-> "pages", pages |-> "sgi", sgi |-> "irq", irq |-> "map", map |-> "blocks",
     blocks |-> "wq", wq |-> "start"]

(* The order of the steps; "sgi" is pnc_create_sgi.                        *)
InitNext ==
    [misc |-> "pages", pages |-> "sgi", sgi |-> "map", map |-> "blocks", blocks |-> "irq",
     irq |-> "wq", wq |-> "start"]

(* Where the unwinding of a failed step starts: the resource that is       *)
(* released at err_0 (misc), err_1 (pages), ... err_4 (irq).               *)
ErrLabel ==
    [pages |-> "misc", sgi |-> "blocks", map |-> "pages", blocks |-> "map", irq |-> "blocks",
     wq |-> "irq"]

(* Whether the module counts as loaded after the failure: ret is left at 0 *)
(* for an order below 8 and for a failed kmalloc or vmap, and is +ENOMEM   *)
(* from pnc_smc_init; everything else is a proper error.                   *)
TakenForSuccess ==
    [misc |-> {FALSE}, pages |-> {TRUE, FALSE}, sgi |-> {FALSE}, map |-> {TRUE},
     blocks |-> {FALSE}, irq |-> {FALSE}, wq |-> {TRUE}]

Load ==
    /\ life = "absent" /\ gone = "no"
    /\ life' = "init" /\ at' = "misc"
    /\ UNCHANGED <<held, base, taken, synced, vars>>

(* A step succeeds ...                                                     *)
Acquire ==
    /\ life = "init" /\ at # "start"
    /\ held' = [r \in Resources |-> held[r] + IF r = at THEN 1 ELSE 0]
    /\ base' = (base \/ at = "pages")
    /\ at' = InitNext[at]
    /\ UNCHANGED <<life, taken, synced, vars>>

(* ... or fails.                                                           *)
Fail ==
    /\ life = "init" /\ at # "start"
    /\ IF at = "misc" THEN life' = "absent" /\ UNCHANGED <<at, taken>>
       ELSE /\ life' = "unwind" /\ at' = ErrLabel[at]
            /\ taken' \in TakenForSuccess[at]
    /\ UNCHANGED <<held, base, synced, vars>>

(* Giving a resource back.  vunmap and pnc_shm_exit do nothing when there  *)
(* is nothing to undo, as on the way from err_3 after pnc_create_sgi.      *)
Released(r) ==
    [held EXCEPT ![r] = IF r \in {"map", "blocks"} /\ @ = 0 THEN 0 ELSE @ - 1]

(* Mutant: _base keeps its value.                                          *)
UnwindKeepsBase ==
    /\ life = "unwind"
    /\ held' = Released(at)
    /\ taken' = (taken /\ at # "misc")
    /\ IF at = "misc" THEN life' = (IF taken THEN "dead" ELSE "absent") /\ UNCHANGED at
       ELSE /\ at' = [irq |-> "blocks", blocks |-> "map", map |-> "pages", pages |-> "misc"][at]
            /\ UNCHANGED life
    /\ UNCHANGED <<base, synced, vars>>

(* The labels err_4 to err_0, one after the other.                         *)
Unwind ==
    /\ life = "unwind"
    /\ held' = Released(at)
    /\ taken' = (taken /\ at # "misc")
    /\ IF at = "misc"
         THEN base' = FALSE /\ life' = (IF taken THEN "dead" ELSE "absent") /\ UNCHANGED at
         ELSE /\ at' = [irq |-> "blocks", blocks |-> "map", map |-> "pages", pages |-> "misc"][at]
              /\ UNCHANGED <<life, base>>
    /\ UNCHANGED <<synced, vars>>

(* The work that waits for the handshake is scheduled, and the secure      *)
(* world told of the memory.                                               *)
Start ==
    /\ life = "init" /\ at = "start"
    /\ life' = "live" /\ synced' = FALSE
    /\ pnc_sched_smc
    /\ UNCHANGED <<at, held, base, taken, ready, magic, toNs, irq, queued, regVars,
                   ringVars, workVars, noteVars, userVars, secureVars, gone>>

-----------------------------------------------------------------------------
(* pnc_exit *)

(* Nobody uses the module any more; it returns at once if pnc_init failed. *)
(* Whether _sync_work has already seen the handshake shows only here.      *)
Exit ==
    /\ life \in {"live", "dead"}
    /\ \A s \in Slots : ~open[s] /\ upc[s] = "idle" /\ npc[s] = "none"
    /\ IF base
         THEN /\ life' = "exit"
              /\ (at' = "sync" /\ life = "live") \/ (at' = "sessions" /\ synced)
         ELSE life' = "absent" /\ UNCHANGED at
    /\ UNCHANGED <<held, base, taken, synced, vars>>

(* flush_work(&_sync_work) waits until pnc_sessions_sync finds the         *)
(* framework ready.                                                        *)
ExitSync ==
    /\ life = "exit" /\ at = "sync" /\ ready
    /\ at' = "sessions"
    /\ UNCHANGED <<life, held, base, taken, synced, vars>>

(* pnc_sessions_exit; free_irq comes next.                                 *)
ExitSessions ==
    /\ life = "exit" /\ at = "sessions"
    /\ ExitFlush
    /\ at' = "irq"
    /\ UNCHANGED <<life, held, base, taken, synced>>

(* free_irq waits for a handler that runs.                                 *)
ExitIrq ==
    /\ life = "exit" /\ at = "irq"
    /\ gone = "sent" /\ npc[Remover] = "none" /\ irq = "none"
    /\ gone' = "yes" /\ at' = "wq"
    /\ held' = Released("irq")
    /\ UNCHANGED <<life, base, taken, synced, regVars, ringVars, linkVars, workVars,
                   noteVars, userVars, secureVars>>

(* pnc_smc_exit, pnc_shm_exit, vunmap, the pages, misc_deregister: with    *)
(* the interrupt gone nothing of this model can tell these steps apart.    *)
ExitRelease ==
    /\ life = "exit" /\ at = "wq"
    /\ held' = [r \in Resources |-> IF r = "irq" THEN held[r] ELSE Released(r)[r]]
    /\ base' = FALSE /\ life' = "absent" /\ at' = "misc"
    /\ UNCHANGED <<taken, synced, vars>>

-----------------------------------------------------------------------------
Loading == Acquire \/ Fail \/ Unwind \/ Start
Exiting == ExitSync \/ ExitSessions \/ ExitIrq \/ ExitRelease

(* A step of the notifications, beside the life of the module.             *)
Beside(A) ==
    /\ A
    /\ synced' = (synced \/ ready')
    /\ UNCHANGED <<life, at, held, base, taken>>

(* The steps of the running module; a file can be opened while it is       *)
(* loaded.  Users wait for signals and close; the signals they send and S  *)
(* fetches, which touch nothing but the registers of S, are left to Notify.*)
Users(s) ==
    \/ Beside(life = "live" /\ Open(s)) \/ Beside(ClearEvent(s)) \/ Beside(TakeSignals(s))
    \/ Beside(CloseTerm(s)) \/ Beside(CloseFinish(s))
    \/ \E c \in Calls \ {"send"} : Beside(Begin(s, c))

Interrupts ==
    \/ Beside(Irq) \/ Beside(IrqQueue) \/ Beside(IrqSync)
    \/ Beside(WorkStart) \/ Beside(WorkSignal) \/ Beside(WorkMessage) \/ Beside(WorkDrained)
    \/ Beside(Invalidate) \/ Beside(InvalidateHeader)
    \/ \E s \in Slots : Beside(ResetTerm(s)) \/ Beside(ResetClose(s))

SecureWorld ==
    \/ Beside(SecureInit) \/ Beside(SecureTake) \/ Beside(SecureWork)
    \/ Beside(SecureMessage) \/ Beside(SecureReset)
    \/ \E s \in Slots :
         \/ Beside(SecureBell(s))
         \/ \E b \in Bits : Beside(SecureSignal(s, b))
         \/ \E a \in {"DATA", "A_TERM"} : Beside(SecureSend(s, a))

Running ==
    \/ \E a \in Actors : Beside(Commit(a)) \/ Beside(SetBit(a)) \/ Beside(Bell(a))
    \/ Interrupts \/ SecureWorld \/ \E s \in Slots : Users(s)

LifeNext == Load \/ Loading \/ Exit \/ Exiting \/ Running

(* Interrupts are taken, queued work runs, threads inside a call run, and  *)
(* the secure world follows the protocol.  Messages do not arrive faster   *)
(* than the work item handles them forever: its loop would have no end.    *)
(* Nobody has to load, to remove, or to use the module.                    *)
LifeFairness ==
    /\ WF_allVars(Loading \/ Exiting \/ Beside(Notifier(Remover)))
    /\ WF_allVars(Beside(Handler))
    /\ WF_allVars(Beside(Work \/ Notifier(Worker))) /\ SF_allVars(Beside(WorkDrained))
    /\ \A s \in Slots : WF_allVars(Beside(SignalStep(s) \/ Closing(s) \/ Notifier(s)))
    /\ WF_allVars(Beside(SecureStarts \/ SecureMessage \/ \E s \in Slots : SecureBell(s)))

LifeSafety == LifeInit /\ [][LifeNext]_allVars

LifeSpec == LifeSafety /\ LifeFairness

-----------------------------------------------------------------------------
(* Properties *)

(* Whatever step of pnc_init fails, and whatever its result is taken for,  *)
(* no resource is released twice, by the labels or by a later pnc_exit,    *)
(* and a module that does not work or is gone holds none; one that had     *)
(* come up leaves E_RESET and an interrupt to the secure world.            *)
NothingLeaks ==
    /\ \A r \in Resources : held[r] \in {0, 1}
    /\ life \in {"absent", "dead"} =>
         /\ \A r \in Resources : held[r] = 0
         /\ gone = "yes" => RESET \in nsReg /\ toS

(* The interrupt is connected only while the memory that its handler reads *)
(* is mapped.  Whoever is inside a call, or sends the last E_RESET, has    *)
(* the mapping, the blocks and the work queue of the monitor calls; so has *)
(* the handler and, until pnc_exit has freed the interrupt, a work item    *)
(* that is queued or runs.  (One that was queued between the flush and     *)
(* free_irq may run later, on memory that is gone.)                        *)
InUseIsHeld ==
    /\ held["irq"] = 1 => held["map"] = 1 /\ held["pages"] = 1
    /\ \/ npc[Remover] # "none" \/ irq # "none"
       \/ \E s \in Slots : open[s] \/ upc[s] # "idle" \/ npc[s] # "none"
       \/ gone # "yes" /\ (queued \/ wpc # "idle" \/ npc[Worker] # "none")
         => \A r \in {"map", "blocks", "wq"} : held[r] = 1

(* A user that waits for a signal is woken by it.                          *)
SignalWakesUser ==
    \A s \in Slots : (upc[s] = "wait" /\ sSig[s] # {}) ~> (upc[s] # "wait")

(* E_RESET always leads to an invalidation, whatever else is pending.      *)
ResetInvalidates == (RESET \in sReg) ~> (magic = 1)

(* A module that was loaded or reset gets through the handshake, after     *)
(* which sessions can be opened, unless it is removed; and pnc_exit comes  *)
(* to its end, also when the handshake or a reset is still under way when  *)
(* it is called.                                                           *)
HandshakeEnds ==
    (life = "exit" \/ (life = "live" /\ magic = 1))
        ~> (life = "absent" \/ (life = "live" /\ Usable))

-----------------------------------------------------------------------------
(* The inductive strengthening of the safety properties *)

Holding(R) == \A r \in Resources : held[r] = IF r \in R THEN 1 ELSE 0

Memory == {"misc", "pages"}
Mapped == Memory \cup {"map", "blocks"}

(* What is held at each step of pnc_init ...                               *)
Acquired ==
    [misc |-> {}, pages |-> {"misc"}, sgi |-> Memory, map |-> Memory,
     blocks |-> Memory \cup {"map"}, irq |-> Mapped, wq |-> Mapped \cup {"irq"},
     start |-> Resources]

(* ... and may be held at each label of its error path.                    *)
ToUndo ==
    [misc |-> {{"misc"}}, pages |-> {Memory}, map |-> {Memory, Memory \cup {"map"}},
     blocks |-> {Memory, Mapped}, irq |-> {Mapped \cup {"irq"}}]

HeldInv ==
    /\ held \in [Resources -> Int]
    /\ life \in {"absent", "dead", "init", "unwind", "live", "exit"}
    /\ life \in {"absent", "dead"} => Holding({}) /\ base = FALSE
    /\ life = "init" => at \in DOMAIN Acquired /\ Holding(Acquired[at])
                        /\ base = (at \notin {"misc", "pages"})
    /\ life = "unwind" => at \in DOMAIN ToUndo /\ \E R \in ToUndo[at] : Holding(R)
    /\ life = "live" => Holding(Resources) /\ base = TRUE
    /\ life = "exit" => /\ at \in {"sync", "sessions", "irq", "wq"} /\ base = TRUE
                        /\ Holding(IF at = "wq" THEN Resources \ {"irq"} ELSE Resources)

Quiet(s) == ~open[s] /\ upc[s] = "idle" /\ npc[s] = "none"

(* Before pnc_init has told the secure world of the memory nothing moves.  *)
Asleep ==
    /\ ~toS /\ ~toNs /\ irq = "none" /\ ~queued /\ magic = 1 /\ ~ready
    /\ wpc = "idle" /\ spc = "idle" /\ sBell = {} /\ \A a \in Actors : npc[a] = "none"
    /\ \A s \in Slots : ~sConf[s] /\ ~sEvent[s]

StartInv == (life \notin {"live", "exit"} /\ gone = "no") => Asleep

(* Users are inside calls only while the module is loaded; pnc_sessions_   *)
(* exit finds nothing left to commit, and its E_RESET stays in the         *)
(* register, with an interrupt for it, as the header is invalid by then.   *)
LeaveInv ==
    /\ life # "live" => \A s \in Slots : Quiet(s)
    /\ gone \in {"flushed", "invalidating", "sent"} => life = "exit" /\ at = "irq"
    /\ gone = "yes" => life = "absent" \/ (life = "exit" /\ at = "wq")
    /\ (life = "exit" /\ at = "wq") => gone = "yes"
    /\ gone # "no" => nsOpen = <<>> /\ npc[Worker] \in {"none", "commit"}
    /\ gone \in {"sent", "yes"} =>
         /\ magic = 1
         /\ \/ RESET \in nsReg /\ npc[Remover] \in {"none", "bell"}
            \/ npc[Remover] = "set" /\ nbit[Remover] = RESET
    /\ gone = "yes" => RESET \in nsReg /\ toS /\ npc[Remover] = "none" /\ irq = "none"

LifeInv == NotifyInv /\ HeldInv /\ StartInv /\ LeaveInv
=============================================================================

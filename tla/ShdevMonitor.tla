---------------------------- MODULE ShdevMonitor ----------------------------
(***************************************************************************)
(* The monitor of the devices that both worlds share (shdev.c): a kernel   *)
(* thread that keeps a session with the secure world, one work item per    *)
(* device that performs what the secure world asks for and reports the     *)
(* status, and the removal of the module.                                  *)
(*                                                                         *)
(* Each device has one slot per direction in the memory of the session.    *)
(* The session API is taken from session.c as the monitor sees it: the     *)
(* state of the session, one event, a set of signals per direction.  The   *)
(* secure world is external: it asks for operations at any time, whether   *)
(* or not the last one has been answered (shdev.h:61), and reads the slot  *)
(* of a device when it is signalled.                                       *)
(***************************************************************************)
EXTENDS Naturals

CONSTANTS
    Devices,        \* the devices of the configuration
    Remote,         \* the mmc block: the secure world may access its data
    Uses,           \* the sets of operations that a secure world may ask for
    Lengths,        \* lengths of transfers, and of what SELECT finds
    DataSize,       \* size of the buffer of a transfer (SHDEV_MMC_PAGES)
    LengthMod,      \* 2^32: the width a length is checked with
    ValueMod,       \* 2^16: the width of the value of a status
    MaxDepth        \* bound: the secure world stops asking for SUSPEND at this depth

(* READ and WRITE are one operation, TRANSFER.  UNKNOWN is any other code. *)
Operations == {"SUSPEND", "RESUME", "SELECT", "TRANSFER", "RPMB", "UNKNOWN"}

(* The buffer is one page, of 64 KiB at most.                              *)
ASSUME ShdevAssumption ==
    /\ Uses \subseteq SUBSET Operations /\ Remote \subseteq Devices /\ Lengths \subseteq Nat
    /\ DataSize \in Nat /\ LengthMod \in Nat \ {0} /\ ValueMod \in Nat /\ MaxDepth \in Nat
    /\ DataSize <= ValueMod /\ ValueMod > 1

VARIABLES
    mpc,            \* the monitor thread
    old,            \* the version of the secure world is below 0x303
    known,          \* _shdev_session is not NULL
    session,        \* "free", "open", "conf" or, ended by the secure world, "null"
    event,          \* the session has an event for the monitor
    sSignals, nsSignals,   \* signals for the normal and for the secure world: devices
    queued,         \* devices whose work item is queued
    wpc, op, result,       \* per device: step of the work item, its copy of the
                           \* request, the absolute value of its result
    s_to_ns, ns_to_s,      \* per device: the slots
    length,         \* per device: length of a transfer, in its shdev_mmc_entry_t
    device,         \* per device: "active" or "suspended"
    bdev,           \* the mmc block has been found (_shdev_mmc_bdev)
    host,           \* its controller can be found (mmcblk_get_device)
    rescan,         \* those whose controller looks for cards (~rescan_disable)
    depth,          \* per device: power.disable_depth of the controller
    partial,        \* history: those whose last operation is a transfer that left out bytes
    xpc, stop,      \* the removal, kthread_should_stop()
    ops,            \* secure world: the operations it asks for
    sReady,         \* secure world: the monitor is ready
    asked           \* history: devices it has asked for in this session

sigVars == <<sSignals, nsSignals>>
monVars == <<mpc, old, known, session, event>>
powerVars == <<device, bdev, host, rescan, depth>>
deviceVars == <<powerVars, partial, length>>
workVars == <<queued, wpc, op, result, ns_to_s, deviceVars>>
exitVars == <<xpc, stop>>
secureVars == <<ops, sReady, s_to_ns, asked>>
vars == <<monVars, workVars, exitVars, secureVars, sigVars>>

Error == 1          \* any error: no property tells them apart
NoStatus == [op |-> "none", status |-> FALSE, value |-> 0]
Effect(o) == IF o = "SUSPEND" THEN "suspended" ELSE "active"

(* shdev_init: the work items and the thread.                              *)
Init ==
    /\ old \in BOOLEAN
    /\ mpc = "start" /\ known = FALSE /\ session = "free" /\ event = FALSE
    /\ sSignals = {} /\ nsSignals = {} /\ queued = {}
    /\ wpc = [d \in Devices |-> "idle"] /\ op = [d \in Devices |-> "none"]
    /\ result = [d \in Devices |-> 0] /\ device = [d \in Devices |-> "active"]
    /\ bdev = {} /\ host \in SUBSET Remote /\ rescan = Devices
    /\ depth = [d \in Devices |-> 0] /\ partial = {}
    /\ length \in [Devices -> Lengths]
    /\ s_to_ns = [d \in Devices |-> "none"] /\ ns_to_s = [d \in Devices |-> NoStatus]
    /\ xpc = "no" /\ stop = FALSE
    /\ ops \in Uses /\ sReady = FALSE /\ asked = {}

-----------------------------------------------------------------------------
(* The session, as session.c provides it *)

(* The end of a session.  Each side clears the signals it has sent, and S  *)
(* forgets what it has asked; work items are left as they are.             *)
Forget ==
    /\ sSignals' = {} /\ nsSignals' = {} /\ sReady' = FALSE /\ asked' = {}
    /\ UNCHANGED <<ops, s_to_ns>>

(* pnc_session_close: whoever waits for an event is woken.                 *)
Close == session' = "free" /\ event' = TRUE /\ Forget

-----------------------------------------------------------------------------
(* shdev_thread and configure *)

Start ==
    /\ mpc = "start"
    /\ mpc' = IF stop THEN "gone" ELSE "open"
    /\ UNCHANGED <<old, known, session, event, workVars, exitVars, secureVars, sigVars>>

(* pnc_session_open: the table may be full.                                *)
OpenSession ==
    /\ mpc = "open"
    /\ \/ /\ mpc' = "alloc" /\ known' = TRUE /\ session' = "open" /\ event' = FALSE
       \/ mpc' = "gone" /\ UNCHANGED <<old, known, session, event>>
    /\ UNCHANGED <<old, workVars, exitVars, secureVars, sigVars>>

(* pnc_session_alloc and the version: one that is too old takes the error  *)
(* path with the result 0.                                                 *)
AllocSession ==
    /\ mpc = "alloc"
    /\ mpc' \in {"failed", IF old THEN "failed_0" ELSE "config"}
    /\ UNCHANGED <<old, known, session, event, workVars, exitVars, secureVars, sigVars>>

(* pnc_session_config_by_name, tried until the service of S is there.  It  *)
(* fails for a session that has been closed.                               *)
ConfigSession ==
    /\ mpc = "config"
    /\ \/ session = "open" /\ session' = "conf" /\ mpc' = "ready"
       \/ mpc' = "failed" /\ UNCHANGED session
    /\ UNCHANGED <<old, known, event, workVars, exitVars, secureVars, sigVars>>

(* The descriptors are laid out and SIGNAL_READY is sent.                  *)
SignalReady ==
    /\ mpc = "ready"
    /\ IF session = "conf"
         THEN mpc' = "loop" /\ sReady' = TRUE
         ELSE mpc' = "failed" /\ UNCHANGED sReady
    /\ UNCHANGED <<old, known, session, event, workVars, exitVars, ops, s_to_ns, asked, sigVars>>

(* config_err: the session is closed, and the thread ends.                 *)
ConfigError ==
    /\ mpc \in {"failed", "failed_0"}
    /\ Close
    /\ mpc' = IF mpc = "failed" THEN "gone" ELSE "loop"
    /\ UNCHANGED <<old, known, workVars, exitVars>>

(* Before each wait: the thread may have to stop.                          *)
Loop ==
    /\ mpc = "loop"
    /\ mpc' = IF stop THEN "gone" ELSE "check"
    /\ UNCHANGED <<old, known, session, event, workVars, exitVars, secureVars, sigVars>>

(* pnc_session_wait_event: check_session_configured.  A session that ended *)
(* is closed and a new one started (-ENODEV); for a slot that is free the  *)
(* loop goes round (-EINVAL).                                              *)
CheckSession ==
    /\ mpc = "check"
    /\ \/ session = "conf" /\ mpc' = "wait" /\ UNCHANGED <<session, event, secureVars,
                                                           sigVars>>
       \/ session = "null" /\ mpc' = "start" /\ Close
       \/ session = "free" /\ mpc' = "loop" /\ UNCHANGED <<session, event, secureVars,
                                                           sigVars>>
    /\ UNCHANGED <<old, known, workVars, exitVars>>

(* Mutant: -EPIPE is treated as any other error.                           *)
WaitEventGoesOn ==
    /\ mpc = "wait" /\ event
    /\ event' = FALSE
    /\ IF session = "conf" THEN mpc' = "handle" /\ UNCHANGED session
       ELSE mpc' = "loop" /\ session' = "free"
    /\ UNCHANGED <<old, known, workVars, exitVars, secureVars, sigVars>>

(* An event ends the wait; if the session is not configured any more, the  *)
(* slot is given back and a new session started (-EPIPE).                  *)
WaitEvent ==
    /\ mpc = "wait" /\ event
    /\ event' = FALSE
    /\ IF session = "conf" THEN mpc' = "handle" /\ UNCHANGED session
       ELSE mpc' = "start" /\ session' = "free"
    /\ UNCHANGED <<old, known, workVars, exitVars, secureVars, sigVars>>

(* Mutant: no new job while the previous one is running.                   *)
HandleSignalOnce ==
    /\ mpc = "handle"
    /\ mpc' = "loop"
    /\ IF session = "conf"
         THEN /\ event' = FALSE /\ sSignals' = {}
              /\ queued' = queued \cup {d \in sSignals : wpc[d] = "idle"}
         ELSE UNCHANGED <<event, sSignals, queued>>
    /\ UNCHANGED <<old, known, session, wpc, op, result, ns_to_s, deviceVars, exitVars, secureVars,
                   nsSignals>>

(* handle_signal: schedule_work for each device that was signalled.  It    *)
(* does nothing for a work item that is queued and has not started yet.    *)
HandleSignal ==
    /\ mpc = "handle"
    /\ mpc' = "loop"
    /\ IF session = "conf"
         THEN event' = FALSE /\ sSignals' = {} /\ queued' = queued \cup sSignals
         ELSE UNCHANGED <<event, sSignals, queued>>
    /\ UNCHANGED <<old, known, session, wpc, op, result, ns_to_s, deviceVars, exitVars, secureVars,
                   nsSignals>>

-----------------------------------------------------------------------------
(* device_work_func *)

(* The memory of the session is the monitor's own, and laid out.           *)
Mapped == mpc \in {"loop", "check", "wait", "handle", "gone"} /\ session = "conf"

(* The request is copied.  A work item never runs twice at a time.  When   *)
(* the memory is not mapped, what is read need not be a descriptor.        *)
WorkStart(d) ==
    /\ d \in queued /\ wpc[d] = "idle"
    /\ queued' = queued \ {d}
    /\ \/ op' = [op EXCEPT ![d] = s_to_ns[d]] /\ wpc' = [wpc EXCEPT ![d] = "run"]
       \/ ~Mapped /\ UNCHANGED <<op, wpc>>
    /\ UNCHANGED <<result, ns_to_s, deviceVars, monVars, exitVars, secureVars, sSignals, nsSignals>>

(* mmcblk_pm_runtime_disable, mmcblk_pm_runtime_enable: nothing is done    *)
(* when the controller is not found.                                       *)
Manage(d, on) ==
    IF d \in host
      THEN /\ rescan' = IF on THEN rescan \cup {d} ELSE rescan \ {d}
           /\ depth' = [depth EXCEPT ![d] = IF ~on THEN @ + 1 ELSE IF @ > 0 THEN @ - 1 ELSE @]
      ELSE UNCHANGED <<rescan, depth>>

(* mmcblk_get: once it is found, the block device stays known.             *)
Found(d) == bdev' = IF d \in Remote THEN bdev \cup {d} ELSE bdev
NotFound(d) == d \in Remote \ bdev /\ UNCHANGED bdev

(* The suspend and resume handlers of the mmc block, the network interface *)
(* and the spi master.  The mmc block switches its rescan and power        *)
(* management whatever the result.                                         *)
Switch(d, ret) ==
    /\ \/ NotFound(d) /\ ret = Error /\ UNCHANGED <<device, rescan, depth>>
       \/ /\ Found(d) /\ ret \in {0, Error}
          /\ device' = IF ret = 0 THEN [device EXCEPT ![d] = Effect(op[d])] ELSE device
          /\ Manage(d, op[d] = "RESUME")
    /\ partial' = partial \ {d}
    /\ UNCHANGED <<host, length>>

(* A command of the mmc block; SELECT writes the size it finds over the    *)
(* length.                                                                 *)
Command(d, ret) ==
    /\ ret \in {0, Error}
    /\ IF ret = 0 /\ op[d] = "SELECT"
         THEN \E l \in Lengths : length' = [length EXCEPT ![d] = l]
         ELSE UNCHANGED length

(* The partitions of the mmc block: the user data through the file of the  *)
(* device, rpmb through the commands of its own driver, no other.          *)
Partitions == {"user", "rpmb", "other"}

(* The length is checked as a uint32_t.                                    *)
Fits(d) == length[d] % LengthMod <= DataSize

(* mmcblk_remote_host, mmcblk_remote_host_rpmb, but for a transfer that is *)
(* not refused.  A device without a handler reports success.               *)
Access(d, ret) ==
    /\ \/ d \notin Remote /\ ret = 0 /\ UNCHANGED <<bdev, length>>
       \/ /\ d \in Remote
          /\ \E part \in Partitions :
               \/ part = "rpmb" /\ Command(d, ret) /\ UNCHANGED bdev
               \/ /\ part = "user" /\ op[d] = "SELECT"
                  /\ \/ NotFound(d) /\ ret = Error /\ UNCHANGED length
                     \/ Found(d) /\ Command(d, ret)
               \/ /\ \/ part = "user" /\ op[d] = "RPMB"
                     \/ part = "user" /\ op[d] = "TRANSFER" /\ ~Fits(d)
                     \/ part = "other"
                  /\ ret = Error /\ UNCHANGED <<bdev, length>>
    /\ partial' = partial \ {d}
    /\ UNCHANGED <<device, host, rescan, depth>>

(* The handler of the operation; for one that is not known the result is   *)
(* -ENOSYS.                                                                *)
WorkRun(d) ==
    /\ wpc[d] = "run"
    /\ \E ret \in {0, Error} :
         /\ \/ op[d] \in {"SUSPEND", "RESUME"} /\ Switch(d, ret)
            \/ op[d] \in {"SELECT", "TRANSFER", "RPMB"} /\ Access(d, ret)
            \/ op[d] = "UNKNOWN" /\ ret = Error /\ UNCHANGED deviceVars
         /\ result' = [result EXCEPT ![d] = ret]
    /\ wpc' = [wpc EXCEPT ![d] = "copy"]
    /\ UNCHANGED <<queued, op, ns_to_s, monVars, exitVars, secureVars, sigVars>>

(* A transfer that is not refused.  Then the file of the device may not    *)
(* open, and n bytes may be moved of the length, which is read again.  The *)
(* number of bytes of a short transfer takes the place of an error.        *)
WorkTransfer(d) ==
    /\ \/ /\ wpc[d] = "run" /\ op[d] = "TRANSFER" /\ d \in Remote /\ Fits(d)
          /\ wpc' = [wpc EXCEPT ![d] = "transfer"] /\ UNCHANGED <<result, partial>>
       \/ /\ wpc[d] = "transfer" /\ wpc' = [wpc EXCEPT ![d] = "copy"]
          /\ \E n \in 0 .. length[d], opened \in BOOLEAN :
               /\ ~opened => n = 0
               /\ partial' = IF n < length[d] THEN partial \cup {d} ELSE partial \ {d}
               /\ result' = [result EXCEPT ![d] = IF n = 0 THEN Error
                                                  ELSE IF n = length[d] THEN 0 ELSE n]
    /\ UNCHANGED <<queued, op, ns_to_s, powerVars, length, monVars, exitVars, secureVars, sigVars>>

(* The answer: a copy of the request, marked as a status, with the result  *)
(* as a uint16_t.  The secure world reads it when it is signalled.         *)
WorkReply(d) ==
    /\ wpc[d] = "copy" /\ wpc' = [wpc EXCEPT ![d] = "signal"]
    /\ ns_to_s' = [ns_to_s EXCEPT ![d] = [op |-> op[d], status |-> TRUE,
                                          value |-> result[d] % ValueMod]]
    /\ UNCHANGED <<queued, op, result, deviceVars, monVars, exitVars, secureVars, sigVars>>

(* Mutant: an operation that failed is not reported.                       *)
WorkSignalSuccess(d) ==
    /\ wpc[d] = "signal"
    /\ nsSignals' = IF session = "conf" /\ ns_to_s[d].value = 0 THEN nsSignals \cup {d}
                    ELSE nsSignals
    /\ wpc' = [wpc EXCEPT ![d] = "idle"]
    /\ op' = [op EXCEPT ![d] = "none"] /\ result' = [result EXCEPT ![d] = 0]
    /\ UNCHANGED <<queued, ns_to_s, deviceVars, monVars, exitVars, secureVars, sSignals>>

(* pnc_session_send_signal: a failure is only logged.                      *)
WorkSignal(d) ==
    /\ wpc[d] = "signal"
    /\ nsSignals' = IF session = "conf" THEN nsSignals \cup {d} ELSE nsSignals
    /\ wpc' = [wpc EXCEPT ![d] = "idle"]
    /\ op' = [op EXCEPT ![d] = "none"] /\ result' = [result EXCEPT ![d] = 0]
    /\ UNCHANGED <<queued, ns_to_s, deviceVars, monVars, exitVars, secureVars, sSignals>>

-----------------------------------------------------------------------------
(* shdev_exit *)

ExitClose ==
    /\ xpc = "no"
    /\ xpc' = "stop"
    /\ IF known THEN Close ELSE UNCHANGED <<session, event, secureVars, sigVars>>
    /\ UNCHANGED <<mpc, old, known, stop, workVars>>

(* kthread_stop: the flag, then the end of the thread.                     *)
ExitStop ==
    /\ xpc = "stop" /\ xpc' = "join" /\ stop' = TRUE
    /\ UNCHANGED <<monVars, workVars, secureVars, sigVars>>

ExitJoin ==
    /\ xpc = "join" /\ mpc = "gone" /\ xpc' = "flush"
    /\ UNCHANGED <<stop, monVars, workVars, secureVars, sigVars>>

(* flush_work of every device.                                             *)
ExitFlush ==
    /\ xpc = "flush" /\ queued = {} /\ \A d \in Devices : wpc[d] = "idle"
    /\ xpc' = "done"
    /\ UNCHANGED <<stop, monVars, workVars, secureVars, sigVars>>

-----------------------------------------------------------------------------
(* The secure world *)

(* It writes the entry of an access and its one slot for the device,       *)
(* whether or not the message in it has been read or the last request has  *)
(* been answered.                                                          *)
SecureAsk(d, o) ==
    /\ session = "conf" /\ sReady
    /\ o = "SUSPEND" => depth[d] < MaxDepth
    /\ s_to_ns' = [s_to_ns EXCEPT ![d] = o]
    /\ IF o = "TRANSFER" THEN \E l \in Lengths : length' = [length EXCEPT ![d] = l]
       ELSE UNCHANGED length
    /\ sSignals' = sSignals \cup {d} /\ event' = TRUE /\ asked' = asked \cup {d}
    /\ UNCHANGED <<ops, sReady, mpc, old, known, session, queued, wpc, op, result, ns_to_s,
                   powerVars, partial, exitVars, nsSignals>>

(* It takes the signal, to read the slot.                                  *)
SecureTake(d) ==
    /\ d \in nsSignals
    /\ nsSignals' = nsSignals \ {d}
    /\ UNCHANGED <<monVars, workVars, exitVars, secureVars, sSignals>>

(* It ends the session (A_TERM).                                           *)
SecureEnd ==
    /\ session = "conf" /\ session' = "null" /\ event' = TRUE
    /\ Forget
    /\ UNCHANGED <<mpc, old, known, workVars, exitVars>>

-----------------------------------------------------------------------------
Monitor ==
    \/ Start \/ OpenSession \/ AllocSession \/ ConfigSession \/ SignalReady \/ ConfigError
    \/ Loop \/ CheckSession \/ WaitEvent \/ HandleSignal

Work(d) == WorkStart(d) \/ WorkRun(d) \/ WorkTransfer(d) \/ WorkReply(d) \/ WorkSignal(d)

Exit == ExitClose \/ ExitStop \/ ExitJoin \/ ExitFlush

Next ==
    \/ Monitor \/ Exit \/ SecureEnd
    \/ \E d \in Devices : Work(d) \/ SecureTake(d) \/ \E o \in ops : SecureAsk(d, o)

Spec == Init /\ [][Next]_vars

(* The thread runs unless it waits, work items run, and the secure world   *)
(* reads what it is signalled.  It is free to ask and to end the session.  *)
FairSpec ==
    /\ Spec /\ WF_vars(Monitor)
    /\ \A d \in Devices : WF_vars(Work(d)) /\ WF_vars(SecureTake(d))

-----------------------------------------------------------------------------
(* Properties *)

Statuses == [op : Operations \cup {"none"}, status : BOOLEAN, value : 0 .. ValueMod - 1]

(* Every variable keeps to its type.                                       *)
TypeOK ==
    /\ mpc \in {"start", "open", "alloc", "config", "ready", "failed", "failed_0", "loop",
                "check", "wait", "handle", "gone"}
    /\ known \in BOOLEAN /\ session \in {"free", "open", "conf", "null"} /\ event \in BOOLEAN
    /\ sSignals \subseteq Devices /\ nsSignals \subseteq Devices /\ queued \subseteq Devices
    /\ wpc \in [Devices -> {"idle", "run", "transfer", "copy", "signal"}]
    /\ op \in [Devices -> Operations \cup {"none"}] /\ result \in [Devices -> Nat]
    /\ s_to_ns \in [Devices -> Operations \cup {"none"}] /\ ns_to_s \in [Devices -> Statuses]
    /\ length \in [Devices -> Lengths] /\ device \in [Devices -> {"active", "suspended"}]
    /\ bdev \subseteq Remote /\ host \subseteq Remote
    /\ rescan \subseteq Devices /\ partial \subseteq Devices /\ depth \in [Devices -> Nat]
    /\ xpc \in {"no", "stop", "join", "flush", "done"} /\ stop \in BOOLEAN
    /\ ops \in Uses /\ sReady \in BOOLEAN /\ asked \subseteq Devices /\ old \in BOOLEAN

(* What the value 0 says of operation o.                                   *)
Done(d, o) ==
    /\ o \in {"SUSPEND", "RESUME"} => device[d] = Effect(o)
    /\ d \in host => /\ o = "SUSPEND" => d \notin rescan /\ depth[d] > 0
                     /\ o = "RESUME" => d \in rescan
    /\ (o = "TRANSFER" /\ length[d] < LengthMod) => d \notin partial

(* The slot of the device holds a status of operation o, and if it says    *)
(* that the operation succeeded it did.                                    *)
Answers(d, o) ==
    /\ ns_to_s[d].status /\ ns_to_s[d].op = o
    /\ ns_to_s[d].value = 0 => Done(d, o)

(* When a device comes to rest, what has been done is what was asked last, *)
(* however many requests were merged, or overtaken, or left behind by an   *)
(* earlier session; and the status in its slot is true: a success means    *)
(* that the device is suspended or active, with the rescan and the power   *)
(* management of a controller that is known to match, or that every byte   *)
(* of the transfer was moved (handle_signal, device_work_func,             *)
(* mmcblk_suspend, mmcblk_remote_host).                                    *)
LastRequestIsDone ==
    \A d \in asked :
        (d \notin sSignals \cup queued /\ wpc[d] = "idle") => Answers(d, s_to_ns[d])

(* Every signal of the secure world for a device is answered by one for    *)
(* it, although a request for a device that is queued is merged with the   *)
(* first and one for a device that is busy is queued behind it, unless the *)
(* session or the module ends (handle_signal, device_work_func).           *)
RequestIsAnswered ==
    \A d \in Devices : (d \in sSignals) ~> (d \in nsSignals \/ ~sReady \/ xpc # "no")

(* When the secure world ends the session, the monitor starts a new one    *)
(* and says it is ready, unless it cannot or the module is removed.        *)
MonitorRestarts == (session = "null") ~> (sReady \/ mpc = "gone" \/ xpc # "no")

-----------------------------------------------------------------------------
(* The inductive strengthening of LastRequestIsDone *)

(* The secure world asks only within a session that is ready.              *)
ReadyInv ==
    /\ sReady => session = "conf" /\ mpc \in {"loop", "check", "wait", "handle", "gone"}
    /\ ~sReady => asked = {}

(* Unless a signal or a queued work item stands for it, the last request   *)
(* is the one at work, or the one answered in the slot.                    *)
Current(d) ==
    /\ wpc[d] \in {"run", "transfer", "copy"} => op[d] = s_to_ns[d]
    /\ wpc[d] = "transfer" => op[d] = "TRANSFER" /\ Fits(d)
    /\ wpc[d] = "copy" /\ result[d] % ValueMod = 0 => Done(d, s_to_ns[d])
    /\ wpc[d] \in {"signal", "idle"} => Answers(d, s_to_ns[d])

MonitorInv ==
    /\ TypeOK /\ ReadyInv
    /\ \A d \in asked : d \notin sSignals \cup queued => Current(d)
=============================================================================

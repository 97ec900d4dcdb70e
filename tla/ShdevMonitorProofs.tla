------------------------- MODULE ShdevMonitorProofs -------------------------
(***************************************************************************)
(* Proofs about the monitor of the shared devices: a device at rest has    *)
(* done what the secure world asked for last, and the status in its slot   *)
(* is true, for every set of devices, lengths and sizes.  The invariant    *)
(* says where the last request is: signalled or queued, or else at work or *)
(* answered.                                                               *)
(***************************************************************************)
EXTENDS ShdevMonitor, TLAPS

USE DEF sigVars, monVars, powerVars, deviceVars, workVars, exitVars, secureVars

-----------------------------------------------------------------------------
(* Values *)

LEMMA ModSmall == ASSUME NEW n \in Nat, NEW m \in Nat, n < m PROVE n % m = n
OBVIOUS

LEMMA ModType == ASSUME NEW n \in Nat, NEW m \in Nat, m > 0 PROVE n % m \in 0 .. m - 1
OBVIOUS

(* An error is never stored as 0.                                          *)
LEMMA ErrorIsNotZero == Error % ValueMod # 0
BY ShdevAssumption, ModSmall DEF Error

(* Nor is the number of bytes of a short transfer, when the length was     *)
(* checked with all its bits.                                              *)
LEMMA ShortIsNotZero ==
    ASSUME NEW l \in Nat, NEW n \in 0 .. l, n > 0, n < l, l < LengthMod,
           l % LengthMod <= DataSize
    PROVE  n % ValueMod # 0
<1>1. l % LengthMod = l
  BY ShdevAssumption, ModSmall
<1>2. n \in Nat /\ n < ValueMod /\ ValueMod \in Nat
  BY <1>1, ShdevAssumption
<1>3. n % ValueMod = n
  BY <1>2, ModSmall
<1> QED
  BY <1>3

-----------------------------------------------------------------------------
(* Type correctness *)

LEMMA StatusType ==
    /\ NoStatus \in Statuses
    /\ \A o \in Operations \cup {"none"}, r \in Nat :
          [op |-> o, status |-> TRUE, value |-> r % ValueMod] \in Statuses
<1>1. \A r \in Nat : r % ValueMod \in 0 .. ValueMod - 1
  BY ShdevAssumption, ModType
<1>2. 0 \in 0 .. ValueMod - 1
  BY ShdevAssumption
<1> QED
  BY <1>1, <1>2 DEF NoStatus, Statuses

LEMMA ForgetType ==
    ASSUME TypeOK, Forget
    PROVE  /\ sSignals' \subseteq Devices /\ nsSignals' \subseteq Devices /\ sReady' \in BOOLEAN
           /\ asked' \subseteq Devices /\ UNCHANGED <<ops, s_to_ns>>
BY DEF TypeOK, Forget

LEMMA MonitorType ==
    ASSUME TypeOK, Monitor PROVE TypeOK'
<1>1. CASE Start \/ Loop
  BY <1>1 DEF Start, Loop, TypeOK
<1>2. CASE OpenSession
  BY <1>2 DEF OpenSession, TypeOK
<1>3. CASE AllocSession
  BY <1>3 DEF AllocSession, TypeOK
<1>4. CASE ConfigSession
  BY <1>4 DEF ConfigSession, TypeOK
<1>5. CASE SignalReady
  BY <1>5 DEF SignalReady, TypeOK
<1>6. CASE ConfigError
  BY <1>6, ForgetType DEF ConfigError, Close, TypeOK
<1>7. CASE CheckSession
  BY <1>7, ForgetType, ZenonT(40) DEF CheckSession, Close, TypeOK
<1>8. CASE WaitEvent
  BY <1>8 DEF WaitEvent, TypeOK
<1>9. CASE HandleSignal
  BY <1>9 DEF HandleSignal, TypeOK
<1> QED
  BY <1>1, <1>2, <1>3, <1>4, <1>5, <1>6, <1>7, <1>8, <1>9 DEF Monitor

LEMMA WorkType ==
    ASSUME TypeOK, NEW d \in Devices, Work(d) PROVE TypeOK'
<1>1. CASE WorkStart(d)
  BY <1>1 DEF WorkStart, TypeOK
<1>2. CASE WorkRun(d)
  <2> PICK ret \in {0, Error} :
          /\ \/ op[d] \in {"SUSPEND", "RESUME"} /\ Switch(d, ret)
             \/ op[d] \in {"SELECT", "TRANSFER", "RPMB"} /\ Access(d, ret)
             \/ op[d] = "UNKNOWN" /\ ret = Error /\ UNCHANGED deviceVars
          /\ result' = [result EXCEPT ![d] = ret]
    BY <1>2 DEF WorkRun
  <2>1. device' \in [Devices -> {"active", "suspended"}]
    BY DEF Switch, Access, Effect, TypeOK
  <2>2. rescan' \subseteq Devices
    BY DEF Switch, Access, Manage, TypeOK
  <2>3. depth' \in [Devices -> Nat]
    <3>1. \E n \in Nat : depth' \in {depth, [depth EXCEPT ![d] = n]}
      BY DEF Switch, Access, Manage, TypeOK
    <3> QED
      BY <3>1 DEF TypeOK
  <2>4. bdev' \subseteq Remote /\ UNCHANGED host
    BY DEF Switch, Access, Found, NotFound, TypeOK
  <2>5. partial' \subseteq Devices
    BY DEF Switch, Access, TypeOK
  <2>6. length' \in [Devices -> Lengths]
    <3>1. UNCHANGED length \/ \E l \in Lengths : length' = [length EXCEPT ![d] = l]
      BY DEF Switch, Access, Command
    <3> QED
      BY <3>1 DEF TypeOK
  <2>7. /\ result' \in [Devices -> Nat]
        /\ wpc' \in [Devices -> {"idle", "run", "transfer", "copy", "signal"}]
    BY <1>2 DEF WorkRun, Error, TypeOK
  <2>8. UNCHANGED <<queued, op, ns_to_s, monVars, exitVars, secureVars, sigVars>>
    BY <1>2 DEF WorkRun
  <2> QED
    BY <2>1, <2>2, <2>3, <2>4, <2>5, <2>6, <2>7, <2>8 DEF TypeOK
<1>5. CASE WorkTransfer(d)
  <2>1. /\ result' \in [Devices -> Nat]
        /\ wpc' \in [Devices -> {"idle", "run", "transfer", "copy", "signal"}]
    BY <1>5, ShdevAssumption DEF WorkTransfer, Error, TypeOK
  <2>2. partial' \subseteq Devices
    BY <1>5 DEF WorkTransfer, TypeOK
  <2>3. UNCHANGED <<queued, op, ns_to_s, powerVars, length, monVars, exitVars, secureVars, sigVars>>
    BY <1>5 DEF WorkTransfer
  <2> QED
    BY <2>1, <2>2, <2>3 DEF TypeOK
<1>3. CASE WorkReply(d)
  <2>1. ns_to_s' \in [Devices -> Statuses]
    <3>1. \E s \in Statuses : ns_to_s' = [ns_to_s EXCEPT ![d] = s]
      BY <1>3, StatusType DEF WorkReply, TypeOK
    <3> QED
      BY <3>1 DEF TypeOK
  <2>2. wpc' \in [Devices -> {"idle", "run", "transfer", "copy", "signal"}]
    BY <1>3 DEF WorkReply, TypeOK
  <2>3. UNCHANGED <<queued, op, result, deviceVars, monVars, exitVars, secureVars, sigVars>>
    BY <1>3 DEF WorkReply
  <2> QED
    BY <2>1, <2>2, <2>3 DEF TypeOK
<1>4. CASE WorkSignal(d)
  BY <1>4 DEF WorkSignal, TypeOK
<1> QED
  BY <1>1, <1>2, <1>3, <1>4, <1>5 DEF Work

LEMMA TypeStep ==
    ASSUME TypeOK, [Next]_vars PROVE TypeOK'
<1>1. CASE Exit
  <2>1. CASE ExitClose
    <3>1. CASE known
      BY <2>1, <3>1, ForgetType DEF ExitClose, Close, TypeOK
    <3>2. CASE ~known
      BY <2>1, <3>2 DEF ExitClose, TypeOK
    <3> QED
      BY <3>1, <3>2
  <2>2. CASE ExitStop
    BY <2>2 DEF ExitStop, TypeOK
  <2>3. CASE ExitJoin \/ ExitFlush
    BY <2>3 DEF ExitJoin, ExitFlush, TypeOK
  <2> QED
    BY <1>1, <2>1, <2>2, <2>3 DEF Exit
<1>2. CASE SecureEnd
  BY <1>2, ForgetType DEF SecureEnd, TypeOK
<1>3. CASE \E d \in Devices : SecureTake(d)
  BY <1>3 DEF SecureTake, TypeOK
<1>4. CASE \E d \in Devices, o \in ops : SecureAsk(d, o)
  BY <1>4, ShdevAssumption DEF SecureAsk, TypeOK
<1>5. CASE UNCHANGED vars
  BY <1>5 DEF vars, TypeOK
<1> QED
  BY <1>1, <1>2, <1>3, <1>4, <1>5, MonitorType, WorkType DEF Next

-----------------------------------------------------------------------------
(* Sessions *)

LEMMA ForgetReady == ASSUME Forget PROVE ReadyInv' /\ asked' = {}
BY DEF Forget, ReadyInv

(* The secure world asks nothing of a monitor that is not ready.           *)
LEMMA ReadyStep ==
    ASSUME TypeOK, ReadyInv, [Next]_vars PROVE ReadyInv'
<1>1. CASE Start \/ OpenSession \/ AllocSession \/ ConfigSession
  BY <1>1 DEF Start, OpenSession, AllocSession, ConfigSession, ReadyInv
<1>2. CASE SignalReady
  BY <1>2 DEF SignalReady, ReadyInv
<1>3. CASE ConfigError \/ SecureEnd
  BY <1>3, ForgetReady DEF ConfigError, SecureEnd, Close
<1>4. CASE Loop \/ WaitEvent
  BY <1>4 DEF Loop, WaitEvent, ReadyInv
<1>5. CASE CheckSession
  BY <1>5, ForgetReady DEF CheckSession, Close, ReadyInv
<1>6. CASE HandleSignal
  BY <1>6 DEF HandleSignal, ReadyInv
<1>7. CASE Exit
  BY <1>7, ForgetReady DEF Exit, ExitClose, ExitStop, ExitJoin, ExitFlush, Close, ReadyInv
<1>8. CASE \E d \in Devices, o \in ops : SecureAsk(d, o)
  BY <1>8 DEF SecureAsk, ReadyInv
<1>9. ASSUME UNCHANGED vars \/ \E d \in Devices : Work(d) \/ SecureTake(d) PROVE ReadyInv'
  <2>1. UNCHANGED <<sReady, session, mpc, asked>>
    BY <1>9 DEF vars, Work, WorkStart, WorkRun, WorkTransfer, WorkReply, WorkSignal, SecureTake
  <2> QED
    BY <2>1 DEF ReadyInv
<1> QED
  BY <1>1, <1>2, <1>3, <1>4, <1>5, <1>6, <1>7, <1>8, <1>9 DEF Next, Monitor

-----------------------------------------------------------------------------
(* The last request *)

(* Neither the work item nor the slots of device e change.                 *)
Same(e) ==
    /\ wpc'[e] = wpc[e] /\ op'[e] = op[e] /\ result'[e] = result[e] /\ ns_to_s'[e] = ns_to_s[e]
    /\ device'[e] = device[e] /\ (e \in rescan' <=> e \in rescan) /\ depth'[e] = depth[e]
    /\ (e \in partial' <=> e \in partial) /\ length'[e] = length[e] /\ s_to_ns'[e] = s_to_ns[e]
    /\ host' = host

LEMMA SameKeeps ==
    ASSUME NEW e \in Devices, Current(e), Same(e) PROVE Current(e)'
<1>1. \A o : Done(e, o)' <=> Done(e, o)
  BY DEF Same, Done
<1>2. Fits(e)' <=> Fits(e)
  BY DEF Same, Fits
<1>3. Answers(e, s_to_ns[e])' <=> Answers(e, s_to_ns[e])
  BY <1>1 DEF Same, Answers
<1> QED
  BY <1>1, <1>2, <1>3 DEF Same, Current

(* What the handlers of the operations do, to their device only.           *)
LEMMA RunDone ==
    ASSUME TypeOK, NEW d \in Devices, WorkRun(d)
    PROVE  /\ result'[d] % ValueMod = 0 => Done(d, op[d])'
           /\ \A e \in Devices : e # d => Same(e)
<1> PICK ret \in {0, Error} :
          /\ \/ op[d] \in {"SUSPEND", "RESUME"} /\ Switch(d, ret)
             \/ op[d] \in {"SELECT", "TRANSFER", "RPMB"} /\ Access(d, ret)
             \/ op[d] = "UNKNOWN" /\ ret = Error /\ UNCHANGED deviceVars
          /\ result' = [result EXCEPT ![d] = ret]
  BY DEF WorkRun
<1>0. /\ result'[d] = ret /\ \A e \in Devices : e # d => result'[e] = result[e]
      /\ \A e \in Devices : e # d => wpc'[e] = wpc[e]
      /\ UNCHANGED <<op, ns_to_s, s_to_ns>>
  BY DEF WorkRun, TypeOK
<1>1. result'[d] % ValueMod = 0 => ret = 0
  BY <1>0, ErrorIsNotZero
<1>2. CASE op[d] \in {"SUSPEND", "RESUME"} /\ Switch(d, ret)
  <2>1. ret = 0 => device'[d] = Effect(op[d])
    BY <1>2, ErrorIsNotZero DEF Switch, Error, TypeOK
  <2>2. ret = 0 /\ d \in host => /\ op[d] = "SUSPEND" => d \notin rescan' /\ depth'[d] > 0
                                 /\ op[d] = "RESUME" => d \in rescan'
    BY <1>2 DEF Switch, Manage, Error, TypeOK
  <2>3. host' = host /\ UNCHANGED length
    BY <1>2 DEF Switch
  <2>4. \A e \in Devices : e # d => /\ device'[e] = device[e] /\ (e \in rescan' <=> e \in rescan)
                                    /\ depth'[e] = depth[e] /\ (e \in partial' <=> e \in partial)
    BY <1>2 DEF Switch, Manage, TypeOK
  <2> QED
    BY <1>0, <1>1, <1>2, <2>1, <2>2, <2>3, <2>4 DEF Done, Same
<1>3. CASE op[d] \in {"SELECT", "TRANSFER", "RPMB"} /\ Access(d, ret)
  <2>1. /\ d \notin partial' /\ UNCHANGED <<device, host, rescan, depth>>
        /\ \A e \in Devices : e # d => (e \in partial' <=> e \in partial) /\ length'[e] = length[e]
    BY <1>3 DEF Access, Command, TypeOK
  <2> QED
    BY <1>0, <1>3, <2>1 DEF Done, Same
<1>4. CASE op[d] = "UNKNOWN" /\ ret = Error /\ UNCHANGED deviceVars
  BY <1>0, <1>4 DEF Done, Same
<1> QED
  BY <1>2, <1>3, <1>4

(* A work item that takes up a device takes up its last request.           *)
LEMMA WorkKeeps ==
    ASSUME MonitorInv, NEW d \in Devices, Work(d), NEW e \in asked, e \notin (sSignals \cup queued)'
    PROVE  Current(e)'
<1>0. TypeOK /\ e \in Devices /\ UNCHANGED <<sSignals, s_to_ns>> /\ e \notin sSignals
  BY DEF MonitorInv, TypeOK, Work, WorkStart, WorkRun, WorkTransfer, WorkReply, WorkSignal
<1>1. CASE e # d
  <2>1. Same(e)
    BY <1>0, <1>1, RunDone DEF Work, WorkStart, WorkTransfer, WorkReply, WorkSignal, Same, TypeOK
  <2>2. e \notin queued
    BY <1>1 DEF Work, WorkStart, WorkRun, WorkTransfer, WorkReply, WorkSignal
  <2> QED
    BY <1>0, <2>1, <2>2, SameKeeps DEF MonitorInv
<1>2. CASE e = d /\ WorkStart(d)
  <2>1. Mapped
    BY <1>2 DEF MonitorInv, ReadyInv, Mapped
  <2>2. wpc'[d] = "run" /\ op'[d] = s_to_ns'[d]
    BY <1>0, <1>2, <2>1 DEF WorkStart, TypeOK
  <2> QED
    BY <1>2, <2>2 DEF Current
<1>3. ASSUME e = d, ~WorkStart(d) PROVE Current(d)
  BY <1>0, <1>3 DEF Work, WorkRun, WorkTransfer, WorkReply, WorkSignal, MonitorInv
<1>4. CASE e = d /\ WorkRun(d)
  <2>1. wpc[d] = "run" /\ wpc'[d] = "copy" /\ UNCHANGED op
    BY <1>0, <1>4 DEF WorkRun, TypeOK
  <2>2. op[d] = s_to_ns[d]
    BY <1>3, <1>4, <2>1 DEF Current, WorkStart
  <2>3. result'[d] % ValueMod = 0 => Done(d, op[d])'
    BY <1>0, <1>4, RunDone
  <2> QED
    BY <1>0, <1>4, <2>1, <2>2, <2>3 DEF Current
<1>5. CASE e = d /\ WorkTransfer(d)
  <2>1. Current(d) /\ UNCHANGED <<op, length, host, device, rescan, depth>>
    BY <1>3, <1>5 DEF WorkStart, WorkTransfer
  <2>2. CASE wpc[d] = "run"
    <3>1. wpc'[d] = "transfer" /\ op[d] = "TRANSFER" /\ Fits(d)
      BY <1>0, <1>5, <2>2 DEF WorkTransfer, TypeOK
    <3>2. Fits(d)'
      BY <2>1, <3>1 DEF Fits
    <3> QED
      BY <1>0, <1>5, <2>1, <2>2, <3>1, <3>2 DEF Current
  <2>3. CASE wpc[d] = "transfer"
    <3>1. op[d] = s_to_ns[d] /\ op[d] = "TRANSFER" /\ Fits(d)
      BY <2>1, <2>3 DEF Current
    <3>2. PICK n \in 0 .. length[d] :
             /\ d \in partial' <=> n < length[d]
             /\ result'[d] = IF n = 0 THEN Error ELSE IF n = length[d] THEN 0 ELSE n
      BY <1>0, <1>5, <2>3 DEF WorkTransfer, TypeOK
    <3>3. length[d] \in Nat
      BY <1>0, ShdevAssumption DEF TypeOK
    <3>4. result'[d] % ValueMod = 0 /\ length[d] < LengthMod => d \notin partial'
      <4>1. CASE n = 0
        BY <3>2, <4>1, ErrorIsNotZero
      <4>2. CASE n = length[d]
        BY <3>2, <3>3, <4>2
      <4>3. CASE n > 0 /\ n < length[d]
        BY <3>1, <3>2, <3>3, <4>3, ShortIsNotZero DEF Fits
      <4> QED
        BY <3>3, <4>1, <4>2, <4>3
    <3>5. wpc'[d] = "copy"
      BY <1>0, <1>5, <2>3 DEF WorkTransfer, TypeOK
    <3>6. result'[d] % ValueMod = 0 => Done(d, "TRANSFER")'
      BY <2>1, <3>4 DEF Done
    <3> QED
      BY <1>0, <1>5, <2>1, <3>1, <3>5, <3>6 DEF Current
  <2> QED
    BY <1>5, <2>2, <2>3 DEF WorkTransfer
<1>6. CASE e = d /\ WorkReply(d)
  <2>1. /\ wpc[d] = "copy" /\ wpc'[d] = "signal" /\ UNCHANGED <<op, result, deviceVars>>
        /\ ns_to_s'[d] = [op |-> op[d], status |-> TRUE, value |-> result[d] % ValueMod]
    BY <1>0, <1>6 DEF WorkReply, TypeOK
  <2>2. op[d] = s_to_ns[d] /\ (result[d] % ValueMod = 0 => Done(d, s_to_ns[d]))
    BY <1>3, <1>6, <2>1 DEF Current, WorkStart
  <2>3. \A o : Done(d, o)' <=> Done(d, o)
    BY <2>1 DEF Done
  <2>4. Answers(d, s_to_ns[d])'
    BY <1>0, <2>1, <2>2, <2>3 DEF Answers
  <2> QED
    BY <1>6, <2>1, <2>4 DEF Current
<1>7. CASE e = d /\ WorkSignal(d)
  <2>1. wpc[d] = "signal" /\ wpc'[d] = "idle" /\ UNCHANGED <<ns_to_s, deviceVars>>
    BY <1>0, <1>7 DEF WorkSignal, TypeOK
  <2>2. Answers(d, s_to_ns[d])
    BY <1>3, <1>7, <2>1 DEF Current, WorkStart
  <2>3. Answers(d, s_to_ns[d])'
    BY <1>0, <2>1, <2>2 DEF Answers, Done
  <2> QED
    BY <1>7, <2>1, <2>3 DEF Current
<1> QED
  BY <1>1, <1>2, <1>4, <1>5, <1>6, <1>7 DEF Work

LEMMA MonitorStep ==
    ASSUME MonitorInv, [Next]_vars PROVE MonitorInv'
<1> USE DEF MonitorInv
<1>1. TypeOK' /\ ReadyInv'
  BY TypeStep, ReadyStep
<1>2. ASSUME NEW e \in asked', e \notin (sSignals \cup queued)' PROVE Current(e)'
  <2>0. e \in Devices
    BY <1>1 DEF TypeOK
  <2>1. CASE \E d \in Devices : Work(d)
    <3>1. UNCHANGED asked
      BY <2>1 DEF Work, WorkStart, WorkRun, WorkTransfer, WorkReply, WorkSignal
    <3> QED
      BY <1>2, <2>1, <3>1, WorkKeeps
  <2>2. CASE \E d \in Devices, o \in ops : SecureAsk(d, o)
    <3> PICK d \in Devices, o \in ops : SecureAsk(d, o)
      BY <2>2
    <3>1. e # d /\ e \in asked /\ e \notin sSignals \cup queued
      BY <1>2 DEF SecureAsk
    <3>2. Same(e)
      BY <2>0, <3>1 DEF SecureAsk, Same, TypeOK
    <3> QED
      BY <2>0, <3>1, <3>2, SameKeeps
  <2>3. CASE Monitor \/ Exit \/ SecureEnd \/ UNCHANGED vars \/ \E d \in Devices : SecureTake(d)
    <3>1. ~Forget
      BY <1>2, ForgetReady
    <3>2. /\ UNCHANGED <<wpc, op, result, ns_to_s, deviceVars, s_to_ns, asked>>
          /\ sSignals \cup queued \subseteq (sSignals \cup queued)'
      BY <2>3, <3>1 DEF Monitor, Start, OpenSession, AllocSession, ConfigSession, SignalReady,
         ConfigError, Loop, CheckSession, WaitEvent, HandleSignal, Exit, ExitClose, ExitStop,
         ExitJoin, ExitFlush, SecureEnd, SecureTake, Close, vars
    <3>3. Same(e)
      BY <3>2 DEF Same
    <3> QED
      BY <1>2, <2>0, <3>2, <3>3, SameKeeps
  <2> QED
    BY <2>1, <2>2, <2>3 DEF Next
<1> QED
  BY <1>1, <1>2

-----------------------------------------------------------------------------
(* Theorems *)

LEMMA MonitorInitial == Init => MonitorInv
<1> SUFFICES ASSUME Init PROVE MonitorInv
  OBVIOUS
<1>1. TypeOK
  <2>1. /\ ns_to_s \in [Devices -> Statuses]
        /\ wpc \in [Devices -> {"idle", "run", "transfer", "copy", "signal"}]
        /\ op \in [Devices -> Operations \cup {"none"}]
        /\ s_to_ns \in [Devices -> Operations \cup {"none"}]
        /\ device \in [Devices -> {"active", "suspended"}]
        /\ result \in [Devices -> Nat] /\ depth \in [Devices -> Nat]
    BY StatusType DEF Init
  <2>2. /\ known \in BOOLEAN /\ event \in BOOLEAN /\ stop \in BOOLEAN /\ sReady \in BOOLEAN
        /\ old \in BOOLEAN
    BY Zenon DEF Init
  <2>3. /\ mpc = "start" /\ session = "free" /\ xpc = "no" /\ ops \in Uses
        /\ sSignals = {} /\ nsSignals = {} /\ queued = {} /\ asked = {} /\ bdev = {}
        /\ rescan = Devices /\ partial = {} /\ host \subseteq Remote /\ length \in [Devices -> Lengths]
    BY DEF Init
  <2> QED
    BY <2>1, <2>2, <2>3 DEF TypeOK
<1> QED
  BY <1>1 DEF MonitorInv, ReadyInv, Init

(* The invariant of the monitor, whenever the secure world asks.           *)
THEOREM MonitorInvariant == Spec => []MonitorInv
<1>1. MonitorInv /\ [Next]_vars => MonitorInv'
  BY MonitorStep
<1> QED
  BY <1>1, MonitorInitial, PTL DEF Spec

(* A device at rest has done what was asked last, and the status in its    *)
(* slot is true, for any number of devices, whether or not the secure      *)
(* world waits for the answers, and for a buffer that a uint16_t can count *)
(* (handle_signal, device_work_func, mmcblk_suspend, mmcblk_remote_host).  *)
THEOREM LastRequestTheorem == Spec => []LastRequestIsDone
<1>1. MonitorInv => LastRequestIsDone
  BY DEF MonitorInv, LastRequestIsDone, Current
<1> QED
  BY <1>1, MonitorInvariant, PTL

=============================================================================

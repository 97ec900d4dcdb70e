# TLA+ models of the ProvenCore REE driver

The driver lets Linux (the *normal world*, NS) talk to applications of
ProvenCore (the *secure world*, S) through a shared memory area (SHM), two
interrupts and a secure monitor call. This directory holds TLA+ models of it,
TLC configurations that check them on small instances, and TLAPS proofs.

## 1. Inventory

| Part | Source | State | Operations | What makes it correct |
|---|---|---|---|---|
| Ring (unidirectional) | `include/misc/provencore/pnr_ring.h` | four shared atomic indices, an array, private indices on each side | checkout, produce / consume, commit | FIFO, nothing overwritten or read twice across index wrap, no lost wake-up |
| Ring (bidirectional) | same | two published indices and two limits over one array, private indices of client and server | client and server: checkout, consume, produce, commit | each request answered once and in order in its own slot, no lost wake-up; offered by the header, unused by the driver |
| Sessions | `ree/session.c`, `ree/ree.h` | 28 slots: free flag, global / server / client state, two kept messages, pending events, semaphore, block of memory | open, alloc, configure, send / get / wait for requests and responses, cancel, wait for events, poll, close; one handler per message of S | each request answered once; nobody is left waiting; a caller acts on its own session only |
| Notifications | `ree/session.c` | notification and signal registers in SHM, ready flag, header magic, work item | notify, interrupt handler, `handle_s_notification`, signals, handshake, reset, removal | what was announced is seen; no session outlives a reset |
| SHM allocator | `ree/shm.c` | list of blocks under a semaphore | alloc, free | partition of the memory; a block has one owner; no leak |
| Character device, start-up | `ree/main.c` | device, mapped memory, interrupt | open, ioctl, mmap, poll, release, init, exit | an error undoes exactly what was done; a removal ends and leaves nothing behind |
| Monitor calls | `ree/smc.c` | a workqueue bound to one CPU | send an SMC | there as long as somebody may call it |
| Shared-device monitor | `shdev/shdev.c` | thread, one work item and one message slot per device | configure, monitor, handle signal, device work, exit | each request of S is answered |
| MMC, Ethernet, SPI | `shdev/mmcblk.c`, `enetdev.c`, `spidev.c` | device handles, power management | suspend, resume, select, read, write, rpmb | the reported result is what happened |

**How they interact.** API calls run in user processes or kernel threads. They
change the session under its semaphore, put a message into the NS-->S ring and
then, outside the semaphore, commit the ring, set a bit of the notification
register and, if the register was empty, call the monitor. S does the same in
the other direction and raises an interrupt, whose handler schedules one work
item; that work item runs every message handler. Calls sleep on
`event_pending`, which the handlers set. Sessions own blocks of the allocator.
The shared-device monitor is an ordinary kernel client of the session API.

**What is hard.** Two worlds and several threads without a common lock;
delayed stores between them; a notification register that coalesces; waits
that can be interrupted, time out or be overtaken by a late answer; slots that
are reused while messages about their previous owner are still in a ring;
checks made before an unlock and used after it; a reset that tears everything
down from inside the work item; a start-up that may fail at every step and a
removal that races with interrupts and the handshake. PROJECT.json lists each such hazard at its line.

## 2. Modules

| Module | Models | Checked by |
|---|---|---|
| `RingIndex` | the indices of both rings: arithmetic modulo the index range, slots, the limit test | by the rings, lemmas in `RingIndexProofs` |
| `BoundedFifo` | abstract: a FIFO of at most `Capacity` messages | refined by `PnrRingUni` |
| `PnrRingUni` | the unidirectional ring | `MCPnrRingUni`, proofs in `PnrRingUniProofs` |
| `RequestResponse` | abstract: at most `Capacity` requests, each answered once and in order | refined by `PnrRingBi` |
| `PnrRingBi` | the bidirectional ring | itself, proofs in `PnrRingBiProofs` |
| `Session` | session handles, API calls, message handlers, an S that follows `ree.h` | `MCSession`, proofs in `SessionProofs` |
| `Notify` | registers, interrupts, work item, handshake, signals, reset | `MCNotify`, proofs in `NotifyProofs` |
| `PncModule` | `Notify` inside the life of the module: `pnc_init`, its unwinding, `pnc_exit` | `MCPncModule`, proofs in `PncModuleProofs` |
| `ShmAlloc` | the allocator and its callers | `MCShmAlloc`, proofs in `ShmAllocProofs` |
| `ShdevMonitor` | the shared-device monitor: thread, work items, device operations, removal | itself, proofs in `ShdevMonitorProofs` |

The modules meet at their interfaces: `Session` uses the rings as the FIFOs
`PnrRingUni` is shown to implement; `Notify` refines what `Session` takes for
granted (a message that was committed will be handled) and abstracts what
`Session` models (opening and configuring is one step); `ShmAlloc` models the
allocation that in `Session` is the flag `mem`; `ShdevMonitor` is a client of the
session API and takes from it what such a client sees.

### PnrRingUni

One action per access to a shared index. A store goes into a one-place store
buffer (`pStore`, `cStore`) and reaches memory by a `Drain` step of its own;
`pnr_ring_store_load_fence` is the guard that the buffer is empty. So the
model has exactly the reordering the fence is there for: a load overtaking an
earlier store of the same side. Indices wrap at `IndexMod` (2^32 in the code).
The two users follow the discipline of the driver: told "empty", the consumer
commits and sleeps until notified; told "full", so does the producer. (The
driver's own producer does check out, session.c:182, but ignores the result and
never waits: it relies on a bound of five messages per session, see section 3.)

### PnrRingBi

The same memory and the same fences, with the two roles in one action each: the
generated functions of client and server differ in the client's consumer index,
kept one capacity ahead of the real one (`Lead`), and in what they believe of
the other's index (`Farthest`). Responses are written into the slots of their
requests, so one array holds, from the oldest slot on, responses not collected,
requests being served, requests not taken and requests not published; that
order is `IndicesInOrder`, and the three sequences that can be read off it are
the refinement mapping to `RequestResponse`. Both parties follow the loops of
the header's usage notes: receive until told "nothing", then wait for a
notification; produce at any time.

### Session

A critical section under a session's semaphore is one step. The accesses made
outside it are separate steps: the test of the state in
`check_session_configured`, the end of a wait, the unlocked test in
`check_and_handle_terminated_session`, the release of the slot under
`_sessions_mutex`, the unlocked test of `free` in `handle_s_message`. `pc[t]`
says where a thread is inside a call; `call[t]` which call it is. Request codes
stand for all payloads. `sem[s]` is false only when a call returned without
`up()`. `mine[t]` and `asked[s]` are history variables. Calls that need no
model of their own: `pnc_session_get_version`, `_get_mem` and
`_get_pending_events` change nothing, `pnc_session_request` is
`_send_request_and_wait_response`, and a call that finds a NULL buffer or the
framework disabled returns before it changes anything.

`SecureStep`, `SecureRespond`, `SecureStart` are **external**: S is not in the
repository, and is modelled as the peer that `ree.h` and the handlers expect: it
answers each request once, acknowledges configurations and terminations, and
either acknowledges a cancellation or lets the response it is already sending
be the answer. One departure: `wait_event` waits for all events (`Mask`), where
`pnc_session_wait_event` takes a mask from its caller (session.c:884,
1702-1717); no property depends on a partial mask.

### Notify

Every atomic access to a register is a step. `npc`/`nbit` is the common tail of
all notifying code (commit the ring, set a bit, ring the bell); `wpc` is the work
item; `irq` is the interrupt handler after its unlocked tests: about to enable the
framework under `_session_lock` (`"sync"`) or to schedule the work item (`"queue"`),
in both cases on what it read before, beside a work item or a removal on another
processor; `gone` follows the removal (`ExitFlush` is
`pnc_sessions_exit`, taken by `PncModule` only). The `Next` of `Notify` itself is
what happens while sessions last (nobody closes, nothing is reset); the closing,
resetting and removing steps are defined here and taken in `PncModule`, where
sessions come and go. Locals that are dead are put back to a fixed value. The secure side is
external and mirrors NS; at the handshake it re-initialises the registers and
the rings, as S "re-initialises its part of the SHM".

### PncModule

`life` and `at` say where `pnc_init` or `pnc_exit` is, `held` counts each resource
as the kernel would. A step of `pnc_init` succeeds (`Acquire`) or fails (`Fail`),
and the labels `err_4` to `err_0` are taken one by one; a failure that leaves `ret`
at 0 or above makes a module that is loaded and does not work (`dead`), whose
`pnc_exit` finds `_base` cleared. `Start` is the first action towards S. The
steps of `Notify` go on beside, those that close and reset included; only the
signals that users send and S fetches, which touch nothing but the registers
of S, are left to `NotifySignals`. This is the build without device tree. Departures:
the test of `_nr_pages` after the allocation cannot fail (an order of at least 8
is 256 pages, three are reserved) and is left out; a file is opened only once
`pnc_init` has returned; a module that has come up is not loaded a second time;
whether `_sync_work` has already ended is decided when `pnc_exit` waits for it;
the releases after `free_irq` are one step (`ExitRelease`); a work item queued after
the flush goes on as if its memory were still mapped.

### ShmAlloc

One iteration of the loop of `pnc_shm_alloc` is one step, so that the threads
of the callers, which test and set `session->mem` outside `_shm_sem`,
interleave with it. `Exclusive` says that each session is used by one thread at
a time; `Interrupts` that signals interrupt `down_interruptible`. Sizes are in
pages (0 is refused before rounding).

### ShdevMonitor

`mpc` is the thread of `shdev_thread` and `configure`, with a step wherever the
state of the session is looked at; `wpc[d]` the work item of a device: the copy of
the request, the handler, the answer in the slot, the signal. `xpc` is the removal
(`shdev_exit`). `queued` is the kernel's work queue: a work item is queued at
most once, may be queued while it runs, and never runs twice at a time.

The handlers of the devices change `device` (suspended or not) and, for the mmc
block, the rescan and the counter `power.disable_depth` of its controller (`rescan`,
`depth`), whatever the result of the suspend. The block device is searched until
it is found (`bdev`); whether the controller can be found is chosen at the start
(`host`), and without it `Manage` does nothing although the result may be 0. A
transfer has a `length`, which the code checks modulo 2^32 (`Fits`, `LengthMod`) and
then reads again, so that a SELECT or a new request may have changed it; it may move
any number of bytes, and a short one has that number as its result, stored modulo
2^16 in the slot (`ValueMod`). `partial` is a history variable: the transfer left out
bytes. `Remote` are the devices that have handlers for accesses; READ and WRITE
are one operation, TRANSFER.

`session` is the part of `Session` a client can see, and `pnc_session_close` is
one step here (its interleavings are the business of `Session`). The slots
outlive a session, and so do work items. `old` is chosen once: the version of S
does not change. The service `dev_monitor` of S is external; it asks for the
operations of one of `Uses` at any time, whether or not the last request was
answered (shdev.h:61). `asked` is a history variable: the devices for which it has
asked something in this session.

## 3. Runs

Passing runs:

| Run | Shows | Bounds |
|---|---|---|
| `Ring` | index order, no lost wake-up in either direction, refinement of `BoundedFifo`; a published message is consumed, a sleeping producer wakes | capacity 2, indices mod 4, 2 messages: full, empty and wrap-around all occur, and every distance an index can have from another |
| `RingBi` | order of all indices in one window, no lost wake-up in either direction, refinement of `RequestResponse`; every published request is answered and collected | capacity 2, indices mod 4, 2 requests, 1 response (responses are told from requests, which is what a slot mixed up would show) |
| `SessionProtocol` | every request is accounted for exactly once, in both directions; a response answers the request sent last; what is delivered is announced; every close ends | one slot, one thread, timeouts, requests and cancellations of both sides, refused configurations; ring of 8 messages |
| `SessionShared` | requests are neither lost nor duplicated by two threads on one handle | two threads sharing one slot |
| `SessionInterrupts` | what is announced in a configured session is there, although states and messages of earlier owners are cleared at different times | signals at every wait and lock, a ring of 2 so that messages are also dropped |
| `SessionTerm` | waits and configurations end when S terminates the session | one user, liveness |
| `ShmPartition` | partition, ownership, every walk gets to its end, no refusal while room is left | 3 pages after the reserved one, 3 sessions, 2 threads: all of skip, merge, shift, split and no-fit occur |
| `NotifySignals` | signals of both worlds are announced, with messages in between | 2 sessions, so that the round over the sessions wraps |
| `Lifecycle` | no resource is lost or released twice and what is in use is held, whatever fails; no session outlives a reset; what is pending is announced; signals wake users; E_RESET leads to an invalidation; a handshake and a removal end | 1 session, 1 signal bit (of S), a failure of any step of `pnc_init` any number of times, 1 reset at any moment, removal at any moment without open file |
| `ShdevMonitor` | a device at rest has done what was asked last and reports it truly; every signal is answered; a session ended by S is replaced | one device, which has all operations (devices share nothing but the session and its event), any number of sessions and requests; S uses suspend and resume, or select and transfer, or rpmb and unknown codes (`Uses`; the three groups share only the search for the block device, and all of them in one run are more than TLC can explore; the theorem is about any set); at most two suspends ahead of the resumes (`MaxDepth`); lengths that fit, that do not, and that fit only by their low bits; values modulo 2, so that a count can read as 0; a failure of each device operation and of each step of `configure`, removal at any moment |

Runs that exhibit a disagreement between code and documentation (each quoted
under "findings" in PROJECT.json):

| Run | Shows |
|---|---|
| `StaleHandle` | after a refused configuration (-EPIPE) the slot is free while the handle lives on; somebody else opens and configures it, and the close of the first user sends A_TERM for that session |
| `SemaphoreLeak` | a failing configuration by name keeps the semaphore and blocks the work item |

The passing runs are about the circumstances in which their properties hold.
Changing one CONSTANT of the `.cfg` leads out of them, and TLC then shows where
the code departs from its comments:

* `TerminatesOwnSession`, and `OnlyOwnSession` for all calls, need S not to end or
  refuse sessions (run `StaleHandle`; without refusals, terminations, signals and
  shared handles both are proved).
* An acknowledgement may answer the configuration of an earlier owner of the slot: a
  configuration given up on a signal or timeout sends no A_TERM (session.c:1236), and
  messages do not say which configuration they belong to.
* `NotifiedIsAnnounced` needs `Interrupts = FALSE`: `wait_session_event` clears
  the event (session.c:923), and a signal may end the call before it fetches the
  request the event stood for; the next wait then sleeps.
* Five messages per session and ring are not always enough
  (`SESSION_MAX_SIMULTANEOUS_MSG`): an abandoned configuration sends no A_TERM
  (session.c:1236), a close that times out does not wait for its answer, the slot is
  configured again, and the messages add up. `write_ns_message` then drops one.
* `ConfigEnds` needs a user that does not close (no "close" in `Calls`), for a
  close may time out: an A_TERM of S for the previous configuration then puts the
  next one to S_NULL without waking it (session.c:375), and as
  `CONFIG_PROVENCORE_REE_SERVICE_TIMEOUT` is 0 its owner waits for good.
* `WaitEnds` needs one thread per session: the first of two waiters clears the
  events set by `handle_s_term`, the second sleeps on.
* `OwnedIsAllocated` needs `Exclusive`: the test of `session->mem` (session.c:1126) is
  made without a lock. Two threads on one session may both pass it, and the second
  allocation replaces the first, although ree_session.h:59-64 says that the memory
  "cannot be freed or reallocated without closing the session". With one thread per
  session that promise is the test itself, so no property states it.
* That the flag `_session_ready` agrees with the header, as the comment of
  `invalidate_sessions` (session.c:188-197) has it, is not a property of the driver:
  the handler reads flag and magic outside `_session_lock` (session.c:596-600) and may
  set the flag after an invalidation on another processor, with the header still
  invalid. `Notify` takes these steps; `NoSessionAcrossReset` and `PendingIsAnnounced`
  hold all the same.
* `SignalReachesSecure` needs sessions that do not end: a signal set between the
  check and the end of the session survives in the register (session.c:1620), and
  the first signal of the slot's next session is not announced.
* Until `free_irq` what is in use is held (`InUseIsHeld`). After it, of the work item
  nothing is said: it is flushed
  (session.c:699) before the interrupt is released, although session.h:49 says
  "Supposed to be called whereas S-->NS irq is disabled", so that it may be
  queued again and still be queued when the memory is unmapped.
* A failed start-up may count as a success: `ret` is 0 for an order below 8 and for a
  failed `kmalloc` or `vmap` (main.c:751, 785, 794) and +ENOMEM from
  `pnc_smc_init` (smc.c:136). The module is then loaded and does nothing; its
  removal releases nothing twice (`NothingLeaks`).
* No block of the SHM is lost only if no signal interrupts `pnc_shm_free`: its
  result is ignored (session.c:1097), the pointer is cleared, and the block stays in
  use without an owner.
* `LastRequestIsDone` is about the last request of a device that has come to rest.
  What S reads for an earlier one may be the status of another: there is one slot per
  device and direction, where shdev.h:48 speaks of ring buffers and shdev.h:61 says
  that S "may not wait for operation's status before using shared device or sending
  new signal". A second request overwrites the first, a work item left from an
  earlier session may answer a request of the new one, and a status does not say
  which request it is for. A SELECT that is still running may overwrite the length of
  a TRANSFER asked for meanwhile.
* It leaves out lengths of 2^32 and above: the check takes the low 32 bits
  (mmcblk.c:431), the transfer all of them, and a short transfer of a multiple of
  65536 bytes then reads as 0, a success (mmcblk.c:465, shdev.c:136).
* It says nothing of power management after a RESUME, nor of a controller that is not
  found. `pm_runtime_disable` counts (mmcblk.c:153), a failed SUSPEND
  too: a failed SUSPEND, a SUSPEND and a RESUME leave it disabled. And with no
  controller (mmcblk.c:131, 160) nothing is switched, while the result is still 0.
* A removal of the shared-device module need not end: `shdev_exit` closes the
  session first (shdev.c:452), the monitor may open a new one before `kthread_stop`
  sets its flag, and then sleeps without timeout.
* With a version of S below 0x303 `configure` fails with the result 0
  (shdev.c:232), and the monitor loops on -EINVAL without pause until it is removed.

**Deadlock** is checked except where the system may really stop: after the
removal of the module (`Lifecycle`, `ShdevMonitor`), where two threads that wait on one session
without timeout have nothing left that could wake them (`SessionShared`), and
where a lost semaphore stops everything (`SemaphoreLeak`).

**Fairness.** *Ring*: a producer's operation that has begun ends, the consumer
runs (it is kernel code that never blocks inside the ring), stores become
visible; nobody has to produce or commit. *Bidirectional ring*: the same, and the
server, which must send one response per request, answers and publishes; the client need
not send. *Session*:
the work item runs when there is a message, S consumes and answers, a thread
inside a call runs unless it waits; an event ends a wait; of the timeouts only
`TERMINATION_TIMEOUT` is certain, as every other wait may be infinite
(`NO_TIMEOUT`). *PncModule*: a `pnc_init` or `pnc_exit` that has begun goes on,
interrupts are taken, queued work runs, the thread inside a call on a session
runs, S follows the protocol and rings its own bells: one condition for each of these
actors, so that none can starve another (nobody has to load, use or remove the module); strong
fairness of `WorkDrained` says that messages do not arrive faster than they are handled forever (the loop of the
work item has no bound of its own). *ShdevMonitor*: the thread and the work items
run, and S reads what it is signalled; S need not ask for anything or end a session,
and the removal need not begin or go on. `ShmAlloc` needs
no fairness: that the walk ends is stated by its steps (`WalkAdvances`).

## 4. Proofs

All theorems hold for every value of the constants allowed by the named
assumptions of the modules.

* `RingIndexProofs` (`IndexAssumption`: the capacity is positive, smaller than
  the index range, and divides it): distances on the circle of indices, slots of
  neighbouring indices, and the messages in a window when it grows at one end,
  shrinks at the other, or is written outside. Both rings rest on these lemmas.
* `PnrRingUniProofs`: `TypeCorrect`, `OrderTheorem`,
  `MessageWakeupTheorem`, `RoomWakeupTheorem`. The inductive invariant
  `RingInv` joins the type, the order of the six indices of `IndicesInOrder` on the circle
  (measured as distances from the published consumer index),
  `PublicationInv` (what a store buffer holds is what its owner published last)
  and two invariants that follow a request for a notification from the store of
  the limit to the answer (`ConsumerAskInv`, `ProducerAskInv`). The last two are
  needed because "no lost wake-up" says nothing of the steps before the side
  sleeps: the fence, the second look, and a commit of the other side that is
  between its store and its load. `FifoTheorem` is the refinement of `BoundedFifo`:
  `Produce` and `Consume` are its steps, every other step leaves the window of
  messages as it is.
* `PnrRingBiProofs`: `TypeCorrect`, `OrderTheorem`, `WakeupTheorem`, and
  `ExchangeTheorem`, the refinement of `RequestResponse`. The invariant has the same
  parts, once per party; the window of slots is divided in four by the real
  indices, and a step moves one boundary.
* `NotifyProofs` (`NotifyAssumption`): `NotifyInvariant`, `AnnouncedTheorem`,
  `ReachTheorem`, for any number of sessions and signal bits. `NotifyInv` is shown to be
  kept by `AnyStep`, every step of the two worlds, those that close and reset
  included, so that `PncModuleProofs` can use it. Its parts: what the actors have in
  hand (`WorkInv`); a register that is not empty has an interrupt coming
  (`RegisterInv`); a ring whose reader has not asked to be told has a reader coming
  (`RingInv`, the fact that makes coalescing sound); flag, header and handler
  (`ReadyInv`); who believes in a session, and the A_TERM that corrects him
  (`SessionInv`); and `SignalInv`, which adds to `SignalIsAnnounced` how far the round
  over the sessions has come: the cursor has not passed a session whose bit is in hand.
* `PncModuleProofs`: `PendingTheorem`, `AcrossResetTheorem`, `LeakTheorem`,
  `InUseTheorem`, without further hypothesis. `LifeInv` is `NotifyInv` together
  with `HeldInv` (what is held is exactly what the steps done so far acquired and
  the unwinding has not undone), `StartInv` (before the first action nothing moves, so
  that nobody uses what is not there yet) and `LeaveInv` (callers are gone before
  the removal begins, and its E_RESET stays). `InUseTheorem` speaks of the
  handler, the callers, the last E_RESET and, until `free_irq`, the work item; a
  work item queued between the flush and `free_irq` is not covered after that
  (section 3).
* `ShdevMonitorProofs`: `MonitorInvariant` and `LastRequestTheorem`, for any set of
  devices, operations and lengths, without hypothesis on S. `MonitorInv` adds to the
  type that S asks nothing of a monitor that is not ready (`ReadyInv`) and
  `Current`: unless a signal or a queued work item stands for the last
  request, it is the one at work or the one answered in the slot. That is needed
  because the property speaks only of devices at rest. `ShdevAssumption` has the one
  fact about sizes the proof uses: the buffer is no larger than 2^16 bytes, so that
  the count of a short transfer that passed the check is not 0 as a uint16_t.
* `ShmAllocProofs` (`ShmAssumption`): `TypeCorrect`; `PartitionTheorem`, for any
  interleaving and with signals, from `ShmInv` (type, partition, and "one thread
  walks and its block has not been freed"); `WalkTheorem` from the
  same invariant (each step of the loop goes up in the memory or shortens the
  list, so that it ends); `OwnershipTheorem` under `Exclusive`, from `OwnInv`, which adds what a
  thread inside a call knows of its session.
* `SessionProofs` (`SessionAssumption`), for any number of slots, threads and request
  codes. Without further hypothesis: `TypeCorrect`, from `CallInv` (the type, "a
  thread inside a call has a handle", and which messages each ring may hold).
  The others say what the code relies on:
  - `HasMessageTheorem` assumes `OwnHandles`, one user per handle. `FreeInv` (a slot
    is given back, and reopened, in the state S_NULL only) separates the
    messages, cleared by the open, from the states, reset by the next
    configuration. Signals, dropped messages, refusals and terminations are allowed.
  - `AnnouncedTheorem` also assumes no signals, no termination by S and
    `wait_event` not among the calls (the wait for all events clears the event of an
    answer it does not fetch). `UserInv` says what a thread at each step knows of its
    session, `AnnounceInv` which thread still fetches what a cleared event stood for.
  - `ClientTheorem`, `ServerTheorem`, `AnswerTheorem` assume one user per handle, no
    signals, no termination by S, and `NoneDropped` (there is room in the ring
    whenever NS writes, session.c:177). With signals or terminations TLC refutes the
    two agreements, with signals also `ResponseAnswersRequest`: a configuration that
    was given up leaves an acknowledgement behind that the next owner takes for its own. The
    invariant is `ExchangeInv`. The properties speak of sessions that both worlds hold
    configured; the invariant must also say what is in the rings before that. `ConfigOf`: a configuration under way is in exactly one
    place, NS says nothing more until it is answered, and a configured session has no
    A_TERM under way. `Synced`: from the moment S grants a configuration, and
    not counting what precedes the acknowledgement in the ring, the counts of `ClientOf`
    and `ServerOf` hold. `ClientOf` also orders cancellations: outside
    S_CANCEL_WAITING every request in the ring is behind every cancellation, and a
    cancellation under way finds nothing to cancel, so a late A_CANCEL
    never hits the next request. `AnswerOf` carries the code of the request. The
    proofs count messages (`Pending`) under `Append` and `Tail`; `ExchangeThread`,
    `ExchangeWorker` and `ExchangeSecure` have one lemma per operation or message.
  - `HandlesTheorem` discharges `OwnHandles` where handles are not shared, no
    signal arrives and S neither refuses nor ends a session, and
    `OwnSessionTheorem` gives `OnlyOwnSession` and `TerminatesOwnSession` there. `HoldInv`: whoever has a handle has
    a slot that is not free, and no refusal is under way. That the hypotheses are not
    idle is what the run `StaleHandle` shows.

  The strengthened invariants were checked by TLC first, on the instance of
  `SessionProtocol` (`HoldInv` with two threads and no refusals), where `NoneDropped` holds too: at most six messages are in a ring of
  eight. That is more than the five of `SESSION_MAX_SIMULTANEOUS_MSG`.

Only model-checked: all liveness properties and everything about `ENABLED`
(outside this prover's reach), `FailsOnlyWhenFull` (it needs induction over the
walk), and `ClientAgreement` for two threads on one handle (`SessionShared`): the
proofs about `Session` need to know that nobody else moves the session between two
steps of a call. `NoneDropped` is a hypothesis, not a theorem: a bound on the messages of a
session is still to be proved.

## 5. Not modelled

* `main.c`: mmap and the copies of arguments between user and kernel (no state of
  the driver changes); the build that takes its memory from the device tree.
* `smc.c`: the registers of a monitor call and the choice of the processor; the
  call is the interrupt it causes.
* The ring's range operations (`produce_n`, `peek`, `ranges`, ...), which the driver
  does not use; `peek` and `advance` are the two halves of the modelled operations.
* `mmcblk.c`: offsets, data and the contents of the rpmb commands; an access is its
  partition, its length and how far it gets.
* The composition of `Session` with the reset of `Notify` (a configuration that
  crosses a reset): each has already as many states as TLC can explore.
* Lengths of timeouts, payloads, byte sizes. The secure world is modelled only as
  the peer the driver expects.

## 6. Plan

1. Done: all components modelled; proofs about both rings and their
   refinements, the allocator, the notifications, the life of the module, the
   shared-device monitor and the sessions.
2. To prove: `NoneDropped` from a bound on the messages each session can have in
   the ring (six without signals) and `RingCapacity`; the agreement of client and
   server for a handle shared by several threads.

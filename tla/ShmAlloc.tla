----------------------------- MODULE ShmAlloc ------------------------------
(***************************************************************************)
(* The allocator of shared memory (shm.c) and its callers in session.c.    *)
(* The blocks form a linked list; pnc_shm_alloc walks it under _shm_sem,   *)
(* one iteration of its loop being one step.  Sessions keep a pointer to   *)
(* their block, which they set and clear outside that semaphore.           *)
(***************************************************************************)
EXTENDS Naturals

CONSTANTS
    Node,        \* addresses kmalloc can return for a pnc_shm_block_t
    Head,        \* the block pnc_shm_init creates; _blocks keeps pointing at it
    NULL,
    Reserved,    \* REE_RESERVED_PAGES
    Total,       \* _shm_nr_pages
    MaxRequest,  \* largest number of pages asked for
    Sessions, Threads,
    Exclusive,   \* a session is used by one thread at a time
    Interrupts   \* signals may interrupt down_interruptible

ASSUME ShmAssumption ==
    /\ Head \in Node /\ NULL \notin Node
    /\ Reserved \in Nat /\ Total \in Nat /\ Reserved < Total
    /\ MaxRequest \in Nat
    /\ Exclusive \in BOOLEAN /\ Interrupts \in BOOLEAN

VARIABLES
    live,                       \* blocks allocated by kmalloc and not freed
    offset, nr_pages, free, next,   \* their fields
    mem,                        \* per session: its block
    sSem,                       \* per session: the semaphore is available
    pc, sess, want, cur,        \* per thread: step, session, pages, block at hand
    locked,                     \* per thread: it holds its session's semaphore
    ret                         \* per thread: result of its last call

blockVars == <<live, offset, nr_pages, free, next>>
vars == <<blockVars, mem, sSem, pc, sess, want, cur, locked, ret>>

(* pnc_shm_init                                                            *)
Init ==
    /\ live = {Head}
    /\ offset = [b \in Node |-> Reserved]
    /\ nr_pages = [b \in Node |-> Total - Reserved]
    /\ free = [b \in Node |-> TRUE]
    /\ next = [b \in Node |-> NULL]
    /\ mem = [s \in Sessions |-> NULL]
    /\ sSem = [s \in Sessions |-> TRUE]
    /\ pc = [t \in Threads |-> "idle"]
    /\ sess \in [Threads -> Sessions]
    /\ want = [t \in Threads |-> 1]
    /\ cur = [t \in Threads |-> NULL]
    /\ locked = [t \in Threads |-> FALSE]
    /\ ret = [t \in Threads |-> "OK"]

(* _shm_sem is available: it is held only along the walk.                  *)
ShmSemFree == \A t \in Threads : pc[t] # "walk"

Available(s) == Exclusive => \A t \in Threads : sess[t] = s => pc[t] = "idle"

-----------------------------------------------------------------------------
(* pnc_session_alloc and pnc_shm_alloc *)

(* Mutant: the test for an empty request is missing.                       *)
PagesWithZero == 0 .. MaxRequest

(* Pages asked for: a size of 0 is refused, any other is rounded up.       *)
Pages == 1 .. MaxRequest

(* The test of session->mem, made without any lock.  A second allocation   *)
(* returns -EEXIST and changes nothing.                                    *)
AllocCall(t, s, n) ==
    /\ pc[t] = "idle" /\ Available(s)
    /\ mem[s] = NULL
    /\ pc' = [pc EXCEPT ![t] = "alloc"]
    /\ sess' = [sess EXCEPT ![t] = s]
    /\ want' = [want EXCEPT ![t] = n]
    /\ UNCHANGED <<blockVars, mem, sSem, cur, locked, ret>>

Stop(t, r) ==
    /\ pc' = [pc EXCEPT ![t] = "idle"]
    /\ ret' = [ret EXCEPT ![t] = r]
    /\ cur' = [cur EXCEPT ![t] = NULL]
    /\ UNCHANGED <<sSem, sess, want, locked>>

(* down_interruptible(&_shm_sem).                                          *)
AllocEnter(t) ==
    /\ pc[t] = "alloc"
    /\ \/ /\ ShmSemFree
          /\ pc' = [pc EXCEPT ![t] = "walk"]
          /\ cur' = [cur EXCEPT ![t] = Head]
          /\ UNCHANGED <<sSem, sess, want, locked, ret>>
       \/ Interrupts /\ Stop(t, "ERESTARTSYS")
    /\ UNCHANGED <<blockVars, mem>>

(* found: the block is taken and the caller's session->mem is set.         *)
Found(t, b) ==
    /\ free' = [free EXCEPT ![b] = FALSE]
    /\ mem' = [mem EXCEPT ![sess[t]] = b]
    /\ Stop(t, "OK")

(* The walk is at block b.                                                 *)
At(t, b) == pc[t] = "walk" /\ cur[t] = b /\ b # NULL

(* Mutant: the walk starts again at the end of the list.                   *)
MoveAround(t, b) ==
    /\ cur' = [cur EXCEPT ![t] = IF b = NULL THEN Head ELSE b]
    /\ UNCHANGED <<blockVars, mem, sSem, pc, sess, want, locked, ret>>

MoveTo(t, b) ==
    /\ cur' = [cur EXCEPT ![t] = b]
    /\ UNCHANGED <<blockVars, mem, sSem, pc, sess, want, locked, ret>>

(* Mutant: the block after one in use is passed over.                      *)
SkipTwo(t) ==
    \E b \in live : At(t, b) /\
        \/ ~free[b] /\ MoveTo(t, IF next[b] = NULL THEN NULL ELSE next[next[b]])
        \/ /\ free[b] /\ nr_pages[b] < want[t]
           /\ next[b] # NULL /\ ~free[next[b]]
           /\ MoveTo(t, next[next[b]])

(* The block is in use, or it is too small and the one after it is in use. *)
Skip(t) ==
    \E b \in live : At(t, b) /\
        \/ ~free[b] /\ MoveTo(t, next[b])
        \/ /\ free[b] /\ nr_pages[b] < want[t]
           /\ next[b] # NULL /\ ~free[next[b]]
           /\ MoveTo(t, next[next[b]])

(* Mutant: a block in use is absorbed as well.                             *)
MergeUnchecked(t) ==
    \E b \in live :
        /\ At(t, b) /\ free[b] /\ nr_pages[b] < want[t]
        /\ next[b] # NULL
        /\ nr_pages' = [nr_pages EXCEPT ![b] = @ + nr_pages[next[b]]]
        /\ next' = [next EXCEPT ![b] = next[next[b]]]
        /\ live' = live \ {next[b]}
        /\ UNCHANGED <<offset, free, mem, sSem, pc, sess, want, cur, locked, ret>>

(* Too small, and the next block is free: it is absorbed.                  *)
Merge(t) ==
    \E b \in live :
        /\ At(t, b) /\ free[b] /\ nr_pages[b] < want[t]
        /\ next[b] # NULL /\ free[next[b]]
        /\ nr_pages' = [nr_pages EXCEPT ![b] = @ + nr_pages[next[b]]]
        /\ next' = [next EXCEPT ![b] = next[next[b]]]
        /\ live' = live \ {next[b]}
        /\ UNCHANGED <<offset, free, mem, sSem, pc, sess, want, cur, locked, ret>>

TakeExact(t) ==
    \E b \in live :
        /\ At(t, b) /\ free[b] /\ nr_pages[b] = want[t]
        /\ Found(t, b)
        /\ UNCHANGED <<live, offset, nr_pages, next>>

(* Mutant: the block is cut before the rest is computed.                   *)
TakeShiftSwapped(t) ==
    \E b \in live :
        /\ At(t, b) /\ free[b] /\ nr_pages[b] > want[t]
        /\ next[b] # NULL /\ free[next[b]]
        /\ nr_pages' = [nr_pages EXCEPT ![b] = want[t]]
        /\ offset' = [offset EXCEPT ![next[b]] = offset[b] + want[t]]
        /\ Found(t, b)
        /\ UNCHANGED <<live, next>>

(* Too large, and the next block is free: the rest goes to it.             *)
TakeShift(t) ==
    \E b \in live :
        /\ At(t, b) /\ free[b] /\ nr_pages[b] > want[t]
        /\ next[b] # NULL /\ free[next[b]]
        /\ nr_pages' = [nr_pages EXCEPT ![next[b]] = @ + (nr_pages[b] - want[t]), ![b] = want[t]]
        /\ offset' = [offset EXCEPT ![next[b]] = offset[b] + want[t]]
        /\ Found(t, b)
        /\ UNCHANGED <<live, next>>

(* split, found: the new block n takes what b has too much.                *)
SplitInto(t, b, n) ==
    /\ live' = live \cup {n}
    /\ offset' = [offset EXCEPT ![n] = offset[b] + want[t]]
    /\ nr_pages' = [nr_pages EXCEPT ![n] = nr_pages[b] - want[t], ![b] = want[t]]
    /\ next' = [next EXCEPT ![n] = next[b], ![b] = n]
    /\ free' = [free EXCEPT ![n] = TRUE, ![b] = FALSE]
    /\ mem' = [mem EXCEPT ![sess[t]] = b]
    /\ Stop(t, "OK")

(* Too large, with no free neighbour: a new block takes the rest, unless   *)
(* kmalloc fails.                                                          *)
Split(t) ==
    \E b \in live :
        /\ At(t, b) /\ free[b] /\ nr_pages[b] > want[t]
        /\ next[b] # NULL => ~free[next[b]]
        /\ \/ \E n \in Node \ live : SplitInto(t, b, n)
           \/ Stop(t, "ENOKMEM") /\ UNCHANGED <<blockVars, mem>>

(* The end of the list without a fit.                                      *)
NoFit(t) ==
    /\ pc[t] = "walk"
    /\ \/ cur[t] = NULL
       \/ \E b \in live :
            At(t, b) /\ free[b] /\ nr_pages[b] < want[t] /\ next[b] = NULL
    /\ Stop(t, "ENOMEM")
    /\ UNCHANGED <<blockVars, mem>>

-----------------------------------------------------------------------------
(* pnc_session_close and check_and_handle_terminated_session: the block    *)
(* goes back, then the pointer is cleared, under the session's semaphore   *)
(* unless a signal kept the closing thread from getting it.                *)

FreeCall(t, s) ==
    /\ pc[t] = "idle" /\ Available(s)
    /\ \/ /\ sSem[s]
          /\ sSem' = [sSem EXCEPT ![s] = FALSE]
          /\ locked' = [locked EXCEPT ![t] = TRUE]
       \/ Interrupts /\ UNCHANGED <<sSem, locked>>
    /\ pc' = [pc EXCEPT ![t] = "free"]
    /\ sess' = [sess EXCEPT ![t] = s]
    /\ cur' = [cur EXCEPT ![t] = mem[s]]
    /\ UNCHANGED <<blockVars, mem, want, ret>>

(* pnc_shm_free; its result is ignored.                                    *)
FreeBlock(t) ==
    /\ pc[t] = "free"
    /\ \/ cur[t] = NULL /\ UNCHANGED free
       \/ /\ cur[t] # NULL /\ ShmSemFree
          /\ free' = [free EXCEPT ![cur[t]] = TRUE]
       \/ cur[t] # NULL /\ Interrupts /\ UNCHANGED free
    /\ pc' = [pc EXCEPT ![t] = "clear"]
    /\ UNCHANGED <<live, offset, nr_pages, next, mem, sSem, sess, want, cur, locked, ret>>

FreeClear(t) ==
    /\ pc[t] = "clear"
    /\ mem' = [mem EXCEPT ![sess[t]] = NULL]
    /\ sSem' = [sSem EXCEPT ![sess[t]] = @ \/ locked[t]]
    /\ locked' = [locked EXCEPT ![t] = FALSE]
    /\ pc' = [pc EXCEPT ![t] = "idle"]
    /\ cur' = [cur EXCEPT ![t] = NULL]
    /\ UNCHANGED <<blockVars, sess, want, ret>>

-----------------------------------------------------------------------------
Walk(t) == Skip(t) \/ Merge(t) \/ TakeExact(t) \/ TakeShift(t) \/ Split(t) \/ NoFit(t)

Next ==
    \E t \in Threads :
        \/ \E s \in Sessions : FreeCall(t, s) \/ \E n \in Pages : AllocCall(t, s, n)
        \/ AllocEnter(t) \/ Walk(t) \/ FreeBlock(t) \/ FreeClear(t)

Spec == Init /\ [][Next]_vars

-----------------------------------------------------------------------------
(* Properties *)

Results == {"OK", "ERESTARTSYS", "ENOMEM", "ENOKMEM"}
Pointer == Node \cup {NULL}

(* Every field keeps to its type.                                          *)
TypeOK ==
    /\ live \subseteq Node
    /\ offset \in [Node -> Nat] /\ nr_pages \in [Node -> Nat]
    /\ free \in [Node -> BOOLEAN] /\ next \in [Node -> Pointer]
    /\ mem \in [Sessions -> Pointer] /\ sSem \in [Sessions -> BOOLEAN]
    /\ pc \in [Threads -> {"idle", "alloc", "walk", "free", "clear"}]
    /\ sess \in [Threads -> Sessions] /\ want \in [Threads -> Nat \ {0}]
    /\ cur \in [Threads -> Pointer] /\ locked \in [Threads -> BOOLEAN]
    /\ ret \in [Threads -> Results]

End(b) == offset[b] + nr_pages[b]

(* Following next leads from the first page to the last without gap,       *)
(* overlap or freed block: "this list constitutes a partition of the total *)
(* shared memory area" (shm.c).                                            *)
Partition ==
    /\ Head \in live /\ offset[Head] = Reserved
    /\ \A b \in live :
         /\ Reserved <= offset[b] /\ nr_pages[b] > 0
         /\ next[b] = NULL => End(b) = Total
         /\ next[b] # NULL => next[b] \in live /\ offset[next[b]] = End(b)
    /\ \A a, b \in live : a # b => End(a) <= offset[b] \/ End(b) <= offset[a]

Releasing(s) == \E t \in Threads : sess[t] = s /\ pc[t] = "clear"

(* The block of a session was neither freed nor given to a second session. *)
OwnedIsAllocated ==
    /\ \A s \in Sessions :
         (mem[s] # NULL /\ ~Releasing(s)) => mem[s] \in live /\ ~free[mem[s]]
    /\ \A r, s \in Sessions :
         (r # s /\ mem[s] # NULL /\ ~Releasing(r) /\ ~Releasing(s)) => mem[r] # mem[s]

FreePage(p) == \E b \in live : free[b] /\ offset[b] <= p /\ p < End(b)

(* An allocation fails for want of pages only when no run of free pages is *)
(* long enough, however the free pages are cut into blocks.                *)
FailsOnlyWhenFull ==
    [][\A t \in Threads :
         (pc[t] = "walk" /\ pc'[t] = "idle" /\ ret'[t] = "ENOMEM")
           => ~\E p \in Reserved .. Total - 1 :
                 /\ p + want[t] <= Total
                 /\ \A q \in p .. p + want[t] - 1 : FreePage(q)]_vars

(* Every walk ends, whatever it merges on its way: a step of the thread in *)
(* the loop of pnc_shm_alloc either leaves the loop, or goes on to a block *)
(* with higher pages, or takes a block out of the list; and while it walks *)
(* no step of another thread touches the list.                             *)
WalkAdvances ==
    [][\A t \in Threads :
         (pc[t] = "walk" /\ cur[t] # NULL /\ pc'[t] = "walk") =>
           \/ cur'[t] = cur[t] /\ live' \subseteq live /\ (live' = live => UNCHANGED blockVars)
           \/ UNCHANGED blockVars /\ cur'[t] = NULL
           \/ UNCHANGED blockVars /\ cur'[t] \in live /\ offset[cur'[t]] > offset[cur[t]]]_vars
-----------------------------------------------------------------------------
(* The inductive strengthening: one thread walks at a time, and the block  *)
(* it is at has not been freed.                                            *)
WalkInv ==
    /\ \A t, u \in Threads : pc[t] = "walk" /\ pc[u] = "walk" => t = u
    /\ \A t \in Threads : pc[t] = "walk" /\ cur[t] # NULL => cur[t] \in live

(* What the use of a session by one thread at a time gives: the thread in  *)
(* an allocation found no block, the thread in a release knows the block.  *)
CallerInv ==
    /\ \A t, u \in Threads :
         pc[t] # "idle" /\ pc[u] # "idle" /\ sess[t] = sess[u] => t = u
    /\ \A t \in Threads :
         /\ pc[t] \in {"alloc", "walk"} => mem[sess[t]] = NULL
         /\ pc[t] = "free" => cur[t] = mem[sess[t]]
=============================================================================

----------------------------- MODULE MCShmAlloc -----------------------------
(* The allocator on a few pages.  Sessions, threads and the addresses that *)
(* kmalloc returns are interchangeable; the first block is not.            *)
EXTENDS ShmAlloc, TLC

Symmetry ==
    Permutations(Node \ {Head}) \cup Permutations(Sessions) \cup Permutations(Threads)
=============================================================================

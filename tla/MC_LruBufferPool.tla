-------------------------- MODULE MC_LruBufferPool --------------------------
(***************************************************************************)
(* TLC instance of the page cache.  Threads and frames are interchangeable.*)
(* Three bounds keep it small: clients that prefetch, and clients of the   *)
(* smaller pool, hold one reservation at a time; demand clients of the     *)
(* larger pool hold MaxHeld and ask for batches of MaxBatch; a client that *)
(* prefetches does not wait, as in submit_prefetch.                        *)
(***************************************************************************)
EXTENDS LruBufferPool, TLC

Symmetry == Permutations(Threads) \cup Permutations(Frames)

DemandOnly == /\ UnusedPages = {} /\ frames = Frames /\ credit
              /\ \A r \in held : r.access = "DEMAND"
              /\ \A t \in Threads : mode[t].access = "DEMAND"
Several == \E t \in Threads : Cardinality(HeldBy(t)) + Len(todo[t]) > 1
Bounded == /\ Several => DemandOnly
           /\ \A t \in Threads : mode[t].access # "DEMAND" => ~mode[t].wait
=============================================================================

------------------------------ MODULE TagStore ------------------------------
(***************************************************************************)
(* What an incremental index promises its callers, without locations, the  *)
(* graph or locks: a set of live tags in a bounded number of slots.  A     *)
(* deleted tag disappears at once, but its slot stays taken until a        *)
(* consolidation gives it back.                                            *)
(***************************************************************************)
EXTENDS Naturals, FiniteSets

CONSTANTS Tags,      \* the tags a caller may insert
          Capacity   \* the number of slots

VARIABLES live,      \* the tags a search or get_active_tags may return
          pending,   \* the number of slots whose tag was deleted and not yet reclaimed
          refuses    \* whether an insert of a new tag is turned away

storeVars == <<live, pending, refuses>>

StoreInit == live = {} /\ pending = 0 /\ ~refuses

\* Only live and deleted tags take slots: nothing else may keep a new tag out.
RefusesOnlyWhenFull == refuses => Cardinality(live) + pending >= Capacity

\* A tag that is not live enters, if a slot is free.
Add(tag) ==
    /\ tag \notin live
    /\ Cardinality(live) + pending < Capacity
    /\ live' = live \cup {tag}
    /\ UNCHANGED pending

\* Live tags leave; each keeps its slot.
Remove(S) ==
    /\ S # {} /\ S \subseteq live
    /\ live' = live \ S
    /\ pending' = pending + Cardinality(S)

\* Some of the slots of deleted tags become free.
Reclaim(n) ==
    /\ n <= pending
    /\ pending' = pending - n
    /\ UNCHANGED live

\* The store is replaced by a saved one, or by an empty one.
Restore(S) ==
    /\ live' = S
    /\ pending' = 0

StoreNext ==
    \/ \E tag \in Tags : Add(tag)
    \/ \E S \in SUBSET live : Remove(S)
    \/ \E n \in 1..Capacity : Reclaim(n)
    \/ \E S \in SUBSET Tags : Restore(S)

StoreStep == StoreNext /\ RefusesOnlyWhenFull'

StoreSpec == StoreInit /\ [][StoreStep]_storeVars
=============================================================================

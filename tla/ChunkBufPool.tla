---------------------------- MODULE ChunkBufPool ----------------------------
(***************************************************************************)
(* One level of chunk_buf_pool_t (src/src/chunk_buf_pool.cc) and the       *)
(* chunk_t control bodies (src/include/storage/chunk.h) its frames have.   *)
(* Levels share nothing, so a level is modelled alone; a chunk of another  *)
(* level or pool is `Foreign'.                                             *)
(***************************************************************************)
EXTENDS Integers, SequencesExt

CONSTANTS
  MaxCount,    \* bound: chunks reserved for the level
  MaxPins      \* bound: pins a client takes on one chunk

ASSUME PoolAssumption == MaxCount \in Nat /\ MaxPins \in Nat

VARIABLES
  count,       \* chunk_count_
  freeSlots,   \* free_slots_, a stack
  chunk        \* control body per level-local index

poolVars == <<count, freeSlots, chunk>>

Indexes == 0 .. MaxCount - 1
Slots == 0 .. count - 1

\* bind / reset_memory with the frame zeroed
Bound(i) == [no |-> i, state |-> "free", pins |-> 0, dirty |-> FALSE,
             referenced |-> FALSE, zeroed |-> TRUE]

ResetMemory_KeepsPins(c) ==
  [c EXCEPT !.dirty = FALSE, !.referenced = FALSE, !.zeroed = TRUE]

ResetMemory(c) ==
  [c EXCEPT !.pins = 0, !.dirty = FALSE, !.referenced = FALSE, !.zeroed = TRUE]

\* init(type, n): destroys what was there and pushes the slots high to low.
PoolFresh(n) ==
  /\ count' = n
  /\ freeSlots' = [k \in 1 .. n |-> n - k]
  /\ chunk' = [i \in 0 .. n - 1 |-> Bound(i)]

PoolInit ==
  /\ count = 0
  /\ freeSlots = <<>>
  /\ chunk = <<>>

InitLevel(n) == n \in 0 .. MaxCount /\ PoolFresh(n)

\* move_from: the source level is left empty; as the moved level keeps its
\* memory, only the emptied side changes state.
MovedFrom == PoolFresh(0)

AllocateFrame ==
  /\ freeSlots # <<>>
  /\ LET i == Last(freeSlots)
     IN  /\ freeSlots' = Front(freeSlots)
         /\ chunk' = [chunk EXCEPT ![i] =
              [ResetMemory(@) EXCEPT !.state = "resident", !.referenced = TRUE]]
  /\ UNCHANGED count

\* release_chunk: a free chunk is ignored; the slot is found by the number in
\* the chunk's id, and a chunk whose id names another slot throws.
ReleaseFrame(i) ==
  /\ i \in Slots
  /\ chunk[i].state = "resident"
  /\ chunk[i].no = i
  /\ chunk' = [chunk EXCEPT ![i] = [ResetMemory(@) EXCEPT !.state = "free"]]
  /\ freeSlots' = Append(freeSlots, i)
  /\ UNCHANGED count

\* set_chunk_id: the LRU cache renames a frame to the page it loads.
SetChunkId(i, no) ==
  /\ i \in Slots
  /\ chunk[i].state = "resident"
  /\ chunk' = [chunk EXCEPT ![i].no = no]
  /\ UNCHANGED <<count, freeSlots>>

\* The client fills the frame and marks it dirty.
Fill(i) ==
  /\ i \in Slots
  /\ chunk[i].state = "resident"
  /\ chunk' = [chunk EXCEPT ![i].zeroed = FALSE, ![i].dirty = TRUE]
  /\ UNCHANGED <<count, freeSlots>>

IncPinCount(i) ==
  /\ i \in Slots
  /\ chunk[i].state = "resident"
  /\ chunk[i].pins < MaxPins
  /\ chunk' = [chunk EXCEPT ![i].pins = @ + 1]
  /\ UNCHANGED <<count, freeSlots>>

DecPinCount(i) ==
  /\ i \in Slots
  /\ chunk[i].pins > 0
  /\ chunk' = [chunk EXCEPT ![i].pins = @ - 1]
  /\ UNCHANGED <<count, freeSlots>>

PoolNext ==
  \/ \E n \in 0 .. MaxCount : InitLevel(n)
  \/ MovedFrom
  \/ AllocateFrame
  \/ \E i \in Indexes :
       \/ ReleaseFrame(i) \/ Fill(i) \/ IncPinCount(i) \/ DecPinCount(i)
       \/ \E no \in Indexes : SetChunkId(i, no)

PoolSpec == PoolInit /\ [][PoolNext]_poolVars

-----------------------------------------------------------------------------
\* The control bodies of the level, and the stack of free slots.
Bodies == [no : Indexes, state : {"free", "resident"}, pins : 0 .. MaxPins,
           dirty : BOOLEAN, referenced : BOOLEAN, zeroed : BOOLEAN]
PoolTypeOK ==
  /\ count \in 0 .. MaxCount
  /\ freeSlots \in Seq(Slots)
  /\ chunk \in [Slots -> Bodies]

\* free_slots_ lists the chunks that are free, each once: no slot leaks and
\* none is handed out twice.
StackListsFree ==
  /\ \A i \in Slots : i \in Range(freeSlots) <=> chunk[i].state = "free"
  /\ IsInjective(freeSlots)

\* The chunk allocate_chunk would return next is unpinned, clean and zeroed,
\* also when its last user released it dirty or pinned.
NextChunkIsPristine ==
  \A i \in Range(freeSlots) :
    chunk[i].pins = 0 /\ ~chunk[i].dirty /\ chunk[i].zeroed
=============================================================================

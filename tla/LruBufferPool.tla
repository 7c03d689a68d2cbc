--------------------------- MODULE LruBufferPool ---------------------------
(***************************************************************************)
(* io_lru_buffer_pool_t: the page cache every query thread shares.  A page *)
(* is resident (mapped to a frame), loading (one thread owns the read), or *)
(* absent.  Every operation runs under mutex_; only reserve_many gives the *)
(* mutex up half way, when it sleeps on completion_ for a page that        *)
(* another thread is loading.                                              *)
(*                                                                         *)
(* The environment is the most general well-behaved client: any thread may *)
(* ask for any pages, publishes each load it owns once, with or without    *)
(* success, and releases each pin once and only after publication.         *)
(*                                                                         *)
(* Frames are interchangeable, so the stack free_frames_ is a set; a       *)
(* reservation value is the record the caller keeps, and pending is the    *)
(* set of LOADs whose owner has still to publish them.                     *)
(***************************************************************************)
EXTENDS Naturals, Sequences, FiniteSets

CONSTANTS Threads,     \* query threads
          Pages,       \* page ids, ordered as in the batch precondition
          Frames,      \* every frame object any pool of this run may own
          Capacities,  \* capacities the pool is built with or reset to
          AccessUsed,  \* access classes the clients ask with
          MaxHeld,     \* bound: reservations one thread keeps at a time
          MaxBatch,    \* bound: pages of one reserve_many call
          NoThread, NoFrame, NoPage

ASSUME PagesAssumption == Pages \subseteq Nat
ASSUME NoneAssumption == NoThread \notin Threads /\ NoFrame \notin Frames /\ NoPage \notin Pages
ASSUME BoundAssumption == MaxHeld \in Nat /\ MaxBatch \in Nat /\ Capacities \subseteq Nat
ASSUME AccessAssumption == AccessUsed \subseteq {"DEMAND", "PREFETCH", "GATEWAY_PREFETCH"}

VARIABLES
  frames,          \* frames_: the frames the pool owns now (capacity_pages_ of them)
  free,            \* free_frames_
  resident,        \* resident_[page].frame, NoFrame when the page has no entry
  unused,          \* resident_[page].prefetched_unused
  loading,         \* loading_[page], NoFrame when the page has no entry
  lru,             \* lru_, most recently used page first
  unusedCount,     \* prefetched_unused_count_
  credit,          \* prefetch_admission_credit_
  pin,             \* pin count of each frame
  chunkState,      \* chunk state of each frame
  content,         \* the page whose bytes a frame holds, NoPage if none does
  held,            \* reservations the threads have been given and not returned
  pending,         \* the LOADs among them that are not published yet
  mutex,           \* the thread inside a batch, between two of its pages
  status,          \* where each thread is in reserve_locked
  todo,            \* pages the thread's running call has still to reserve
  mode,            \* access class and wait_for_inflight of that call
  evictedSinceUse  \* history: demand pages replaced by PREFETCH since the last
                   \* demand hit on a prefetched page

poolVars == <<frames, free, resident, unused, loading, lru, unusedCount, credit,
              pin, chunkState, content>>
callVars == <<mutex, status, todo, mode>>
vars == <<poolVars, callVars, held, pending, evictedSinceUse>>

Access == {"DEMAND", "PREFETCH", "GATEWAY_PREFETCH"}
IsPrefetch(a) == a # "DEMAND"
Slots == 1..MaxHeld
Reservation == [owner : Threads, slot : Slots, page : Pages, frame : Frames,
                state : {"HIT", "LOAD"}, access : Access]
Mode == [access : Access, wait : BOOLEAN]
IdleMode == [access |-> "DEMAND", wait |-> TRUE]

ResidentPages == {p \in Pages : resident[p] # NoFrame}
UnusedPages == {p \in Pages : unused[p]}
InFlight == {p \in Pages : loading[p] # NoFrame}
HeldBy(t) == {r \in held : r.owner = t}
HoldersOf(f) == {r \in held : r.frame = f}
FreeSlots(t) == {s \in Slots : \A r \in HeldBy(t) : r.slot # s}
LowestSlot(t, s) == s \in FreeSlots(t) /\ \A u \in FreeSlots(t) : s <= u

(***************************************************************************)
(* The replacement order: erasing a position, splicing a page to the front.*)
(***************************************************************************)
DropAt(s, i) == [j \in 1..(Len(s) - 1) |-> IF j < i THEN s[j] ELSE s[j + 1]]
IndexOf(s, p) == CHOOSE i \in 1..Len(s) : s[i] = p
MoveToFront(s, p) == <<p>> \o DropAt(s, IndexOf(s, p))

(***************************************************************************)
(* The constructor: an empty pool of one of the configured capacities.     *)
(***************************************************************************)
Init ==
  /\ frames \in {F \in SUBSET Frames : Cardinality(F) \in Capacities}
  /\ free = frames
  /\ resident = [p \in Pages |-> NoFrame]
  /\ unused = [p \in Pages |-> FALSE]
  /\ loading = [p \in Pages |-> NoFrame]
  /\ lru = <<>>
  /\ unusedCount = 0
  /\ credit = TRUE
  /\ pin = [f \in Frames |-> 0]
  /\ chunkState = [f \in Frames |-> "free"]
  /\ content = [f \in Frames |-> NoPage]
  /\ held = {}
  /\ pending = {}
  /\ mutex = NoThread
  /\ status = [t \in Threads |-> "idle"]
  /\ todo = [t \in Threads |-> <<>>]
  /\ mode = [t \in Threads |-> IdleMode]
  /\ evictedSinceUse = 0

(***************************************************************************)
(* Entering reserve (one page, with or without waiting) or reserve_many (a *)
(* strictly increasing batch that always waits).  A span that is not       *)
(* strictly increasing is refused before the mutex is taken.               *)
(***************************************************************************)
StrictlyIncreasing(ps) == \A i \in 1..(Len(ps) - 1) : ps[i] < ps[i + 1]

BeginReserve(t, ps, m) ==
  /\ status[t] = "idle"
  /\ ps # <<>>
  /\ StrictlyIncreasing(ps)
  /\ Len(ps) > 1 => m.wait
  /\ Cardinality(HeldBy(t)) + Len(ps) <= MaxHeld
  /\ status' = [status EXCEPT ![t] = "calling"]
  /\ todo' = [todo EXCEPT ![t] = ps]
  /\ mode' = [mode EXCEPT ![t] = m]
  /\ UNCHANGED <<poolVars, mutex, held, pending, evictedSinceUse>>

(***************************************************************************)
(* One turn of reserve_locked for the first page still to reserve.  The    *)
(* thread holds the mutex from its first page to the last one, or until it *)
(* sleeps; Return is the end of a turn that produced a reservation.        *)
(***************************************************************************)
Ready(t) == status[t] \in {"calling", "notified"} /\ mutex \in {NoThread, t}

Return(t) ==
  LET rest == Tail(todo[t]) IN
  /\ todo' = [todo EXCEPT ![t] = rest]
  /\ status' = [status EXCEPT ![t] = IF rest = <<>> THEN "idle" ELSE "calling"]
  /\ mode' = [mode EXCEPT ![t] = IF rest = <<>> THEN IdleMode ELSE @]
  /\ mutex' = IF rest = <<>> THEN NoThread ELSE t

Give(t, p, f, st, a) ==
  \E s \in Slots :
    /\ LowestSlot(t, s)
    /\ LET r == [owner |-> t, slot |-> s, page |-> p, frame |-> f, state |-> st, access |-> a]
       IN  /\ held' = held \cup {r}
           /\ pending' = IF st = "LOAD" THEN pending \cup {r} ELSE pending

\* The hit branch of reserve_locked and of try_reserve_hit.
PinHit(t, p, a) ==
  LET used == a = "DEMAND" /\ unused[p] IN
  /\ resident[p] # NoFrame
  /\ Give(t, p, resident[p], "HIT", a)
  /\ pin' = [pin EXCEPT ![resident[p]] = @ + 1]
  /\ lru' = IF a = "DEMAND" THEN MoveToFront(lru, p) ELSE lru
  /\ unused' = [unused EXCEPT ![p] = @ /\ a # "DEMAND"]
  /\ unusedCount' = IF used THEN unusedCount - 1 ELSE unusedCount
  /\ credit' = (credit \/ used)
  /\ evictedSinceUse' = IF used THEN 0 ELSE evictedSinceUse
  /\ UNCHANGED <<frames, free, resident, loading, chunkState, content>>

ReserveHit(t) ==
  /\ Ready(t)
  /\ PinHit(t, Head(todo[t]), mode[t].access)
  /\ Return(t)

\* try_reserve_hit: a miss returns BYPASS and leaves no trace.
TryReserveHit(t, p) ==
  /\ status[t] = "idle" /\ mutex = NoThread
  /\ Cardinality(HeldBy(t)) < MaxHeld
  /\ PinHit(t, p, "DEMAND")
  /\ UNCHANGED callVars

\* The page is being loaded and the caller waits: completion_.wait gives the
\* mutex up.  A notified thread whose page is loading again sleeps again.
ReserveWait(t) ==
  /\ Ready(t)
  /\ resident[Head(todo[t])] = NoFrame
  /\ loading[Head(todo[t])] # NoFrame
  /\ mode[t].wait
  /\ status' = [status EXCEPT ![t] = "waiting"]
  /\ mutex' = NoThread
  /\ UNCHANGED <<poolVars, todo, mode, held, pending, evictedSinceUse>>

\* The page is being loaded and the caller does not wait: a coalesced BYPASS.
ReserveCoalesced(t) ==
  /\ Ready(t)
  /\ resident[Head(todo[t])] = NoFrame
  /\ loading[Head(todo[t])] # NoFrame
  /\ ~mode[t].wait
  /\ Return(t)
  /\ UNCHANGED <<poolVars, held, pending, evictedSinceUse>>

Missing(p) == resident[p] = NoFrame /\ loading[p] = NoFrame

\* The frame becomes the exclusive target of the caller's read.
BeginLoad(t, p, f, a) ==
  /\ Give(t, p, f, "LOAD", a)
  /\ pin' = [pin EXCEPT ![f] = @ + 1]
  /\ chunkState' = [chunkState EXCEPT ![f] = "free"]
  /\ content' = [content EXCEPT ![f] = NoPage]
  /\ loading' = [loading EXCEPT ![p] = f]

\* Mutant: the frame is read off free_frames_ and not popped.
ReserveFree_NoPop(t) ==
  LET p == Head(todo[t]) IN
  /\ Ready(t) /\ Missing(p)
  /\ \E f \in free : BeginLoad(t, p, f, mode[t].access)
  /\ Return(t)
  /\ UNCHANGED <<frames, free, resident, unused, lru, unusedCount, credit, evictedSinceUse>>

ReserveFree(t) ==
  LET p == Head(todo[t]) IN
  /\ Ready(t) /\ Missing(p)
  /\ \E f \in free :
       /\ free' = free \ {f}
       /\ BeginLoad(t, p, f, mode[t].access)
  /\ Return(t)
  /\ UNCHANGED <<frames, resident, unused, lru, unusedCount, credit, evictedSinceUse>>

(***************************************************************************)
(* select_victim scans lru_ from its tail for an unpinned page, among the  *)
(* never used prefetched pages only when asked to.  A prefetch first       *)
(* recycles such a page; it may replace a demand page if it is a gateway   *)
(* prefetch or if the admission credit is there, which PREFETCH spends.    *)
(***************************************************************************)
\* Mutant: the pin count of a victim is not looked at.
Victims_IgnoresPins(requireUnused) == {i \in 1..Len(lru) : requireUnused => unused[lru[i]]}

Victims(requireUnused) ==
  {i \in 1..Len(lru) : pin[resident[lru[i]]] = 0 /\ (requireUnused => unused[lru[i]])}

RecyclesPrefetch(a) == IsPrefetch(a) /\ unusedCount # 0 /\ Victims(TRUE) # {}
\* Mutant: an ordinary prefetch needs no admission credit.
MayEvict_WithoutCredit(a) == TRUE

MayEvict(a) == a \in {"DEMAND", "GATEWAY_PREFETCH"} \/ credit

VictimsFor(a) ==
  IF RecyclesPrefetch(a) THEN Victims(TRUE)
  ELSE IF MayEvict(a) THEN Victims(FALSE) ELSE {}

ReserveEvict(t) ==
  LET p == Head(todo[t])
      a == mode[t].access
      spends == a = "PREFETCH" /\ ~RecyclesPrefetch(a) IN
  /\ Ready(t) /\ Missing(p)
  /\ free = {}
  /\ \E i \in VictimsFor(a) :
       /\ \A j \in VictimsFor(a) : j <= i
       /\ BeginLoad(t, p, resident[lru[i]], a)
       /\ lru' = DropAt(lru, i)
       /\ resident' = [resident EXCEPT ![lru[i]] = NoFrame]
       /\ unused' = [unused EXCEPT ![lru[i]] = FALSE]
       /\ unusedCount' = IF unused[lru[i]] THEN unusedCount - 1 ELSE unusedCount
  /\ credit' = (credit /\ ~spends)
  /\ evictedSinceUse' = IF spends THEN evictedSinceUse + 1 ELSE evictedSinceUse
  /\ Return(t)
  /\ UNCHANGED <<frames, free>>

\* No frame: a BYPASS.  A pool of capacity 0 returns here for every miss.
ReserveBypass(t) ==
  /\ Ready(t) /\ Missing(Head(todo[t]))
  /\ free = {}
  /\ VictimsFor(mode[t].access) = {}
  /\ Return(t)
  /\ UNCHANGED <<poolVars, held, pending, evictedSinceUse>>

(***************************************************************************)
(* publish and publish_many on a span of the caller's in-flight loads.  A  *)
(* successful demand load enters at the front, a prefetched one at the     *)
(* tail; a failed load gives its frame and its pin back.  Either way every *)
(* sleeper is woken.  The spans of the callers have one access class.      *)
(***************************************************************************)
Entries(q) == {q[i] : i \in DOMAIN q}
PagesOf(q) == {q[i].page : i \in DOMAIN q}
FramesOf(q) == {q[i].frame : i \in DOMAIN q}
IsSpan(q, t, a) ==
  /\ \A i \in DOMAIN q : q[i] \in pending /\ q[i].owner = t /\ q[i].access = a
  /\ \A i, j \in DOMAIN q : q[i] = q[j] => i = j

\* Mutant: publication does not wake the sleepers.
NotifyAll_Dropped == UNCHANGED status

NotifyAll == status' = [t \in Threads |-> IF status[t] = "waiting" THEN "notified" ELSE status[t]]

MayCall(t) == status[t] = "idle" /\ mutex = NoThread

PublishLoaded(t, q, a) ==
  /\ MayCall(t)
  /\ IsSpan(q, t, a)
  /\ resident' = [p \in Pages |-> IF p \in PagesOf(q) THEN loading[p] ELSE resident[p]]
  /\ loading' = [p \in Pages |-> IF p \in PagesOf(q) THEN NoFrame ELSE loading[p]]
  /\ chunkState' = [f \in Frames |-> IF f \in FramesOf(q) THEN "resident" ELSE chunkState[f]]
  /\ content' = [f \in Frames |->
                   IF f \in FramesOf(q) THEN q[CHOOSE i \in DOMAIN q : q[i].frame = f].page
                   ELSE content[f]]
  /\ lru' = IF IsPrefetch(a) THEN lru \o [i \in 1..Len(q) |-> q[i].page]
            ELSE [i \in 1..Len(q) |-> q[Len(q) + 1 - i].page] \o lru
  /\ unused' = [p \in Pages |-> IF p \in PagesOf(q) THEN IsPrefetch(a) ELSE unused[p]]
  /\ unusedCount' = IF IsPrefetch(a) THEN unusedCount + Len(q) ELSE unusedCount
  /\ pending' = pending \ Entries(q)
  /\ NotifyAll
  /\ UNCHANGED <<frames, free, credit, pin, held, mutex, todo, mode, evictedSinceUse>>

PublishFailed(t, q, a) ==
  /\ MayCall(t)
  /\ IsSpan(q, t, a)
  /\ loading' = [p \in Pages |-> IF p \in PagesOf(q) THEN NoFrame ELSE loading[p]]
  /\ chunkState' = [f \in Frames |-> IF f \in FramesOf(q) THEN "free" ELSE chunkState[f]]
  /\ pin' = [f \in Frames |-> IF f \in FramesOf(q) THEN pin[f] - 1 ELSE pin[f]]
  /\ free' = free \cup FramesOf(q)
  /\ held' = held \ Entries(q)
  /\ pending' = pending \ Entries(q)
  /\ NotifyAll
  /\ UNCHANGED <<frames, resident, unused, lru, unusedCount, credit, content, mutex, todo,
                 mode, evictedSinceUse>>

\* Mutants: a pin given back once per frame of the batch, or the whole batch
\* given back on every frame.
PinsAfter_OncePerFrame(R) ==
  [f \in Frames |-> IF \E r \in R : r.frame = f THEN pin[f] - 1 ELSE pin[f]]

PinsAfter(R) == [f \in Frames |-> pin[f] - Cardinality({r \in R : r.frame = f})]

\* release and release_many on reservations whose page is resident.
Release(t, R) ==
  /\ MayCall(t)
  /\ \A r \in R : r.owner = t /\ r \notin pending
  /\ held' = held \ R
  /\ pin' = PinsAfter(R)
  /\ UNCHANGED <<frames, free, resident, unused, loading, lru, unusedCount, credit, chunkState,
                 content, callVars, pending, evictedSinceUse>>

(***************************************************************************)
(* clear and reset_capacity refuse to run while a load is in flight or a   *)
(* resident page is pinned; reset_capacity installs new frames.  A clear   *)
(* that meets a pinned page has already marked the frames it visited       *)
(* before it, in the order of an unordered_map, as free.                   *)
(***************************************************************************)
PinnedPages == {p \in ResidentPages : pin[resident[p]] # 0}

Empty(F) ==
  /\ frames' = F
  /\ free' = F
  /\ resident' = [p \in Pages |-> NoFrame]
  /\ unused' = [p \in Pages |-> FALSE]
  /\ lru' = <<>>
  /\ unusedCount' = 0
  /\ credit' = TRUE
  /\ evictedSinceUse' = 0
  /\ UNCHANGED <<loading, callVars, held, pending>>

Clear ==
  /\ mutex = NoThread /\ InFlight = {} /\ PinnedPages = {}
  /\ Empty(frames)
  /\ chunkState' = [f \in Frames |-> IF \E p \in ResidentPages : resident[p] = f
                                     THEN "free" ELSE chunkState[f]]
  /\ UNCHANGED <<pin, content>>

ClearThrows(visited) ==
  /\ mutex = NoThread /\ InFlight = {} /\ PinnedPages # {}
  /\ visited \subseteq ResidentPages \ PinnedPages
  /\ chunkState' = [f \in Frames |-> IF \E p \in visited : resident[p] = f
                                     THEN "free" ELSE chunkState[f]]
  /\ UNCHANGED <<frames, free, resident, unused, loading, lru, unusedCount, credit, pin,
                 content, callVars, held, pending, evictedSinceUse>>

ResetCapacity(F) ==
  /\ Cardinality(F) \in Capacities \ {0}
  /\ mutex = NoThread /\ InFlight = {} /\ PinnedPages = {}
  /\ Empty(F)
  /\ pin' = [f \in Frames |-> 0]
  /\ chunkState' = [f \in Frames |-> "free"]
  /\ content' = [f \in Frames |-> NoPage]

-----------------------------------------------------------------------------
Batches == UNION {[1..n -> Pages] : n \in 1..MaxBatch}
Spans == UNION {[1..n -> pending] : n \in 0..MaxHeld}

ReserveStep(t) ==
  \/ ReserveHit(t) \/ ReserveWait(t) \/ ReserveCoalesced(t)
  \/ ReserveFree(t) \/ ReserveEvict(t) \/ ReserveBypass(t)

Publish(t) == \E q \in Spans, a \in Access : PublishLoaded(t, q, a) \/ PublishFailed(t, q, a)

ThreadStep(t) ==
  \/ \E ps \in Batches, a \in AccessUsed, w \in BOOLEAN :
       BeginReserve(t, ps, [access |-> a, wait |-> w])
  \/ ReserveStep(t)
  \/ \E p \in Pages : "DEMAND" \in AccessUsed /\ TryReserveHit(t, p)
  \/ Publish(t)
  \/ \E R \in SUBSET held : Release(t, R)

DriverStep ==
  \/ Clear
  \/ \E visited \in SUBSET Pages : ClearThrows(visited)
  \/ \E F \in SUBSET Frames : ResetCapacity(F)

Next == DriverStep \/ \E t \in Threads : ThreadStep(t)

Spec == Init /\ [][Next]_vars

-----------------------------------------------------------------------------
(***************************************************************************)
(* What makes the pool correct.                                            *)
(***************************************************************************)
\* Every variable has its type: the tables map pages to frames, the unused
\* count never wraps below zero, and status is one of the four places a thread
\* can be in reserve_locked.
TypeOK ==
  /\ frames \subseteq Frames /\ free \subseteq frames
  /\ resident \in [Pages -> Frames \cup {NoFrame}]
  /\ unused \in [Pages -> BOOLEAN]
  /\ loading \in [Pages -> Frames \cup {NoFrame}]
  /\ lru \in Seq(Pages)
  /\ unusedCount \in Nat
  /\ credit \in BOOLEAN
  /\ pin \in [Frames -> Nat]
  /\ chunkState \in [Frames -> {"free", "resident"}]
  /\ content \in [Frames -> Pages \cup {NoPage}]
  /\ held \subseteq Reservation
  /\ pending \subseteq held
  /\ mutex \in Threads \cup {NoThread}
  /\ status \in [Threads -> {"idle", "calling", "waiting", "notified"}]
  /\ todo \in [Threads -> Seq(Pages)]
  /\ mode \in [Threads -> Mode]
  /\ evictedSinceUse \in Nat

\* Frame ownership: at every moment each frame of the pool is exactly one of
\* free, the target of one load, or the copy of one resident page, whatever
\* order reservations, evictions and roll-backs came in.
FramesHaveOneUse ==
  /\ \A p \in Pages : resident[p] = NoFrame \/ loading[p] = NoFrame
  /\ \A p, o \in Pages :
       p # o => /\ resident[p] = NoFrame \/ resident[p] # resident[o]
                /\ loading[p] = NoFrame \/ loading[p] # loading[o]
                /\ resident[p] = NoFrame \/ resident[p] # loading[o]
  /\ frames = free \cup {resident[p] : p \in ResidentPages} \cup {loading[p] : p \in InFlight}
  /\ \A p \in Pages : resident[p] \notin free /\ loading[p] \notin free

\* Pin counts: a frame is pinned exactly as often as reservations on it are
\* outstanding, so no release can underflow and no pin is lost by an eviction,
\* a failed load, clear or reset_capacity.
PinsMatchHolders == \A f \in Frames : pin[f] = Cardinality(HoldersOf(f))

\* Pinned-frame safety: from the moment a caller is given a resident page (or
\* has published its own load) until it releases it, the page stays mapped to
\* the same frame and that frame keeps the bytes of that page.
ReservedPageStays ==
  \A r \in held \ pending : resident[r.page] = r.frame /\ content[r.frame] = r.page

\* Miss coalescing: every page in flight has exactly one owner that can publish
\* it, and every unpublished load is in flight on the frame its owner was given,
\* so publication never finds a mismatch.
OneLoaderPerPage ==
  /\ \A r \in pending : loading[r.page] = r.frame
  /\ \A p \in InFlight : \E r \in pending : r.page = p
  /\ \A r, x \in pending : r.page = x.page => r = x

\* The replacement list names each resident page once and nothing else, and the
\* unused-prefetch counter is the number of prefetched pages no demand access
\* has used, so neither underflow check can fire.
LruMatchesResidents ==
  /\ {lru[i] : i \in DOMAIN lru} = ResidentPages
  /\ \A i, j \in DOMAIN lru : lru[i] = lru[j] => i = j
  /\ UnusedPages \subseteq ResidentPages
  /\ unusedCount = Cardinality(UnusedPages)

\* No lost wake-up: a thread asleep on completion_ sleeps for a page that is
\* still in flight, so the publication that ends the load will wake it.
SleepersHaveLoads == \A t \in Threads : status[t] = "waiting" => loading[Head(todo[t])] # NoFrame

\* Admission credit: between two demand hits on prefetched pages, ordinary
\* prefetching replaces at most one demand page, however many threads prefetch.
PrefetchEvictionBounded == evictedSinceUse <= 1

-----------------------------------------------------------------------------
(***************************************************************************)
(* The inductive invariant: the properties above, with what they need to   *)
(* carry over a step.  A resident page's frame holds its bytes before any  *)
(* caller asks for it, a thread inside a call has a page left to reserve,  *)
(* and the credit is gone exactly when the one eviction has been spent.    *)
(***************************************************************************)
FiniteBooks == IsFiniteSet(held) /\ IsFiniteSet(UnusedPages)
ResidentBytes == \A p \in ResidentPages : content[resident[p]] = p
CallsHavePages == \A t \in Threads : status[t] # "idle" => todo[t] # <<>>
CreditSpent == evictedSinceUse <= 1 /\ (credit => evictedSinceUse = 0)

IInv ==
  /\ TypeOK
  /\ FiniteBooks
  /\ FramesHaveOneUse
  /\ PinsMatchHolders
  /\ ReservedPageStays
  /\ ResidentBytes
  /\ OneLoaderPerPage
  /\ LruMatchesResidents
  /\ CallsHavePages
  /\ SleepersHaveLoads
  /\ CreditSpent
=============================================================================

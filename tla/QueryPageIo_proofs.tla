-------------------------- MODULE QueryPageIo_proofs --------------------------
(***************************************************************************)
(* Proofs about the page cache and the queries over it, for any number of  *)
(* threads, pages and frames, any batch size and every configuration of the *)
(* search.                                                                 *)
(***************************************************************************)
EXTENDS QueryPageIo, SharedLemmas

(***************************************************************************)
(* The page cache.  IInv is inductive; the properties of the pool follow   *)
(* from it.                                                                *)
(***************************************************************************)

-----------------------------------------------------------------------------
(***************************************************************************)
(* Lists without repetition.                                               *)
(***************************************************************************)
RangeOf(s) == {s[i] : i \in DOMAIN s}
NoRepeat(s) == \A i, j \in DOMAIN s : s[i] = s[j] => i = j

\* Erasing one position of a list without repetition erases exactly that page.
LEMMA DropAtLemma ==
  ASSUME NEW s \in Seq(Pages), NEW i \in 1..Len(s), NoRepeat(s)
  PROVE  /\ DropAt(s, i) \in Seq(Pages)
         /\ NoRepeat(DropAt(s, i))
         /\ RangeOf(DropAt(s, i)) = RangeOf(s) \ {s[i]}
<1> DEFINE d == DropAt(s, i)
<1>1. /\ Len(s) \in Nat /\ DOMAIN s = 1..Len(s)
      /\ DOMAIN d = 1..(Len(s) - 1)
      /\ \A j \in 1..(Len(s) - 1) : d[j] = IF j < i THEN s[j] ELSE s[j + 1]
  BY DEF DropAt
<1>2. d \in Seq(Pages)
  <2>1. \A j \in 1..(Len(s) - 1) : d[j] \in Pages
    BY <1>1
  <2> QED
    BY <1>1, <2>1 DEF DropAt
<1>3. NoRepeat(d)
  <2> DEFINE pos(j) == IF j < i THEN j ELSE j + 1
  <2>1. \A j \in DOMAIN d : pos(j) \in DOMAIN s /\ d[j] = s[pos(j)]
    BY <1>1
  <2>2. \A j, k \in DOMAIN d : pos(j) = pos(k) => j = k
    BY <1>1
  <2> HIDE DEF pos
  <2> QED
    BY <2>1, <2>2 DEF NoRepeat
<1>4. RangeOf(d) \subseteq RangeOf(s) \ {s[i]}
  BY <1>1 DEF NoRepeat, RangeOf
<1>5. ASSUME NEW p \in RangeOf(s) \ {s[i]}
      PROVE  p \in RangeOf(d)
  <2>1. PICK k \in 1..Len(s) : p = s[k]
    BY <1>1 DEF RangeOf
  <2>2. CASE k < i
    BY <1>1, <2>1, <2>2 DEF RangeOf
  <2>3. CASE k > i
    <3>1. k - 1 \in 1..(Len(s) - 1) /\ d[k - 1] = s[k]
      BY <1>1, <2>3
    <3> QED
      BY <1>1, <2>1, <3>1 DEF RangeOf
  <2> QED
    BY <1>1, <2>1, <2>2, <2>3
<1> QED
  BY <1>2, <1>3, <1>4, <1>5

\* Joining two lists without repetition and without a common page.
LEMMA ConcatLemma ==
  ASSUME NEW s \in Seq(Pages), NEW u \in Seq(Pages), NoRepeat(s), NoRepeat(u),
         RangeOf(s) \cap RangeOf(u) = {}
  PROVE  /\ s \o u \in Seq(Pages)
         /\ NoRepeat(s \o u)
         /\ RangeOf(s \o u) = RangeOf(s) \cup RangeOf(u)
<1> DEFINE c == s \o u
<1>1. /\ c \in Seq(Pages) /\ Len(c) = Len(s) + Len(u)
      /\ Len(s) \in Nat /\ Len(u) \in Nat
      /\ DOMAIN s = 1..Len(s) /\ DOMAIN u = 1..Len(u) /\ DOMAIN c = 1..(Len(s) + Len(u))
      /\ \A j \in 1..Len(s) : c[j] = s[j]
      /\ \A j \in (Len(s) + 1)..(Len(s) + Len(u)) : c[j] = u[j - Len(s)]
  OBVIOUS
<1>2. \A j \in DOMAIN c : (j <= Len(s) /\ c[j] \in RangeOf(s)) \/ (j > Len(s) /\ c[j] \in RangeOf(u))
  BY <1>1 DEF RangeOf
<1>3. NoRepeat(c)
  <2> SUFFICES ASSUME NEW i \in DOMAIN c, NEW j \in DOMAIN c, c[i] = c[j]
               PROVE  i = j
    BY DEF NoRepeat
  <2>1. CASE i <= Len(s) /\ j <= Len(s)
    BY <1>1, <2>1 DEF NoRepeat
  <2>2. CASE i > Len(s) /\ j > Len(s)
    <3>1. i - Len(s) \in DOMAIN u /\ j - Len(s) \in DOMAIN u
      BY <1>1, <2>2
    <3>2. u[i - Len(s)] = u[j - Len(s)]
      BY <1>1, <2>2
    <3>3. i - Len(s) = j - Len(s)
      BY <3>1, <3>2 DEF NoRepeat
    <3> QED
      BY <1>1, <2>2, <3>3
  <2> QED
    BY <1>1, <1>2, <2>1, <2>2
<1>4. RangeOf(c) \subseteq RangeOf(s) \cup RangeOf(u)
  BY <1>1, <1>2 DEF RangeOf
<1>5. RangeOf(s) \subseteq RangeOf(c)
  BY <1>1 DEF RangeOf
<1>6. ASSUME NEW p \in RangeOf(u)
      PROVE  p \in RangeOf(c)
  <2>1. PICK k \in 1..Len(u) : p = u[k]
    BY <1>1 DEF RangeOf
  <2>2. k + Len(s) \in DOMAIN c /\ c[k + Len(s)] = u[k]
    BY <1>1
  <2> QED
    BY <2>1, <2>2 DEF RangeOf
<1> QED
  BY <1>1, <1>3, <1>4, <1>5, <1>6

\* Splicing a listed page to the front keeps the same pages, each once.
LEMMA MoveToFrontLemma ==
  ASSUME NEW s \in Seq(Pages), NEW p \in RangeOf(s), NoRepeat(s)
  PROVE  /\ MoveToFront(s, p) \in Seq(Pages)
         /\ NoRepeat(MoveToFront(s, p))
         /\ RangeOf(MoveToFront(s, p)) = RangeOf(s)
<1> DEFINE i == IndexOf(s, p)
<1>1. i \in 1..Len(s) /\ s[i] = p
  BY DEF IndexOf, RangeOf
<1>2. p \in Pages
  BY <1>1
<1>3. <<p>> \in Seq(Pages) /\ NoRepeat(<<p>>) /\ RangeOf(<<p>>) = {p}
  BY <1>2 DEF NoRepeat, RangeOf
<1> HIDE DEF i
<1>4. /\ DropAt(s, i) \in Seq(Pages) /\ NoRepeat(DropAt(s, i))
      /\ RangeOf(DropAt(s, i)) = RangeOf(s) \ {p}
  BY <1>1, DropAtLemma
<1>5. RangeOf(<<p>>) \cap RangeOf(DropAt(s, i)) = {}
  BY <1>3, <1>4
<1>6. /\ <<p>> \o DropAt(s, i) \in Seq(Pages) /\ NoRepeat(<<p>> \o DropAt(s, i))
      /\ RangeOf(<<p>> \o DropAt(s, i)) = RangeOf(<<p>>) \cup RangeOf(DropAt(s, i))
  BY <1>3, <1>4, <1>5, ConcatLemma
<1>7. MoveToFront(s, p) = <<p>> \o DropAt(s, i)
  BY DEF MoveToFront, i
<1> QED
  BY <1>3, <1>4, <1>6, <1>7

-----------------------------------------------------------------------------
(***************************************************************************)
(* The two halves of the invariant: the pool's own books, and where the    *)
(* threads are in their calls.                                             *)
(***************************************************************************)
BookType ==
  /\ frames \subseteq Frames /\ free \subseteq frames
  /\ resident \in [Pages -> Frames \cup {NoFrame}]
  /\ unused \in [Pages -> BOOLEAN]
  /\ loading \in [Pages -> Frames \cup {NoFrame}]
  /\ lru \in Seq(Pages)
  /\ unusedCount \in Nat
  /\ credit \in BOOLEAN
  /\ pin \in [Frames -> Nat]
  /\ chunkState \in [Frames -> {"free", "resident"}]
  /\ content \in [Frames -> Pages \cup {NoPage}]
  /\ held \subseteq Reservation
  /\ pending \subseteq held
  /\ evictedSinceUse \in Nat

CallType ==
  /\ mutex \in Threads \cup {NoThread}
  /\ status \in [Threads -> {"idle", "calling", "waiting", "notified"}]
  /\ todo \in [Threads -> Seq(Pages)]
  /\ mode \in [Threads -> Mode]

Books ==
  /\ BookType /\ FiniteBooks /\ FramesHaveOneUse /\ PinsMatchHolders /\ ReservedPageStays
  /\ ResidentBytes /\ OneLoaderPerPage /\ LruMatchesResidents /\ CreditSpent

Calls == CallType /\ CallsHavePages /\ SleepersHaveLoads

\* The invariant is about the books of the pool and about the calls under way.
LEMMA Halves == IInv <=> Books /\ Calls
BY DEF IInv, TypeOK, Books, BookType, Calls, CallType

\* The same after a step.
LEMMA HalvesNext == IInv' <=> Books' /\ Calls'
BY DEF IInv, TypeOK, Books, BookType, Calls, CallType

\* A step that leaves the pool and the reservations alone keeps the books.
LEMMA BooksUnchanged ==
  ASSUME Books, UNCHANGED <<poolVars, held, pending, evictedSinceUse>>
  PROVE  Books'
BY DEF Books, BookType, FiniteBooks, FramesHaveOneUse, PinsMatchHolders, ReservedPageStays,
       ResidentBytes, OneLoaderPerPage, LruMatchesResidents, CreditSpent, poolVars,
       ResidentPages, UnusedPages, InFlight, HoldersOf

\* The end of a turn of reserve_locked keeps the call half, as long as no load
\* disappears: nobody is woken, and nobody needs to be.
LEMMA ReturnLemma ==
  ASSUME Calls, NEW t \in Threads, Ready(t), Return(t),
         \A p \in Pages : loading[p] # NoFrame => loading'[p] # NoFrame
  PROVE  Calls'
<1> USE DEF Calls, CallType
<1>1. todo[t] \in Seq(Pages) /\ todo[t] # <<>>
  BY DEF Ready, CallsHavePages
<1>2. Tail(todo[t]) \in Seq(Pages)
  BY <1>1
<1>3. IdleMode \in Mode
  BY DEF IdleMode, Mode, Access
<1>4. CallType'
  BY <1>2, <1>3 DEF Return
<1>5. CallsHavePages'
  BY DEF Return, CallsHavePages
<1>6. SleepersHaveLoads'
  <2> SUFFICES ASSUME NEW u \in Threads, status'[u] = "waiting"
               PROVE  loading'[Head(todo'[u])] # NoFrame
    BY DEF SleepersHaveLoads
  <2>1. u # t /\ status[u] = "waiting" /\ todo'[u] = todo[u]
    BY DEF Return
  <2>2. todo[u] \in Seq(Pages) /\ todo[u] # <<>>
    BY <2>1 DEF CallsHavePages
  <2>3. Head(todo[u]) \in Pages
    BY <2>2
  <2> QED
    BY <2>1, <2>3 DEF SleepersHaveLoads
<1> QED
  BY <1>4, <1>5, <1>6

\* Entering a call.
LEMMA BeginReserveLemma ==
  ASSUME IInv, NEW t \in Threads, NEW ps \in Seq(Pages), NEW m \in Mode, BeginReserve(t, ps, m)
  PROVE  IInv'
<1>1. Books /\ Calls
  BY Halves
<1>2. Books'
  BY <1>1, BooksUnchanged DEF BeginReserve
<1>3. CallType'
  BY <1>1 DEF BeginReserve, Calls, CallType
<1>4. CallsHavePages'
  BY <1>1 DEF BeginReserve, Calls, CallType, CallsHavePages
<1>5. SleepersHaveLoads'
  BY <1>1 DEF BeginReserve, Calls, CallType, SleepersHaveLoads, poolVars
<1> QED
  BY <1>2, <1>3, <1>4, <1>5, HalvesNext DEF Calls

\* Going to sleep: the page slept for is in flight.
LEMMA ReserveWaitLemma ==
  ASSUME IInv, NEW t \in Threads, ReserveWait(t)
  PROVE  IInv'
<1>1. Books /\ Calls
  BY Halves
<1>2. Books'
  BY <1>1, BooksUnchanged DEF ReserveWait
<1>3. CallType'
  BY <1>1 DEF ReserveWait, Calls, CallType
<1>4. CallsHavePages'
  BY <1>1 DEF ReserveWait, Calls, CallType, CallsHavePages, Ready
<1>5. SleepersHaveLoads'
  BY <1>1 DEF ReserveWait, Calls, CallType, SleepersHaveLoads, poolVars
<1> QED
  BY <1>2, <1>3, <1>4, <1>5, HalvesNext DEF Calls

\* Both kinds of BYPASS.
LEMMA ReserveBypassLemma ==
  ASSUME IInv, NEW t \in Threads, ReserveBypass(t) \/ ReserveCoalesced(t)
  PROVE  IInv'
<1>1. Books /\ Calls
  BY Halves
<1>2. Books' /\ loading' = loading
  BY <1>1, BooksUnchanged DEF ReserveBypass, ReserveCoalesced, poolVars
<1>3. Calls'
  BY <1>1, <1>2, ReturnLemma DEF ReserveBypass, ReserveCoalesced
<1> QED
  BY <1>2, <1>3, HalvesNext

-----------------------------------------------------------------------------
(***************************************************************************)
(* Handing out a reservation: one new holder and one more pin on its frame.*)
(***************************************************************************)
LEMMA NewHolder ==
  ASSUME BookType, FiniteBooks, PinsMatchHolders,
         NEW r \in Reservation, r \notin held, held' = held \cup {r},
         pin' = [pin EXCEPT ![r.frame] = @ + 1]
  PROVE  IsFiniteSet(held') /\ PinsMatchHolders' /\ pin' \in [Frames -> Nat]
<1>1. r.frame \in Frames
  BY DEF Reservation
<1>2. IsFiniteSet(held')
  BY FS_AddElement DEF FiniteBooks
<1>3. pin' \in [Frames -> Nat]
  BY <1>1 DEF BookType
<1>4. PinsMatchHolders'
  <2> SUFFICES ASSUME NEW g \in Frames
               PROVE  pin'[g] = Cardinality(HoldersOf(g)')
    BY DEF PinsMatchHolders
  <2>1. IsFiniteSet(HoldersOf(g)) /\ pin[g] = Cardinality(HoldersOf(g))
    BY FS_Subset DEF HoldersOf, FiniteBooks, PinsMatchHolders
  <2>2. CASE g = r.frame
    <3>1. HoldersOf(g)' = HoldersOf(g) \cup {r} /\ r \notin HoldersOf(g)
      BY <2>2 DEF HoldersOf
    <3>2. Cardinality(HoldersOf(g)') = Cardinality(HoldersOf(g)) + 1
      BY <2>1, <3>1, FS_AddElement
    <3> QED
      BY <1>1, <2>1, <2>2, <3>2 DEF BookType
  <2>3. CASE g # r.frame
    <3>1. HoldersOf(g)' = HoldersOf(g)
      BY <2>3 DEF HoldersOf
    <3> QED
      BY <1>1, <2>1, <2>3, <3>1 DEF BookType
  <2> QED
    BY <2>2, <2>3
<1> QED
  BY <1>2, <1>3, <1>4

(***************************************************************************)
(* A hit pins the frame, and on demand access moves the page to the front  *)
(* and takes it out of the unused prefetches.                              *)
(***************************************************************************)
LEMMA PinHitLemma ==
  ASSUME Books, NEW t \in Threads, NEW p \in Pages, NEW a \in Access, PinHit(t, p, a)
  PROVE  Books'
<1> USE DEF Books
<1>1. resident[p] \in Frames /\ resident[p] # NoFrame
  BY DEF PinHit, BookType
<1>2. PICK r \in Reservation :
        /\ r \notin held /\ r.page = p /\ r.frame = resident[p]
        /\ held' = held \cup {r} /\ pending' = pending
  <2>1. PICK s \in Slots :
          /\ LowestSlot(t, s)
          /\ held' = held \cup {[owner |-> t, slot |-> s, page |-> p, frame |-> resident[p],
                                 state |-> "HIT", access |-> a]}
          /\ pending' = pending
    BY DEF PinHit, Give
  <2> DEFINE x == [owner |-> t, slot |-> s, page |-> p, frame |-> resident[p],
                   state |-> "HIT", access |-> a]
  <2>2. /\ x \in Reservation /\ x.page = p /\ x.frame = resident[p]
        /\ x.owner = t /\ x.slot = s
    BY <1>1 DEF Reservation
  <2>3. x \notin held
    BY <2>1, <2>2 DEF LowestSlot, FreeSlots, HeldBy
  <2>4. held' = held \cup {x} /\ pending' = pending
    BY <2>1
  <2> HIDE DEF x
  <2> QED
    BY <2>2, <2>3, <2>4
<1>3. IsFiniteSet(held') /\ PinsMatchHolders' /\ pin' \in [Frames -> Nat]
  <2>1. pin' = [pin EXCEPT ![r.frame] = @ + 1]
    BY <1>2 DEF PinHit
  <2> QED
    BY <1>2, <2>1, NewHolder
<1>4. /\ frames' = frames /\ free' = free /\ resident' = resident /\ loading' = loading
      /\ chunkState' = chunkState /\ content' = content
  BY DEF PinHit
<1>5. RangeOf(lru) = ResidentPages /\ NoRepeat(lru) /\ p \in RangeOf(lru)
  BY <1>1 DEF LruMatchesResidents, RangeOf, NoRepeat, ResidentPages
<1>6. lru' \in Seq(Pages) /\ NoRepeat(lru') /\ RangeOf(lru') = ResidentPages
  <2>1. CASE a = "DEMAND"
    <3>1. PICK s \in Seq(Pages) : s = lru
      BY DEF BookType
    <3>2. p \in RangeOf(s) /\ NoRepeat(s) /\ RangeOf(s) = ResidentPages
      BY <1>5, <3>1
    <3>3. lru' = MoveToFront(s, p)
      BY <2>1, <3>1 DEF PinHit
    <3> QED
      BY <3>2, <3>3, MoveToFrontLemma
  <2>2. CASE a # "DEMAND"
    BY <1>5, <2>2 DEF PinHit, BookType
  <2> QED
    BY <2>1, <2>2
<1>7. /\ unused' \in [Pages -> BOOLEAN]
      /\ UnusedPages' = IF a = "DEMAND" THEN UnusedPages \ {p} ELSE UnusedPages
  BY DEF PinHit, BookType, UnusedPages
<1>8. /\ IsFiniteSet(UnusedPages') /\ unusedCount' = Cardinality(UnusedPages')
      /\ unusedCount' \in Nat
  <2>1. IsFiniteSet(UnusedPages) /\ unusedCount = Cardinality(UnusedPages)
    BY DEF FiniteBooks, LruMatchesResidents
  <2>2. CASE a = "DEMAND"
    <3>1. /\ IsFiniteSet(UnusedPages \ {p})
          /\ Cardinality(UnusedPages \ {p}) =
               IF p \in UnusedPages THEN Cardinality(UnusedPages) - 1 ELSE Cardinality(UnusedPages)
      BY <2>1, FS_RemoveElement
    <3>2. unused[p] <=> p \in UnusedPages
      BY DEF UnusedPages
    <3>3. unusedCount' = Cardinality(UnusedPages')
      BY <1>7, <2>1, <2>2, <3>1, <3>2 DEF PinHit
    <3> QED
      BY <1>7, <2>2, <3>1, <3>3, FS_CardinalityType
  <2>3. CASE a # "DEMAND"
    BY <1>7, <2>1, <2>3, FS_CardinalityType DEF PinHit
  <2> QED
    BY <2>2, <2>3
<1>9. BookType'
  <2>1. held' \subseteq Reservation /\ pending' \subseteq held'
    BY <1>2 DEF BookType
  <2>2. evictedSinceUse' \in Nat /\ credit' \in BOOLEAN
    BY DEF PinHit, BookType
  <2> QED
    BY <1>3, <1>4, <1>6, <1>7, <1>8, <2>1, <2>2 DEF BookType
<1>10. FramesHaveOneUse' /\ ResidentBytes' /\ OneLoaderPerPage'
  BY <1>2, <1>4 DEF FramesHaveOneUse, ResidentBytes, OneLoaderPerPage, ResidentPages, InFlight
<1>11. ReservedPageStays'
  <2>1. content[resident[p]] = p
    BY <1>1 DEF ResidentBytes, ResidentPages
  <2> QED
    BY <1>2, <1>4, <2>1 DEF ReservedPageStays
<1>12. LruMatchesResidents'
  <2>1. ResidentPages' = ResidentPages
    BY <1>4 DEF ResidentPages
  <2>2. UnusedPages' \subseteq ResidentPages
    BY <1>7 DEF LruMatchesResidents
  <2> QED
    BY <1>6, <1>8, <2>1, <2>2 DEF LruMatchesResidents, RangeOf, NoRepeat
<1>13. CreditSpent'
  BY DEF PinHit, CreditSpent, BookType
<1> QED
  BY <1>3, <1>8, <1>9, <1>10, <1>11, <1>12, <1>13 DEF FiniteBooks

\* A hit of reserve pins and returns.
LEMMA ReserveHitLemma ==
  ASSUME IInv, NEW t \in Threads, ReserveHit(t)
  PROVE  IInv'
<1>1. Books /\ Calls
  BY Halves
<1>2. Head(todo[t]) \in Pages /\ mode[t].access \in Access
  BY <1>1 DEF Calls, CallType, CallsHavePages, ReserveHit, Ready, Mode
<1>3. PICK p \in Pages, a \in Access : p = Head(todo[t]) /\ a = mode[t].access
  BY <1>2
<1>4. PinHit(t, p, a)
  BY <1>3 DEF ReserveHit
<1>5. Books' /\ loading' = loading
  BY <1>1, <1>4, PinHitLemma DEF PinHit
<1>6. Calls'
  BY <1>1, <1>5, ReturnLemma DEF ReserveHit
<1> QED
  BY <1>5, <1>6, HalvesNext

\* try_reserve_hit pins and leaves the calls alone.
LEMMA TryReserveHitLemma ==
  ASSUME IInv, NEW t \in Threads, NEW p \in Pages, TryReserveHit(t, p)
  PROVE  IInv'
<1>1. Books /\ Calls
  BY Halves
<1>2. PICK a \in Access : a = "DEMAND"
  BY DEF Access
<1>3. PinHit(t, p, a) /\ UNCHANGED callVars
  BY <1>2 DEF TryReserveHit
<1>4. Books' /\ loading' = loading
  BY <1>1, <1>3, PinHitLemma DEF PinHit
<1>5. Calls'
  BY <1>1, <1>3, <1>4 DEF Calls, CallType, CallsHavePages, SleepersHaveLoads, callVars
<1> QED
  BY <1>4, <1>5, HalvesNext

(***************************************************************************)
(* A load starts on a frame nobody uses: it was free, or the page it held  *)
(* has just been evicted.                                                  *)
(***************************************************************************)
LEMMA LoadLemma ==
  ASSUME Books, NEW p \in Pages, NEW f \in frames, NEW r \in Reservation,
         r \notin held, r.page = p, r.frame = f,
         resident[p] = NoFrame, loading[p] = NoFrame,
         \A x \in held : x.frame # f,
         \A q \in Pages : loading[q] # f,
         held' = held \cup {r}, pending' = pending \cup {r},
         pin' = [pin EXCEPT ![f] = @ + 1],
         chunkState' = [chunkState EXCEPT ![f] = "free"],
         content' = [content EXCEPT ![f] = NoPage],
         loading' = [loading EXCEPT ![p] = f],
         frames' = frames, free' = free \ {f},
         resident' = [q \in Pages |-> IF resident[q] = f THEN NoFrame ELSE resident[q]]
  PROVE  /\ free' \subseteq frames'
         /\ resident' \in [Pages -> Frames \cup {NoFrame}]
         /\ loading' \in [Pages -> Frames \cup {NoFrame}]
         /\ pin' \in [Frames -> Nat]
         /\ chunkState' \in [Frames -> {"free", "resident"}]
         /\ content' \in [Frames -> Pages \cup {NoPage}]
         /\ held' \subseteq Reservation /\ pending' \subseteq held'
         /\ IsFiniteSet(held')
         /\ FramesHaveOneUse' /\ PinsMatchHolders' /\ ReservedPageStays'
         /\ ResidentBytes' /\ OneLoaderPerPage'
<1> USE DEF Books
<1>1. f \in Frames /\ f # NoFrame
  BY NoneAssumption DEF BookType
<1>2. IsFiniteSet(held') /\ PinsMatchHolders' /\ pin' \in [Frames -> Nat]
  <2>1. pin' = [pin EXCEPT ![r.frame] = @ + 1]
    OBVIOUS
  <2> QED
    BY <2>1, NewHolder
<1>3. /\ \A q \in Pages : resident'[q] = IF resident[q] = f THEN NoFrame ELSE resident[q]
      /\ \A q \in Pages : loading'[q] = IF q = p THEN f ELSE loading[q]
      /\ \A g \in Frames : content'[g] = IF g = f THEN NoPage ELSE content[g]
  BY <1>1 DEF BookType
<1>4. FramesHaveOneUse'
  <2>1. \A q \in Pages : resident'[q] = NoFrame \/ loading'[q] = NoFrame
    BY <1>3 DEF FramesHaveOneUse
  <2>2. \A q, o \in Pages :
          q # o => /\ resident'[q] = NoFrame \/ resident'[q] # resident'[o]
                   /\ loading'[q] = NoFrame \/ loading'[q] # loading'[o]
                   /\ resident'[q] = NoFrame \/ resident'[q] # loading'[o]
    BY <1>3 DEF FramesHaveOneUse
  <2>3. frames' = free' \cup {resident'[q] : q \in ResidentPages'}
                        \cup {loading'[q] : q \in InFlight'}
    <3>1. frames = free \cup {resident[q] : q \in ResidentPages} \cup {loading[q] : q \in InFlight}
      BY DEF FramesHaveOneUse
    <3>2. ResidentPages' = {q \in ResidentPages : resident[q] # f} /\ InFlight' = InFlight \cup {p}
      BY <1>1, <1>3 DEF ResidentPages, InFlight
    <3>3. ASSUME NEW g \in frames
          PROVE  g \in free' \cup {resident'[q] : q \in ResidentPages'}
                             \cup {loading'[q] : q \in InFlight'}
      <4>1. CASE g = f
        BY <1>3, <3>2, <4>1
      <4>2. CASE g \in free /\ g # f
        BY <4>2
      <4>3. CASE \E q \in ResidentPages : g = resident[q] /\ g # f
        BY <1>3, <3>2, <4>3 DEF ResidentPages
      <4>4. CASE \E q \in InFlight : g = loading[q] /\ g # f
        BY <1>3, <3>2, <4>4 DEF InFlight
      <4> QED
        BY <3>1, <4>1, <4>2, <4>3, <4>4
    <3>4. {resident'[q] : q \in ResidentPages'} \subseteq frames
      BY <1>3, <3>1, <3>2 DEF ResidentPages
    <3>5. {loading'[q] : q \in InFlight'} \subseteq frames
      BY <1>3, <3>1, <3>2 DEF InFlight
    <3> QED
      BY <3>3, <3>4, <3>5 DEF BookType
  <2>4. \A q \in Pages : resident'[q] \notin free' /\ loading'[q] \notin free'
    <3>1. NoFrame \notin free
      BY NoneAssumption DEF BookType
    <3> QED
      BY <1>3, <3>1 DEF FramesHaveOneUse
  <2> QED
    BY <2>1, <2>2, <2>3, <2>4 DEF FramesHaveOneUse
<1>5. \A x \in held \ pending : resident'[x.page] = x.frame /\ content'[x.frame] = x.page
  <2>1. \A x \in held : x.page \in Pages /\ x.frame \in Frames
    BY DEF BookType, Reservation
  <2> QED
    BY <1>3, <2>1 DEF ReservedPageStays
<1>6. ReservedPageStays'
  BY <1>5 DEF ReservedPageStays
<1>7. ResidentBytes'
  BY <1>3 DEF ResidentBytes, ResidentPages, BookType
<1>8. OneLoaderPerPage'
  <2>1. \A x \in pending : x.page \in Pages /\ x.page # p /\ loading[x.page] = x.frame
    <3>1. \A x \in pending : x.page \in Pages /\ x.frame \in Frames
      BY DEF BookType, Reservation
    <3> QED
      BY <3>1, NoneAssumption DEF OneLoaderPerPage
  <2>2. \A x \in pending' : loading'[x.page] = x.frame
    BY <1>3, <2>1
  <2>3. \A q \in InFlight' : \E x \in pending' : x.page = q
    BY <1>3 DEF OneLoaderPerPage, InFlight
  <2>4. \A x, y \in pending' : x.page = y.page => x = y
    BY <2>1 DEF OneLoaderPerPage
  <2> QED
    BY <2>2, <2>3, <2>4 DEF OneLoaderPerPage
<1> QED
  BY <1>1, <1>2, <1>4, <1>6, <1>7, <1>8 DEF BookType

\* The reservation a starting load hands out is a new one.
LEMMA NewLoad ==
  ASSUME NEW t \in Threads, NEW p \in Pages, NEW f \in Frames, NEW a \in Access,
         BeginLoad(t, p, f, a)
  PROVE  \E r \in Reservation : /\ r \notin held /\ r.page = p /\ r.frame = f
                                /\ held' = held \cup {r} /\ pending' = pending \cup {r}
<1>1. PICK s \in Slots :
        /\ LowestSlot(t, s)
        /\ held' = held \cup {[owner |-> t, slot |-> s, page |-> p, frame |-> f,
                               state |-> "LOAD", access |-> a]}
        /\ pending' = pending \cup {[owner |-> t, slot |-> s, page |-> p, frame |-> f,
                                     state |-> "LOAD", access |-> a]}
  BY DEF BeginLoad, Give
<1> DEFINE x == [owner |-> t, slot |-> s, page |-> p, frame |-> f, state |-> "LOAD", access |-> a]
<1>2. /\ x \in Reservation /\ x.page = p /\ x.frame = f
      /\ x.owner = t /\ x.slot = s
  BY DEF Reservation
<1>3. x \notin held
  BY <1>1, <1>2 DEF LowestSlot, FreeSlots, HeldBy
<1>4. held' = held \cup {x} /\ pending' = pending \cup {x}
  BY <1>1
<1> HIDE DEF x
<1> QED
  BY <1>2, <1>3, <1>4

\* A holder's frame is mapped, by its page or by its page's load.
LEMMA HoldersAreMapped ==
  ASSUME Books, NEW x \in held
  PROVE  /\ x.page \in Pages /\ x.frame \in Frames
         /\ resident[x.page] = x.frame \/ loading[x.page] = x.frame
BY DEF Books, BookType, Reservation, ReservedPageStays, OneLoaderPerPage

\* A miss that takes a free frame.
LEMMA ReserveFreeLemma ==
  ASSUME IInv, NEW t \in Threads, ReserveFree(t)
  PROVE  IInv'
<1>1. Books /\ Calls
  BY Halves
<1>2. PICK p \in Pages, a \in Access : p = Head(todo[t]) /\ a = mode[t].access
  BY <1>1 DEF Calls, CallType, CallsHavePages, ReserveFree, Ready, Mode
<1>3. PICK f \in free : free' = free \ {f} /\ BeginLoad(t, p, f, a)
  BY <1>2 DEF ReserveFree
<1>4. f \in frames /\ f \in Frames
  BY <1>1 DEF Books, BookType
<1>5. PICK r \in Reservation : /\ r \notin held /\ r.page = p /\ r.frame = f
                               /\ held' = held \cup {r} /\ pending' = pending \cup {r}
  BY <1>3, <1>4, NewLoad
<1>6. /\ resident[p] = NoFrame /\ loading[p] = NoFrame
      /\ UNCHANGED <<frames, resident, unused, lru, unusedCount, credit, evictedSinceUse>>
      /\ pin' = [pin EXCEPT ![f] = @ + 1]
      /\ chunkState' = [chunkState EXCEPT ![f] = "free"]
      /\ content' = [content EXCEPT ![f] = NoPage]
      /\ loading' = [loading EXCEPT ![p] = f]
  BY <1>2, <1>3 DEF ReserveFree, Missing, BeginLoad
<1>7. \A q \in Pages : resident[q] # f /\ loading[q] # f
  BY <1>1 DEF Books, FramesHaveOneUse
<1>8. \A x \in held : x.frame # f
  BY <1>1, <1>7, HoldersAreMapped
<1>9. resident' = [q \in Pages |-> IF resident[q] = f THEN NoFrame ELSE resident[q]]
  BY <1>1, <1>6, <1>7 DEF Books, BookType
<1>10. /\ free' \subseteq frames'
       /\ resident' \in [Pages -> Frames \cup {NoFrame}]
       /\ loading' \in [Pages -> Frames \cup {NoFrame}]
       /\ pin' \in [Frames -> Nat]
       /\ chunkState' \in [Frames -> {"free", "resident"}]
       /\ content' \in [Frames -> Pages \cup {NoPage}]
       /\ held' \subseteq Reservation /\ pending' \subseteq held'
       /\ IsFiniteSet(held')
       /\ FramesHaveOneUse' /\ PinsMatchHolders' /\ ReservedPageStays'
       /\ ResidentBytes' /\ OneLoaderPerPage'
  BY <1>1, <1>3, <1>4, <1>5, <1>6, <1>7, <1>8, <1>9, LoadLemma
<1>11. BookType' /\ FiniteBooks' /\ LruMatchesResidents' /\ CreditSpent'
  BY <1>1, <1>6, <1>10 DEF Books, BookType, FiniteBooks, LruMatchesResidents, CreditSpent,
                           ResidentPages, UnusedPages
<1>12. Books'
  BY <1>10, <1>11 DEF Books
<1>13. \A q \in Pages : loading[q] # NoFrame => loading'[q] # NoFrame
  BY <1>1, <1>4, <1>6, NoneAssumption DEF Books, BookType
<1>14. Calls'
  BY <1>1, <1>13, ReturnLemma DEF ReserveFree
<1> QED
  BY <1>12, <1>14, HalvesNext

\* The victim of an eviction is the copy of a listed page that nobody holds.
LEMMA ReserveEvictLemma ==
  ASSUME IInv, NEW t \in Threads, ReserveEvict(t)
  PROVE  IInv'
<1>1. Books /\ Calls
  BY Halves
<1>2. PICK p \in Pages, a \in Access : p = Head(todo[t]) /\ a = mode[t].access
  BY <1>1 DEF Calls, CallType, CallsHavePages, ReserveEvict, Ready, Mode
<1>3. PICK i \in VictimsFor(a) :
        /\ BeginLoad(t, p, resident[lru[i]], a)
        /\ lru' = DropAt(lru, i)
        /\ resident' = [resident EXCEPT ![lru[i]] = NoFrame]
        /\ unused' = [unused EXCEPT ![lru[i]] = FALSE]
        /\ unusedCount' = IF unused[lru[i]] THEN unusedCount - 1 ELSE unusedCount
  BY <1>2 DEF ReserveEvict
<1>4. i \in 1..Len(lru) /\ pin[resident[lru[i]]] = 0
  BY <1>3 DEF VictimsFor, Victims
<1>5. lru[i] \in Pages /\ lru[i] \in ResidentPages
  BY <1>1, <1>4 DEF Books, BookType, LruMatchesResidents
<1>6. PICK v \in Pages, f \in Frames : v = lru[i] /\ f = resident[lru[i]] /\ f # NoFrame
  BY <1>1, <1>5 DEF Books, BookType, ResidentPages
<1>7. PICK s \in Seq(Pages) : s = lru
  BY <1>1 DEF Books, BookType
<1>8. /\ resident[p] = NoFrame /\ loading[p] = NoFrame /\ resident[v] = f
      /\ frames' = frames /\ free' = free /\ free = {}
      /\ pin' = [pin EXCEPT ![f] = @ + 1]
      /\ chunkState' = [chunkState EXCEPT ![f] = "free"]
      /\ content' = [content EXCEPT ![f] = NoPage]
      /\ loading' = [loading EXCEPT ![p] = f]
  BY <1>2, <1>3, <1>6 DEF ReserveEvict, Missing, BeginLoad
<1>9. f \in frames /\ \A q \in Pages : loading[q] # f /\ (q # v => resident[q] # f)
  <2>1. v \in ResidentPages
    BY <1>5, <1>6
  <2>2. \A q \in Pages : q # v => loading[q] # f /\ resident[q] # f
    BY <1>1, <1>6, <1>8 DEF Books, FramesHaveOneUse
  <2>3. loading[v] # f
    BY <1>1, <1>6, <1>8 DEF Books, FramesHaveOneUse
  <2>4. f \in frames
    BY <1>1, <1>8, <2>1 DEF Books, FramesHaveOneUse
  <2> QED
    BY <2>2, <2>3, <2>4
<1>10. \A x \in held : x.frame # f
  <2>1. Cardinality(HoldersOf(f)) = 0 /\ IsFiniteSet(HoldersOf(f))
    <3>1. pin[f] = 0
      BY <1>4, <1>6
    <3>2. pin[f] = Cardinality(HoldersOf(f))
      BY <1>1 DEF Books, PinsMatchHolders
    <3>3. IsFiniteSet(HoldersOf(f))
      BY <1>1, FS_Subset DEF Books, FiniteBooks, HoldersOf
    <3> QED
      BY <3>1, <3>2, <3>3
  <2>2. HoldersOf(f) = {}
    BY <2>1, FS_EmptySet
  <2> QED
    BY <2>2 DEF HoldersOf
<1>11. PICK r \in Reservation : /\ r \notin held /\ r.page = p /\ r.frame = f
                                /\ held' = held \cup {r} /\ pending' = pending \cup {r}
  BY <1>3, <1>6, NewLoad
<1>12. resident' = [q \in Pages |-> IF resident[q] = f THEN NoFrame ELSE resident[q]]
  BY <1>1, <1>3, <1>6, <1>8, <1>9 DEF Books, BookType
<1>13. free' = free \ {f}
  BY <1>8
<1>14. /\ free' \subseteq frames'
       /\ resident' \in [Pages -> Frames \cup {NoFrame}]
       /\ loading' \in [Pages -> Frames \cup {NoFrame}]
       /\ pin' \in [Frames -> Nat]
       /\ chunkState' \in [Frames -> {"free", "resident"}]
       /\ content' \in [Frames -> Pages \cup {NoPage}]
       /\ held' \subseteq Reservation /\ pending' \subseteq held'
       /\ IsFiniteSet(held')
       /\ FramesHaveOneUse' /\ PinsMatchHolders' /\ ReservedPageStays'
       /\ ResidentBytes' /\ OneLoaderPerPage'
  BY <1>1, <1>8, <1>9, <1>10, <1>11, <1>12, <1>13, LoadLemma
<1>15. ResidentPages' = ResidentPages \ {v}
  BY <1>1, <1>3, <1>6 DEF Books, BookType, ResidentPages
<1>16. lru' \in Seq(Pages) /\ NoRepeat(lru') /\ RangeOf(lru') = ResidentPages'
  <2>1. NoRepeat(s) /\ RangeOf(s) = ResidentPages /\ i \in 1..Len(s) /\ s[i] = v
    BY <1>1, <1>4, <1>6, <1>7 DEF Books, LruMatchesResidents, NoRepeat, RangeOf
  <2>2. lru' = DropAt(s, i)
    BY <1>3, <1>7
  <2> QED
    BY <1>15, <2>1, <2>2, DropAtLemma
<1>17. unused' \in [Pages -> BOOLEAN] /\ UnusedPages' = UnusedPages \ {v}
  BY <1>1, <1>3, <1>6 DEF Books, BookType, UnusedPages
<1>18. /\ IsFiniteSet(UnusedPages') /\ unusedCount' = Cardinality(UnusedPages')
       /\ unusedCount' \in Nat
  <2>1. IsFiniteSet(UnusedPages) /\ unusedCount = Cardinality(UnusedPages)
    BY <1>1 DEF Books, FiniteBooks, LruMatchesResidents
  <2>2. /\ IsFiniteSet(UnusedPages \ {v})
        /\ Cardinality(UnusedPages \ {v}) =
             IF v \in UnusedPages THEN Cardinality(UnusedPages) - 1 ELSE Cardinality(UnusedPages)
    BY <2>1, FS_RemoveElement
  <2>3. unused[v] <=> v \in UnusedPages
    BY DEF UnusedPages
  <2>4. unusedCount' = Cardinality(UnusedPages')
    BY <1>3, <1>6, <1>17, <2>1, <2>2, <2>3
  <2> QED
    BY <1>17, <2>2, <2>4, FS_CardinalityType
<1>19. LruMatchesResidents'
  <2>1. UnusedPages' \subseteq ResidentPages'
    BY <1>1, <1>15, <1>17 DEF Books, LruMatchesResidents
  <2> QED
    BY <1>16, <1>18, <2>1 DEF LruMatchesResidents, RangeOf, NoRepeat
<1>20. evictedSinceUse' \in Nat /\ credit' \in BOOLEAN /\ CreditSpent'
  <2>1. CASE a = "PREFETCH" /\ ~RecyclesPrefetch(a)
    <3>1. credit
      BY <1>3, <2>1 DEF VictimsFor, MayEvict
    <3> QED
      <4>1. evictedSinceUse = 0
        BY <1>1, <3>1 DEF CreditSpent, Books, BookType
      <4>2. evictedSinceUse' = evictedSinceUse + 1
        BY <1>2, <2>1 DEF ReserveEvict
      <4>3. credit' \in BOOLEAN /\ ~credit'
        BY <1>2, <2>1 DEF ReserveEvict
      <4> QED
        BY <4>1, <4>2, <4>3 DEF CreditSpent
  <2>2. CASE ~(a = "PREFETCH" /\ ~RecyclesPrefetch(a))
    BY <1>1, <1>2, <2>2 DEF ReserveEvict, CreditSpent, Books, BookType
  <2> QED
    BY <2>1, <2>2
<1>21. Books'
  <2>1. BookType' /\ FiniteBooks'
    BY <1>1, <1>8, <1>14, <1>16, <1>17, <1>18, <1>20 DEF Books, BookType, FiniteBooks
  <2> QED
    BY <1>14, <1>19, <1>20, <2>1 DEF Books
<1>22. \A q \in Pages : loading[q] # NoFrame => loading'[q] # NoFrame
  BY <1>1, <1>6, <1>8 DEF Books, BookType
<1>23. Calls'
  BY <1>1, <1>22, ReturnLemma DEF ReserveEvict
<1> QED
  BY <1>21, <1>23, HalvesNext

-----------------------------------------------------------------------------
(***************************************************************************)
(* Publication.  The loads of a span are in flight on distinct frames for  *)
(* distinct pages.                                                         *)
(***************************************************************************)
LEMMA SpanLemma ==
  ASSUME Books, NEW t, NEW a, NEW n \in Nat, NEW q \in [1..n -> pending], IsSpan(q, t, a)
  PROVE  /\ DOMAIN q = 1..n
         /\ \A i \in 1..n : /\ q[i] \in pending /\ q[i] \in held
                            /\ q[i].page \in Pages /\ q[i].frame \in Frames
                            /\ q[i].frame # NoFrame
                            /\ loading[q[i].page] = q[i].frame
                            /\ resident[q[i].page] = NoFrame
         /\ \A i, j \in 1..n : q[i].page = q[j].page => i = j
         /\ \A p \in Pages, i \in 1..n : loading[p] = q[i].frame => p = q[i].page
         /\ \A p \in Pages, i \in 1..n : resident[p] # q[i].frame
         /\ \A x \in pending : x.page \in PagesOf(q) => x \in Entries(q)
<1> USE DEF Books
<1>1. DOMAIN q = 1..n /\ \A i \in 1..n : q[i] \in pending /\ q[i] \in held
  BY DEF BookType
<1>2. \A i \in 1..n : q[i].page \in Pages /\ q[i].frame \in Frames /\ q[i].frame # NoFrame
  BY <1>1, NoneAssumption DEF BookType, Reservation
<1>3. \A i \in 1..n : loading[q[i].page] = q[i].frame
  BY <1>1 DEF OneLoaderPerPage
<1>4. \A i \in 1..n : resident[q[i].page] = NoFrame
  BY <1>2, <1>3 DEF FramesHaveOneUse
<1>5. \A i, j \in 1..n : q[i].page = q[j].page => i = j
  BY <1>1 DEF OneLoaderPerPage, IsSpan
<1>6. \A p \in Pages, i \in 1..n : loading[p] = q[i].frame => p = q[i].page
  BY <1>2, <1>3 DEF FramesHaveOneUse
<1>7. \A p \in Pages, i \in 1..n : resident[p] # q[i].frame
  BY <1>2, <1>3, <1>4 DEF FramesHaveOneUse
<1>8. \A x \in pending : x.page \in PagesOf(q) => x \in Entries(q)
  BY <1>1 DEF OneLoaderPerPage, PagesOf, Entries
<1> QED
  BY <1>1, <1>2, <1>3, <1>4, <1>5, <1>6, <1>7, <1>8

\* Publication wakes every sleeper and touches no other call.
LEMMA NotifyLemma ==
  ASSUME Calls, NotifyAll, UNCHANGED <<mutex, todo, mode>>
  PROVE  Calls'
BY DEF Calls, CallType, CallsHavePages, SleepersHaveLoads, NotifyAll

\* A successful publication maps each loaded page to the frame that now holds
\* its bytes, and enters it in the replacement order once.
LEMMA PublishLoadedLemma ==
  ASSUME IInv, NEW t \in Threads, NEW a \in Access, NEW n \in Nat, NEW q \in [1..n -> pending],
         PublishLoaded(t, q, a)
  PROVE  IInv'
<1>1. Books /\ Calls
  BY Halves
<1> DEFINE P == PagesOf(q)
           F == FramesOf(q)
<1>2. IsSpan(q, t, a)
  BY DEF PublishLoaded
<1>3. /\ DOMAIN q = 1..n
      /\ \A i \in 1..n : /\ q[i] \in pending /\ q[i] \in held
                         /\ q[i].page \in Pages /\ q[i].frame \in Frames
                         /\ q[i].frame # NoFrame
                         /\ loading[q[i].page] = q[i].frame
                         /\ resident[q[i].page] = NoFrame
      /\ \A i, j \in 1..n : q[i].page = q[j].page => i = j
      /\ \A p \in Pages, i \in 1..n : loading[p] = q[i].frame => p = q[i].page
      /\ \A p \in Pages, i \in 1..n : resident[p] # q[i].frame
      /\ \A x \in pending : x.page \in P => x \in Entries(q)
  BY <1>1, <1>2, SpanLemma
<1>4. Len(q) = n
  BY <1>3
<1>5. /\ \A p : p \in P <=> \E i \in 1..n : p = q[i].page
      /\ \A f : f \in F <=> \E i \in 1..n : f = q[i].frame
      /\ \A x : x \in Entries(q) <=> \E i \in 1..n : x = q[i]
  BY <1>3 DEF PagesOf, FramesOf, Entries
<1>6. \A p \in Pages : p \in P <=> loading[p] \in F
  BY <1>3, <1>5
<1>7. P \subseteq Pages /\ F \subseteq Frames /\ \A p \in P : loading[p] # NoFrame /\ resident[p] = NoFrame
  BY <1>3, <1>5
<1> HIDE DEF P, F
<1>8. /\ \A p \in Pages : resident'[p] = IF p \in P THEN loading[p] ELSE resident[p]
      /\ \A p \in Pages : loading'[p] = IF p \in P THEN NoFrame ELSE loading[p]
      /\ pending' = pending \ Entries(q)
      /\ UNCHANGED <<frames, free, credit, pin, held, mutex, todo, mode, evictedSinceUse>>
  BY DEF PublishLoaded, P
<1>9. \A p \in P : content'[loading[p]] = p
  <2> SUFFICES ASSUME NEW p \in P
               PROVE  content'[loading[p]] = p
    OBVIOUS
  <2>1. PICK k \in 1..n : p = q[k].page
    BY <1>5
  <2>2. loading[p] = q[k].frame /\ loading[p] \in Frames /\ loading[p] \in F
    BY <1>3, <1>5, <2>1
  <2> DEFINE c == CHOOSE i \in DOMAIN q : q[i].frame = loading[p]
  <2>3. c \in 1..n /\ q[c].frame = loading[p]
    BY <1>3, <2>2
  <2>4. p \in Pages /\ q[c].page = p
    BY <1>3, <1>7, <2>3
  <2>5. content'[loading[p]] = q[c].page
    BY <2>2 DEF PublishLoaded, F
  <2> QED
    BY <2>4, <2>5
<1>10. \A f \in Frames \ F : content'[f] = content[f]
  BY DEF PublishLoaded, F
<1>11. content' \in [Frames -> Pages \cup {NoPage}]
  <2> DEFINE g(f) == IF f \in F THEN q[CHOOSE i \in DOMAIN q : q[i].frame = f].page ELSE content[f]
  <2>1. content' = [f \in Frames |-> g(f)]
    BY DEF PublishLoaded, F
  <2>2. \A f \in Frames : g(f) \in Pages \cup {NoPage}
    <3> SUFFICES ASSUME NEW f \in Frames
                 PROVE  g(f) \in Pages \cup {NoPage}
      OBVIOUS
    <3>1. CASE f \in F
      <4>1. \E i \in DOMAIN q : q[i].frame = f
        BY <1>3, <1>5, <3>1
      <4>2. (CHOOSE i \in DOMAIN q : q[i].frame = f) \in 1..n
        BY <1>3, <4>1
      <4> QED
        BY <1>3, <3>1, <4>2
    <3>2. CASE f \notin F
      BY <1>1, <3>2 DEF Books, BookType
    <3> QED
      BY <3>1, <3>2
  <2> HIDE DEF g
  <2> QED
    BY <2>1, <2>2
<1>12. FramesHaveOneUse'
  <2>1. \A p \in Pages : resident'[p] = NoFrame \/ loading'[p] = NoFrame
    BY <1>1, <1>8 DEF Books, FramesHaveOneUse
  <2>2. \A p, o \in Pages :
          p # o => /\ resident'[p] = NoFrame \/ resident'[p] # resident'[o]
                   /\ loading'[p] = NoFrame \/ loading'[p] # loading'[o]
                   /\ resident'[p] = NoFrame \/ resident'[p] # loading'[o]
    BY <1>1, <1>8 DEF Books, FramesHaveOneUse
  <2>3. {resident'[p] : p \in ResidentPages'} \cup {loading'[p] : p \in InFlight'}
          = {resident[p] : p \in ResidentPages} \cup {loading[p] : p \in InFlight}
    <3>1. ResidentPages' = ResidentPages \cup P /\ InFlight' = InFlight \ P
      BY <1>7, <1>8 DEF ResidentPages, InFlight
    <3>2. /\ \A p \in ResidentPages : p \in Pages /\ p \notin P /\ resident'[p] = resident[p]
          /\ \A p \in P : p \in InFlight /\ resident'[p] = loading[p]
          /\ \A p \in InFlight \ P : loading'[p] = loading[p]
      BY <1>7, <1>8 DEF ResidentPages, InFlight
    <3> QED
      BY <3>1, <3>2
  <2>4. \A p \in Pages : resident'[p] \notin free' /\ loading'[p] \notin free'
    <3>1. NoFrame \notin free
      BY <1>1, NoneAssumption DEF Books, BookType
    <3> QED
      BY <1>1, <1>8, <3>1 DEF Books, FramesHaveOneUse
  <2>5. frames' = free' \cup {resident'[p] : p \in ResidentPages'} \cup {loading'[p] : p \in InFlight'}
    BY <1>1, <1>8, <2>3 DEF Books, FramesHaveOneUse
  <2> QED
    BY <2>1, <2>2, <2>4, <2>5 DEF FramesHaveOneUse
<1>13. ReservedPageStays'
  <2> SUFFICES ASSUME NEW x \in held, x \notin pending'
               PROVE  resident'[x.page] = x.frame /\ content'[x.frame] = x.page
    BY <1>8 DEF ReservedPageStays
  <2>1. x.page \in Pages /\ x.frame \in Frames
    BY <1>1 DEF Books, BookType, Reservation
  <2>2. CASE x \in pending
    <3>1. x.page \in P /\ loading[x.page] = x.frame
      BY <1>3, <1>5, <1>8, <2>2
    <3> QED
      BY <1>8, <1>9, <2>1, <3>1
  <2>3. CASE x \notin pending
    <3>1. resident[x.page] = x.frame /\ content[x.frame] = x.page
      BY <1>1, <2>3 DEF Books, ReservedPageStays
    <3>2. x.page \notin P /\ x.frame \notin F
      BY <1>3, <1>5, <1>7, <2>1, <3>1, NoneAssumption
    <3> QED
      BY <1>8, <1>10, <2>1, <3>1, <3>2
  <2> QED
    BY <2>2, <2>3
<1>14. ResidentBytes'
  <2> SUFFICES ASSUME NEW p \in Pages, resident'[p] # NoFrame
               PROVE  content'[resident'[p]] = p
    BY DEF ResidentBytes, ResidentPages
  <2>1. CASE p \in P
    BY <1>8, <1>9, <2>1
  <2>2. CASE p \notin P
    <3>1. resident[p] # NoFrame /\ resident'[p] = resident[p] /\ content[resident[p]] = p
      BY <1>1, <1>8, <2>2 DEF Books, ResidentBytes, ResidentPages
    <3>2. resident[p] \in Frames \ F
      BY <1>1, <1>3, <1>5, <3>1 DEF Books, BookType
    <3> QED
      BY <1>10, <3>1, <3>2
  <2> QED
    BY <2>1, <2>2
<1>15. OneLoaderPerPage'
  <2>1. \A x \in pending' : x \in pending /\ x.page \in Pages /\ x.page \notin P
    BY <1>1, <1>3, <1>8 DEF Books, BookType, Reservation
  <2>2. \A x \in pending' : loading'[x.page] = x.frame
    BY <1>1, <1>8, <2>1 DEF Books, OneLoaderPerPage
  <2>3. \A p \in InFlight' : \E x \in pending' : x.page = p
    <3> SUFFICES ASSUME NEW p \in Pages, loading'[p] # NoFrame
                 PROVE  \E x \in pending' : x.page = p
      BY DEF InFlight
    <3>1. p \notin P /\ loading[p] # NoFrame
      BY <1>8
    <3>2. PICK x \in pending : x.page = p
      BY <1>1, <3>1 DEF Books, OneLoaderPerPage, InFlight
    <3>3. x \notin Entries(q)
      BY <1>5, <3>1, <3>2
    <3> QED
      BY <1>8, <3>2, <3>3
  <2>4. \A x, y \in pending' : x.page = y.page => x = y
    BY <1>1, <2>1 DEF Books, OneLoaderPerPage
  <2> QED
    BY <2>2, <2>3, <2>4 DEF OneLoaderPerPage
<1>16. ResidentPages' = ResidentPages \cup P /\ ResidentPages \cap P = {}
  BY <1>7, <1>8 DEF ResidentPages
<1>17. lru' \in Seq(Pages) /\ NoRepeat(lru') /\ RangeOf(lru') = ResidentPages'
  <2>1. PICK s \in Seq(Pages) : s = lru
    BY <1>1 DEF Books, BookType
  <2>2. NoRepeat(s) /\ RangeOf(s) = ResidentPages
    BY <1>1, <2>1 DEF Books, LruMatchesResidents, NoRepeat, RangeOf
  <2>3. CASE IsPrefetch(a)
    <3> DEFINE u == [i \in 1..n |-> q[i].page]
    <3>7. DOMAIN u = 1..n /\ \A i \in 1..n : u[i] = q[i].page
      OBVIOUS
    <3>8. u \in Seq(Pages)
      BY <1>3, <1>5
    <3>9. NoRepeat(u)
      BY <1>3, <1>5, <3>7 DEF NoRepeat
    <3>10. RangeOf(u) = P
      BY <1>3, <1>5, <3>7 DEF RangeOf
    <3>1. u \in Seq(Pages) /\ NoRepeat(u) /\ RangeOf(u) = P
      BY <3>8, <3>9, <3>10
    <3>2. lru' = s \o u
      BY <1>4, <2>1, <2>3 DEF PublishLoaded
    <3> HIDE DEF u
    <3>3. RangeOf(s) \cap RangeOf(u) = {}
      BY <1>16, <2>2, <3>1
    <3>4. /\ s \o u \in Seq(Pages) /\ NoRepeat(s \o u)
          /\ RangeOf(s \o u) = RangeOf(s) \cup RangeOf(u)
      BY <2>2, <3>1, <3>3, ConcatLemma
    <3> QED
      BY <1>16, <2>2, <3>1, <3>2, <3>4
  <2>4. CASE ~IsPrefetch(a)
    <3> DEFINE u == [i \in 1..n |-> q[n + 1 - i].page]
    <3>1. \A i \in 1..n : n + 1 - i \in 1..n /\ n + 1 - (n + 1 - i) = i
      OBVIOUS
    <3>2. u \in Seq(Pages) /\ DOMAIN u = 1..n /\ \A i \in 1..n : u[i] = q[n + 1 - i].page
      BY <1>3, <3>1
    <3>3. NoRepeat(u)
      <4> SUFFICES ASSUME NEW i \in 1..n, NEW j \in 1..n, u[i] = u[j]
                   PROVE  i = j
        BY <3>2 DEF NoRepeat
      <4>1. n + 1 - i = n + 1 - j
        BY <1>3, <3>1, <3>2
      <4> QED
        BY <4>1
    <3>4. RangeOf(u) = P
      <4>1. \A p \in RangeOf(u) : p \in P
        BY <1>5, <3>1, <3>2 DEF RangeOf
      <4>2. ASSUME NEW p \in P
            PROVE  p \in RangeOf(u)
        <5>1. PICK i \in 1..n : p = q[i].page
          BY <1>5
        <5>2. u[n + 1 - i] = p
          BY <3>1, <3>2, <5>1
        <5> QED
          BY <3>1, <3>2, <5>2 DEF RangeOf
      <4> QED
        BY <4>1, <4>2
    <3>5. lru' = u \o s
      BY <1>4, <2>1, <2>4 DEF PublishLoaded
    <3> HIDE DEF u
    <3>6. RangeOf(u) \cap RangeOf(s) = {}
      BY <1>16, <2>2, <3>4
    <3>7. /\ u \o s \in Seq(Pages) /\ NoRepeat(u \o s)
          /\ RangeOf(u \o s) = RangeOf(u) \cup RangeOf(s)
      BY <2>2, <3>2, <3>3, <3>6, ConcatLemma
    <3> QED
      BY <1>16, <2>2, <3>4, <3>5, <3>7
  <2> QED
    BY <2>3, <2>4
<1>18. unused' \in [Pages -> BOOLEAN] /\ UnusedPages' = IF IsPrefetch(a) THEN UnusedPages \cup P ELSE UnusedPages
  <2>1. \A p \in UnusedPages : p \notin P
    BY <1>1, <1>16 DEF Books, LruMatchesResidents
  <2>2. \A p \in Pages : unused'[p] = IF p \in P THEN IsPrefetch(a) ELSE unused[p]
    BY DEF PublishLoaded, P
  <2>3. unused' \in [Pages -> BOOLEAN]
    BY <1>1 DEF PublishLoaded, P, Books, BookType, IsPrefetch
  <2>4. CASE IsPrefetch(a)
    BY <1>7, <2>2, <2>3, <2>4 DEF UnusedPages
  <2>5. CASE ~IsPrefetch(a)
    BY <1>7, <2>1, <2>2, <2>3, <2>5 DEF UnusedPages
  <2> QED
    BY <2>3, <2>4, <2>5
<1>19. /\ IsFiniteSet(UnusedPages') /\ unusedCount' = Cardinality(UnusedPages')
       /\ unusedCount' \in Nat
  <2>1. /\ IsFiniteSet(UnusedPages) /\ unusedCount = Cardinality(UnusedPages)
        /\ unusedCount \in Nat
    BY <1>1 DEF Books, BookType, FiniteBooks, LruMatchesResidents
  <2>2. CASE IsPrefetch(a)
    <3> DEFINE u == [i \in 1..n |-> q[i].page]
    <3>1. u \in Bijection(1..n, P)
      BY <1>3, <1>5 DEF Bijection, Injection, Surjection, IsInjective
    <3>2. ExistsBijection(1..n, P)
      BY <3>1 DEF ExistsBijection
    <3>3. IsFiniteSet(1..n) /\ Cardinality(1..n) = n
      BY FS_Interval
    <3>4. IsFiniteSet(P) /\ Cardinality(P) = n
      BY <3>2, <3>3, FS_Bijection
    <3>5. UnusedPages \cap P = {}
      BY <1>1, <1>16 DEF Books, LruMatchesResidents
    <3>6. /\ IsFiniteSet(UnusedPages \cup P)
          /\ Cardinality(UnusedPages \cup P) = Cardinality(UnusedPages) + n - Cardinality({})
      BY <2>1, <3>4, <3>5, FS_Union
    <3>7. Cardinality({}) = 0
      BY FS_EmptySet
    <3>8. unusedCount' = unusedCount + n
      BY <1>4, <2>2 DEF PublishLoaded
    <3> QED
      BY <1>18, <2>1, <2>2, <3>6, <3>7, <3>8
  <2>3. CASE ~IsPrefetch(a)
    BY <1>18, <2>1, <2>3 DEF PublishLoaded
  <2> QED
    BY <2>2, <2>3
<1>20. LruMatchesResidents'
  <2>1. UnusedPages' \subseteq ResidentPages'
    BY <1>1, <1>16, <1>18 DEF Books, LruMatchesResidents
  <2> QED
    BY <1>17, <1>19, <2>1 DEF LruMatchesResidents, RangeOf, NoRepeat
<1>21. BookType' /\ FiniteBooks'
  <2>1. resident' \in [Pages -> Frames \cup {NoFrame}] /\ loading' \in [Pages -> Frames \cup {NoFrame}]
    BY <1>1 DEF PublishLoaded, Books, BookType
  <2>2. chunkState' \in [Frames -> {"free", "resident"}]
    BY <1>1 DEF PublishLoaded, Books, BookType
  <2>3. pending' \subseteq held'
    BY <1>1, <1>8 DEF Books, BookType
  <2> QED
    BY <1>1, <1>8, <1>11, <1>17, <1>18, <1>19, <2>1, <2>2, <2>3 DEF Books, BookType, FiniteBooks
<1>22. PinsMatchHolders' /\ CreditSpent'
  BY <1>1, <1>8 DEF Books, PinsMatchHolders, HoldersOf, CreditSpent
<1>23. Books'
  BY <1>12, <1>13, <1>14, <1>15, <1>20, <1>21, <1>22 DEF Books
<1>24. Calls'
  BY <1>1, <1>8, NotifyLemma DEF PublishLoaded
<1> QED
  BY <1>23, <1>24, HalvesNext

\* A failed publication: the span's frames have their owner as only holder, so
\* giving the pin back frees them and exposes them to nobody.
LEMMA PublishFailedLemma ==
  ASSUME IInv, NEW t \in Threads, NEW a \in Access, NEW n \in Nat, NEW q \in [1..n -> pending],
         PublishFailed(t, q, a)
  PROVE  IInv'
<1>1. Books /\ Calls
  BY Halves
<1> DEFINE P == PagesOf(q)
           F == FramesOf(q)
<1>2. IsSpan(q, t, a)
  BY DEF PublishFailed
<1>3. /\ DOMAIN q = 1..n
      /\ \A i \in 1..n : /\ q[i] \in pending /\ q[i] \in held
                         /\ q[i].page \in Pages /\ q[i].frame \in Frames
                         /\ q[i].frame # NoFrame
                         /\ loading[q[i].page] = q[i].frame
                         /\ resident[q[i].page] = NoFrame
      /\ \A i, j \in 1..n : q[i].page = q[j].page => i = j
      /\ \A p \in Pages, i \in 1..n : loading[p] = q[i].frame => p = q[i].page
      /\ \A p \in Pages, i \in 1..n : resident[p] # q[i].frame
      /\ \A x \in pending : x.page \in P => x \in Entries(q)
  BY <1>1, <1>2, SpanLemma
<1>4. /\ \A p : p \in P <=> \E i \in 1..n : p = q[i].page
      /\ \A f : f \in F <=> \E i \in 1..n : f = q[i].frame
      /\ \A x : x \in Entries(q) <=> \E i \in 1..n : x = q[i]
  BY <1>3 DEF PagesOf, FramesOf, Entries
<1>5. /\ P \subseteq Pages /\ F \subseteq Frames
      /\ \A p \in P : loading[p] # NoFrame /\ loading[p] \in F
      /\ \A p \in Pages : loading[p] \in F => p \in P
      /\ \A p \in Pages : resident[p] \notin F
  BY <1>3, <1>4
<1> HIDE DEF P, F
<1>6. /\ \A p \in Pages : loading'[p] = IF p \in P THEN NoFrame ELSE loading[p]
      /\ \A f \in Frames : pin'[f] = IF f \in F THEN pin[f] - 1 ELSE pin[f]
      /\ free' = free \cup F
      /\ held' = held \ Entries(q) /\ pending' = pending \ Entries(q)
      /\ UNCHANGED <<frames, resident, unused, lru, unusedCount, credit, content, mutex, todo,
                     mode, evictedSinceUse>>
  BY DEF PublishFailed, P, F
<1>7. IsFiniteSet(held')
  BY <1>1, <1>6, FS_Difference DEF Books, FiniteBooks
<1>8. \A f \in Frames : IsFiniteSet(HoldersOf(f)) /\ pin[f] = Cardinality(HoldersOf(f))
  BY <1>1, FS_Subset DEF Books, FiniteBooks, PinsMatchHolders, HoldersOf
<1>9. ASSUME NEW f \in F
      PROVE  pin[f] = 1 /\ HoldersOf(f)' = {}
  <2>1. PICK i \in 1..n : f = q[i].frame
    BY <1>4
  <2>2. HoldersOf(f) = {q[i]}
    <3>1. ASSUME NEW x \in held, x.frame = f
          PROVE  x = q[i]
      <4>1. x.page \in Pages /\ (resident[x.page] = f \/ loading[x.page] = f)
        BY <1>1, <3>1, HoldersAreMapped
      <4>2. loading[x.page] = f /\ resident[x.page] # f
        BY <1>3, <2>1, <4>1
      <4>3. x \in pending
        BY <1>1, <3>1, <4>2 DEF Books, ReservedPageStays
      <4>4. x.page = q[i].page
        BY <1>3, <2>1, <4>1, <4>2
      <4> QED
        BY <1>1, <1>3, <4>3, <4>4 DEF Books, OneLoaderPerPage
    <3> QED
      BY <1>3, <2>1, <3>1 DEF HoldersOf
  <2>3. pin[f] = 1
    BY <1>5, <1>8, <2>2, FS_Singleton
  <2>4. HoldersOf(f)' = {}
    BY <1>4, <1>6, <2>2 DEF HoldersOf
  <2> QED
    BY <2>3, <2>4
<1>10. ASSUME NEW f \in Frames \ F
       PROVE  HoldersOf(f)' = HoldersOf(f)
  BY <1>4, <1>6 DEF HoldersOf
<1>11. pin' \in [Frames -> Nat] /\ PinsMatchHolders'
  <2>1. \A f \in Frames : pin'[f] \in Nat /\ pin'[f] = Cardinality(HoldersOf(f)')
    <3> SUFFICES ASSUME NEW f \in Frames
                 PROVE  pin'[f] \in Nat /\ pin'[f] = Cardinality(HoldersOf(f)')
      OBVIOUS
    <3>1. CASE f \in F
      <4>1. pin'[f] = 0
        BY <1>6, <1>9, <3>1
      <4>2. HoldersOf(f)' = {}
        BY <1>9, <3>1
      <4>3. Cardinality({}) = 0
        BY FS_EmptySet
      <4> HIDE DEF F
      <4>4. Cardinality(HoldersOf(f)') = 0
        BY <4>2, <4>3
      <4> QED
        BY <4>1, <4>4
    <3>2. CASE f \notin F
      BY <1>1, <1>6, <1>8, <1>10, <3>2 DEF Books, BookType
    <3> QED
      BY <3>1, <3>2
  <2>2. pin' = [f \in Frames |-> pin'[f]]
    BY DEF PublishFailed
  <2> QED
    BY <2>1, <2>2 DEF PinsMatchHolders
<1>12. FramesHaveOneUse'
  <2>1. \A p \in Pages : resident'[p] = NoFrame \/ loading'[p] = NoFrame
    BY <1>1, <1>6 DEF Books, FramesHaveOneUse
  <2>2. \A p, o \in Pages :
          p # o => /\ resident'[p] = NoFrame \/ resident'[p] # resident'[o]
                   /\ loading'[p] = NoFrame \/ loading'[p] # loading'[o]
                   /\ resident'[p] = NoFrame \/ resident'[p] # loading'[o]
    BY <1>1, <1>6 DEF Books, FramesHaveOneUse
  <2>3. InFlight' = InFlight \ P /\ ResidentPages' = ResidentPages /\ P \subseteq InFlight
    BY <1>5, <1>6 DEF InFlight, ResidentPages
  <2>4. F \cup {loading'[p] : p \in InFlight'} = {loading[p] : p \in InFlight}
    <3>1. \A p \in InFlight \ P : loading'[p] = loading[p]
      BY <1>6 DEF InFlight
    <3>2. \A f \in F : \E p \in InFlight : f = loading[p]
      BY <1>3, <1>4 DEF InFlight
    <3>3. \A p \in InFlight : p \in P => loading[p] \in F
      BY <1>5
    <3> QED
      BY <2>3, <3>1, <3>2, <3>3
  <2>5. frames' = free' \cup {resident'[p] : p \in ResidentPages'} \cup {loading'[p] : p \in InFlight'}
    <3>1. frames = free \cup {resident[p] : p \in ResidentPages} \cup {loading[p] : p \in InFlight}
      BY <1>1 DEF Books, FramesHaveOneUse
    <3> QED
      BY <1>6, <2>3, <2>4, <3>1
  <2>6. \A p \in Pages : resident'[p] \notin free' /\ loading'[p] \notin free'
    <3>1. NoFrame \notin free /\ NoFrame \notin F
      BY <1>1, <1>5, NoneAssumption DEF Books, BookType
    <3> QED
      BY <1>1, <1>5, <1>6, <3>1 DEF Books, FramesHaveOneUse
  <2> QED
    BY <2>1, <2>2, <2>5, <2>6 DEF FramesHaveOneUse
<1>13. ReservedPageStays' /\ ResidentBytes' /\ LruMatchesResidents' /\ CreditSpent'
  BY <1>1, <1>6 DEF Books, ReservedPageStays, ResidentBytes, LruMatchesResidents, CreditSpent,
                    ResidentPages, UnusedPages
<1>14. OneLoaderPerPage'
  <2>1. \A x \in pending' : x \in pending /\ x.page \in Pages /\ x.page \notin P
    BY <1>1, <1>3, <1>6 DEF Books, BookType, Reservation, P
  <2>2. \A x \in pending' : loading'[x.page] = x.frame
    BY <1>1, <1>6, <2>1 DEF Books, OneLoaderPerPage
  <2>3. \A p \in InFlight' : \E x \in pending' : x.page = p
    <3> SUFFICES ASSUME NEW p \in Pages, loading'[p] # NoFrame
                 PROVE  \E x \in pending' : x.page = p
      BY DEF InFlight
    <3>1. p \notin P /\ loading[p] # NoFrame
      BY <1>6
    <3>2. PICK x \in pending : x.page = p
      BY <1>1, <3>1 DEF Books, OneLoaderPerPage, InFlight
    <3>3. x \notin Entries(q)
      BY <1>4, <3>1, <3>2
    <3> QED
      BY <1>6, <3>2, <3>3
  <2>4. \A x, y \in pending' : x.page = y.page => x = y
    BY <1>1, <2>1 DEF Books, OneLoaderPerPage
  <2> QED
    BY <2>2, <2>3, <2>4 DEF OneLoaderPerPage
<1>15. BookType' /\ FiniteBooks'
  <2>1. loading' \in [Pages -> Frames \cup {NoFrame}]
    BY <1>1 DEF PublishFailed, Books, BookType
  <2>2. chunkState' \in [Frames -> {"free", "resident"}]
    BY <1>1 DEF PublishFailed, Books, BookType
  <2>3. free' \subseteq frames'
    <3>1. F \subseteq frames
      BY <1>1, <1>3, <1>4 DEF Books, FramesHaveOneUse, InFlight
    <3> QED
      BY <1>1, <1>6, <3>1 DEF Books, BookType
  <2>4. held' \subseteq Reservation /\ pending' \subseteq held'
    BY <1>1, <1>6 DEF Books, BookType
  <2>5. UnusedPages' = UnusedPages
    BY <1>6 DEF UnusedPages
  <2> QED
    BY <1>1, <1>6, <1>7, <1>11, <2>1, <2>2, <2>3, <2>4, <2>5 DEF Books, BookType, FiniteBooks
<1>16. Books'
  BY <1>11, <1>12, <1>13, <1>14, <1>15 DEF Books
<1>17. Calls'
  BY <1>1, <1>6, NotifyLemma DEF PublishFailed
<1> QED
  BY <1>16, <1>17, HalvesNext

\* Releasing a set of reservations takes one pin per reservation.
LEMMA ReleaseLemma ==
  ASSUME IInv, NEW t \in Threads, NEW R \in SUBSET held, Release(t, R)
  PROVE  IInv'
<1>1. Books /\ Calls
  BY Halves
<1>2. /\ held' = held \ R /\ \A r \in R : r \notin pending
      /\ pin' = [f \in Frames |-> pin[f] - Cardinality({r \in R : r.frame = f})]
      /\ UNCHANGED <<frames, free, resident, unused, loading, lru, unusedCount, credit,
                     chunkState, content, mutex, status, todo, mode, pending, evictedSinceUse>>
  BY DEF Release, PinsAfter, callVars
<1>3. IsFiniteSet(held')
  BY <1>1, <1>2, FS_Difference DEF Books, FiniteBooks
<1>4. \A f \in Frames : pin'[f] \in Nat /\ pin'[f] = Cardinality(HoldersOf(f)')
  <2> SUFFICES ASSUME NEW f \in Frames
               PROVE  pin'[f] \in Nat /\ pin'[f] = Cardinality(HoldersOf(f)')
    OBVIOUS
  <2> DEFINE H == HoldersOf(f)
             G == {r \in R : r.frame = f}
  <2>1. IsFiniteSet(H) /\ pin[f] = Cardinality(H)
    BY <1>1, FS_Subset DEF Books, FiniteBooks, PinsMatchHolders, HoldersOf
  <2>2. H \cap G = G /\ HoldersOf(f)' = H \ G
    BY <1>2 DEF HoldersOf
  <2> HIDE DEF H, G
  <2>3. IsFiniteSet(H \ G) /\ Cardinality(H \ G) = Cardinality(H) - Cardinality(H \cap G)
    BY <2>1, FS_Difference
  <2>4. Cardinality(H \ G) \in Nat
    BY <2>3, FS_CardinalityType
  <2>5. pin'[f] = pin[f] - Cardinality(G)
    BY <1>2 DEF G
  <2> QED
    BY <2>1, <2>2, <2>3, <2>4, <2>5
<1>5. pin' \in [Frames -> Nat] /\ PinsMatchHolders'
  BY <1>2, <1>4 DEF PinsMatchHolders
<1>6. BookType' /\ FiniteBooks'
  BY <1>1, <1>2, <1>3, <1>5 DEF Books, BookType, FiniteBooks, UnusedPages
<1>7. Books'
  BY <1>1, <1>2, <1>5, <1>6 DEF Books, FramesHaveOneUse, ReservedPageStays, ResidentBytes,
     OneLoaderPerPage, LruMatchesResidents, CreditSpent, ResidentPages, UnusedPages, InFlight
<1>8. Calls'
  BY <1>1, <1>2 DEF Calls, CallType, CallsHavePages, SleepersHaveLoads
<1> QED
  BY <1>7, <1>8, HalvesNext

-----------------------------------------------------------------------------
(***************************************************************************)
(* clear and reset_capacity run only when nobody holds anything.           *)
(***************************************************************************)
LEMMA NobodyHolds ==
  ASSUME Books, InFlight = {}, PinnedPages = {}
  PROVE  held = {} /\ pending = {}
<1> SUFFICES ASSUME NEW x \in held
             PROVE  FALSE
  BY DEF Books, BookType
<1>1. x.page \in Pages /\ x.frame \in Frames /\ resident[x.page] = x.frame
  BY HoldersAreMapped, NoneAssumption DEF InFlight
<1>2. x.page \in ResidentPages
  BY <1>1, NoneAssumption DEF ResidentPages
<1>3. pin[x.frame] = 0
  BY <1>1, <1>2 DEF PinnedPages
<1>4. IsFiniteSet(HoldersOf(x.frame)) /\ Cardinality(HoldersOf(x.frame)) = 0
  BY <1>1, <1>3, FS_Subset DEF Books, FiniteBooks, PinsMatchHolders, HoldersOf
<1>5. HoldersOf(x.frame) = {}
  BY <1>4, FS_EmptySet
<1> QED
  BY <1>5 DEF HoldersOf

\* An emptied pool satisfies the invariant whatever its frames contain.
LEMMA EmptyLemma ==
  ASSUME Books, Calls, InFlight = {}, held = {}, pending = {},
         NEW F \in SUBSET Frames, Empty(F),
         pin' \in [Frames -> Nat], \A f \in Frames : pin'[f] = 0,
         chunkState' \in [Frames -> {"free", "resident"}],
         content' \in [Frames -> Pages \cup {NoPage}]
  PROVE  Books' /\ Calls'
<1>1. /\ frames' = F /\ free' = F /\ lru' = <<>> /\ unusedCount' = 0 /\ credit' = TRUE
      /\ evictedSinceUse' = 0 /\ held' = {} /\ pending' = {} /\ loading' = loading
      /\ UNCHANGED callVars
      /\ \A p \in Pages : resident'[p] = NoFrame /\ unused'[p] = FALSE
      /\ resident' \in [Pages -> Frames \cup {NoFrame}] /\ unused' \in [Pages -> BOOLEAN]
  BY DEF Empty
<1>2. \A p \in Pages : loading'[p] = NoFrame
  BY <1>1 DEF InFlight
<1>3. UnusedPages' = {} /\ ResidentPages' = {} /\ InFlight' = {} /\ \A f : HoldersOf(f)' = {}
  BY <1>1, <1>2 DEF UnusedPages, ResidentPages, InFlight, HoldersOf
<1>4. IsFiniteSet({}) /\ Cardinality({}) = 0
  BY FS_EmptySet
<1>5. BookType'
  BY <1>1 DEF Books, BookType
<1>6. FiniteBooks' /\ PinsMatchHolders' /\ ReservedPageStays' /\ ResidentBytes'
  BY <1>1, <1>3, <1>4 DEF FiniteBooks, PinsMatchHolders, ReservedPageStays, ResidentBytes
<1>7. FramesHaveOneUse'
  BY <1>1, <1>2, <1>3, NoneAssumption DEF FramesHaveOneUse
<1>8. OneLoaderPerPage' /\ LruMatchesResidents' /\ CreditSpent'
  BY <1>1, <1>3, <1>4 DEF OneLoaderPerPage, LruMatchesResidents, CreditSpent
<1>9. Calls'
  BY <1>1 DEF Calls, CallType, CallsHavePages, SleepersHaveLoads, callVars
<1> QED
  BY <1>5, <1>6, <1>7, <1>8, <1>9 DEF Books

\* clear frees every frame when nobody holds one.
LEMMA ClearLemma ==
  ASSUME IInv, Clear
  PROVE  IInv'
<1>1. Books /\ Calls /\ InFlight = {} /\ PinnedPages = {}
  BY Halves DEF Clear
<1>2. held = {} /\ pending = {}
  BY <1>1, NobodyHolds
<1>3. PICK F \in SUBSET Frames : F = frames
  BY <1>1 DEF Books, BookType
<1>4. Empty(F) /\ pin' = pin /\ content' = content
  BY <1>3 DEF Clear
<1>5. \A f \in Frames : pin'[f] = 0
  BY <1>1, <1>2, <1>4, FS_EmptySet DEF Books, PinsMatchHolders, HoldersOf
<1>6. chunkState' \in [Frames -> {"free", "resident"}]
  BY <1>1 DEF Clear, Books, BookType
<1>7. pin' \in [Frames -> Nat] /\ content' \in [Frames -> Pages \cup {NoPage}]
  BY <1>1, <1>4 DEF Books, BookType
<1> QED
  BY <1>1, <1>2, <1>4, <1>5, <1>6, <1>7, EmptyLemma, HalvesNext

\* reset_capacity replaces the frames when nobody holds one.
LEMMA ResetCapacityLemma ==
  ASSUME IInv, NEW F \in SUBSET Frames, ResetCapacity(F)
  PROVE  IInv'
<1>1. Books /\ Calls /\ InFlight = {} /\ PinnedPages = {}
  BY Halves DEF ResetCapacity
<1>2. held = {} /\ pending = {}
  BY <1>1, NobodyHolds
<1>3. /\ Empty(F) /\ \A f \in Frames : pin'[f] = 0
      /\ pin' \in [Frames -> Nat]
      /\ chunkState' \in [Frames -> {"free", "resident"}]
      /\ content' \in [Frames -> Pages \cup {NoPage}]
  BY DEF ResetCapacity
<1> QED
  BY <1>1, <1>2, <1>3, EmptyLemma, HalvesNext

\* A clear that throws half way leaves only chunk states behind.
LEMMA ClearThrowsLemma ==
  ASSUME IInv, NEW visited \in SUBSET Pages, ClearThrows(visited)
  PROVE  IInv'
<1>1. Books /\ Calls
  BY Halves
<1>2. chunkState' \in [Frames -> {"free", "resident"}]
  BY <1>1 DEF ClearThrows, Books, BookType
<1>3. UNCHANGED <<frames, free, resident, unused, loading, lru, unusedCount, credit, pin,
                  content, callVars, held, pending, evictedSinceUse>>
  BY DEF ClearThrows
<1>4. Books'
  BY <1>1, <1>2, <1>3
     DEF Books, BookType, FiniteBooks, FramesHaveOneUse, PinsMatchHolders, ReservedPageStays,
         ResidentBytes, OneLoaderPerPage, LruMatchesResidents, CreditSpent,
         ResidentPages, UnusedPages, InFlight, HoldersOf
<1>5. Calls'
  BY <1>1, <1>3 DEF Calls, CallType, CallsHavePages, SleepersHaveLoads, callVars
<1> QED
  BY <1>4, <1>5, HalvesNext

-----------------------------------------------------------------------------
\* The constructor's pool satisfies the invariant.
LEMMA InitLemma == Init => IInv
<1> SUFFICES ASSUME Init
             PROVE  IInv
  OBVIOUS
<1>1. /\ UnusedPages = {} /\ ResidentPages = {} /\ InFlight = {}
      /\ \A f : HoldersOf(f) = {}
  BY DEF Init, UnusedPages, ResidentPages, InFlight, HoldersOf
<1>2. IsFiniteSet({}) /\ Cardinality({}) = 0
  BY FS_EmptySet
<1>3. TypeOK
  BY DEF Init, TypeOK, IdleMode, Mode, Access
<1>4. FiniteBooks /\ PinsMatchHolders /\ ReservedPageStays /\ ResidentBytes
  BY <1>1, <1>2 DEF Init, FiniteBooks, PinsMatchHolders, ReservedPageStays, ResidentBytes
<1>5. FramesHaveOneUse
  BY <1>1, NoneAssumption DEF Init, FramesHaveOneUse
<1>6. OneLoaderPerPage /\ LruMatchesResidents /\ CreditSpent
  BY <1>1, <1>2 DEF Init, OneLoaderPerPage, LruMatchesResidents, CreditSpent
<1>7. CallsHavePages /\ SleepersHaveLoads
  BY DEF Init, CallsHavePages, SleepersHaveLoads
<1> QED
  BY <1>3, <1>4, <1>5, <1>6, <1>7 DEF IInv

\* The invariant is inductive.
LEMMA NextLemma == IInv /\ [Next]_vars => IInv'
<1> SUFFICES ASSUME IInv, [Next]_vars
             PROVE  IInv'
  OBVIOUS
<1>1. CASE UNCHANGED vars
  <2>1. Books /\ Calls
    BY Halves
  <2>2. Books'
    BY <1>1, <2>1, BooksUnchanged DEF vars
  <2>3. Calls'
    BY <1>1, <2>1 DEF vars, poolVars, callVars, Calls, CallType, CallsHavePages, SleepersHaveLoads
  <2> QED
    BY <2>2, <2>3, HalvesNext
<1>2. CASE DriverStep
  BY <1>2, ClearLemma, ClearThrowsLemma, ResetCapacityLemma DEF DriverStep
<1>3. ASSUME NEW t \in Threads, ThreadStep(t)
      PROVE  IInv'
  <2>1. ASSUME NEW ps \in Batches, NEW a \in AccessUsed, NEW w \in BOOLEAN,
               BeginReserve(t, ps, [access |-> a, wait |-> w])
        PROVE  IInv'
    <3>1. ps \in Seq(Pages)
      BY BoundAssumption DEF Batches
    <3>2. PICK m \in Mode : m = [access |-> a, wait |-> w]
      BY AccessAssumption DEF Mode, Access
    <3>3. BeginReserve(t, ps, m)
      BY <2>1, <3>2
    <3> QED
      BY <3>1, <3>3, BeginReserveLemma
  <2>2. CASE ReserveStep(t)
    BY <2>2, ReserveHitLemma, ReserveWaitLemma, ReserveBypassLemma, ReserveFreeLemma,
       ReserveEvictLemma DEF ReserveStep
  <2>3. ASSUME NEW p \in Pages, TryReserveHit(t, p)
        PROVE  IInv'
    BY <2>3, TryReserveHitLemma
  <2>4. ASSUME NEW q \in Spans, NEW a \in Access, PublishLoaded(t, q, a) \/ PublishFailed(t, q, a)
        PROVE  IInv'
    <3>1. PICK n \in Nat : q \in [1..n -> pending]
      BY BoundAssumption DEF Spans
    <3> QED
      BY <2>4, <3>1, PublishLoadedLemma, PublishFailedLemma
  <2>5. ASSUME NEW R \in SUBSET held, Release(t, R)
        PROVE  IInv'
    BY <2>5, ReleaseLemma
  <2> QED
    BY <1>3, <2>1, <2>2, <2>3, <2>4, <2>5 DEF ThreadStep, Publish
<1> QED
  BY <1>1, <1>2, <1>3 DEF Next

\* The inductive invariant holds in every reachable state of the pool, for any
\* threads, pages, frames and bounds.
THEOREM Invariance == Spec => []IInv
<1>1. Init => IInv
  BY InitLemma
<1>2. IInv /\ [Next]_vars => IInv'
  BY NextLemma
<1> QED
  BY <1>1, <1>2, PTL DEF Spec

\* Type correctness of the pool.
THEOREM TypeCorrect == Spec => []TypeOK
<1>1. IInv => TypeOK
  BY DEF IInv
<1> QED
  BY <1>1, Invariance, PTL

\* Every frame of the pool has exactly one use, in every reachable state.
THEOREM FrameOwnership == Spec => []FramesHaveOneUse
<1>1. IInv => FramesHaveOneUse
  BY DEF IInv
<1> QED
  BY <1>1, Invariance, PTL

\* Pin counts are exactly the outstanding reservations: release never underflows.
THEOREM PinAccounting == Spec => []PinsMatchHolders
<1>1. IInv => PinsMatchHolders
  BY DEF IInv
<1> QED
  BY <1>1, Invariance, PTL

\* Pinned-frame safety: what a caller was given stays mapped and keeps its bytes.
THEOREM PinnedFrameSafety == Spec => []ReservedPageStays
<1>1. IInv => ReservedPageStays
  BY DEF IInv
<1> QED
  BY <1>1, Invariance, PTL

\* Miss coalescing: one loader per page in flight, and publication always finds
\* the load it publishes.
THEOREM MissCoalescing == Spec => []OneLoaderPerPage
<1>1. IInv => OneLoaderPerPage
  BY DEF IInv
<1> QED
  BY <1>1, Invariance, PTL

\* The replacement list and the unused-prefetch counter agree with the table.
THEOREM LruAccounting == Spec => []LruMatchesResidents
<1>1. IInv => LruMatchesResidents
  BY DEF IInv
<1> QED
  BY <1>1, Invariance, PTL

\* No sleeper misses the end of the load it waits for.
THEOREM NoLostWakeup == Spec => []SleepersHaveLoads
<1>1. IInv => SleepersHaveLoads
  BY DEF IInv
<1> QED
  BY <1>1, Invariance, PTL

\* Ordinary prefetching replaces at most one demand page per use of a prefetch.
THEOREM AdmissionCredit == Spec => []PrefetchEvictionBounded
<1>1. IInv => PrefetchEvictionBounded
  BY DEF IInv, CreditSpent, PrefetchEvictionBounded
<1> QED
  BY <1>1, Invariance, PTL

-----------------------------------------------------------------------------
(***************************************************************************)
(* The queries.                                                            *)
(***************************************************************************)

(***************************************************************************)
(* The inductive invariant.  A query keeps its reservations in got (the    *)
(* running read) and kept (the prefetch); QueryBooks says that these lists *)
(* are the reservations the cache has handed out, until the query throws.  *)
(***************************************************************************)
Granted == [page : Pages, buf : Frames, kind : {"HIT", "LOAD"}, res : Reservation]
ScratchReads == [page : Pages, buf : Threads \X Nat, kind : {"BYPASS"}]
Entry == Granted \cup ScratchReads

QueryTypes ==
  /\ opt \in Options
  /\ pc \in [Threads -> {"search", "reserve", "reading", "score", "completing", "refining",
                         "done", "thrown"}]
  /\ phase \in [Threads -> {"frontier", "prefetch", "refine"}]
  /\ attempted \in [Threads -> BOOLEAN]
  /\ submitted \in [Threads -> BOOLEAN]
  /\ wanted \in [Threads -> Seq(Pages)]
  /\ got \in [Threads -> Seq(Entry)]
  /\ kept \in [Threads -> Seq(Entry)]

\* An entry of thread t that is no BYPASS describes a reservation t still holds.
Describes(t, e) ==
  e.kind # "BYPASS" =>
    /\ e.res \in held /\ e.res.owner = t /\ e.res.page = e.page /\ e.res.frame = e.buf
    /\ e.kind = "HIT" => e.res \notin pending

Listed(t, r) == \E e \in ToSet(got[t]) \cup ToSet(kept[t]) : e.kind # "BYPASS" /\ e.res = r

\* The prefetch and the running read share no reservation.
Apart(t) ==
  \A e \in ToSet(got[t]), x \in ToSet(kept[t]) :
    e.kind # "BYPASS" /\ x.kind # "BYPASS" => e.res # x.res

\* Where a query is, and which of its lists are empty there.
QueryPlaces(t) ==
  /\ pc[t] # "reserve" => status[t] = "idle"
  /\ status[t] = "idle" => todo[t] = <<>>
  /\ pc[t] \in {"search", "completing", "refining", "done"} => got[t] = <<>>
  /\ pc[t] = "done" => kept[t] = <<>>
  /\ ~attempted[t] => kept[t] = <<>> /\ phase[t] # "prefetch"
  /\ pc[t] = "reserve" /\ phase[t] = "prefetch" => kept[t] = <<>>
  /\ attempted[t] \/ submitted[t] \/ phase[t] = "prefetch" \/ pc[t] = "completing"
       => opt.cellPq /\ opt.prefetch
  /\ Len(got[t]) + (IF pc[t] = "reserve" THEN Len(todo[t]) + Len(wanted[t]) ELSE 0) <= MaxBatch

BooksOf(t) ==
  /\ QueryPlaces(t)
  /\ pc[t] # "thrown" =>
       /\ \A e \in ToSet(got[t]) \cup ToSet(kept[t]) : Describes(t, e)
       /\ \A r \in held : r.owner = t => Listed(t, r)
       /\ Apart(t)

QueryBooks == \A t \in Threads : BooksOf(t)

QInv == IInv /\ QueryTypes /\ QueryBooks

(***************************************************************************)
(* Where the bytes are, for a kernel that does a batch or refuses it whole *)
(* and without a prefetch: reads are in flight only while read() waits for *)
(* them, every read that is no longer in flight has moved its pages, and a *)
(* resident page's frame holds its bytes.                                  *)
(***************************************************************************)
Plain == Reliable /\ ~opt.prefetch

Ops == [tag : {"sync"}, to : UNION {[P -> Buffers] : P \in SUBSET Pages}]

KernelTypes ==
  /\ expected \in [Threads -> Nat]
  /\ inflight \in [Threads -> SUBSET Ops]
  /\ events \in [Threads -> Seq([tag : {"sync"}, ok : BOOLEAN])]
  /\ bytes \in [Buffers -> Pages \cup {NoPage}]

\* Scratch pages are handed out in order, so no two entries share one.
OwnScratch(t) ==
  \A i \in DOMAIN got[t] : got[t][i].kind = "BYPASS" =>
    got[t][i].buf = <<t, Cardinality({j \in Bypassed(got[t]) : j < i})>>

LoadsUnpublished(t) ==
  \A e \in ToSet(got[t]) : e.kind = "LOAD" => e.res \in pending

Moved(op) == \A p \in DOMAIN op.to : bytes[op.to[p]] = p

Reading(t) ==
  /\ inflight[t] \subseteq Requests(t, "sync")
  /\ Cardinality(inflight[t]) + Len(events[t]) = expected[t]
  /\ \A op \in Requests(t, "sync") \ inflight[t] : Moved(op)

KernelQuiet(t) == inflight[t] = {} /\ events[t] = <<>>

HasBytes(t) == \A e \in ToSet(got[t]) : bytes[e.buf] = e.page

ResidentPagesRead == \A p \in ResidentPages : bytes[resident[p]] = p

BytesOf(t) ==
  /\ OwnScratch(t)
  /\ pc[t] \in {"reserve", "reading"} => LoadsUnpublished(t)
  /\ pc[t] = "reading" => Reading(t)
  /\ pc[t] # "reading" => KernelQuiet(t)
  /\ pc[t] = "score" => HasBytes(t)

QueryBytes == KernelTypes /\ ResidentPagesRead /\ \A t \in Threads : BytesOf(t)

ByteInv == Plain => QueryBytes

-----------------------------------------------------------------------------
(***************************************************************************)
(* Lists of entries.                                                       *)
(***************************************************************************)
LEMMA AppendEntries ==
  ASSUME NEW s \in Seq(Entry), NEW e \in Entry
  PROVE  /\ Append(s, e) \in Seq(Entry) /\ Len(Append(s, e)) = Len(s) + 1
         /\ ToSet(Append(s, e)) = ToSet(s) \cup {e}
<1>1. /\ Append(s, e) \in Seq(Entry) /\ Len(Append(s, e)) = Len(s) + 1 /\ Len(s) \in Nat
      /\ DOMAIN s = 1..Len(s) /\ DOMAIN Append(s, e) = 1..(Len(s) + 1)
      /\ \A i \in 1..Len(s) : Append(s, e)[i] = s[i]
      /\ Append(s, e)[Len(s) + 1] = e
  OBVIOUS
<1> QED
  BY <1>1 DEF ToSet

\* The empty list has no entries.
LEMMA NoEntries == ToSet(<<>>) = {} /\ <<>> \in Seq(Entry) /\ Len(<<>>) = 0
BY DEF ToSet

\* A list has at most as many entries of a kind as it has entries.
LEMMA PlacesFinite ==
  ASSUME NEW s \in Seq(Entry), NEW kind
  PROVE  /\ IsFiniteSet(Places(s, kind)) /\ Cardinality(Places(s, kind)) \in Nat
         /\ Cardinality(Places(s, kind)) <= Len(s)
<1>1. Places(s, kind) \subseteq 1..Len(s) /\ Len(s) \in Nat
  BY DEF Places
<1>2. IsFiniteSet(1..Len(s)) /\ Cardinality(1..Len(s)) = Len(s)
  <2>1. PICK n \in Nat : n = Len(s)
    BY <1>1
  <2>2. IsFiniteSet(1..n) /\ Cardinality(1..n) = IF 1 > n THEN 0 ELSE n - 1 + 1
    BY FS_Interval
  <2> QED
    BY <2>1, <2>2
<1> QED
  BY <1>1, <1>2, FS_Subset, FS_CardinalityType

\* The members of a list are entries.
LEMMA EntriesTyped ==
  ASSUME NEW s \in Seq(Entry), NEW e \in ToSet(s)
  PROVE  e \in Entry
BY DEF ToSet

-----------------------------------------------------------------------------
(***************************************************************************)
(* A step of one query leaves the lists, the reservations and the call of  *)
(* every other query alone.                                                *)
(***************************************************************************)
Local(u) ==
  /\ UNCHANGED opt
  /\ \A r \in Reservation : r.owner # u => (r \in held' <=> r \in held) /\ (r \in pending' <=> r \in pending)
  /\ \A t \in Threads \ {u} :
       /\ todo'[t] = todo[t] /\ (status'[t] = "idle" <=> status[t] = "idle")
       /\ pc'[t] = pc[t] /\ phase'[t] = phase[t] /\ wanted'[t] = wanted[t]
       /\ attempted'[t] = attempted[t] /\ submitted'[t] = submitted[t]
       /\ got'[t] = got[t] /\ kept'[t] = kept[t]

\* The books of a query survive the steps of another.
LEMMA OthersBooks ==
  ASSUME QInv, IInv', NEW u \in Threads, Local(u), NEW t \in Threads, t # u
  PROVE  BooksOf(t)'
<1>1. BooksOf(t)
  BY DEF QInv, QueryBooks
<1>2. QueryPlaces(t)'
  BY <1>1 DEF Local, BooksOf, QueryPlaces
<1>3. held \subseteq Reservation /\ held' \subseteq Reservation
  BY DEF QInv, IInv, TypeOK
<1>4. ASSUME pc'[t] # "thrown"
      PROVE  /\ \A e \in ToSet(got'[t]) \cup ToSet(kept'[t]) : Describes(t, e)'
             /\ \A r \in held' : r.owner = t => Listed(t, r)'
             /\ Apart(t)'
  <2>1. /\ pc[t] # "thrown" /\ got'[t] = got[t] /\ kept'[t] = kept[t]
    BY <1>4 DEF Local
  <2>2. \A e \in ToSet(got[t]) \cup ToSet(kept[t]) : Describes(t, e)'
    BY <1>1, <1>3, <2>1 DEF BooksOf, Describes, Local
  <2>3. \A r \in held' : r.owner = t => r \in held
    BY <1>3 DEF Local
  <2>4. \A r \in held' : r.owner = t => Listed(t, r)'
    BY <1>1, <2>1, <2>3 DEF BooksOf, Listed
  <2>5. Apart(t)'
    BY <1>1, <2>1 DEF BooksOf, Apart
  <2> QED
    BY <2>1, <2>2, <2>4, <2>5
<1> QED
  BY <1>2, <1>4 DEF BooksOf

\* So a step only has to balance the books of its own query.
LEMMA BooksFromLocal ==
  ASSUME QInv, IInv', NEW u \in Threads, Local(u), QueryTypes', BooksOf(u)'
  PROVE  QInv'
BY OthersBooks DEF QInv, QueryBooks

-----------------------------------------------------------------------------
(***************************************************************************)
(* What the cache's steps do to reservations and calls.                    *)
(***************************************************************************)
\* A turn of reserve_locked that produced a reservation takes one page off the
\* call and leaves the other threads' calls alone.
LEMMA ReturnFacts ==
  ASSUME IInv, NEW u \in Threads, Ready(u), Return(u)
  PROVE  /\ todo[u] \in Seq(Pages) /\ todo[u] # <<>> /\ Head(todo[u]) \in Pages
         /\ status[u] # "idle"
         /\ todo'[u] \in Seq(Pages) /\ Len(todo'[u]) + 1 = Len(todo[u]) /\ Len(todo'[u]) \in Nat
         /\ status'[u] = "idle" <=> todo'[u] = <<>>
         /\ \A t \in Threads \ {u} : todo'[t] = todo[t] /\ status'[t] = status[t]
<1>1. /\ todo \in [Threads -> Seq(Pages)] /\ status \in [Threads -> {"idle", "calling", "waiting", "notified"}]
      /\ status[u] # "idle"
      /\ todo[u] # <<>>
  BY DEF IInv, TypeOK, CallsHavePages, Ready
<1>2. /\ todo' = [todo EXCEPT ![u] = Tail(todo[u])]
      /\ status' = [status EXCEPT ![u] = IF Tail(todo[u]) = <<>> THEN "idle" ELSE "calling"]
  BY DEF Return
<1>3. Tail(todo[u]) \in Seq(Pages) /\ Len(Tail(todo[u])) + 1 = Len(todo[u]) /\ Head(todo[u]) \in Pages
  BY <1>1
<1> QED
  BY <1>1, <1>2, <1>3

\* A reservation is new in the books of its owner; a LOAD has to be published.
LEMMA GiveFacts ==
  ASSUME NEW u \in Threads, NEW p \in Pages, NEW f \in Frames, NEW st \in {"HIT", "LOAD"},
         NEW a \in Access, Give(u, p, f, st, a)
  PROVE  \E r \in Reservation :
           /\ r \notin held /\ r.owner = u /\ r.page = p /\ r.frame = f /\ r.state = st
           /\ held' = held \cup {r}
           /\ pending' = IF st = "LOAD" THEN pending \cup {r} ELSE pending
<1>1. PICK s \in Slots :
        /\ LowestSlot(u, s)
        /\ held' = held \cup {[owner |-> u, slot |-> s, page |-> p, frame |-> f,
                               state |-> st, access |-> a]}
        /\ pending' = IF st = "LOAD"
                      THEN pending \cup {[owner |-> u, slot |-> s, page |-> p, frame |-> f,
                                          state |-> st, access |-> a]}
                      ELSE pending
  BY DEF Give
<1> DEFINE x == [owner |-> u, slot |-> s, page |-> p, frame |-> f, state |-> st, access |-> a]
<1>2. x \in Reservation
  BY DEF Reservation, Access
<1>3. x \notin held
  <2> SUFFICES ASSUME x \in held
               PROVE  FALSE
    OBVIOUS
  <2>1. x \in HeldBy(u)
    BY DEF HeldBy
  <2> QED
    BY <1>1, <2>1 DEF LowestSlot, FreeSlots
<1> QED
  BY <1>1, <1>2, <1>3

Takes(u) == ReserveHit(u) \/ ReserveFree(u) \/ ReserveEvict(u)

\* A turn of reserve that hits or loads adds one reservation of the caller.
LEMMA TakeFacts ==
  ASSUME IInv, NEW u \in Threads, Takes(u)
  PROVE  /\ IInv' /\ Ready(u) /\ Return(u)
         /\ \E r \in Reservation :
              /\ r \notin held /\ r.owner = u /\ r.page = Head(todo[u])
              /\ held' = held \cup {r}
              /\ pending' = IF r.state = "LOAD" THEN pending \cup {r} ELSE pending
<1>1. IInv'
  BY ReserveHitLemma, ReserveFreeLemma, ReserveEvictLemma DEF Takes
<1>2. Ready(u) /\ Return(u)
  BY DEF Takes, ReserveHit, ReserveFree, ReserveEvict
<1>3. Head(todo[u]) \in Pages
  BY <1>2, ReturnFacts
<1>4. mode[u].access \in Access
  BY DEF IInv, TypeOK, Mode
<1>5. PICK f \in Frames, st \in {"HIT", "LOAD"} : Give(u, Head(todo[u]), f, st, mode[u].access)
  <2>1. CASE ReserveHit(u)
    <3>1. resident[Head(todo[u])] \in Frames
      BY <1>3, <2>1 DEF ReserveHit, PinHit, IInv, TypeOK
    <3> QED
      BY <2>1, <3>1 DEF ReserveHit, PinHit
  <2>2. CASE ReserveFree(u)
    BY <2>2 DEF ReserveFree, BeginLoad, IInv, TypeOK
  <2>3. CASE ReserveEvict(u)
    <3>1. PICK i \in VictimsFor(mode[u].access) :
            BeginLoad(u, Head(todo[u]), resident[lru[i]], mode[u].access)
      BY <2>3 DEF ReserveEvict
    <3>2. i \in DOMAIN lru /\ lru \in Seq(Pages)
      BY DEF VictimsFor, Victims, IInv, TypeOK
    <3>3. lru[i] \in ResidentPages
      BY <3>2 DEF IInv, LruMatchesResidents
    <3>4. resident[lru[i]] \in Frames
      BY <3>3 DEF ResidentPages, IInv, TypeOK
    <3> QED
      BY <3>1, <3>4 DEF BeginLoad
  <2> QED
    BY <2>1, <2>2, <2>3 DEF Takes
<1>6. PICK r \in Reservation :
        /\ r \notin held /\ r.owner = u /\ r.page = Head(todo[u]) /\ r.state = st
        /\ held' = held \cup {r}
        /\ pending' = IF st = "LOAD" THEN pending \cup {r} ELSE pending
  BY <1>3, <1>4, <1>5, GiveFacts
<1> QED
  BY <1>1, <1>2, <1>6

-----------------------------------------------------------------------------
(***************************************************************************)
(* The queries' steps, one lemma each.  Idle(u) is a step that leaves the  *)
(* cache alone.                                                            *)
(***************************************************************************)
LEMMA PoolUntouched ==
  ASSUME IInv, UNCHANGED vars
  PROVE  /\ IInv'
         /\ UNCHANGED <<held, pending, status, todo>>
BY NextLemma DEF vars, poolVars, callVars

\* The pages a round asks for fit one batch.
LEMMA ListsArePages ==
  ASSUME NEW ps \in PageLists \cup {<<>>}
  PROVE  ps \in Seq(Pages) /\ Len(ps) <= MaxBatch
<1>1. CASE ps \in Batches
  <2>1. PICK n \in 1..MaxBatch : ps \in [1..n -> Pages]
    BY <1>1 DEF Batches
  <2> QED
    BY <2>1, BoundAssumption
<1>2. CASE ps = <<>>
  <2>1. ps \in Seq(Pages) /\ Len(ps) = 0
    BY <1>2
  <2> QED
    BY <2>1, BoundAssumption
<1>3. ps \in Batches \/ ps = <<>>
  BY DEF PageLists
<1> QED
  BY <1>1, <1>2, <1>3

\* Choosing the pages of a read starts with empty lists and nothing wanted.
LEMMA BeginBooks ==
  ASSUME QInv, NEW u \in Threads, UNCHANGED opt,
         BeginRound(u) \/ BeginPrefetch(u) \/ BeginRefine(u)
  PROVE  QInv' /\ Local(u)
<1>1. IInv' /\ UNCHANGED <<held, pending, status, todo>>
  BY PoolUntouched DEF QInv, BeginRound, BeginPrefetch, BeginRefine
<1>2. PICK ps \in PageLists \cup {<<>>} : wanted' = [wanted EXCEPT ![u] = ps]
  BY DEF BeginRound, BeginPrefetch, BeginRefine
<1>3. ps \in Seq(Pages) /\ Len(ps) <= MaxBatch /\ Len(ps) \in Nat
  BY ListsArePages
<1>4. QueryTypes
  BY DEF QInv
<1>5. /\ pc' = [pc EXCEPT ![u] = "reserve"] /\ UNCHANGED <<submitted, got, kept>>
      /\ pc[u] \in {"search", "refining"}
      /\ \E ph \in {"frontier", "prefetch", "refine"} :
           /\ phase' = [phase EXCEPT ![u] = ph]
           /\ \/ ph = "prefetch" /\ attempted' = [attempted EXCEPT ![u] = TRUE] /\ ~attempted[u]
                 /\ opt.cellPq /\ opt.prefetch
              \/ ph # "prefetch" /\ attempted' = attempted
  BY DEF BeginRound, BeginPrefetch, BeginRefine, Goto
<1>6. QueryTypes'
  BY <1>2, <1>3, <1>4, <1>5 DEF QueryTypes
<1>7. Local(u)
  BY <1>1, <1>2, <1>4, <1>5 DEF Local, QueryTypes
<1>8. BooksOf(u) /\ status[u] = "idle" /\ todo[u] = <<>> /\ got[u] = <<>>
  BY <1>5 DEF QInv, QueryBooks, BooksOf, QueryPlaces
<1>9. QueryPlaces(u)'
  BY <1>1, <1>2, <1>3, <1>4, <1>5, <1>8, NoEntries DEF QueryTypes, BooksOf, QueryPlaces
<1>10. BooksOf(u)'
  BY <1>1, <1>4, <1>5, <1>8, <1>9 DEF BooksOf, Describes, Listed, Apart, QueryTypes
<1> QED
  BY <1>1, <1>6, <1>7, <1>10, BooksFromLocal

\* The traversal is over: the query ends, completes its prefetch or refines.
LEMMA EndSearchBooks ==
  ASSUME QInv, NEW u \in Threads, UNCHANGED opt, EndSearch(u)
  PROVE  QInv' /\ Local(u)
<1>1. IInv' /\ UNCHANGED <<held, pending, status, todo>>
  BY PoolUntouched DEF QInv, EndSearch
<1>2. QueryTypes
  BY DEF QInv
<1>3. /\ pc[u] = "search"
      /\ \E place \in {"done", "completing", "refining"} :
           /\ pc' = [pc EXCEPT ![u] = place]
           /\ place = "done" => ~opt.cellPq
           /\ place = "completing" => submitted[u]
      /\ UNCHANGED <<phase, attempted, submitted, wanted, got, kept>>
  BY DEF EndSearch, Goto, AfterSearch
<1>4. QueryTypes'
  BY <1>2, <1>3 DEF QueryTypes
<1>5. Local(u)
  BY <1>1, <1>2, <1>3 DEF Local, QueryTypes
<1>6. BooksOf(u) /\ QueryPlaces(u)
  BY DEF QInv, QueryBooks, BooksOf
<1>7. QueryPlaces(u)'
  BY <1>1, <1>2, <1>3, <1>6 DEF QueryTypes, QueryPlaces
<1>8. BooksOf(u)'
  BY <1>1, <1>2, <1>3, <1>6, <1>7 DEF BooksOf, Describes, Listed, Apart, QueryTypes
<1> QED
  BY <1>1, <1>4, <1>5, <1>8, BooksFromLocal

\* Entering reserve or reserve_many: the wanted pages become the call's.
LEMMA CallReserveBooks ==
  ASSUME QInv, NEW u \in Threads, UNCHANGED opt, CallReserve(u)
  PROVE  QInv' /\ Local(u)
<1>1. QueryTypes /\ IInv /\ BooksOf(u) /\ QueryPlaces(u)
  BY DEF QInv, QueryBooks, BooksOf
<1>2. wanted[u] \in Seq(Pages) /\ wanted[u] # <<>> /\ pc[u] = "reserve"
  BY <1>1 DEF QueryTypes, CallReserve
<1>3. /\ Head(wanted[u]) \in Pages /\ Tail(wanted[u]) \in Seq(Pages)
      /\ Len(Tail(wanted[u])) + 1 = Len(wanted[u])
      /\ <<Head(wanted[u])>> \in Seq(Pages) /\ Len(<<Head(wanted[u])>>) = 1
  BY <1>2
<1>4. PICK ps \in Seq(Pages), m \in Mode, rest \in Seq(Pages) :
        /\ BeginReserve(u, ps, m)
        /\ wanted' = [wanted EXCEPT ![u] = rest]
        /\ Len(ps) + Len(rest) = Len(wanted[u])
  <2>1. CASE opt.cellPq
    <3>1. [access |-> "DEMAND", wait |-> TRUE] \in Mode
      BY DEF Mode, Access
    <3>2. <<>> \in Seq(Pages) /\ Len(wanted[u]) + Len(<<>>) = Len(wanted[u])
      BY <1>2
    <3> QED
      BY <1>2, <2>1, <3>1, <3>2 DEF CallReserve
  <2>2. CASE ~opt.cellPq
    <3>1. [access |-> "DEMAND", wait |-> FALSE] \in Mode
      BY DEF Mode, Access
    <3>2. /\ BeginReserve(u, <<Head(wanted[u])>>, [access |-> "DEMAND", wait |-> FALSE])
          /\ wanted' = [wanted EXCEPT ![u] = Tail(wanted[u])]
      BY <2>2 DEF CallReserve
    <3>3. Len(<<Head(wanted[u])>>) + Len(Tail(wanted[u])) = Len(wanted[u])
      BY <1>2, <1>3
    <3> QED
      BY <1>3, <3>1, <3>2, <3>3
  <2> QED
    BY <2>1, <2>2
<1>5. IInv'
  BY <1>1, <1>4, BeginReserveLemma
<1>6. /\ status[u] = "idle" /\ ps # <<>>
      /\ status' = [status EXCEPT ![u] = "calling"]
      /\ todo' = [todo EXCEPT ![u] = ps]
      /\ UNCHANGED <<held, pending>>
      /\ UNCHANGED <<pc, phase, attempted, submitted, got, kept>>
  BY <1>4 DEF BeginReserve, CallReserve
<1>7. status \in [Threads -> {"idle", "calling", "waiting", "notified"}] /\ todo \in [Threads -> Seq(Pages)]
  BY <1>1 DEF IInv, TypeOK
<1>8. QueryTypes'
  BY <1>1, <1>4, <1>6 DEF QueryTypes
<1>9. Local(u)
  BY <1>1, <1>4, <1>6, <1>7 DEF Local, QueryTypes
<1>10. QueryPlaces(u)'
  <2>1. /\ status'[u] = "calling" /\ todo'[u] = ps /\ wanted'[u] = rest /\ pc'[u] = "reserve"
        /\ todo[u] = <<>> /\ Len(ps) \in Nat /\ Len(rest) \in Nat /\ Len(todo[u]) = 0
    BY <1>1, <1>2, <1>4, <1>6, <1>7 DEF QueryTypes, QueryPlaces
  <2>2. Len(got[u]) + (Len(todo'[u]) + Len(wanted'[u])) <= MaxBatch
    <3>1. Len(got[u]) + (Len(todo[u]) + Len(wanted[u])) <= MaxBatch
      BY <1>1, <1>2 DEF QueryPlaces
    <3>2. Len(todo[u]) + Len(wanted[u]) = Len(todo'[u]) + Len(wanted'[u])
      BY <1>4, <2>1
    <3> QED
      BY <3>1, <3>2
  <2>3. /\ got'[u] = got[u] /\ kept'[u] = kept[u] /\ attempted'[u] = attempted[u]
        /\ submitted'[u] = submitted[u] /\ phase'[u] = phase[u] /\ opt' = opt
    BY <1>6
  <2>4. Len(got'[u]) + (IF pc'[u] = "reserve" THEN Len(todo'[u]) + Len(wanted'[u]) ELSE 0) <= MaxBatch
    BY <2>1, <2>2, <2>3
  <2> QED
    BY <1>1, <1>2, <2>1, <2>3, <2>4 DEF QueryPlaces
<1>11. BooksOf(u)'
  BY <1>1, <1>2, <1>6, <1>10 DEF BooksOf, Describes, Listed, Apart, QueryTypes
<1> QED
  BY <1>5, <1>8, <1>9, <1>11, BooksFromLocal

\* A HIT or a LOAD: the reservation enters the query's list as the cache counts it.
LEMMA TakeResultBooks ==
  ASSUME QInv, NEW u \in Threads, UNCHANGED opt, TakeResult(u)
  PROVE  QInv' /\ Local(u)
<1>1. QueryTypes /\ IInv /\ BooksOf(u) /\ QueryPlaces(u)
  BY DEF QInv, QueryBooks, BooksOf
<1>2. Takes(u)
  BY DEF TakeResult, Takes
<1>3. PICK r \in Reservation :
        /\ r \notin held /\ r.owner = u /\ r.page = Head(todo[u])
        /\ held' = held \cup {r}
        /\ pending' = IF r.state = "LOAD" THEN pending \cup {r} ELSE pending
  BY <1>1, <1>2, TakeFacts
<1>4. IInv' /\ Ready(u) /\ Return(u)
  BY <1>1, <1>2, TakeFacts
<1>5. /\ todo[u] \in Seq(Pages) /\ todo[u] # <<>> /\ Head(todo[u]) \in Pages
      /\ status[u] # "idle"
      /\ todo'[u] \in Seq(Pages) /\ Len(todo'[u]) + 1 = Len(todo[u]) /\ Len(todo'[u]) \in Nat
      /\ status'[u] = "idle" <=> todo'[u] = <<>>
      /\ \A t \in Threads \ {u} : todo'[t] = todo[t] /\ status'[t] = status[t]
  BY <1>1, <1>4, ReturnFacts
<1> DEFINE e == [page |-> r.page, buf |-> r.frame, kind |-> r.state, res |-> r]
<1>6. e \in Granted /\ e \in Entry
  BY <1>3 DEF Granted, Entry, Reservation
<1>7. got' = [got EXCEPT ![u] = Append(got[u], e)]
  <2>1. held' \ held = {r}
    BY <1>3
  <2>2. \E x \in held' \ held :
          got' = [got EXCEPT ![u] =
                    Append(got[u], [page |-> x.page, buf |-> x.frame, kind |-> x.state, res |-> x])]
    BY DEF TakeResult
  <2> QED
    BY <2>1, <2>2
<1>8. UNCHANGED <<pc, phase, attempted, submitted, wanted, kept>>
  BY DEF TakeResult
<1>9. got[u] \in Seq(Entry)
  BY <1>1 DEF QueryTypes
<1> HIDE DEF e
<1>10. /\ Append(got[u], e) \in Seq(Entry) /\ Len(Append(got[u], e)) = Len(got[u]) + 1
       /\ ToSet(Append(got[u], e)) = ToSet(got[u]) \cup {e}
  BY <1>6, <1>9, AppendEntries
<1>11. QueryTypes'
  BY <1>1, <1>7, <1>8, <1>10 DEF QueryTypes
<1>12. Local(u)
  BY <1>1, <1>3, <1>5, <1>7, <1>8 DEF Local, QueryTypes
<1>13. got'[u] = Append(got[u], e) /\ pc[u] = "reserve"
  BY <1>1, <1>5, <1>7 DEF QueryTypes, QueryPlaces
<1>14. QueryPlaces(u)'
  <2>1. Len(got[u]) \in Nat /\ Len(wanted[u]) \in Nat /\ Len(todo[u]) \in Nat
    BY <1>1, <1>5, <1>9 DEF QueryTypes
  <2>2. Len(got'[u]) + (Len(todo'[u]) + Len(wanted'[u])) <= MaxBatch
    <3>1. Len(got[u]) + (Len(todo[u]) + Len(wanted[u])) <= MaxBatch
      BY <1>1, <1>13 DEF QueryPlaces
    <3>2. Len(got'[u]) = Len(got[u]) + 1 /\ wanted'[u] = wanted[u]
      BY <1>8, <1>10, <1>13
    <3>3. \A g, d, d1, w, m \in Nat : g + (d + w) <= m /\ d1 + 1 = d => (g + 1) + (d1 + w) <= m
      OBVIOUS
    <3> QED
      BY <1>5, <2>1, <3>1, <3>2, <3>3, BoundAssumption
  <2> QED
    BY <1>1, <1>5, <1>8, <1>13, <2>2 DEF QueryPlaces
<1>15. ToSet(got'[u]) = ToSet(got[u]) \cup {e} /\ kept'[u] = kept[u]
  BY <1>8, <1>10, <1>13
<1>16. ASSUME NEW x \in ToSet(got[u]) \cup ToSet(kept[u])
       PROVE  Describes(u, x)'
  BY <1>1, <1>3, <1>13 DEF BooksOf, Describes
<1>17. Describes(u, e)'
  <2>1. r.state = "HIT" => r \notin pending'
    BY <1>1, <1>3 DEF IInv, TypeOK
  <2> QED
    BY <1>3, <2>1 DEF Describes, e
<1>18. \A x \in held' : x.owner = u => Listed(u, x)'
  <2>1. e.kind # "BYPASS" /\ e.res = r
    BY <1>3 DEF e, Reservation
  <2> QED
    BY <1>1, <1>3, <1>13, <1>15, <2>1 DEF BooksOf, Listed
<1>19. pc[u] # "thrown" => Apart(u)'
  <2> SUFFICES ASSUME pc[u] # "thrown", NEW y \in ToSet(got'[u]), NEW x \in ToSet(kept'[u]),
                      y.kind # "BYPASS", x.kind # "BYPASS"
               PROVE  y.res # x.res
    BY DEF Apart
  <2>1. x \in ToSet(kept[u]) /\ x.res \in held
    BY <1>1, <1>15 DEF BooksOf, Describes
  <2>2. CASE y \in ToSet(got[u])
    BY <1>1, <2>1, <2>2 DEF BooksOf, Apart
  <2>3. CASE y = e
    BY <1>3, <2>1, <2>3 DEF e
  <2> QED
    BY <1>15, <2>2, <2>3
<1>20. BooksOf(u)'
  BY <1>8, <1>14, <1>15, <1>16, <1>17, <1>18, <1>19 DEF BooksOf
<1> QED
  BY <1>4, <1>11, <1>12, <1>20, BooksFromLocal

\* A BYPASS: the page goes to the query's scratch memory, the cache keeps nothing.
LEMMA TakeBypassBooks ==
  ASSUME QInv, NEW u \in Threads, UNCHANGED opt, TakeBypass(u)
  PROVE  QInv' /\ Local(u)
<1>1. QueryTypes /\ IInv /\ BooksOf(u) /\ QueryPlaces(u)
  BY DEF QInv, QueryBooks, BooksOf
<1>2. /\ IInv' /\ Ready(u) /\ Return(u) /\ UNCHANGED <<held, pending>>
      /\ UNCHANGED <<pc, phase, attempted, submitted, wanted, kept>>
  BY <1>1, ReserveBypassLemma DEF TakeBypass, ReserveBypass, ReserveCoalesced
<1>3. /\ todo[u] \in Seq(Pages) /\ todo[u] # <<>> /\ Head(todo[u]) \in Pages
      /\ status[u] # "idle"
      /\ todo'[u] \in Seq(Pages) /\ Len(todo'[u]) + 1 = Len(todo[u]) /\ Len(todo'[u]) \in Nat
      /\ status'[u] = "idle" <=> todo'[u] = <<>>
      /\ \A t \in Threads \ {u} : todo'[t] = todo[t] /\ status'[t] = status[t]
  BY <1>1, <1>2, ReturnFacts
<1> DEFINE e == [page |-> Head(todo[u]), buf |-> NextScratch(u), kind |-> "BYPASS"]
<1>4. got[u] \in Seq(Entry) /\ kept[u] \in Seq(Entry)
  BY <1>1 DEF QueryTypes
<1>5. e \in Entry
  <2>1. Cardinality(Bypassed(got[u])) \in Nat /\ Cardinality(Bypassed(kept[u])) \in Nat
    BY <1>4, PlacesFinite DEF Bypassed
  <2>2. NextScratch(u) \in Threads \X Nat
    BY <2>1 DEF NextScratch
  <2> QED
    BY <1>3, <2>2 DEF Entry, ScratchReads
<1>6. got' = [got EXCEPT ![u] = Append(got[u], e)]
  BY DEF TakeBypass
<1>7. e.kind = "BYPASS"
  OBVIOUS
<1> HIDE DEF e
<1>8. /\ Append(got[u], e) \in Seq(Entry) /\ Len(Append(got[u], e)) = Len(got[u]) + 1
      /\ ToSet(Append(got[u], e)) = ToSet(got[u]) \cup {e}
  BY <1>4, <1>5, AppendEntries
<1>9. QueryTypes'
  BY <1>1, <1>2, <1>6, <1>8 DEF QueryTypes
<1>10. Local(u)
  BY <1>1, <1>2, <1>3, <1>6 DEF Local, QueryTypes
<1>11. got'[u] = Append(got[u], e) /\ pc[u] = "reserve"
  BY <1>1, <1>3, <1>6 DEF QueryTypes, QueryPlaces
<1>12. QueryPlaces(u)'
  <2>1. Len(got[u]) \in Nat /\ Len(wanted[u]) \in Nat /\ Len(todo[u]) \in Nat
    BY <1>1, <1>3, <1>4 DEF QueryTypes
  <2>2. Len(got'[u]) + (Len(todo'[u]) + Len(wanted'[u])) <= MaxBatch
    <3>1. Len(got[u]) + (Len(todo[u]) + Len(wanted[u])) <= MaxBatch
      BY <1>1, <1>11 DEF QueryPlaces
    <3>2. Len(got'[u]) = Len(got[u]) + 1 /\ wanted'[u] = wanted[u]
      BY <1>2, <1>8, <1>11
    <3>3. \A g, d, d1, w, m \in Nat : g + (d + w) <= m /\ d1 + 1 = d => (g + 1) + (d1 + w) <= m
      OBVIOUS
    <3> QED
      BY <1>3, <2>1, <3>1, <3>2, <3>3, BoundAssumption
  <2> QED
    BY <1>1, <1>2, <1>3, <1>11, <2>2 DEF QueryPlaces
<1>13. ToSet(got'[u]) = ToSet(got[u]) \cup {e} /\ kept'[u] = kept[u]
  BY <1>2, <1>8, <1>11
<1>14. BooksOf(u)'
  BY <1>1, <1>2, <1>7, <1>11, <1>12, <1>13 DEF BooksOf, Describes, Listed, Apart
<1> QED
  BY <1>2, <1>9, <1>10, <1>14, BooksFromLocal

\* Asleep in reserve_many, nothing of the query changes.
LEMMA SleepBooks ==
  ASSUME QInv, NEW u \in Threads, UNCHANGED opt, SleepForLoad(u)
  PROVE  QInv' /\ Local(u)
<1>1. QueryTypes /\ IInv /\ BooksOf(u) /\ QueryPlaces(u)
  BY DEF QInv, QueryBooks, BooksOf
<1>2. IInv'
  BY <1>1, ReserveWaitLemma DEF SleepForLoad
<1>3. /\ UNCHANGED <<held, pending, todo, pc, phase, attempted, submitted, wanted, got, kept>>
      /\ status' = [status EXCEPT ![u] = "waiting"] /\ status[u] # "idle"
  BY DEF SleepForLoad, ReserveWait, Ready, queryVars
<1>4. status \in [Threads -> {"idle", "calling", "waiting", "notified"}]
  BY <1>1 DEF IInv, TypeOK
<1>5. QueryTypes'
  BY <1>1, <1>3 DEF QueryTypes
<1>6. Local(u)
  BY <1>3, <1>4 DEF Local
<1>7. QueryPlaces(u)'
  BY <1>1, <1>3, <1>4 DEF QueryPlaces
<1>8. BooksOf(u)'
  BY <1>1, <1>3, <1>7 DEF BooksOf, Describes, Listed, Apart
<1> QED
  BY <1>2, <1>5, <1>6, <1>8, BooksFromLocal

-----------------------------------------------------------------------------
(***************************************************************************)
(* Publishing, rolling back and releasing concern reservations of the      *)
(* caller only.                                                            *)
(***************************************************************************)
LEMMA LoadsAreSpan ==
  ASSUME NEW s \in Seq(Entry)
  PROVE  /\ Cardinality(Places(s, "LOAD")) \in Nat
         /\ DOMAIN Loads(s) = 1..Cardinality(Places(s, "LOAD"))
         /\ Loads(s) = [k \in 1..Cardinality(Places(s, "LOAD")) |-> Loads(s)[k]]
BY PlacesFinite DEF Loads

\* publish of a read's loads takes them off the pending ones.
LEMMA PublishLoadedFacts ==
  ASSUME IInv, NEW u \in Threads, NEW s \in Seq(Entry), PublishLoaded(u, Loads(s), "DEMAND")
  PROVE  /\ IInv'
         /\ held' = held /\ pending' = pending \ Entries(Loads(s)) /\ todo' = todo
         /\ \A r \in Entries(Loads(s)) : r \in pending /\ r.owner = u
         /\ \A t \in Threads : status'[t] = "idle" <=> status[t] = "idle"
<1>1. IsSpan(Loads(s), u, "DEMAND") /\ DOMAIN Loads(s) = 1..Cardinality(Places(s, "LOAD"))
      /\ Cardinality(Places(s, "LOAD")) \in Nat
      /\ Loads(s) = [k \in 1..Cardinality(Places(s, "LOAD")) |-> Loads(s)[k]]
  BY LoadsAreSpan DEF PublishLoaded
<1>2. \A k \in 1..Cardinality(Places(s, "LOAD")) : Loads(s)[k] \in pending /\ Loads(s)[k].owner = u
  BY <1>1 DEF IsSpan
<1>3. PICK n \in Nat : n = Cardinality(Places(s, "LOAD"))
  BY <1>1
<1>4. Loads(s) \in [1..n -> pending]
  BY <1>1, <1>2, <1>3
<1>5. "DEMAND" \in Access
  BY DEF Access
<1>6. IInv'
  BY <1>3, <1>4, <1>5, PublishLoadedLemma
<1> QED
  BY <1>1, <1>2, <1>6 DEF PublishLoaded, Entries, NotifyAll

\* publish of a failed read gives its loads back.
LEMMA PublishFailedFacts ==
  ASSUME IInv, NEW u \in Threads, NEW s \in Seq(Entry), PublishFailed(u, Loads(s), "DEMAND")
  PROVE  /\ IInv'
         /\ held' = held \ Entries(Loads(s)) /\ pending' = pending \ Entries(Loads(s)) /\ todo' = todo
         /\ \A r \in Entries(Loads(s)) : r \in pending /\ r.owner = u
         /\ \A t \in Threads : status'[t] = "idle" <=> status[t] = "idle"
<1>1. IsSpan(Loads(s), u, "DEMAND") /\ DOMAIN Loads(s) = 1..Cardinality(Places(s, "LOAD"))
      /\ Cardinality(Places(s, "LOAD")) \in Nat
      /\ Loads(s) = [k \in 1..Cardinality(Places(s, "LOAD")) |-> Loads(s)[k]]
  BY LoadsAreSpan DEF PublishFailed
<1>2. \A k \in 1..Cardinality(Places(s, "LOAD")) : Loads(s)[k] \in pending /\ Loads(s)[k].owner = u
  BY <1>1 DEF IsSpan
<1>3. PICK n \in Nat : n = Cardinality(Places(s, "LOAD"))
  BY <1>1
<1>4. Loads(s) \in [1..n -> pending]
  BY <1>1, <1>2, <1>3
<1>5. "DEMAND" \in Access
  BY DEF Access
<1>6. IInv'
  BY <1>3, <1>4, <1>5, PublishFailedLemma
<1> QED
  BY <1>1, <1>2, <1>6 DEF PublishFailed, Entries, NotifyAll

-----------------------------------------------------------------------------
(***************************************************************************)
(* Handing the reads to the kernel, and what comes back.                   *)
(***************************************************************************)
\* read() goes to sleep, or has nothing to read.
LEMMA SubmitReadBooks ==
  ASSUME QInv, NEW u \in Threads, UNCHANGED opt, SubmitRead(u)
  PROVE  QInv' /\ Local(u)
<1>1. QueryTypes /\ IInv /\ BooksOf(u) /\ QueryPlaces(u)
  BY DEF QInv, QueryBooks, BooksOf
<1>2. IInv' /\ UNCHANGED <<held, pending, status, todo>>
  BY <1>1, PoolUntouched DEF SubmitRead
<1>3. /\ pc[u] = "reserve" /\ wanted[u] = <<>> /\ status[u] = "idle" /\ phase[u] # "prefetch"
      /\ \E place \in {"score", "reading"} : pc' = [pc EXCEPT ![u] = place]
      /\ UNCHANGED <<phase, attempted, submitted, wanted, got, kept>>
  BY DEF SubmitRead, AllReserved, Goto
<1>4. QueryTypes'
  BY <1>1, <1>3 DEF QueryTypes
<1>5. Local(u)
  BY <1>1, <1>2, <1>3 DEF Local, QueryTypes
<1>6. pc'[u] \in {"score", "reading"}
  BY <1>1, <1>3 DEF QueryTypes
<1>7. Len(got'[u]) <= MaxBatch
  <2>1. Len(todo[u]) = 0 /\ Len(wanted[u]) = 0 /\ Len(got[u]) \in Nat /\ got'[u] = got[u]
    BY <1>1, <1>3 DEF QueryPlaces, QueryTypes
  <2>2. Len(got[u]) + (Len(todo[u]) + Len(wanted[u])) <= MaxBatch
    BY <1>1, <1>3 DEF QueryPlaces
  <2> QED
    BY <2>1, <2>2
<1>8. QueryPlaces(u)'
  <2>1. Len(got'[u]) + 0 <= MaxBatch
    <3>1. Len(got'[u]) \in Nat
      BY <1>4 DEF QueryTypes
    <3> QED
      BY <1>7, <3>1
  <2> QED
    BY <1>1, <1>2, <1>3, <1>6, <2>1 DEF QueryPlaces
<1>9. BooksOf(u)'
  BY <1>1, <1>2, <1>3, <1>8 DEF BooksOf, Describes, Listed, Apart
<1> QED
  BY <1>2, <1>4, <1>5, <1>9, BooksFromLocal

\* submit_async keeps the reservations of the prefetch for the refinement.
LEMMA SubmitAsyncBooks ==
  ASSUME QInv, NEW u \in Threads, UNCHANGED opt, SubmitAsync(u)
  PROVE  QInv' /\ Local(u)
<1>1. QueryTypes /\ IInv /\ BooksOf(u) /\ QueryPlaces(u)
  BY DEF QInv, QueryBooks, BooksOf
<1>2. IInv' /\ UNCHANGED <<held, pending, status, todo>>
  BY <1>1, PoolUntouched DEF SubmitAsync
<1>3. /\ pc[u] = "reserve" /\ phase[u] = "prefetch" /\ wanted[u] = <<>> /\ status[u] = "idle"
      /\ pc' = [pc EXCEPT ![u] = "search"]
      /\ kept' = [kept EXCEPT ![u] = got[u]] /\ got' = [got EXCEPT ![u] = <<>>]
      /\ \E b \in BOOLEAN : submitted' = [submitted EXCEPT ![u] = b]
      /\ UNCHANGED <<phase, attempted, wanted>>
  BY DEF SubmitAsync, AllReserved, Goto
<1>4. QueryTypes'
  BY <1>1, <1>3 DEF QueryTypes
<1>5. Local(u)
  BY <1>1, <1>2, <1>3 DEF Local, QueryTypes
<1>6. /\ pc'[u] = "search" /\ got'[u] = <<>> /\ kept'[u] = got[u] /\ kept[u] = <<>>
  BY <1>1, <1>3 DEF QueryTypes, QueryPlaces
<1>7. attempted[u]
  BY <1>1, <1>3 DEF QueryPlaces
<1>8. QueryPlaces(u)'
  <2>1. Len(got'[u]) + 0 <= MaxBatch
    BY <1>6, NoEntries, BoundAssumption
  <2>2. attempted'[u] /\ opt.cellPq /\ opt.prefetch
    BY <1>1, <1>3, <1>7 DEF QueryPlaces
  <2> QED
    BY <1>1, <1>2, <1>3, <1>6, <2>1, <2>2 DEF QueryPlaces
<1>9. BooksOf(u)'
  BY <1>1, <1>2, <1>3, <1>6, <1>8, NoEntries DEF BooksOf, Describes, Listed, Apart
<1> QED
  BY <1>2, <1>4, <1>5, <1>9, BooksFromLocal

\* A refused submission or an interrupted wait ends the query with an exception;
\* nothing is claimed of the books of a query that has thrown.
LEMMA ThrownBooks ==
  ASSUME QInv, IInv', NEW u \in Threads, UNCHANGED opt, todo' = todo,
         \A t \in Threads : status'[t] = "idle" <=> status[t] = "idle",
         held' \subseteq held, pending' \subseteq pending,
         \A r \in held \ held' : r.owner = u, \A r \in pending \ pending' : r.owner = u,
         status[u] = "idle", pc[u] \in {"reserve", "reading", "completing"}, wanted[u] = <<>> \/ pc[u] # "reserve",
         Goto(u, "thrown"), UNCHANGED <<phase, attempted, wanted, got, kept>>,
         submitted' = submitted \/ submitted' = [submitted EXCEPT ![u] = FALSE]
  PROVE  QInv' /\ Local(u)
<1>1. QueryTypes /\ IInv /\ BooksOf(u) /\ QueryPlaces(u)
  BY DEF QInv, QueryBooks, BooksOf
<1>2. QueryTypes'
  BY <1>1 DEF QueryTypes, Goto
<1>3. Local(u)
  BY <1>1 DEF Local, QueryTypes, Goto
<1>4. pc'[u] = "thrown"
  BY <1>1 DEF QueryTypes, Goto
<1>5. Len(got[u]) + 0 <= MaxBatch
  <2>1. Len(todo[u]) \in Nat /\ Len(wanted[u]) \in Nat /\ Len(got[u]) \in Nat
    BY <1>1 DEF QueryTypes, IInv, TypeOK
  <2>2. CASE pc[u] = "reserve"
    <3>1. Len(got[u]) + (Len(todo[u]) + Len(wanted[u])) <= MaxBatch
      BY <1>1, <2>2 DEF QueryPlaces
    <3>2. \A g, d, w, m \in Nat : g + (d + w) <= m => g + 0 <= m
      OBVIOUS
    <3> QED
      BY <2>1, <3>1, <3>2, BoundAssumption
  <2>3. CASE pc[u] # "reserve"
    BY <1>1, <2>3 DEF QueryPlaces
  <2> QED
    BY <2>2, <2>3
<1>6. QueryPlaces(u)'
  <2>1. submitted'[u] => submitted[u]
    BY <1>1 DEF QueryTypes
  <2> QED
    BY <1>1, <1>4, <1>5, <2>1 DEF QueryPlaces
<1>7. BooksOf(u)'
  BY <1>4, <1>6 DEF BooksOf
<1> QED
  BY <1>2, <1>3, <1>7, BooksFromLocal

\* io_submit refused the batch: the query throws.
LEMMA SubmitFailsBooks ==
  ASSUME QInv, NEW u \in Threads, UNCHANGED opt, SubmitFails(u)
  PROVE  QInv' /\ Local(u)
<1>1. QueryTypes /\ IInv
  BY DEF QInv
<1>2. got[u] \in Seq(Entry)
  BY <1>1 DEF QueryTypes
<1>3. /\ IInv' /\ todo' = todo
      /\ \A t \in Threads : status'[t] = "idle" <=> status[t] = "idle"
      /\ held' \subseteq held /\ pending' \subseteq pending
      /\ \A r \in held \ held' : r.owner = u
      /\ \A r \in pending \ pending' : r.owner = u
  <2>1. CASE UNCHANGED vars
    BY <1>1, <2>1, PoolUntouched
  <2>2. CASE PublishFailed(u, Loads(got[u]), "DEMAND")
    BY <1>1, <1>2, <2>2, PublishFailedFacts
  <2> QED
    BY <2>1, <2>2 DEF SubmitFails
<1>4. /\ status[u] = "idle" /\ pc[u] = "reserve" /\ wanted[u] = <<>>
      /\ Goto(u, "thrown") /\ UNCHANGED <<phase, attempted, submitted, wanted, got, kept>>
  BY DEF SubmitFails, AllReserved
<1> QED
  BY <1>3, <1>4, ThrownBooks

\* io_getevents was interrupted: the query throws.
LEMMA ReadInterruptedBooks ==
  ASSUME QInv, NEW u \in Threads, UNCHANGED opt, ReadInterrupted(u)
  PROVE  QInv' /\ Local(u)
<1>1. QueryTypes /\ IInv /\ QueryPlaces(u)
  BY DEF QInv, QueryBooks, BooksOf
<1>2. got[u] \in Seq(Entry)
  BY <1>1 DEF QueryTypes
<1>3. /\ IInv' /\ todo' = todo
      /\ \A t \in Threads : status'[t] = "idle" <=> status[t] = "idle"
      /\ held' \subseteq held /\ pending' \subseteq pending
      /\ \A r \in held \ held' : r.owner = u
      /\ \A r \in pending \ pending' : r.owner = u
  BY <1>1, <1>2, PublishFailedFacts DEF ReadInterrupted
<1>4. /\ status[u] = "idle" /\ pc[u] = "reading"
      /\ Goto(u, "thrown") /\ UNCHANGED <<phase, attempted, submitted, wanted, got, kept>>
  BY <1>1 DEF ReadInterrupted, QueryPlaces
<1> QED
  BY <1>3, <1>4, ThrownBooks

\* read() returned: the loads of the read become resident, the lists stay.
LEMMA ReadReturnsBooks ==
  ASSUME QInv, NEW u \in Threads, UNCHANGED opt, ReadReturns(u)
  PROVE  QInv' /\ Local(u)
<1>1. QueryTypes /\ IInv /\ BooksOf(u) /\ QueryPlaces(u)
  BY DEF QInv, QueryBooks, BooksOf
<1>2. got[u] \in Seq(Entry)
  BY <1>1 DEF QueryTypes
<1>3. /\ IInv' /\ todo' = todo
      /\ \A t \in Threads : status'[t] = "idle" <=> status[t] = "idle"
      /\ held' = held /\ pending' \subseteq pending
      /\ \A r \in pending \ pending' : r.owner = u
  BY <1>1, <1>2, PublishLoadedFacts DEF ReadReturns
<1>4. /\ pc[u] = "reading" /\ pc' = [pc EXCEPT ![u] = "score"]
      /\ UNCHANGED <<phase, attempted, submitted, wanted, got, kept>>
  BY DEF ReadReturns, Goto
<1>5. QueryTypes'
  BY <1>1, <1>4 DEF QueryTypes
<1>6. Local(u)
  BY <1>1, <1>3, <1>4 DEF Local, QueryTypes
<1>7. pc'[u] = "score"
  BY <1>1, <1>4 DEF QueryTypes
<1>8. QueryPlaces(u)'
  BY <1>1, <1>3, <1>4, <1>7 DEF QueryPlaces
<1>9. BooksOf(u)'
  BY <1>1, <1>3, <1>4, <1>7, <1>8 DEF BooksOf, Describes, Listed, Apart
<1> QED
  BY <1>3, <1>5, <1>6, <1>9, BooksFromLocal

\* complete_async: the prefetch is published and refined, or rolled back.
LEMMA CompleteAsyncBooks ==
  ASSUME QInv, NEW u \in Threads, UNCHANGED opt, CompleteAsync(u)
  PROVE  QInv' /\ Local(u)
<1>1. QueryTypes /\ IInv /\ BooksOf(u) /\ QueryPlaces(u)
  BY DEF QInv, QueryBooks, BooksOf
<1>2. kept[u] \in Seq(Entry)
  BY <1>1 DEF QueryTypes
<1>3. /\ pc[u] = "completing" /\ status[u] = "idle"
      /\ submitted' = [submitted EXCEPT ![u] = FALSE]
      /\ UNCHANGED <<phase, attempted, wanted, got, kept>>
  BY <1>1 DEF CompleteAsync, QueryPlaces
<1>4. CASE PublishFailed(u, Loads(kept[u]), "DEMAND") /\ Goto(u, "thrown")
  <2>1. /\ IInv' /\ todo' = todo
        /\ \A t \in Threads : status'[t] = "idle" <=> status[t] = "idle"
        /\ held' \subseteq held /\ pending' \subseteq pending
        /\ \A r \in held \ held' : r.owner = u
        /\ \A r \in pending \ pending' : r.owner = u
    BY <1>1, <1>2, <1>4, PublishFailedFacts
  <2> QED
    BY <1>3, <1>4, <2>1, ThrownBooks
<1>5. CASE PublishLoaded(u, Loads(kept[u]), "DEMAND") /\ Goto(u, "refining")
  <2>1. /\ IInv' /\ todo' = todo
        /\ \A t \in Threads : status'[t] = "idle" <=> status[t] = "idle"
        /\ held' = held /\ pending' \subseteq pending
        /\ \A r \in pending \ pending' : r.owner = u
    BY <1>1, <1>2, <1>5, PublishLoadedFacts
  <2>2. QueryTypes'
    BY <1>1, <1>3, <1>5 DEF QueryTypes, Goto
  <2>3. Local(u)
    BY <1>1, <1>3, <1>5, <2>1 DEF Local, QueryTypes, Goto
  <2>4. pc'[u] = "refining"
    BY <1>1, <1>5 DEF QueryTypes, Goto
  <2>5. QueryPlaces(u)'
    <3>1. submitted'[u] => submitted[u]
      BY <1>1, <1>3 DEF QueryTypes
    <3> QED
      BY <1>1, <1>3, <2>1, <2>4, <3>1 DEF QueryPlaces
  <2>6. BooksOf(u)'
    BY <1>1, <1>3, <2>1, <2>4, <2>5 DEF BooksOf, Describes, Listed, Apart
  <2> QED
    BY <2>1, <2>2, <2>3, <2>6, BooksFromLocal
<1> QED
  BY <1>4, <1>5 DEF CompleteAsync

\* The pins a query gives back are reservations it holds, and those it keeps
\* for a prefetch are others.
LEMMA ScoreBooks ==
  ASSUME QInv, NEW u \in Threads, UNCHANGED opt, ScoreAndRelease(u)
  PROVE  QInv' /\ Local(u)
<1>1. QueryTypes /\ IInv /\ BooksOf(u) /\ QueryPlaces(u)
  BY DEF QInv, QueryBooks, BooksOf
<1>2. got[u] \in Seq(Entry) /\ kept[u] \in Seq(Entry)
  BY <1>1 DEF QueryTypes
<1>3. pc[u] = "score" /\ status[u] = "idle"
  BY <1>1 DEF ScoreAndRelease, QueryPlaces
<1> DEFINE R == Pins(got[u]) \cup IF phase[u] = "refine" THEN Pins(kept[u]) ELSE {}
<1>4. R \subseteq held /\ \A r \in R : r.owner = u
  BY <1>1, <1>3 DEF Pins, BooksOf, Describes
<1>5. /\ Release(u, R)
      /\ pc' = [pc EXCEPT ![u] = IF phase[u] = "refine" THEN "done" ELSE "search"]
      /\ got' = [got EXCEPT ![u] = <<>>]
      /\ kept' = [kept EXCEPT ![u] = IF phase[u] = "refine" THEN <<>> ELSE @]
      /\ UNCHANGED <<phase, attempted, submitted, wanted>>
  BY DEF ScoreAndRelease, Goto
<1>6. \A r : r \in R <=> \/ \E e \in ToSet(got[u]) : e.kind # "BYPASS" /\ e.res = r
                         \/ phase[u] = "refine" /\ \E e \in ToSet(kept[u]) : e.kind # "BYPASS" /\ e.res = r
  BY DEF Pins
<1> HIDE DEF R
<1>7. IInv' /\ held' = held \ R /\ UNCHANGED <<pending, status, todo>>
  BY <1>1, <1>4, <1>5, ReleaseLemma DEF Release, callVars
<1>8. QueryTypes'
  BY <1>1, <1>2, <1>5, NoEntries DEF QueryTypes
<1>9. Local(u)
  BY <1>1, <1>4, <1>5, <1>7 DEF Local, QueryTypes
<1>10. /\ got'[u] = <<>> /\ pc'[u] \in {"done", "search"}
       /\ phase[u] = "refine" => kept'[u] = <<>>
       /\ phase[u] # "refine" => pc'[u] = "search" /\ kept'[u] = kept[u]
  BY <1>1, <1>5 DEF QueryTypes
<1>11. QueryPlaces(u)'
  <2>1. Len(got'[u]) + 0 <= MaxBatch
    BY <1>10, NoEntries, BoundAssumption
  <2> QED
    BY <1>1, <1>3, <1>5, <1>7, <1>10, <2>1 DEF QueryPlaces
<1>12. ASSUME NEW e \in ToSet(kept'[u])
       PROVE  Describes(u, e)'
  <2>1. phase[u] # "refine" /\ e \in ToSet(kept[u]) /\ Describes(u, e)
    BY <1>1, <1>3, <1>10, <1>12, NoEntries DEF BooksOf
  <2>2. e.kind # "BYPASS" => e.res \notin R
    BY <1>1, <1>3, <1>6, <2>1 DEF BooksOf, Apart
  <2> QED
    BY <1>7, <2>1, <2>2 DEF Describes
<1>13. ASSUME NEW r \in held', r.owner = u
       PROVE  Listed(u, r)'
  <2>1. PICK e \in ToSet(got[u]) \cup ToSet(kept[u]) : e.kind # "BYPASS" /\ e.res = r
    BY <1>1, <1>3, <1>7, <1>13 DEF BooksOf, Listed
  <2>2. r \notin R
    BY <1>7, <1>13
  <2>3. e \in ToSet(kept[u]) /\ phase[u] # "refine"
    BY <1>6, <2>1, <2>2
  <2> QED
    BY <1>10, <2>1, <2>3 DEF Listed
<1>14. BooksOf(u)'
  BY <1>10, <1>11, <1>12, <1>13, NoEntries DEF BooksOf, Apart
<1> QED
  BY <1>7, <1>8, <1>9, <1>14, BooksFromLocal

\* The kernel touches no list of a query and nothing of the cache's tables.
LEMMA KernelBooks ==
  ASSUME QInv, NEW u \in Threads, KernelStep(u)
  PROVE  QInv' /\ Local(u)
<1>1. QueryTypes /\ IInv
  BY DEF QInv
<1>2. UNCHANGED <<opt, vars, queryVars>>
  BY DEF KernelStep, Complete
<1>3. IInv' /\ UNCHANGED <<held, pending, status, todo>>
  BY <1>1, <1>2, PoolUntouched
<1>4. QueryTypes'
  BY <1>1, <1>2 DEF QueryTypes, queryVars
<1>5. Local(u) /\ UNCHANGED <<pc, phase, attempted, submitted, wanted, got, kept>>
  BY <1>1, <1>2, <1>3 DEF Local, QueryTypes, queryVars
<1>6. BooksOf(u)
  BY DEF QInv, QueryBooks
<1>7. BooksOf(u)'
  BY <1>2, <1>3, <1>5, <1>6 DEF BooksOf, QueryPlaces, Describes, Listed, Apart
<1> QED
  BY <1>3, <1>4, <1>5, <1>7, BooksFromLocal

\* Before the first round nothing is held.
LEMMA QueryInitBooks == QueryInit => QInv
<1> SUFFICES ASSUME QueryInit
             PROVE  QInv
  OBVIOUS
<1>1. IInv
  BY InitLemma DEF QueryInit
<1>2. QueryTypes
  BY DEF QueryInit, QueryTypes
<1>3. ASSUME NEW t \in Threads
      PROVE  BooksOf(t)
  <2>1. /\ pc[t] = "search" /\ phase[t] = "frontier" /\ got[t] = <<>> /\ kept[t] = <<>>
        /\ status[t] = "idle" /\ todo[t] = <<>> /\ ~attempted[t] /\ ~submitted[t]
        /\ held = {}
    BY DEF QueryInit, Init
  <2>2. Len(got[t]) + 0 <= MaxBatch
    BY <2>1, NoEntries, BoundAssumption
  <2>3. QueryPlaces(t)
    BY <2>1, <2>2 DEF QueryPlaces
  <2> QED
    BY <2>1, <2>3, NoEntries DEF BooksOf, Apart
<1> QED
  BY <1>1, <1>2, <1>3 DEF QInv, QueryBooks

\* The books invariant is inductive.
LEMMA QueryStepBooks == QInv /\ [QueryNext]_allVars => QInv'
<1> SUFFICES ASSUME QInv, [QueryNext]_allVars
             PROVE  QInv'
  OBVIOUS
<1>1. CASE UNCHANGED allVars
  <2>1. IInv' /\ UNCHANGED <<held, pending, status, todo>>
    BY <1>1, PoolUntouched DEF allVars, QInv
  <2>2. UNCHANGED <<opt, pc, phase, attempted, submitted, wanted, got, kept>>
    BY <1>1 DEF allVars, queryVars
  <2> QED
    BY <2>1, <2>2 DEF QInv, QueryTypes, QueryBooks, BooksOf, QueryPlaces, Describes, Listed, Apart
<1>2. CASE \E t \in Threads : QueryStep(t)
  <2>1. PICK u \in Threads : QueryStep(u)
    BY <1>2
  <2> QED
    BY <2>1, BeginBooks, EndSearchBooks, CallReserveBooks, TakeResultBooks, TakeBypassBooks,
       SleepBooks, SubmitReadBooks, SubmitAsyncBooks, SubmitFailsBooks, ReadReturnsBooks,
       ReadInterruptedBooks, CompleteAsyncBooks, ScoreBooks DEF QueryStep
<1>3. CASE \E t \in Threads : KernelStep(t)
  BY <1>3, KernelBooks
<1> QED
  BY <1>1, <1>2, <1>3 DEF QueryNext

-----------------------------------------------------------------------------
(***************************************************************************)
(* The theorems about the books.                                           *)
(***************************************************************************)
\* What a query holds is what the cache has handed out to it and it has not
\* returned, in every configuration and under every kernel fault.
THEOREM QueryInvariance == QuerySpec => []QInv
<1> QED
  BY QueryInitBooks, QueryStepBooks, PTL DEF QuerySpec

\* The cache's own properties survive its composition with the search: all of
\* the inductive invariant of LruBufferPool holds while queries sleep inside
\* batches, throw and read through the kernel.
THEOREM CacheHoldsUnderQueries == QuerySpec => []IInv
<1>1. QInv => IInv
  BY DEF QInv
<1> QED
  BY <1>1, QueryInvariance, PTL

\* Queries that ended normally leave the cache with no pin and no load, so the
\* driver's clear and reset_capacity between two curve points cannot throw.
THEOREM CacheQuiescesHolds == QuerySpec => []CacheQuiescesAfterQueries
<1>1. QInv => CacheQuiescesAfterQueries
  <2> SUFFICES ASSUME QInv, \A t \in Threads : pc[t] = "done"
               PROVE  InFlight = {} /\ PinnedPages = {}
    BY DEF CacheQuiescesAfterQueries
  <2>1. IInv
    BY DEF QInv
  <2>2. held = {}
    <3> SUFFICES ASSUME NEW r \in held
                 PROVE  FALSE
      OBVIOUS
    <3>1. r.owner \in Threads
      BY <2>1 DEF IInv, TypeOK, Reservation
    <3>2. PICK t \in Threads : t = r.owner
      BY <3>1
    <3>3. BooksOf(t) /\ got[t] = <<>> /\ kept[t] = <<>>
      BY DEF QInv, QueryBooks, BooksOf, QueryPlaces
    <3> QED
      BY <3>2, <3>3, NoEntries DEF BooksOf, Listed
  <2>3. InFlight = {}
    BY <2>1, <2>2 DEF IInv, TypeOK, OneLoaderPerPage
  <2>4. \A f \in Frames : pin[f] = 0
    BY <2>1, <2>2, FS_EmptySet DEF IInv, PinsMatchHolders, HoldersOf
  <2>5. \A p \in ResidentPages : resident[p] \in Frames
    BY <2>1 DEF IInv, TypeOK, ResidentPages
  <2> QED
    BY <2>3, <2>4, <2>5 DEF PinnedPages
<1> QED
  BY <1>1, QueryInvariance, PTL

-----------------------------------------------------------------------------
(***************************************************************************)
(* Which buffer a read request fills with which page.                      *)
(***************************************************************************)
Target(t, p, b) ==
  \/ p \in RangePages(t) /\ b = RangeSlot(t, p)
  \/ \E e \in Reads(t) : e.page \notin RangePages(t) /\ p = e.page /\ b = e.buf

\* A read asks for at most as many pages as it has entries.
LEMMA ReadsFinite ==
  ASSUME QueryTypes, NEW t \in Threads
  PROVE  /\ IsFiniteSet(Reads(t)) /\ Reads(t) \subseteq ToSet(got[t]) /\ Reads(t) \subseteq Entry
         /\ ReadPages(t) \subseteq Pages /\ RangePages(t) \subseteq ReadPages(t)
         /\ IsFiniteSet(RangePages(t)) /\ Cardinality(RangePages(t)) \in Nat
         /\ Cardinality(RangePages(t)) <= Len(got[t])
<1>1. got[t] \in Seq(Entry) /\ Len(got[t]) \in Nat
  BY DEF QueryTypes
<1>2. Reads(t) \subseteq ToSet(got[t]) /\ Reads(t) \subseteq Entry
  BY <1>1, EntriesTyped DEF Reads
<1>3. PICK n \in Nat : n = Len(got[t])
  BY <1>1
<1>4. IsFiniteSet(1..n) /\ Cardinality(1..n) = n
  <2>1. IsFiniteSet(1..n) /\ Cardinality(1..n) = IF 1 > n THEN 0 ELSE n - 1 + 1
    BY FS_Interval
  <2> QED
    BY <2>1
<1> DEFINE at == {i \in 1..n : got[t][i].kind # "HIT"}
<1>5. IsFiniteSet(at) /\ Cardinality(at) <= n /\ Cardinality(at) \in Nat
  <2>1. at \subseteq 1..n
    OBVIOUS
  <2> QED
    BY <1>4, <2>1, FS_Subset, FS_CardinalityType
<1>6. Reads(t) = {got[t][i] : i \in at}
  BY <1>1, <1>3 DEF Reads, ToSet
<1> HIDE DEF at
<1>7. IsFiniteSet(Reads(t))
  <2> DEFINE f == [i \in at |-> got[t][i]]
  <2>1. f \in [at -> Reads(t)] /\ \A y \in Reads(t) : \E x \in at : f[x] = y
    BY <1>6
  <2> HIDE DEF f
  <2> QED
    BY <1>5, <2>1, ImageFinite
<1>8. IsFiniteSet(ReadPages(t)) /\ Cardinality(ReadPages(t)) <= Cardinality(at)
  <2> DEFINE f == [i \in at |-> got[t][i].page]
  <2>1. f \in [at -> ReadPages(t)] /\ \A y \in ReadPages(t) : \E x \in at : f[x] = y
    BY <1>6 DEF ReadPages
  <2> HIDE DEF f
  <2> QED
    BY <1>5, <2>1, ImageFinite
<1>9. RangePages(t) \subseteq ReadPages(t) /\ ReadPages(t) \subseteq Pages
  BY <1>2 DEF RangePages, ReadPages, Entry, Granted, ScratchReads
<1>10. /\ IsFiniteSet(RangePages(t)) /\ Cardinality(RangePages(t)) \in Nat
       /\ Cardinality(ReadPages(t)) \in Nat /\ Cardinality(RangePages(t)) <= Cardinality(ReadPages(t))
  BY <1>8, <1>9, FS_Subset, FS_CardinalityType
<1>11. \A a, b, c, d \in Nat : a <= b /\ b <= c /\ c <= d => a <= d
  OBVIOUS
<1> QED
  BY <1>2, <1>3, <1>5, <1>7, <1>8, <1>9, <1>10, <1>11

\* The pages of range reads get scratch slots of their own, within the buffer.
LEMMA RangeSlots ==
  ASSUME QueryTypes, NEW t \in Threads, Len(got[t]) <= MaxBatch
  PROVE  /\ \A p \in RangePages(t) : RangeSlot(t, p) \in Scratch(t)
         /\ \A p, q \in RangePages(t) : RangeSlot(t, p) = RangeSlot(t, q) => p = q
<1>1. /\ IsFiniteSet(RangePages(t)) /\ Cardinality(RangePages(t)) \in Nat
      /\ Cardinality(RangePages(t)) <= Len(got[t]) /\ RangePages(t) \subseteq Int
      /\ Len(got[t]) \in Nat
  <2>1. got[t] \in Seq(Entry)
    BY DEF QueryTypes
  <2>2. \A p \in RangePages(t) : p \in Int
    <3>1. RangePages(t) \subseteq ReadPages(t) /\ ReadPages(t) \subseteq Pages
      BY ReadsFinite
    <3>2. \A p \in Pages : p \in Int
      BY PagesAssumption
    <3> QED
      BY <3>1, <3>2
  <2> QED
    BY <2>1, <2>2, ReadsFinite
<1> DEFINE S == RangePages(t)
           Rank(x) == Cardinality({m \in S : m < x})
<1>2. /\ \A x \in S : Rank(x) \in 0..(Cardinality(S) - 1)
      /\ \A x, y \in S : x < y => Rank(x) < Rank(y)
  <2> HIDE DEF S
  <2>1. S \subseteq Int /\ IsFiniteSet(S)
    BY <1>1 DEF S
  <2> QED
    BY <2>1, RankLemma
<1>3. \A x \in S : RangeSlot(t, x) = <<t, Rank(x)>>
  BY DEF RangeSlot
<1>4. ASSUME NEW x \in S
      PROVE  Rank(x) \in 0..(2 * MaxBatch - 1)
  <2>1. PICK c \in Nat, g \in Nat : c = Cardinality(S) /\ g = Len(got[t])
    BY <1>1
  <2>2. c <= g /\ g <= MaxBatch /\ Rank(x) \in 0..(c - 1)
    BY <1>1, <1>2, <2>1
  <2> HIDE DEF Rank
  <2> QED
    BY <2>2, BoundAssumption
<1>5. ASSUME NEW x \in S, NEW y \in S, Rank(x) = Rank(y)
      PROVE  x = y
  <2>1. x \in Int /\ y \in Int /\ Rank(x) \in Int
    BY <1>1, <1>2
  <2>2. ~(Rank(x) < Rank(y)) /\ ~(Rank(y) < Rank(x))
    <3> HIDE DEF Rank
    <3> QED
      BY <1>5, <2>1
  <2>3. ~(x < y) /\ ~(y < x)
    <3> HIDE DEF Rank
    <3> QED
      BY <1>2, <2>2
  <2> QED
    BY <2>1, <2>3
<1> HIDE DEF Rank
<1> QED
  BY <1>3, <1>4, <1>5 DEF Scratch

\* The buffers only the reads of t may fill: its scratch memory, and the frames
\* of the loads it has still to publish.
Mine(t, b) == b \in Scratch(t) \/ \E r \in pending : r.owner = t /\ r.frame = b

\* Such a buffer is no other query's, holds no resident page and is in no reader's hands.
LEMMA MineApart ==
  ASSUME IInv, NEW t \in Threads, NEW b, Mine(t, b)
  PROVE  /\ b \in Buffers
         /\ \A u \in Threads : Mine(u, b) => u = t
         /\ \A p \in ResidentPages : resident[p] # b
         /\ \A r \in held \ pending : r.frame # b
         /\ b \in Frames => \E r \in pending : r.owner = t /\ r.frame = b
<1>1. pending \subseteq held /\ held \subseteq Reservation
  BY DEF IInv, TypeOK
<1>2. \A r \in held : r.page \in Pages /\ r.frame \in Frames /\ r.frame # NoFrame
  BY <1>1, NoneAssumption DEF Reservation
<1>3. \A u \in Threads : \A x \in Scratch(u) : x \notin Frames /\ x \in Buffers
  BY ScratchAssumption DEF Buffers
<1>4. NoFrame \notin Frames
  BY NoneAssumption
<1>5. \A p \in Pages : resident[p] \in Frames \cup {NoFrame}
  BY DEF IInv, TypeOK
<1>6. CASE b \in Scratch(t)
  <2>1. \A u \in Threads : b \in Scratch(u) => u = t
    BY <1>6 DEF Scratch
  <2>2. b \notin Frames
    BY <1>3, <1>6
  <2> QED
    BY <1>1, <1>2, <1>3, <1>5, <1>6, <2>1, <2>2 DEF Mine, ResidentPages
<1>7. CASE b \notin Scratch(t)
  <2>1. PICK r \in pending : r.owner = t /\ r.frame = b
    BY <1>7 DEF Mine
  <2>2. loading[r.page] = b /\ r.page \in Pages /\ b \in Frames
    BY <1>1, <1>2, <2>1 DEF IInv, OneLoaderPerPage
  <2>3. b \in Buffers
    BY <2>2 DEF Buffers
  <2>4. \A p \in Pages : resident[p] # b /\ (loading[p] = b => p = r.page)
    BY <1>4, <2>2 DEF IInv, FramesHaveOneUse
  <2>5. \A x \in pending : x.frame = b => x = r
    BY <1>1, <1>2, <2>1, <2>4 DEF IInv, OneLoaderPerPage
  <2>6. \A x \in held \ pending : x.frame # b
    BY <1>1, <1>2, <2>4 DEF IInv, ReservedPageStays
  <2>7. \A u \in Threads : b \notin Scratch(u)
    BY <1>3, <2>2
  <2> QED
    BY <2>1, <2>3, <2>4, <2>5, <2>6, <2>7 DEF Mine, ResidentPages
<1> QED
  BY <1>6, <1>7

\* A read has at most MaxBatch entries.
LEMMA GotFits ==
  ASSUME QueryTypes, IInv, NEW t \in Threads, QueryPlaces(t)
  PROVE  got[t] \in Seq(Entry) /\ Len(got[t]) <= MaxBatch
<1>1. /\ got[t] \in Seq(Entry) /\ Len(got[t]) \in Nat /\ Len(todo[t]) \in Nat /\ Len(wanted[t]) \in Nat
  BY DEF QueryTypes, IInv, TypeOK
<1>2. CASE pc[t] = "reserve"
  <2>1. Len(got[t]) + (Len(todo[t]) + Len(wanted[t])) <= MaxBatch
    BY <1>2 DEF QueryPlaces
  <2>2. \A g, d, w, m \in Nat : g + (d + w) <= m => g <= m
    OBVIOUS
  <2> QED
    BY <1>1, <2>1, <2>2, BoundAssumption
<1>3. CASE pc[t] # "reserve"
  <2>1. Len(got[t]) + 0 <= MaxBatch
    BY <1>3 DEF QueryPlaces
  <2> QED
    BY <1>1, <2>1
<1> QED
  BY <1>2, <1>3

\* Scratch pages are handed out within sector_scratch.
LEMMA BypassEntry ==
  ASSUME QInv, NEW t \in Threads, OwnScratch(t), NEW e \in ToSet(got[t]), e.kind = "BYPASS"
  PROVE  /\ e.buf \in Scratch(t)
         /\ \E i \in DOMAIN got[t] :
              /\ e = got[t][i] /\ i \in Bypassed(got[t])
              /\ e.buf = <<t, Cardinality({j \in Bypassed(got[t]) : j < i})>>
<1>1. QueryTypes /\ IInv /\ QueryPlaces(t)
  BY DEF QInv, QueryBooks, BooksOf
<1>2. got[t] \in Seq(Entry) /\ Len(got[t]) <= MaxBatch
  BY <1>1, GotFits
<1>3. PICK i \in DOMAIN got[t] : e = got[t][i]
  BY DEF ToSet
<1> DEFINE S == Bypassed(got[t])
           rank == Cardinality({j \in S : j < i})
<1>4. e.buf = <<t, rank>> /\ i \in S
  BY <1>3 DEF OwnScratch, Bypassed, Places
<1>5. S \subseteq Int /\ IsFiniteSet(S) /\ Cardinality(S) \in Nat /\ Cardinality(S) <= Len(got[t])
  <2>1. S \subseteq 1..Len(got[t]) /\ Len(got[t]) \in Nat
    BY <1>2 DEF Bypassed, Places
  <2>2. S \subseteq Int
    BY <2>1
  <2> QED
    BY <1>2, <2>2, PlacesFinite DEF Bypassed
<1>6. rank \in 0..(Cardinality(S) - 1)
  <2> HIDE DEF S
  <2> QED
    BY <1>4, <1>5, RankLemma DEF S
<1>7. rank \in 0..(2 * MaxBatch - 1)
  <2>1. PICK c \in Nat, g \in Nat : c = Cardinality(S) /\ g = Len(got[t])
    BY <1>2, <1>5
  <2>2. c <= g /\ g <= MaxBatch /\ rank \in 0..(c - 1)
    BY <1>2, <1>5, <1>6, <2>1
  <2> HIDE DEF rank
  <2> QED
    BY <2>2, BoundAssumption
<1>8. e.buf \in Scratch(t)
  BY <1>4, <1>7 DEF Scratch
<1> QED
  BY <1>3, <1>4, <1>8

\* What an entry to be read is, while its query reserves and reads.
LEMMA ReadEntry ==
  ASSUME QInv, NEW t \in Threads, pc[t] \in {"reserve", "reading"}, OwnScratch(t), LoadsUnpublished(t),
         NEW e \in Reads(t)
  PROVE  /\ e.page \in Pages /\ e \in ToSet(got[t])
         /\ \/ /\ e.kind = "LOAD" /\ e.res \in pending /\ e.res.owner = t
               /\ e.res.page = e.page /\ e.res.frame = e.buf
            \/ /\ e.kind = "BYPASS" /\ e.buf \in Scratch(t)
               /\ \E i \in DOMAIN got[t] :
                    /\ e = got[t][i] /\ i \in Bypassed(got[t])
                    /\ e.buf = <<t, Cardinality({j \in Bypassed(got[t]) : j < i})>>
<1>1. QueryTypes /\ BooksOf(t)
  BY DEF QInv, QueryBooks
<1>2. e \in Entry /\ e \in ToSet(got[t]) /\ e.kind # "HIT"
  BY <1>1 DEF Reads, ToSet, QueryTypes
<1>3. e.page \in Pages /\ e.kind \in {"LOAD", "BYPASS"}
  BY <1>2 DEF Entry, Granted, ScratchReads
<1>4. CASE e.kind = "LOAD"
  BY <1>1, <1>2, <1>3, <1>4 DEF BooksOf, Describes, LoadsUnpublished
<1>5. CASE e.kind = "BYPASS"
  BY <1>2, <1>3, <1>5, BypassEntry
<1> QED
  BY <1>3, <1>4, <1>5

\* A query that is collecting its reservations or waits for their reads.
Collects(t) == pc[t] \in {"reserve", "reading"} /\ OwnScratch(t) /\ LoadsUnpublished(t)

\* Members of a finite set of integers differ in rank.
LEMMA RanksApart ==
  ASSUME NEW S, S \subseteq Int, IsFiniteSet(S), NEW i \in S, NEW j \in S,
         Cardinality({m \in S : m < i}) = Cardinality({m \in S : m < j})
  PROVE  i = j
<1> DEFINE Rank(x) == Cardinality({m \in S : m < x})
<1>1. /\ \A x \in S : Rank(x) \in 0..(Cardinality(S) - 1)
      /\ \A x, y \in S : x < y => Rank(x) < Rank(y)
  BY RankLemma
<1>2. Cardinality(S) \in Nat /\ i \in Int /\ j \in Int /\ Rank(i) = Rank(j)
  BY FS_CardinalityType
<1> HIDE DEF Rank
<1>3. Rank(i) \in Int /\ Rank(j) \in Int
  BY <1>1
<1>4. ~(Rank(i) < Rank(j)) /\ ~(Rank(j) < Rank(i))
  BY <1>2, <1>3
<1>5. ~(i < j) /\ ~(j < i)
  BY <1>1, <1>4
<1> QED
  BY <1>2, <1>5

\* Every buffer a read fills belongs to the query.
LEMMA TargetMine ==
  ASSUME QInv, NEW t \in Threads, Collects(t), NEW p, NEW b, Target(t, p, b)
  PROVE  p \in Pages /\ Mine(t, b)
<1>1. QueryTypes /\ IInv /\ QueryPlaces(t)
  BY DEF QInv, QueryBooks, BooksOf
<1>2. Len(got[t]) <= MaxBatch
  BY <1>1, GotFits
<1>3. CASE p \in RangePages(t) /\ b = RangeSlot(t, p)
  <2>1. RangePages(t) \subseteq ReadPages(t) /\ ReadPages(t) \subseteq Pages
    BY <1>1, ReadsFinite
  <2>2. b \in Scratch(t)
    BY <1>1, <1>2, <1>3, RangeSlots
  <2> QED
    BY <1>3, <2>1, <2>2 DEF Mine
<1>4. CASE \E e \in Reads(t) : e.page \notin RangePages(t) /\ p = e.page /\ b = e.buf
  BY <1>4, ReadEntry DEF Mine, Collects
<1> QED
  BY <1>3, <1>4 DEF Target

\* No two reads of a query share a buffer, whatever their entries.
LEMMA EntryUnique ==
  ASSUME QInv, NEW t \in Threads, Collects(t), NEW e \in Reads(t), NEW x \in Reads(t), e.buf = x.buf
  PROVE  e.page = x.page
<1>1. QueryTypes /\ IInv /\ QueryPlaces(t) /\ got[t] \in Seq(Entry)
  BY DEF QInv, QueryBooks, BooksOf, QueryTypes
<1>2. \A r \in pending : r \in held /\ r.frame \in Frames /\ r.page \in Pages /\ loading[r.page] = r.frame
  BY <1>1 DEF IInv, TypeOK, Reservation, OneLoaderPerPage
<1>3. \A y \in Scratch(t) : y \notin Frames
  BY ScratchAssumption
<1>4. CASE e.kind = "LOAD" /\ x.kind = "LOAD"
  <2>1. /\ e.res \in pending /\ e.res.page = e.page /\ e.res.frame = e.buf
        /\ x.res \in pending /\ x.res.page = x.page /\ x.res.frame = e.buf
    BY <1>4, ReadEntry DEF Collects
  <2>2. /\ loading[e.page] = e.buf /\ loading[x.page] = e.buf
        /\ e.page \in Pages /\ x.page \in Pages /\ e.buf # NoFrame
    BY <1>2, <2>1, NoneAssumption
  <2> QED
    BY <1>1, <2>2 DEF IInv, FramesHaveOneUse
<1>5. CASE e.kind = "BYPASS" /\ x.kind = "BYPASS"
  <2> DEFINE S == Bypassed(got[t])
  <2>1. PICK i \in S : e = got[t][i] /\ e.buf = <<t, Cardinality({m \in S : m < i})>>
    BY <1>5, ReadEntry DEF Collects
  <2>2. PICK j \in S : x = got[t][j] /\ x.buf = <<t, Cardinality({m \in S : m < j})>>
    BY <1>5, ReadEntry DEF Collects
  <2>3. S \subseteq Int /\ IsFiniteSet(S)
    <3>1. IsFiniteSet(S)
      BY <1>1, PlacesFinite DEF Bypassed
    <3>2. S \subseteq DOMAIN got[t] /\ DOMAIN got[t] \subseteq Int
      BY <1>1 DEF Bypassed, Places
    <3> QED
      BY <3>1, <3>2
  <2>4. Cardinality({m \in S : m < i}) = Cardinality({m \in S : m < j})
    BY <2>1, <2>2
  <2> HIDE DEF S
  <2>5. i = j
    BY <2>3, <2>4, RanksApart
  <2> QED
    BY <2>1, <2>2, <2>5
<1>6. CASE ~(e.kind = "LOAD" /\ x.kind = "LOAD") /\ ~(e.kind = "BYPASS" /\ x.kind = "BYPASS")
  <2>1. \/ e.buf \in Scratch(t) /\ x.res \in pending /\ x.res.frame = x.buf
        \/ x.buf \in Scratch(t) /\ e.res \in pending /\ e.res.frame = e.buf
    BY <1>6, ReadEntry DEF Collects
  <2> QED
    BY <1>2, <1>3, <2>1
<1> QED
  BY <1>4, <1>5, <1>6

\* No buffer is filled with two pages.
LEMMA TargetUnique ==
  ASSUME QInv, NEW t \in Threads, Collects(t), NEW p, NEW q, NEW b, Target(t, p, b), Target(t, q, b)
  PROVE  p = q
<1>1. QueryTypes /\ IInv /\ QueryPlaces(t) /\ got[t] \in Seq(Entry)
  BY DEF QInv, QueryBooks, BooksOf, QueryTypes
<1>2. Len(got[t]) <= MaxBatch
  BY <1>1, GotFits
<1> DEFINE Ranged(x) == x \in RangePages(t) /\ b = RangeSlot(t, x)
           Single(x) == \E e \in Reads(t) : e.page \notin RangePages(t) /\ x = e.page /\ b = e.buf
<1>3. (Ranged(p) \/ Single(p)) /\ (Ranged(q) \/ Single(q))
  BY DEF Target
<1>4. \A r \in pending : r \in held /\ r.frame \in Frames /\ r.page \in Pages /\ loading[r.page] = r.frame
  BY <1>1 DEF IInv, TypeOK, Reservation, OneLoaderPerPage
<1>5. \A x \in Scratch(t) : x \notin Frames
  BY ScratchAssumption
<1>6. ASSUME NEW x, NEW y, Ranged(x), Single(y)
      PROVE  FALSE
  <2>1. b \in Scratch(t)
    BY <1>1, <1>2, <1>6, RangeSlots
  <2>2. Bypassed(got[t]) = {}
    BY <1>6 DEF RangePages, Batched
  <2>3. PICK e \in Reads(t) : b = e.buf
    BY <1>6
  <2>4. e.kind = "LOAD" /\ e.res \in pending /\ e.res.frame = e.buf
    BY <2>2, ReadEntry DEF Collects
  <2> QED
    BY <1>4, <1>5, <2>1, <2>3, <2>4
<1>7. CASE Ranged(p) /\ Ranged(q)
  BY <1>1, <1>2, <1>7, RangeSlots
<1>8. CASE Single(p) /\ Single(q)
  BY <1>8, EntryUnique
<1> QED
  BY <1>3, <1>6, <1>7, <1>8

\* The requests fill exactly the targets.
LEMMA RequestsFill ==
  ASSUME QInv, NEW t \in Threads, Collects(t)
  PROVE  /\ \A op \in Requests(t, "sync") : op \in Ops /\ \A p \in DOMAIN op.to : Target(t, p, op.to[p])
         /\ \A p, b : Target(t, p, b) => \E op \in Requests(t, "sync") : p \in DOMAIN op.to /\ op.to[p] = b
         /\ IsFiniteSet(Requests(t, "sync"))
<1>1. QueryTypes /\ IInv
  BY DEF QInv
<1> DEFINE One(e) == [tag |-> "sync", to |-> [p \in {e.page} |-> e.buf]]
           Many(p) == [tag |-> "sync", to |-> [o \in {x \in RangePages(t) : SameRun(t, p, x)} |-> RangeSlot(t, o)]]
           X == {x \in Reads(t) : x.page \notin RangePages(t)}
<1>2. Requests(t, "sync") = {One(e) : e \in X} \cup {Many(p) : p \in RangePages(t)}
  BY DEF Requests
<1>3. ASSUME NEW op, op.tag = "sync", op = [tag |-> op.tag, to |-> op.to],
             NEW P, op.to = [p \in P |-> op.to[p]], \A p \in P : Target(t, p, op.to[p])
      PROVE  op \in Ops
  <2>1. \A p \in P : p \in Pages /\ op.to[p] \in Buffers
    BY <1>1, <1>3, TargetMine, MineApart
  <2>2. op.to \in [P -> Buffers] /\ P \in SUBSET Pages
    BY <1>3, <2>1
  <2> QED
    BY <1>3, <2>2 DEF Ops
<1>4. ASSUME NEW e \in X
      PROVE  One(e) \in Ops /\ \A p \in DOMAIN One(e).to : Target(t, p, One(e).to[p])
  <2>1. /\ One(e).tag = "sync" /\ One(e) = [tag |-> One(e).tag, to |-> One(e).to]
        /\ One(e).to = [p \in {e.page} |-> One(e).to[p]]
        /\ \A p \in {e.page} : Target(t, p, One(e).to[p])
    BY DEF Target
  <2> QED
    BY <1>3, <2>1
<1>5. ASSUME NEW p \in RangePages(t)
      PROVE  Many(p) \in Ops /\ \A o \in DOMAIN Many(p).to : Target(t, o, Many(p).to[o])
  <2> DEFINE P == {x \in RangePages(t) : SameRun(t, p, x)}
  <2>1. /\ Many(p).tag = "sync" /\ Many(p) = [tag |-> Many(p).tag, to |-> Many(p).to]
        /\ Many(p).to = [o \in P |-> Many(p).to[o]]
        /\ \A o \in P : Target(t, o, Many(p).to[o])
    BY DEF Target
  <2> QED
    BY <1>3, <2>1
<1>6. ASSUME NEW p, NEW b, Target(t, p, b)
      PROVE  \E op \in Requests(t, "sync") : p \in DOMAIN op.to /\ op.to[p] = b
  <2>1. CASE p \in RangePages(t) /\ b = RangeSlot(t, p)
    <3>1. p \in Nat
      BY <1>1, <2>1, ReadsFinite, PagesAssumption
    <3>2. SameRun(t, p, p)
      <4> SUFFICES ASSUME NEW x \in Pages, p <= x /\ x <= p
                   PROVE  x = p
        BY <2>1 DEF SameRun
      <4>1. x \in Nat
        BY PagesAssumption
      <4> QED
        BY <3>1, <4>1
    <3>3. Many(p) \in Requests(t, "sync") /\ p \in DOMAIN Many(p).to /\ Many(p).to[p] = b
      BY <1>2, <2>1, <3>2
    <3> QED
      BY <3>3
  <2>2. CASE \E e \in Reads(t) : e.page \notin RangePages(t) /\ p = e.page /\ b = e.buf
    <3>1. PICK e \in X : p = e.page /\ b = e.buf
      BY <2>2
    <3>2. One(e) \in Requests(t, "sync") /\ p \in DOMAIN One(e).to /\ One(e).to[p] = b
      BY <1>2, <3>1
    <3> QED
      BY <3>2
  <2> QED
    BY <1>6, <2>1, <2>2 DEF Target
<1>7. IsFiniteSet(Requests(t, "sync"))
  <2> DEFINE A == {One(e) : e \in X}
             B == {Many(p) : p \in RangePages(t)}
  <2>1. IsFiniteSet(X) /\ IsFiniteSet(RangePages(t))
    BY <1>1, ReadsFinite, FS_Subset
  <2>2. IsFiniteSet(A)
    <3> DEFINE f == [e \in X |-> One(e)]
    <3>1. f \in [X -> A] /\ \A y \in A : \E x \in X : f[x] = y
      OBVIOUS
    <3> HIDE DEF f, A, X
    <3> QED
      BY <2>1, <3>1, ImageFinite
  <2>3. IsFiniteSet(B)
    <3> DEFINE f == [p \in RangePages(t) |-> Many(p)]
    <3>1. f \in [RangePages(t) -> B] /\ \A y \in B : \E x \in RangePages(t) : f[x] = y
      OBVIOUS
    <3> HIDE DEF f, B
    <3> QED
      BY <2>1, <3>1, ImageFinite
  <2> QED
    BY <1>2, <2>2, <2>3, FS_Union
<1> HIDE DEF One, Many
<1> QED
  BY <1>2, <1>4, <1>5, <1>6, <1>7

-----------------------------------------------------------------------------
(***************************************************************************)
(* A query's buffers are out of reach of every other query's reads, and a  *)
(* resident page's frame is out of reach of all.                           *)
(***************************************************************************)
LEMMA HitBuffer ==
  ASSUME QInv, NEW t \in Threads, pc[t] # "thrown", NEW e \in ToSet(got[t]), e.kind = "HIT"
  PROVE  /\ e.buf \in Buffers /\ e.page \in ResidentPages /\ resident[e.page] = e.buf
         /\ \A u \in Threads : ~Mine(u, e.buf)
<1>1. QueryTypes /\ IInv /\ BooksOf(t)
  BY DEF QInv, QueryBooks
<1>2. e \in Entry
  BY <1>1, EntriesTyped DEF QueryTypes
<1>3. e.page \in Pages /\ e.buf \in Frames
  BY <1>2 DEF Entry, Granted, ScratchReads
<1>4. e.res \in held \ pending /\ e.res.page = e.page /\ e.res.frame = e.buf
  BY <1>1 DEF BooksOf, Describes
<1>5. resident[e.page] = e.buf
  BY <1>1, <1>4 DEF IInv, ReservedPageStays
<1>6. \A u \in Threads : ~Mine(u, e.buf)
  BY <1>1, <1>4, MineApart
<1> QED
  BY <1>3, <1>5, <1>6, NoneAssumption DEF Buffers, ResidentPages

\* No other query's reads reach a buffer this query was handed.
LEMMA HeldBuffer ==
  ASSUME QInv, NEW t \in Threads, pc[t] # "thrown", OwnScratch(t), NEW e \in ToSet(got[t]),
         NEW u \in Threads, u # t
  PROVE  e.buf \in Buffers /\ ~Mine(u, e.buf)
<1>1. QueryTypes /\ IInv /\ BooksOf(t)
  BY DEF QInv, QueryBooks
<1>2. e \in Entry
  BY <1>1, EntriesTyped DEF QueryTypes
<1>3. CASE e.kind = "BYPASS"
  <2>1. Mine(t, e.buf)
    BY <1>3, BypassEntry DEF Mine
  <2> QED
    BY <1>1, <2>1, MineApart
<1>4. CASE e.kind # "BYPASS"
  <2>1. e.buf \in Frames /\ e.res \in held /\ e.res.owner = t /\ e.res.frame = e.buf
    BY <1>1, <1>2, <1>4 DEF BooksOf, Describes, Entry, Granted, ScratchReads
  <2>2. CASE e.res \in pending
    <3>1. Mine(t, e.buf)
      BY <2>1, <2>2 DEF Mine
    <3> QED
      BY <1>1, <3>1, MineApart
  <2>3. CASE e.res \notin pending
    BY <1>1, <2>1, <2>3, MineApart DEF Buffers
  <2> QED
    BY <2>2, <2>3
<1> QED
  BY <1>3, <1>4

\* A step of u leaves the kernel contexts of the others alone and writes to
\* buffers of its own reads only.
KernelLocal(u) ==
  /\ \A t \in Threads \ {u} :
       inflight'[t] = inflight[t] /\ events'[t] = events[t] /\ expected'[t] = expected[t]
  /\ \A b \in Buffers : bytes'[b] = bytes[b] \/ Mine(u, b)

\* The bytes of a query survive the steps of another.
LEMMA OthersBytes ==
  ASSUME QInv, QueryBytes, NEW u \in Threads, Local(u), KernelLocal(u), NEW t \in Threads, t # u
  PROVE  BytesOf(t)'
<1>1. QueryTypes /\ IInv /\ BytesOf(t)
  BY DEF QInv, QueryBytes
<1>2. /\ got'[t] = got[t] /\ pc'[t] = pc[t] /\ opt' = opt
      /\ inflight'[t] = inflight[t] /\ events'[t] = events[t] /\ expected'[t] = expected[t]
  BY DEF Local, KernelLocal
<1>3. OwnScratch(t)'
  BY <1>1, <1>2 DEF BytesOf, OwnScratch
<1>4. ASSUME pc[t] \in {"reserve", "reading"}
      PROVE  LoadsUnpublished(t)'
  <2>1. \A e \in ToSet(got[t]) : e.kind = "LOAD" => e.res \in pending /\ e.res.owner = t
    BY <1>1, <1>4 DEF BytesOf, LoadsUnpublished, QInv, QueryBooks, BooksOf, Describes
  <2>2. pending \subseteq Reservation
    BY <1>1 DEF IInv, TypeOK
  <2>3. \A e \in ToSet(got[t]) : e.kind = "LOAD" => e.res \in pending'
    BY <2>1, <2>2 DEF Local
  <2> QED
    BY <1>2, <2>3 DEF LoadsUnpublished
<1>5. ASSUME pc[t] = "reading"
      PROVE  Reading(t)'
  <2>1. Requests(t, "sync")' = Requests(t, "sync")
    BY <1>2 DEF Requests, Reads, RangePages, RangeSlot, ReadPages, SameRun, Batched
  <2>2. Collects(t) /\ Reading(t)
    BY <1>1, <1>5 DEF Collects, BytesOf
  <2>3. ASSUME NEW op \in Requests(t, "sync"), Moved(op)
        PROVE  Moved(op)'
    <3> SUFFICES ASSUME NEW p \in DOMAIN op.to
                 PROVE  bytes'[op.to[p]] = p
      BY DEF Moved
    <3>1. Target(t, p, op.to[p])
      BY <2>2, RequestsFill
    <3>2. Mine(t, op.to[p])
      BY <2>2, <3>1, TargetMine
    <3>3. op.to[p] \in Buffers /\ ~Mine(u, op.to[p])
      BY <1>1, <3>2, MineApart
    <3> QED
      BY <2>3, <3>3 DEF KernelLocal, Moved
  <2> QED
    BY <1>2, <2>1, <2>2, <2>3 DEF Reading
<1>6. ASSUME pc[t] = "score"
      PROVE  HasBytes(t)'
  <2>1. \A e \in ToSet(got[t]) : e.buf \in Buffers /\ ~Mine(u, e.buf) /\ bytes[e.buf] = e.page
    BY <1>1, <1>6, HeldBuffer DEF BytesOf, HasBytes
  <2> QED
    BY <1>2, <2>1 DEF HasBytes, KernelLocal
<1>7. KernelQuiet(t) => KernelQuiet(t)'
  BY <1>2 DEF KernelQuiet
<1> QED
  BY <1>1, <1>2, <1>3, <1>4, <1>5, <1>6, <1>7 DEF BytesOf

\* So a step only has to account for the bytes of its own query.
LEMMA BytesFromLocal ==
  ASSUME QInv, QueryBytes, NEW u \in Threads, Local(u), KernelLocal(u),
         KernelTypes', ResidentPagesRead', BytesOf(u)'
  PROVE  QueryBytes'
BY OthersBytes DEF QueryBytes

\* Pages that stay where they are keep their bytes.
LEMMA ResidentKept ==
  ASSUME IInv, IInv', ResidentPagesRead, NEW u \in Threads, KernelLocal(u),
         \A p \in Pages : resident'[p] = resident[p] \/ resident'[p] = NoFrame
  PROVE  ResidentPagesRead'
<1> SUFFICES ASSUME NEW p \in Pages, resident'[p] # NoFrame
             PROVE  bytes'[resident'[p]] = p
  BY DEF ResidentPagesRead, ResidentPages
<1>1. resident'[p] = resident[p] /\ p \in ResidentPages
  BY DEF ResidentPages
<1>2. resident[p] \in Frames
  BY <1>1 DEF IInv, TypeOK, ResidentPages
<1>3. resident[p] \in Buffers /\ ~Mine(u, resident[p])
  BY <1>1, <1>2, MineApart DEF Buffers
<1> QED
  BY <1>1, <1>3 DEF KernelLocal, ResidentPagesRead

-----------------------------------------------------------------------------
(***************************************************************************)
(* The steps again, for the bytes.                                         *)
(***************************************************************************)
LEMMA QuietStep ==
  ASSUME QInv, IInv', QueryBytes, NEW u \in Threads, Local(u), UNCHANGED kernelVars,
         \A p \in Pages : resident'[p] = resident[p] \/ resident'[p] = NoFrame,
         BytesOf(u)'
  PROVE  QueryBytes'
<1>1. UNCHANGED <<expected, inflight, events, bytes>>
  BY DEF kernelVars
<1>2. KernelLocal(u)
  BY <1>1 DEF KernelLocal
<1>3. KernelTypes'
  BY <1>1 DEF QueryBytes, KernelTypes
<1>4. ResidentPagesRead'
  BY <1>2, ResidentKept DEF QInv, QueryBytes
<1> QED
  BY <1>2, <1>3, <1>4, BytesFromLocal

\* Steps that leave the cache and the kernel alone and do not reach a read.
LEMMA PlainSteps ==
  ASSUME QInv, QueryBytes, NEW u \in Threads, UNCHANGED opt,
         BeginRound(u) \/ BeginPrefetch(u) \/ BeginRefine(u) \/ EndSearch(u)
  PROVE  QueryBytes'
<1>1. QInv' /\ Local(u)
  BY BeginBooks, EndSearchBooks
<1>2. QueryTypes /\ IInv /\ QueryPlaces(u) /\ BytesOf(u)
  BY DEF QInv, QueryBooks, BooksOf, QueryBytes
<1>3. /\ UNCHANGED <<vars, got, kernelVars>> /\ pc[u] \in {"search", "refining"}
      /\ \E place \in {"reserve", "done", "completing", "refining"} : pc' = [pc EXCEPT ![u] = place]
  BY DEF BeginRound, BeginPrefetch, BeginRefine, EndSearch, Goto, AfterSearch
<1>4. /\ got[u] = <<>> /\ got'[u] = <<>> /\ pc'[u] \in {"reserve", "done", "completing", "refining"}
      /\ KernelQuiet(u) /\ KernelQuiet(u)' /\ UNCHANGED resident
  BY <1>2, <1>3 DEF QueryTypes, QueryPlaces, BytesOf, KernelQuiet, kernelVars, vars, poolVars
<1>5. BytesOf(u)'
  BY <1>4, NoEntries DEF BytesOf, OwnScratch, LoadsUnpublished
<1> QED
  BY <1>1, <1>3, <1>4, <1>5, QuietStep DEF QInv

\* Entering reserve and sleeping in it move no bytes.
LEMMA CallSteps ==
  ASSUME QInv, QueryBytes, NEW u \in Threads, UNCHANGED opt, CallReserve(u) \/ SleepForLoad(u)
  PROVE  QueryBytes'
<1>1. QInv' /\ Local(u)
  BY CallReserveBooks, SleepBooks
<1>2. BytesOf(u)
  BY DEF QueryBytes
<1>3. UNCHANGED <<resident, pending, got, pc, kernelVars>>
  BY DEF CallReserve, BeginReserve, SleepForLoad, ReserveWait, queryVars, poolVars
<1>4. BytesOf(u)'
  <2>1. pc[u] # "reading"
    BY DEF QInv, QueryBooks, BooksOf, QueryPlaces, CallReserve, SleepForLoad, ReserveWait, Ready
  <2> QED
    BY <1>2, <1>3, <2>1 DEF BytesOf, OwnScratch, LoadsUnpublished, KernelQuiet, HasBytes, kernelVars
<1> QED
  BY <1>1, <1>3, <1>4, QuietStep DEF QInv

\* A new HIT or LOAD leaves the scratch numbering alone.
LEMMA TakeResultBytes ==
  ASSUME QInv, QueryBytes, NEW u \in Threads, UNCHANGED opt, TakeResult(u)
  PROVE  QueryBytes'
<1>1. QInv' /\ Local(u)
  BY TakeResultBooks
<1>2. QueryTypes /\ IInv /\ QueryPlaces(u) /\ BytesOf(u) /\ got[u] \in Seq(Entry)
  BY DEF QInv, QueryBooks, BooksOf, QueryBytes, QueryTypes
<1>3. Takes(u)
  BY DEF TakeResult, Takes
<1>4. PICK r \in Reservation :
        /\ r \notin held /\ held' = held \cup {r}
        /\ pending' = IF r.state = "LOAD" THEN pending \cup {r} ELSE pending
  BY <1>2, <1>3, TakeFacts
<1> DEFINE e == [page |-> r.page, buf |-> r.frame, kind |-> r.state, res |-> r]
<1>5. e \in Entry /\ e.kind = r.state /\ e.res = r /\ e.kind # "BYPASS"
  BY <1>4 DEF Granted, Entry, Reservation
<1>6. got' = [got EXCEPT ![u] = Append(got[u], e)]
  <2>1. held' \ held = {r}
    BY <1>4
  <2>2. \E x \in held' \ held :
          got' = [got EXCEPT ![u] =
                    Append(got[u], [page |-> x.page, buf |-> x.frame, kind |-> x.state, res |-> x])]
    BY DEF TakeResult
  <2> QED
    BY <2>1, <2>2
<1> HIDE DEF e
<1>7. pc[u] = "reserve" /\ UNCHANGED <<pc, kernelVars>> /\ got'[u] = Append(got[u], e)
  <2>1. status[u] # "idle"
    BY <1>2, <1>3, TakeFacts, ReturnFacts
  <2> QED
    BY <1>2, <1>6, <2>1 DEF TakeResult, QueryPlaces, QueryTypes
<1>8. /\ ToSet(got'[u]) = ToSet(got[u]) \cup {e} /\ DOMAIN got[u] = 1..Len(got[u]) /\ Len(got[u]) \in Nat
      /\ DOMAIN got'[u] = 1..(Len(got[u]) + 1)
      /\ \A i \in 1..Len(got[u]) : got'[u][i] = got[u][i]
      /\ got'[u][Len(got[u]) + 1] = e
  BY <1>2, <1>5, <1>7, AppendEntries
<1>9. Bypassed(got'[u]) = Bypassed(got[u])
  BY <1>5, <1>8 DEF Bypassed, Places
<1>10. OwnScratch(u)'
  <2> SUFFICES ASSUME NEW i \in DOMAIN got'[u], got'[u][i].kind = "BYPASS"
               PROVE  got'[u][i].buf = <<u, Cardinality({j \in Bypassed(got[u]) : j < i})>>
    BY <1>9 DEF OwnScratch
  <2>1. i \in 1..Len(got[u])
    BY <1>5, <1>8
  <2>2. i \in DOMAIN got[u] /\ got'[u][i] = got[u][i]
    BY <1>8, <2>1
  <2> QED
    BY <1>2, <2>2 DEF BytesOf, OwnScratch
<1>11. LoadsUnpublished(u)'
  BY <1>2, <1>4, <1>5, <1>7, <1>8 DEF BytesOf, LoadsUnpublished
<1>12. BytesOf(u)'
  BY <1>2, <1>7, <1>10, <1>11 DEF BytesOf, KernelQuiet, kernelVars
<1>13. \A p \in Pages : resident'[p] = resident[p] \/ resident'[p] = NoFrame
  BY <1>2, <1>3 DEF Takes, ReserveHit, PinHit, ReserveFree, ReserveEvict, IInv, TypeOK
<1> QED
  BY <1>1, <1>7, <1>12, <1>13, QuietStep DEF QInv

\* Without a prefetch, the scratch pages of a read are numbered from 0.
LEMMA TakeBypassBytes ==
  ASSUME QInv, QueryBytes, ~opt.prefetch, NEW u \in Threads, UNCHANGED opt, TakeBypass(u)
  PROVE  QueryBytes'
<1>1. QInv' /\ Local(u)
  BY TakeBypassBooks
<1>2. QueryTypes /\ IInv /\ QueryPlaces(u) /\ BytesOf(u) /\ got[u] \in Seq(Entry)
  BY DEF QInv, QueryBooks, BooksOf, QueryBytes, QueryTypes
<1>3. /\ Ready(u) /\ Return(u) /\ UNCHANGED <<resident, pending, pc, kernelVars>>
  BY DEF TakeBypass, ReserveBypass, ReserveCoalesced, poolVars
<1>4. pc[u] = "reserve" /\ Head(todo[u]) \in Pages
  BY <1>2, <1>3, ReturnFacts DEF QueryPlaces
<1> DEFINE e == [page |-> Head(todo[u]), buf |-> NextScratch(u), kind |-> "BYPASS"]
           n == Len(got[u])
           S == Bypassed(got[u])
<1>5. kept[u] = <<>> /\ Bypassed(kept[u]) = {}
  BY <1>2 DEF QueryPlaces, Bypassed, Places
<1>6. Cardinality(S) \in Nat /\ n \in Nat /\ S \subseteq 1..n
  <2>1. Cardinality(S) \in Nat
    BY <1>2, PlacesFinite DEF Bypassed
  <2>2. n \in Nat /\ DOMAIN got[u] = 1..n
    BY <1>2
  <2>3. S \subseteq DOMAIN got[u]
    BY DEF Bypassed, Places
  <2> HIDE DEF n, S
  <2> QED
    BY <2>1, <2>2, <2>3
<1>7. e.buf = <<u, Cardinality(S)>> /\ e.kind = "BYPASS"
  <2>1. Cardinality(Bypassed(kept[u])) = 0
    BY <1>5, FS_EmptySet
  <2>2. e.buf = NextScratch(u) /\ e.kind = "BYPASS"
    OBVIOUS
  <2>3. (IF phase[u] = "frontier" THEN 0 ELSE Cardinality(Bypassed(kept[u]))) = 0
    BY <2>1
  <2>4. NextScratch(u) = <<u, Cardinality(S) + 0>>
    BY <2>3 DEF NextScratch
  <2>5. \A c \in Nat : c + 0 = c
    OBVIOUS
  <2>6. Cardinality(S) + 0 = Cardinality(S)
    BY <1>6, <2>5
  <2> QED
    BY <2>2, <2>4, <2>6
<1>8. e \in Entry
  <2>1. e.buf \in Threads \X Nat
    BY <1>6, <1>7
  <2> HIDE DEF S
  <2> QED
    BY <1>4, <2>1 DEF Entry, ScratchReads
<1>9. got'[u] = Append(got[u], e)
  BY <1>2 DEF TakeBypass, QueryTypes
<1> HIDE DEF e
<1>10. /\ ToSet(got'[u]) = ToSet(got[u]) \cup {e} /\ DOMAIN got[u] = 1..n
       /\ DOMAIN got'[u] = 1..(n + 1)
       /\ \A i \in 1..n : got'[u][i] = got[u][i]
       /\ got'[u][n + 1] = e
  BY <1>2, <1>8, <1>9, AppendEntries
<1>11. Bypassed(got'[u]) = S \cup {n + 1}
  BY <1>6, <1>7, <1>10 DEF Bypassed, Places
<1> HIDE DEF n, S
<1>12. OwnScratch(u)'
  <2> SUFFICES ASSUME NEW i \in 1..(n + 1), got'[u][i].kind = "BYPASS"
               PROVE  got'[u][i].buf = <<u, Cardinality({j \in S \cup {n + 1} : j < i})>>
    BY <1>10, <1>11 DEF OwnScratch
  <2>1. CASE i \in 1..n
    <3>1. {j \in S \cup {n + 1} : j < i} = {j \in S : j < i}
      BY <1>6, <2>1
    <3> QED
      BY <1>2, <1>10, <2>1, <3>1 DEF BytesOf, OwnScratch, S
  <2>2. CASE i = n + 1
    <3>1. \A j \in S : j \in Nat /\ j < n + 1
      BY <1>6
    <3>2. ~(n + 1 < n + 1)
      BY <1>6
    <3>3. {j \in S \cup {n + 1} : j < n + 1} = S
      BY <3>1, <3>2
    <3> QED
      BY <1>7, <1>10, <2>2, <3>3
  <2> QED
    BY <1>6, <2>1, <2>2
<1>13. BytesOf(u)'
  BY <1>2, <1>3, <1>4, <1>7, <1>10, <1>12 DEF BytesOf, KernelQuiet, LoadsUnpublished, kernelVars
<1> QED
  BY <1>1, <1>3, <1>13, QuietStep DEF QInv

\* Scoring and releasing move no bytes.
LEMMA ScoreBytes ==
  ASSUME QInv, QueryBytes, NEW u \in Threads, UNCHANGED opt, ScoreAndRelease(u)
  PROVE  QueryBytes'
<1>1. QInv' /\ Local(u)
  BY ScoreBooks
<1>2. QueryTypes /\ BytesOf(u)
  BY DEF QInv, QueryBytes
<1>3. /\ pc[u] = "score" /\ UNCHANGED <<resident, kernelVars>> /\ got'[u] = <<>>
      /\ pc'[u] \in {"done", "search"}
  BY <1>2 DEF ScoreAndRelease, Release, Goto, QueryTypes
<1>4. BytesOf(u)'
  BY <1>2, <1>3, NoEntries DEF BytesOf, OwnScratch, KernelQuiet, kernelVars
<1> QED
  BY <1>1, <1>3, <1>4, QuietStep DEF QInv


-----------------------------------------------------------------------------
(***************************************************************************)
(* Submitting, completing and publishing.                                  *)
(***************************************************************************)
\* A query with nothing to read scores pages that were resident.
LEMMA AllHits ==
  ASSUME QInv, ResidentPagesRead, NEW t \in Threads, pc[t] # "thrown", Reads(t) = {}
  PROVE  HasBytes(t)
<1> SUFFICES ASSUME NEW e \in ToSet(got[t])
             PROVE  bytes[e.buf] = e.page
  BY DEF HasBytes
<1>1. e.kind = "HIT"
  BY DEF Reads
<1>2. e.page \in ResidentPages /\ resident[e.page] = e.buf
  BY <1>1, HitBuffer
<1> QED
  BY <1>2 DEF ResidentPagesRead

\* The requests of a read depend on its entries and on the options only.
LEMMA RequestsKept ==
  ASSUME NEW t \in Threads, got'[t] = got[t], opt' = opt
  PROVE  Requests(t, "sync")' = Requests(t, "sync") /\ Reads(t)' = Reads(t)
BY DEF Requests, Reads, RangePages, RangeSlot, ReadPages, SameRun, Batched

\* read() hands the kernel its requests and counts them.
LEMMA SubmitReadBytes ==
  ASSUME QInv, QueryBytes, NEW u \in Threads, UNCHANGED opt, SubmitRead(u)
  PROVE  QueryBytes'
<1>1. QInv' /\ Local(u)
  BY SubmitReadBooks
<1>2. QueryTypes /\ IInv /\ BytesOf(u) /\ KernelTypes /\ ResidentPagesRead
  BY DEF QInv, QueryBytes
<1>3. /\ UNCHANGED <<resident, pending, got, events, bytes>> /\ opt' = opt
      /\ pc[u] = "reserve" /\ pc'[u] \in {"score", "reading"}
  BY <1>2 DEF SubmitRead, AllReserved, Goto, vars, poolVars, QueryTypes
<1>4. KernelQuiet(u) /\ OwnScratch(u) /\ LoadsUnpublished(u)
  BY <1>2, <1>3 DEF BytesOf
<1>5. OwnScratch(u)' /\ LoadsUnpublished(u)'
  BY <1>3, <1>4 DEF OwnScratch, LoadsUnpublished
<1>6. CASE Reads(u) = {}
  <2>1. pc'[u] = "score" /\ UNCHANGED <<inflight, expected>>
    BY <1>2, <1>6 DEF SubmitRead, Goto, QueryTypes
  <2>2. HasBytes(u)
    BY <1>2, <1>3, <1>6, AllHits
  <2>3. HasBytes(u)'
    BY <1>3, <2>2 DEF HasBytes
  <2>4. BytesOf(u)'
    BY <1>3, <1>4, <1>5, <2>1, <2>3 DEF BytesOf, KernelQuiet
  <2> QED
    BY <1>1, <1>3, <2>1, <2>4, QuietStep DEF QInv, kernelVars
<1>7. CASE Reads(u) # {}
  <2> DEFINE R == Requests(u, "sync")
  <2>1. /\ pc'[u] = "reading" /\ inflight' = [inflight EXCEPT ![u] = inflight[u] \cup R]
        /\ expected' = [expected EXCEPT ![u] = Cardinality(R)]
    BY <1>2, <1>7 DEF SubmitRead, Goto, QueryTypes
  <2>2. R \subseteq Ops /\ IsFiniteSet(R)
    BY <1>3, <1>4, RequestsFill DEF Collects
  <2>3. Cardinality(R) \in Nat
    BY <2>2, FS_CardinalityType
  <2>4. R = Requests(u, "sync")'
    BY <1>3, RequestsKept
  <2> HIDE DEF R
  <2>5. inflight'[u] = R /\ expected'[u] = Cardinality(R) /\ events'[u] = <<>>
    BY <1>2, <1>3, <1>4, <2>1 DEF KernelTypes, KernelQuiet
  <2>6. Reading(u)'
    <3>1. Cardinality(R) + Len(events'[u]) = Cardinality(R)
      BY <2>3, <2>5
    <3> QED
      BY <2>4, <2>5, <3>1 DEF Reading
  <2>7. BytesOf(u)'
    BY <1>5, <2>1, <2>6 DEF BytesOf
  <2>8. KernelTypes'
    BY <1>2, <1>3, <2>1, <2>2, <2>3 DEF KernelTypes
  <2>9. KernelLocal(u)
    BY <1>2, <1>3, <2>1 DEF KernelLocal, KernelTypes
  <2>10. ResidentPagesRead'
    BY <1>2, <1>3 DEF ResidentPagesRead, ResidentPages
  <2> QED
    BY <1>1, <2>7, <2>8, <2>9, <2>10, BytesFromLocal
<1> QED
  BY <1>6, <1>7

\* A refused batch leaves nothing in flight when the kernel refuses it whole.
LEMMA SubmitFailsBytes ==
  ASSUME QInv, QueryBytes, Reliable, NEW u \in Threads, UNCHANGED opt, SubmitFails(u)
  PROVE  QueryBytes'
<1>1. QInv' /\ Local(u)
  BY SubmitFailsBooks
<1>2. QueryTypes /\ IInv /\ BytesOf(u) /\ KernelTypes
  BY DEF QInv, QueryBytes
<1>3. /\ pc[u] = "reserve" /\ pc'[u] = "thrown"
      /\ UNCHANGED <<resident, got, expected, events, bytes>>
  BY <1>2 DEF SubmitFails, AllReserved, Goto, PublishFailed, vars, poolVars, QueryTypes
<1>4. Accepted(u) = {{}}
  BY DEF Accepted, Reliable
<1>5. inflight' = [inflight EXCEPT ![u] = inflight[u] \cup {}]
  BY <1>4 DEF SubmitFails
<1>6. UNCHANGED inflight
  BY <1>2, <1>5 DEF KernelTypes
<1>7. BytesOf(u)'
  BY <1>2, <1>3, <1>6 DEF BytesOf, OwnScratch, KernelQuiet
<1> QED
  BY <1>1, <1>3, <1>6, <1>7, QuietStep DEF QInv, kernelVars

\* The kernel moves the pages of one request to their buffers and nothing else.
LEMMA KernelBytes ==
  ASSUME QInv, QueryBytes, Reliable, NEW u \in Threads, KernelStep(u)
  PROVE  QueryBytes'
<1>1. QInv' /\ Local(u)
  BY KernelBooks
<1>2. QueryTypes /\ IInv /\ BytesOf(u) /\ KernelTypes /\ ResidentPagesRead
  BY DEF QInv, QueryBytes
<1>3. PICK op \in inflight[u], ok \in BOOLEAN : Complete(u, op, ok)
  BY DEF KernelStep
<1>4. ok
  BY <1>3 DEF Complete, Reliable
<1>5. /\ UNCHANGED <<opt, pc, got, resident, pending, expected>>
      /\ inflight' = [inflight EXCEPT ![u] = inflight[u] \ {op}]
      /\ events' = [events EXCEPT ![u] = Append(events[u], [tag |-> op.tag, ok |-> ok])]
  BY <1>3 DEF Complete, KernelStep, queryVars, vars, poolVars
<1>6. bytes' = [b \in Buffers |-> IF \E p \in DOMAIN op.to : op.to[p] = b
                                  THEN CHOOSE p \in DOMAIN op.to : op.to[p] = b
                                  ELSE bytes[b]]
  BY <1>3, <1>4 DEF Complete
<1>7. pc[u] = "reading"
  BY <1>2 DEF BytesOf, KernelQuiet
<1>8. Collects(u) /\ Reading(u)
  BY <1>2, <1>7 DEF BytesOf, Collects
<1> DEFINE R == Requests(u, "sync")
<1>9. /\ inflight[u] \subseteq R /\ IsFiniteSet(R) /\ op \in R /\ op \in Ops
      /\ \A o \in R : \A p \in DOMAIN o.to : Target(u, p, o.to[p])
  BY <1>8, RequestsFill DEF Reading
<1>10. R = Requests(u, "sync")'
  BY <1>5, RequestsKept
<1> HIDE DEF R
<1>11. ASSUME NEW p \in DOMAIN op.to
       PROVE  op.to[p] \in Buffers /\ Mine(u, op.to[p]) /\ p \in Pages /\ bytes'[op.to[p]] = p
  <2>1. Target(u, p, op.to[p])
    BY <1>9
  <2>2. op.to[p] \in Buffers /\ Mine(u, op.to[p]) /\ p \in Pages
    BY <1>2, <1>8, <2>1, TargetMine, MineApart
  <2>3. \A q \in DOMAIN op.to : op.to[q] = op.to[p] => q = p
    BY <1>8, <1>9, <2>1, TargetUnique
  <2>4. bytes'[op.to[p]] = CHOOSE q \in DOMAIN op.to : op.to[q] = op.to[p]
    BY <1>6, <2>2
  <2> QED
    BY <2>2, <2>3, <2>4
<1>12. ASSUME NEW b \in Buffers, \A p \in DOMAIN op.to : op.to[p] # b
       PROVE  bytes'[b] = bytes[b]
  BY <1>6, <1>12
<1>13. KernelLocal(u)
  <2>1. \A b \in Buffers : bytes'[b] = bytes[b] \/ Mine(u, b)
    BY <1>11, <1>12
  <2> QED
    BY <1>2, <1>5, <2>1 DEF KernelLocal, KernelTypes
<1>14. KernelTypes'
  <2>1. ASSUME NEW b \in Buffers
        PROVE  bytes'[b] \in Pages \cup {NoPage}
    <3>1. CASE \E p \in DOMAIN op.to : op.to[p] = b
      BY <1>11, <3>1
    <3>2. CASE ~ \E p \in DOMAIN op.to : op.to[p] = b
      BY <1>2, <1>12, <3>2 DEF KernelTypes
    <3> QED
      BY <3>1, <3>2
  <2>2. bytes' \in [Buffers -> Pages \cup {NoPage}]
    BY <1>6, <2>1
  <2>3. op.tag = "sync"
    BY <1>9 DEF Ops
  <2>4. events' \in [Threads -> Seq([tag : {"sync"}, ok : BOOLEAN])]
    BY <1>2, <1>5, <2>3 DEF KernelTypes
  <2> QED
    BY <1>2, <1>5, <2>2, <2>4 DEF KernelTypes
<1>15. ASSUME NEW o \in R, Moved(o)
       PROVE  Moved(o)'
  <2> SUFFICES ASSUME NEW p \in DOMAIN o.to
               PROVE  bytes'[o.to[p]] = p
    BY DEF Moved
  <2>1. Target(u, p, o.to[p]) /\ bytes[o.to[p]] = p
    BY <1>9, <1>15 DEF Moved
  <2>2. o.to[p] \in Buffers
    BY <1>2, <1>8, <2>1, TargetMine, MineApart
  <2>3. CASE \E q \in DOMAIN op.to : op.to[q] = o.to[p]
    <3>1. PICK q \in DOMAIN op.to : op.to[q] = o.to[p]
      BY <2>3
    <3>2. Target(u, q, o.to[p])
      BY <1>9, <3>1
    <3>3. q = p
      BY <1>8, <2>1, <3>2, TargetUnique
    <3> QED
      BY <1>11, <3>1, <3>3
  <2>4. CASE ~ \E q \in DOMAIN op.to : op.to[q] = o.to[p]
    BY <1>12, <2>1, <2>2, <2>4
  <2> QED
    BY <2>3, <2>4
<1>16. Reading(u)'
  <2>1. /\ inflight'[u] = inflight[u] \ {op} /\ events'[u] = Append(events[u], [tag |-> op.tag, ok |-> ok])
        /\ expected'[u] = expected[u] /\ events[u] \in Seq([tag : {"sync"}, ok : BOOLEAN])
    BY <1>2, <1>5 DEF KernelTypes
  <2>2. IsFiniteSet(inflight[u])
    BY <1>9, FS_Subset
  <2>3. Cardinality(inflight[u] \ {op}) = Cardinality(inflight[u]) - 1 /\ Cardinality(inflight[u]) \in Nat
    BY <2>2, FS_RemoveElement, FS_CardinalityType
  <2>4. Len(events'[u]) = Len(events[u]) + 1 /\ Len(events[u]) \in Nat
    BY <2>1
  <2>5. Cardinality(inflight[u]) + Len(events[u]) = expected[u]
    BY <1>8 DEF Reading
  <2>6. \A c, l \in Nat : (c - 1) + (l + 1) = c + l
    OBVIOUS
  <2>7. Cardinality(inflight'[u]) + Len(events'[u]) = expected'[u]
    <3>1. /\ Cardinality(inflight'[u]) = Cardinality(inflight[u]) - 1
          /\ Len(events'[u]) = Len(events[u]) + 1
      BY <2>1, <2>3, <2>4
    <3>2. (Cardinality(inflight[u]) - 1) + (Len(events[u]) + 1) = Cardinality(inflight[u]) + Len(events[u])
      BY <2>3, <2>4, <2>6
    <3>3. expected'[u] = Cardinality(inflight[u]) + Len(events[u])
      BY <2>1, <2>5
    <3> QED
      BY <3>1, <3>2, <3>3
  <2>8. ASSUME NEW o \in R \ inflight'[u]
        PROVE  Moved(o)'
    <3>1. CASE o = op
      BY <1>11, <3>1 DEF Moved
    <3>2. CASE o # op
      <4>1. Moved(o)
        BY <1>8, <2>1, <3>2 DEF Reading, R
      <4> QED
        BY <1>15, <4>1
    <3> QED
      BY <3>1, <3>2
  <2>9. inflight'[u] \subseteq R
    BY <1>9, <2>1
  <2> QED
    BY <1>10, <2>7, <2>8, <2>9 DEF Reading
<1>17. BytesOf(u)'
  BY <1>2, <1>5, <1>7, <1>16 DEF BytesOf, OwnScratch, LoadsUnpublished
<1>18. ResidentPagesRead'
  BY <1>1, <1>2, <1>5, <1>13, ResidentKept DEF QInv
<1> QED
  BY <1>1, <1>13, <1>14, <1>17, <1>18, BytesFromLocal

\* When read() has its completions, every page is where a request put it.
LEMMA ReadComplete ==
  ASSUME QInv, KernelTypes, NEW t \in Threads, Collects(t), Reading(t), Arrived(t)
  PROVE  /\ inflight[t] = {} /\ Len(events[t]) = expected[t]
         /\ \A p, b : Target(t, p, b) => bytes[b] = p
<1>1. inflight[t] \subseteq Requests(t, "sync") /\ IsFiniteSet(Requests(t, "sync"))
  BY RequestsFill DEF Reading
<1>2. IsFiniteSet(inflight[t])
  BY <1>1, FS_Subset
<1>3. Cardinality(inflight[t]) \in Nat
  BY <1>2, FS_CardinalityType
<1>4. Len(events[t]) \in Nat /\ expected[t] \in Nat
  BY DEF KernelTypes
<1>5. Cardinality(inflight[t]) + Len(events[t]) = expected[t] /\ Len(events[t]) >= expected[t]
  BY DEF Reading, Arrived
<1>6. \A c, l, x \in Nat : c + l = x /\ l >= x => c = 0 /\ l = x
  OBVIOUS
<1>7. Cardinality(inflight[t]) = 0 /\ Len(events[t]) = expected[t]
  BY <1>3, <1>4, <1>5, <1>6
<1>8. inflight[t] = {}
  BY <1>2, <1>7, FS_EmptySet
<1>9. ASSUME NEW p, NEW b, Target(t, p, b)
      PROVE  bytes[b] = p
  <2>1. PICK op \in Requests(t, "sync") : p \in DOMAIN op.to /\ op.to[p] = b
    BY <1>9, RequestsFill
  <2>2. Moved(op)
    BY <1>8, <2>1 DEF Reading
  <2> QED
    BY <2>1, <2>2 DEF Moved
<1> QED
  BY <1>7, <1>8, <1>9

\* The copies out of the range reads bring each page to its entry's buffer.
LEMMA CopiesLand ==
  ASSUME QInv, KernelTypes, ResidentPagesRead, NEW t \in Threads, Collects(t), Reading(t),
         ReadReturns(t)
  PROVE  /\ \A b \in Buffers : bytes'[b] = bytes[b] \/ (Mine(t, b) /\ bytes'[b] \in Pages)
         /\ \A e \in ToSet(got[t]) : bytes'[e.buf] = e.page
<1>1. QueryTypes /\ IInv /\ QueryPlaces(t) /\ Arrived(t)
  BY DEF QInv, QueryBooks, BooksOf, ReadReturns
<1>2. \A p, b : Target(t, p, b) => bytes[b] = p
  BY <1>1, ReadComplete
<1>3. bytes' = [b \in Buffers |->
                  IF CopiesFrom(t, b) = {} THEN bytes[b]
                  ELSE bytes[RangeSlot(t, (CHOOSE e \in CopiesFrom(t, b) : TRUE).page)]]
  BY DEF ReadReturns
<1>4. \A e \in Reads(t) : Mine(t, e.buf) /\ e.buf \in Buffers /\ e.page \in Pages
  <2> TAKE e \in Reads(t)
  <2>1. Mine(t, e.buf) /\ e.page \in Pages
    BY ReadEntry DEF Mine, Collects
  <2> QED
    BY <1>1, <2>1, MineApart
<1>5. ASSUME NEW e \in Reads(t), e.page \in RangePages(t)
      PROVE  bytes'[e.buf] = e.page
  <2> DEFINE x == CHOOSE y \in CopiesFrom(t, e.buf) : TRUE
  <2>1. x \in Reads(t) /\ x.buf = e.buf
    <3>1. e \in CopiesFrom(t, e.buf)
      BY <1>5 DEF CopiesFrom
    <3>2. x \in CopiesFrom(t, e.buf)
      BY <3>1
    <3> QED
      BY <3>2 DEF CopiesFrom
  <2>2. bytes'[e.buf] = bytes[RangeSlot(t, x.page)]
    <3>1. CopiesFrom(t, e.buf) # {}
      BY <1>5 DEF CopiesFrom
    <3> QED
      BY <1>3, <1>4, <3>1
  <2> HIDE DEF x
  <2>3. x.page = e.page
    BY <2>1, EntryUnique
  <2>4. Target(t, e.page, RangeSlot(t, e.page))
    BY <1>5 DEF Target
  <2> QED
    BY <1>2, <2>2, <2>3, <2>4
<1>6. ASSUME NEW b \in Buffers, \A e \in Reads(t) : e.page \in RangePages(t) => e.buf # b
      PROVE  bytes'[b] = bytes[b]
  <2>1. CopiesFrom(t, b) = {}
    BY <1>6 DEF CopiesFrom
  <2> QED
    BY <1>3, <2>1
<1>7. ASSUME NEW e \in Reads(t), e.page \notin RangePages(t)
      PROVE  bytes'[e.buf] = e.page
  <2>1. \A x \in Reads(t) : x.page \in RangePages(t) => x.buf # e.buf
    BY <1>7, EntryUnique
  <2>2. bytes'[e.buf] = bytes[e.buf]
    BY <1>4, <1>6, <2>1
  <2>3. Target(t, e.page, e.buf)
    BY <1>7 DEF Target
  <2> QED
    BY <1>2, <2>2, <2>3
<1>8. ASSUME NEW e \in ToSet(got[t]), e \notin Reads(t)
      PROVE  bytes'[e.buf] = e.page
  <2>1. e.kind = "HIT"
    BY <1>8 DEF Reads
  <2>2. /\ e.buf \in Buffers /\ e.page \in ResidentPages /\ resident[e.page] = e.buf
        /\ ~Mine(t, e.buf)
    BY <2>1, HitBuffer DEF Collects
  <2>3. \A x \in Reads(t) : x.buf # e.buf
    BY <1>4, <2>2
  <2>4. bytes'[e.buf] = bytes[e.buf]
    BY <1>6, <2>2, <2>3
  <2> QED
    BY <2>2, <2>4 DEF ResidentPagesRead
<1>9. ASSUME NEW b \in Buffers
      PROVE  bytes'[b] = bytes[b] \/ (Mine(t, b) /\ bytes'[b] \in Pages)
  <2>1. CASE \E e \in Reads(t) : e.page \in RangePages(t) /\ e.buf = b
    BY <1>4, <1>5, <2>1
  <2>2. CASE ~ \E e \in Reads(t) : e.page \in RangePages(t) /\ e.buf = b
    BY <1>6, <2>2
  <2> QED
    BY <2>1, <2>2
<1> QED
  BY <1>5, <1>7, <1>8, <1>9

\* The pages of a read become resident with their bytes in their frames.
LEMMA ReadReturnsBytes ==
  ASSUME QInv, QueryBytes, ~opt.prefetch, NEW u \in Threads, UNCHANGED opt, ReadReturns(u)
  PROVE  QueryBytes'
<1>1. QInv' /\ Local(u)
  BY ReadReturnsBooks
<1>2. QueryTypes /\ IInv /\ BooksOf(u) /\ BytesOf(u) /\ KernelTypes /\ ResidentPagesRead
  BY DEF QInv, QueryBooks, QueryBytes
<1>3. /\ pc[u] = "reading" /\ pc'[u] = "score" /\ Arrived(u)
      /\ UNCHANGED <<got, inflight>> /\ expected' = [expected EXCEPT ![u] = 0]
      /\ events' = [events EXCEPT ![u] = SubSeq(events[u], expected[u] + 1, Len(events[u]))]
      /\ PublishLoaded(u, Loads(got[u]), "DEMAND")
  BY <1>2 DEF ReadReturns, Goto, QueryTypes
<1>4. Collects(u) /\ Reading(u)
  BY <1>2, <1>3 DEF Collects, BytesOf
<1>5. inflight[u] = {} /\ Len(events[u]) = expected[u]
  BY <1>2, <1>3, <1>4, ReadComplete
<1>6. /\ \A b \in Buffers : bytes'[b] = bytes[b] \/ (Mine(u, b) /\ bytes'[b] \in Pages)
      /\ \A e \in ToSet(got[u]) : bytes'[e.buf] = e.page
  BY <1>2, <1>4, CopiesLand
<1>7. events'[u] = <<>> /\ expected'[u] = 0
  <2>1. events[u] \in Seq([tag : {"sync"}, ok : BOOLEAN])
    BY <1>2 DEF KernelTypes
  <2>2. SubSeq(events[u], Len(events[u]) + 1, Len(events[u])) = <<>>
    BY <2>1
  <2> QED
    BY <1>2, <1>3, <1>5, <2>2 DEF KernelTypes
<1>8. KernelTypes'
  <2>1. <<>> \in Seq([tag : {"sync"}, ok : BOOLEAN])
    OBVIOUS
  <2>2. events' = [events EXCEPT ![u] = <<>>]
    BY <1>2, <1>3, <1>7 DEF KernelTypes
  <2>3. events' \in [Threads -> Seq([tag : {"sync"}, ok : BOOLEAN])]
    BY <1>2, <2>1, <2>2 DEF KernelTypes
  <2>4. \A b \in Buffers : bytes'[b] \in Pages \cup {NoPage}
    BY <1>2, <1>6 DEF KernelTypes
  <2>5. bytes' = [b \in Buffers |-> bytes'[b]]
    BY DEF ReadReturns
  <2>6. bytes' \in [Buffers -> Pages \cup {NoPage}]
    BY <2>4, <2>5
  <2> QED
    BY <1>2, <1>3, <2>3, <2>6 DEF KernelTypes
<1>9. KernelLocal(u)
  BY <1>2, <1>3, <1>6 DEF KernelLocal, KernelTypes
<1>10. BytesOf(u)'
  <2>1. HasBytes(u)'
    BY <1>3, <1>6 DEF HasBytes
  <2>2. OwnScratch(u)'
    BY <1>3, <1>4 DEF OwnScratch, Collects
  <2> QED
    BY <1>3, <1>5, <1>7, <2>1, <2>2 DEF BytesOf, KernelQuiet
<1>11. ResidentPagesRead'
  <2> SUFFICES ASSUME NEW p \in Pages, resident'[p] # NoFrame
               PROVE  bytes'[resident'[p]] = p
    BY DEF ResidentPagesRead, ResidentPages
  <2>1. resident' = [x \in Pages |-> IF x \in PagesOf(Loads(got[u])) THEN loading[x] ELSE resident[x]]
    BY <1>3 DEF PublishLoaded
  <2>2. CASE p \in PagesOf(Loads(got[u]))
    <3>1. PICK i \in DOMAIN Loads(got[u]) : p = Loads(got[u])[i].page
      BY <2>2 DEF PagesOf
    <3>2. PICK r \in pending : r.owner = u /\ r.page = p
      BY <1>3, <3>1 DEF PublishLoaded, IsSpan
    <3>3. loading[p] = r.frame /\ r \in held
      BY <1>2, <3>2 DEF IInv, TypeOK, OneLoaderPerPage
    <3>4. kept[u] = <<>>
      BY <1>2 DEF BooksOf, QueryPlaces
    <3>5. PICK e \in ToSet(got[u]) : e.kind # "BYPASS" /\ e.res = r
      BY <1>2, <1>3, <3>2, <3>3, <3>4, NoEntries DEF BooksOf, Listed
    <3>6. e.page = p /\ e.buf = r.frame
      BY <1>2, <1>3, <3>2, <3>5 DEF BooksOf, Describes
    <3> QED
      BY <1>6, <2>1, <2>2, <3>3, <3>5, <3>6
  <2>3. CASE p \notin PagesOf(Loads(got[u]))
    <3>1. resident'[p] = resident[p] /\ p \in ResidentPages
      BY <2>1, <2>3 DEF ResidentPages
    <3>2. resident[p] \in Frames
      BY <1>2, <3>1 DEF IInv, TypeOK, ResidentPages
    <3>3. resident[p] \in Buffers /\ ~Mine(u, resident[p])
      BY <1>2, <3>1, <3>2, MineApart DEF Buffers
    <3> QED
      BY <1>2, <1>6, <3>1, <3>3 DEF ResidentPagesRead
  <2> QED
    BY <2>2, <2>3
<1> QED
  BY <1>1, <1>8, <1>9, <1>10, <1>11, BytesFromLocal

-----------------------------------------------------------------------------
(***************************************************************************)
(* The bytes invariant is inductive, beside the books.                     *)
(***************************************************************************)
LEMMA QueryInitBytes == QueryInit => ByteInv
<1> SUFFICES ASSUME QueryInit
             PROVE  QueryBytes
  BY DEF ByteInv
<1>1. KernelTypes
  BY DEF QueryInit, KernelTypes
<1>2. ResidentPagesRead
  BY DEF QueryInit, Init, ResidentPagesRead, ResidentPages
<1>3. ASSUME NEW t \in Threads
      PROVE  BytesOf(t)
  <2>1. pc[t] = "search" /\ got[t] = <<>> /\ inflight[t] = {} /\ events[t] = <<>>
    BY DEF QueryInit
  <2> QED
    BY <2>1, NoEntries DEF BytesOf, OwnScratch, KernelQuiet
<1> QED
  BY <1>1, <1>2, <1>3 DEF QueryBytes

\* The steps of a prefetch and of a signal do not happen here.
LEMMA QueryStepBytes == QInv /\ ByteInv /\ [QueryNext]_allVars => ByteInv'
<1> SUFFICES ASSUME QInv, ByteInv, [QueryNext]_allVars, Plain'
             PROVE  QueryBytes'
  BY DEF ByteInv
<1>1. opt' = opt
  BY DEF QueryNext, QueryStep, KernelStep, allVars
<1>2. Plain /\ QueryBytes /\ Reliable /\ ~opt.prefetch
  BY <1>1 DEF Plain, Reliable, ByteInv
<1>3. CASE UNCHANGED allVars
  <2>1. UNCHANGED <<opt, resident, pending, pc, got, expected, inflight, events, bytes>>
    BY <1>3 DEF allVars, vars, poolVars, queryVars, kernelVars
  <2>2. KernelTypes' /\ ResidentPagesRead'
    BY <1>2, <2>1 DEF QueryBytes, KernelTypes, ResidentPagesRead, ResidentPages
  <2>3. ASSUME NEW t \in Threads
        PROVE  BytesOf(t)'
    <3>1. Requests(t, "sync")' = Requests(t, "sync")
      BY <2>1, RequestsKept
    <3>2. Reading(t) => Reading(t)'
      BY <2>1, <3>1 DEF Reading, Moved
    <3>3. BytesOf(t)
      BY <1>2 DEF QueryBytes
    <3> QED
      BY <2>1, <3>2, <3>3 DEF BytesOf, OwnScratch, LoadsUnpublished, KernelQuiet, HasBytes
  <2> QED
    BY <2>2, <2>3 DEF QueryBytes
<1>4. ASSUME NEW u \in Threads, QueryStep(u)
      PROVE  QueryBytes'
  <2>1. QueryPlaces(u)
    BY DEF QInv, QueryBooks, BooksOf
  <2>2. ~SubmitAsync(u) /\ ~CompleteAsync(u) /\ ~ReadInterrupted(u)
    BY <1>2, <2>1 DEF SubmitAsync, CompleteAsync, ReadInterrupted, QueryPlaces, Reliable
  <2> QED
    BY <1>1, <1>2, <1>4, <2>2, PlainSteps, CallSteps, TakeResultBytes, TakeBypassBytes, SubmitReadBytes,
       SubmitFailsBytes, ReadReturnsBytes, ScoreBytes DEF QueryStep
<1>5. ASSUME NEW u \in Threads, KernelStep(u)
      PROVE  QueryBytes'
  BY <1>2, <1>5, KernelBytes
<1> QED
  BY <1>3, <1>4, <1>5 DEF QueryNext

\* Every distance is computed from the page it is meant for, in every search
\* without a refinement prefetch, whatever the order of reservations, reads,
\* evictions and completions of the other queries.
THEOREM ScoresRightBytesHolds == QuerySpec => [](~opt.prefetch => ScoresRightBytes)
<1>1. QInv /\ ByteInv => (~opt.prefetch => ScoresRightBytes)
  <2> SUFFICES ASSUME QInv, ByteInv, ~opt.prefetch, Reliable, NEW t \in Threads, pc[t] = "score",
                      NEW e \in ToSet(got[t]) \cup ToSet(kept[t])
               PROVE  bytes[e.buf] = e.page
    BY DEF ScoresRightBytes
  <2>1. HasBytes(t)
    BY DEF ByteInv, Plain, QueryBytes, BytesOf
  <2>2. kept[t] = <<>>
    BY DEF QInv, QueryBooks, BooksOf, QueryPlaces
  <2>3. e \in ToSet(got[t])
    BY <2>2, NoEntries
  <2> QED
    BY <2>1, <2>3 DEF HasBytes
<1> QED
  BY <1>1, QueryInitBooks, QueryStepBooks, QueryInitBytes, QueryStepBytes, PTL DEF QuerySpec
=============================================================================

---------------------------- MODULE Storage_proofs ----------------------------
(***************************************************************************)
(* Proofs about the storage of the incremental index: the disk manager, for *)
(* any number of chunk types, slots per chunk file, opens and page contents *)
(* and a crash or a failing step at any point, and one level of the chunk  *)
(* buffer pool, for any number of chunks and pins.                         *)
(***************************************************************************)
EXTENDS DiskManager, ChunkBufPool, SharedLemmas

-----------------------------------------------------------------------------
(***************************************************************************)
(* The inductive invariant.                                                *)
(***************************************************************************)
Managers == {"closed", "open_files", "failed", "hint", "ready", "flushing"}

\* The counts and free lists account for the client's chunks: what is held is below the
\* count and not free, and no slot is free twice.
Accounts(counts, lists, chunks) ==
  /\ counts \in [Types -> Nat] /\ lists \in [Types -> Seq(Nat)]
  /\ \A t \in Types :
       /\ \A no \in Range(lists[t]) : no < counts[t]
       /\ IsInjective(lists[t])
       /\ \A no \in DOMAIN chunks[t] : no < counts[t] /\ no \notin Range(lists[t])

\* The bytes of a metadata file that do.
AccountedBy(image, chunks) ==
  \E counts, lists : image = Image(counts, lists) /\ Accounts(counts, lists, chunks)

\* The metadata file can be loaded again, or is new and nothing was written yet.
FileAccounts ==
  \/ metaFile = NoMeta /\ \A t \in Types : DOMAIN held[t] = {}
  \/ AccountedBy(metaFile, held)

\* Every chunk reads back what its client wrote; a missing file has none.
Stored ==
  /\ DOMAIN held = Types /\ data \in [Types -> Seq(Pages)]
  /\ \A t \in Types :
       /\ DOMAIN held[t] \subseteq Nat
       /\ \A no \in DOMAIN held[t] : LoadChunk(t, no) = held[t][no]
       /\ t \notin exists => DOMAIN held[t] = {}

DiskInv ==
  /\ manager \in Managers /\ opened \subseteq Files /\ opened \subseteq exists
  /\ manager \in {"hint", "ready"} => Types \subseteq exists
  /\ manager = "closed" => opened = {}
  /\ manager = "flushing" \/ metaFile # NoMeta => Meta \in exists
  /\ clean =>
       /\ Stored
       /\ manager \in {"closed", "open_files", "failed", "hint"} => FileAccounts
       /\ manager = "hint" => metaFile = Image(meta, freeList)
       /\ manager \in {"hint", "ready"} => Accounts(meta, freeList, held)
       /\ manager = "flushing" => AccountedBy(Image(meta, freeList), held)

-----------------------------------------------------------------------------
(***************************************************************************)
(* What flush_meta writes, load_meta reads back.                           *)
(***************************************************************************)
\* The entries of the lists before type t's are those of the earlier types, list by list.
LEMMA BeforeLemma ==
  ASSUME NEW free \in [Types -> Nat]
  PROVE  /\ \A t \in 0..Levels : Before(free, t) \in Nat
         /\ \A t \in Types : Before(free, t + 1) = Before(free, t) + free[t]
         /\ \A s, t \in 0..Levels : s <= t => Before(free, s) <= Before(free, t)
<1> DEFINE Block(s) == {s} \X (1..free[s])
           Entries(t) == UNION {Block(s) : s \in 0..(t - 1)}
<1>1. Levels \in Nat \ {0} /\ Types = 0..(Levels - 1)
  BY DiskAssumption DEF Types
<1>2. \A t : Before(free, t) = Cardinality(Entries(t))
  BY DEF Before
<1>3. ASSUME NEW s \in Types
      PROVE  IsFiniteSet(Block(s)) /\ Cardinality(Block(s)) = free[s]
  <2>1. free[s] \in Nat
    OBVIOUS
  <2>2. IsFiniteSet({s}) /\ Cardinality({s}) = 1
    BY FS_Singleton
  <2>3. IsFiniteSet(1..free[s]) /\ Cardinality(1..free[s]) = free[s]
    BY <2>1, FS_Interval
  <2>4. IsFiniteSet(Block(s)) /\ Cardinality(Block(s)) = 1 * free[s]
    BY <2>2, <2>3, FS_Product
  <2> QED
    BY <2>1, <2>4
<1>4. ASSUME NEW t \in 0..Levels PROVE IsFiniteSet(Entries(t))
  <2> DEFINE S == 0..(t - 1)
             family == {Block(s) : s \in S}
             f == [s \in S |-> Block(s)]
  <2>1. IsFiniteSet(S) /\ S \subseteq Types
    <3>1. S \subseteq Types /\ 0 \in Int /\ t - 1 \in Int
      BY <1>1
    <3> QED
      BY <3>1, FS_Interval
  <2>2. f \in Surjection(S, family)
    BY DEF Surjection
  <2>3. IsFiniteSet(family)
    BY <2>1, <2>2, FS_Surjection
  <2>4. \A T \in family : IsFiniteSet(T)
    BY <1>3, <2>1
  <2> QED
    BY <2>3, <2>4, FS_UNION
<1>5. ASSUME NEW t \in Types
      PROVE  /\ Entries(t + 1) = Entries(t) \cup Block(t)
             /\ Entries(t) \cap Block(t) = {}
  <2>1. 0..((t + 1) - 1) = 0..(t - 1) \cup {t} /\ t \notin 0..(t - 1)
    BY <1>1
  <2> DEFINE S == 0..(t - 1)
  <2> HIDE DEF S
  <2>2. UNION {Block(s) : s \in S \cup {t}} = (UNION {Block(s) : s \in S}) \cup Block(t)
    OBVIOUS
  <2>3. t \notin S => (UNION {Block(s) : s \in S}) \cap Block(t) = {}
    OBVIOUS
  <2> QED
    BY <2>1, <2>2, <2>3 DEF S
<1>6. ASSUME NEW s \in 0..Levels, NEW t \in 0..Levels, s <= t
      PROVE  Entries(s) \subseteq Entries(t)
  <2>1. 0..(s - 1) \subseteq 0..(t - 1)
    BY <1>1, <1>6
  <2> QED
    BY <2>1
<1> HIDE DEF Block, Entries
<1>7. \A t \in 0..Levels : Before(free, t) \in Nat
  BY <1>2, <1>4, FS_CardinalityType
<1>8. ASSUME NEW t \in Types PROVE Before(free, t + 1) = Before(free, t) + free[t]
  <2>1. t \in 0..Levels
    BY <1>1
  <2>2. Cardinality(Entries(t) \cup Block(t)) = Cardinality(Entries(t)) + Cardinality(Block(t))
    BY <1>3, <1>4, <1>5, <2>1, DisjointCardinality
  <2> QED
    BY <1>2, <1>3, <1>5, <2>2
<1>9. ASSUME NEW s \in 0..Levels, NEW t \in 0..Levels, s <= t
      PROVE  Before(free, s) <= Before(free, t)
  BY <1>2, <1>4, <1>6, <1>9, FS_Subset
<1> QED
  BY <1>7, <1>8, <1>9

\* In tail each list stands where the lengths of those before it say.
LaidOut(tail, lists, free) ==
  /\ Len(tail) = Before(free, Levels) /\ DOMAIN tail = 1..Before(free, Levels)
  /\ \A t \in Types : \A i \in 1..free[t] :
       /\ Before(free, t) + i \in 1..Before(free, Levels)
       /\ tail[Before(free, t) + i] = lists[t][i]

\* flush_meta writes the lists of all types in a row.
LEMMA ConcatLemma ==
  ASSUME NEW lists \in [Types -> Seq(Nat)], NEW free, free = Lengths(lists)
  PROVE  LaidOut(Concat(lists), lists, free)
<1> DEFINE B(t) == Before(free, t)
           n == B(Levels)
           owner(k) == Owner(free, k)
           c == [k \in 1..n |-> lists[owner(k)][k - B(owner(k))]]
<1>1. Concat(lists) = c
  BY DEF Concat
<1>2. free \in [Types -> Nat] /\ \A t \in Types : free[t] = Len(lists[t])
  BY DEF Lengths
<1>3. Levels \in Nat \ {0} /\ Types = 0..(Levels - 1)
  BY DiskAssumption DEF Types
<1>4. /\ \A t \in 0..Levels : B(t) \in Nat
      /\ \A t \in Types : B(t + 1) = B(t) + free[t]
      /\ \A s, t \in 0..Levels : s <= t => B(s) <= B(t)
  BY <1>2, BeforeLemma
<1>5. \A k : owner(k) = CHOOSE t \in Types : B(t) < k /\ k <= B(t + 1)
  BY DEF Owner
<1> HIDE DEF B, owner
<1>6. n \in Nat
  BY <1>3, <1>4
<1>7. Len(c) = n /\ DOMAIN c = 1..n
  <2> DEFINE S == {c[k] : k \in 1..n}
  <2>1. c \in [1..n -> S]
    OBVIOUS
  <2> HIDE DEF c, n, S
  <2> QED
    BY <1>6, <2>1, FunctionIsSeq
<1>8. ASSUME NEW t \in Types, NEW i \in 1..free[t]
      PROVE  B(t) + i \in 1..n /\ owner(B(t) + i) = t
  <2>1. /\ t \in 0..Levels /\ t + 1 \in 0..Levels /\ t + 1 <= Levels
        /\ Levels \in 0..Levels /\ free[t] \in Nat /\ i \in Nat /\ 1 <= i /\ i <= free[t]
    BY <1>2, <1>3
  <2>2. B(t) \in Nat /\ B(t + 1) = B(t) + free[t] /\ B(t + 1) <= n /\ n \in Nat
    BY <1>4, <1>6, <2>1
  <2>3. B(t) + i \in 1..n /\ B(t) < B(t) + i /\ B(t) + i <= B(t + 1)
    BY <2>1, <2>2
  <2>4. ASSUME NEW s \in Types, B(s) < B(t) + i, B(t) + i <= B(s + 1), s # t
        PROVE  FALSE
    <3>1. s \in 0..Levels /\ s + 1 \in 0..Levels /\ (s + 1 <= t \/ t + 1 <= s)
      BY <1>3, <2>4
    <3>2. B(s + 1) <= B(t) \/ B(t + 1) <= B(s)
      BY <1>4, <2>1, <3>1
    <3>3. B(s) \in Nat /\ B(s + 1) \in Nat
      BY <1>4, <3>1
    <3>4. B(t) + i \in Nat /\ B(t + 1) \in Nat /\ B(t) <= B(t) + i
      BY <2>1, <2>2
    <3> DEFINE k == B(t) + i
    <3> HIDE DEF k
    <3>5. /\ k \in Nat /\ B(s) < k /\ k <= B(s + 1) /\ B(t) < k /\ k <= B(t + 1)
          /\ B(t) \in Nat /\ B(t + 1) \in Nat
      BY <2>2, <2>3, <2>4, <3>4 DEF k
    <3> QED
      BY <3>2, <3>3, <3>5
  <2> QED
    BY <1>5, <2>3, <2>4
<1>9. ASSUME NEW t \in Types, NEW i \in 1..free[t]
      PROVE  c[B(t) + i] = lists[t][i]
  <2>1. B(t) + i \in 1..n /\ owner(B(t) + i) = t
    BY <1>8
  <2>2. B(t) \in Int /\ i \in Int
    BY <1>3, <1>4
  <2>3. (B(t) + i) - B(t) = i
    BY <2>2
  <2> HIDE DEF owner, n
  <2> QED
    BY <2>1, <2>3
<1> QED
  BY <1>1, <1>7, <1>8, <1>9 DEF B, n, LaidOut

\* load_meta finds no bad list in what flush_meta wrote, and reads every list back.
LEMMA ReadBackLemma ==
  ASSUME NEW counts, NEW lists, NEW chunks, Accounts(counts, lists, chunks),
         NEW image, image = Image(counts, lists)
  PROVE  /\ image # NoMeta /\ image.counts = counts
         /\ \A t \in Types : ListOf(image, t) = lists[t]
         /\ BadLists(image) = {}
<1> DEFINE free == Lengths(lists)
           tail == Concat(lists)
<1>1. counts \in [Types -> Nat] /\ lists \in [Types -> Seq(Nat)]
  BY DEF Accounts
<1>2. image.counts = counts /\ image.free = free /\ image.tail = tail
  BY DEF Image
<1>3. image # NoMeta
  BY DEF Image, NoMeta
<1>4. free \in [Types -> Nat] /\ \A t \in Types : free[t] = Len(lists[t])
  BY <1>1 DEF Lengths
<1>5. free = Lengths(lists) /\ tail = Concat(lists)
  OBVIOUS
<1> HIDE DEF free, tail
<1>6. /\ Len(tail) = Before(free, Levels) /\ DOMAIN tail = 1..Before(free, Levels)
      /\ \A t \in Types : \A i \in 1..free[t] :
           /\ Before(free, t) + i \in 1..Before(free, Levels)
           /\ tail[Before(free, t) + i] = lists[t][i]
  <2>1. LaidOut(tail, lists, free)
    BY <1>1, <1>5, ConcatLemma
  <2> QED
    BY <2>1 DEF LaidOut
<1>7. \A t \in Types : ListOf(image, t) = lists[t]
  <2> SUFFICES ASSUME NEW t \in Types PROVE ListOf(image, t) = lists[t]
    OBVIOUS
  <2>1. lists[t] \in Seq(Nat) /\ lists[t] = [i \in 1..free[t] |-> lists[t][i]]
    BY <1>1, <1>4
  <2>2. ListOf(image, t) =
          [i \in 1..free[t] |-> IF Before(free, t) + i \in DOMAIN tail
                                THEN tail[Before(free, t) + i] ELSE 0]
    BY <1>2 DEF ListOf
  <2>3. \A i \in 1..free[t] : (IF Before(free, t) + i \in DOMAIN tail
                                THEN tail[Before(free, t) + i] ELSE 0) = lists[t][i]
    BY <1>6
  <2> QED
    BY <2>1, <2>2, <2>3
<1>8. ASSUME NEW t \in Types
      PROVE  /\ ~(Before(image.free, t + 1) > Len(image.tail))
             /\ \A no \in Range(ListOf(image, t)) : ~(no >= image.counts[t])
  <2>1. t + 1 \in 0..Levels /\ Levels \in 0..Levels /\ t + 1 <= Levels
    BY DiskAssumption DEF Types
  <2>2. /\ Before(free, t + 1) <= Before(free, Levels)
        /\ Before(free, t + 1) \in Nat /\ Before(free, Levels) \in Nat
    BY <1>4, <2>1, BeforeLemma
  <2>3. ~(Before(image.free, t + 1) > Len(image.tail))
    BY <1>2, <1>6, <2>2
  <2>4. \A no \in Range(lists[t]) : no \in Nat /\ no < counts[t] /\ counts[t] \in Nat
    BY <1>1 DEF Accounts, Range
  <2>5. \A no \in Range(lists[t]) : ~(no >= counts[t])
    BY <2>4
  <2> QED
    BY <1>2, <1>7, <2>3, <2>5
<1> QED
  BY <1>2, <1>3, <1>7, <1>8 DEF BadLists

\* Chunks a client gave up are accounted for all the more.
LEMMA FewerChunks ==
  ASSUME NEW counts, NEW lists, NEW chunks, Accounts(counts, lists, chunks),
         NEW fewer, \A t \in Types : DOMAIN fewer[t] \subseteq DOMAIN chunks[t]
  PROVE  Accounts(counts, lists, fewer)
BY DEF Accounts

-----------------------------------------------------------------------------
(***************************************************************************)
(* Opening and closing.                                                    *)
(***************************************************************************)
\* A new prefix holds nothing; what an earlier process closed accounts for its chunks.
LEMMA DiskInitInv == DiskInit => DiskInv
<1> SUFFICES ASSUME DiskInit PROVE DiskInv
  OBVIOUS
<1>1. manager = "closed" /\ opened = {} /\ Managers = {"closed", "open_files", "failed", "hint", "ready", "flushing"}
  BY DEF DiskInit, Managers
<1>2. CASE exists = {} /\ metaFile = NoMeta /\ data = [t \in Types |-> <<>>] /\ held = NoHeld
  <2>1. DOMAIN held = Types /\ \A t \in Types : DOMAIN held[t] = {}
    BY <1>2 DEF NoHeld
  <2>2. data \in [Types -> Seq(Pages)]
    BY <1>2
  <2>3. Stored /\ FileAccounts
    BY <1>2, <2>1, <2>2 DEF Stored, FileAccounts
  <2> QED
    BY <1>1, <1>2, <2>3 DEF DiskInv
<1>3. ASSUME NEW n \in [Types -> 0..MaxChunks], NEW v \in Values,
             NEW deleted \in SUBSET {t \in Types : n[t] > 0},
             exists = Files, metaFile = Image(n, LastFreed(n, deleted)),
             data = [t \in Types |-> [i \in 1..n[t] |-> v]],
             held = [t \in Types |->
                       [no \in (0..(n[t] - 1)) \ Range(LastFreed(n, deleted)[t]) |-> v]]
      PROVE  DiskInv
  <2> DEFINE lists == LastFreed(n, deleted)
  <2>1. \A t \in Types : n[t] \in Nat
    BY <1>3, DiskAssumption
  <2>2. ASSUME NEW t \in Types
        PROVE  /\ lists[t] \in Seq(Nat) /\ IsInjective(lists[t])
               /\ \A no \in Range(lists[t]) : no < n[t]
    <3>1. CASE t \in deleted
      <4>1. lists[t] = <<n[t] - 1>> /\ n[t] - 1 \in Nat /\ n[t] - 1 < n[t]
        BY <1>3, <2>1, <3>1 DEF LastFreed
      <4> QED
        BY <4>1 DEF IsInjective, Range
    <3>2. CASE t \notin deleted
      <4>1. lists[t] = <<>>
        BY <1>3, <3>2 DEF LastFreed
      <4> QED
        BY <4>1 DEF IsInjective, Range
    <3> QED
      BY <3>1, <3>2
  <2>3. \A t \in Types : /\ DOMAIN held[t] = (0..(n[t] - 1)) \ Range(lists[t])
                         /\ \A no \in DOMAIN held[t] : held[t][no] = v
    BY <1>3
  <2> HIDE DEF lists
  <2>4. Accounts(n, lists, held)
    <3>1. n \in [Types -> Nat] /\ lists \in [Types -> Seq(Nat)]
      BY <1>3, <2>1, <2>2 DEF LastFreed, lists
    <3>2. \A t \in Types : \A no \in DOMAIN held[t] : no < n[t] /\ no \notin Range(lists[t])
      BY <2>1, <2>3
    <3> QED
      BY <2>2, <3>1, <3>2 DEF Accounts
  <2>5. FileAccounts
    BY <1>3, <2>4 DEF FileAccounts, AccountedBy, lists
  <2>6. ASSUME NEW t \in Types
        PROVE  /\ data[t] \in Seq(Pages) /\ DOMAIN held[t] \subseteq Nat
               /\ \A no \in DOMAIN held[t] : LoadChunk(t, no) = held[t][no]
    <3>1. data[t] = [i \in 1..n[t] |-> v] /\ v \in Pages
      BY <1>3 DEF Pages
    <3>2. data[t] \in Seq(Pages) /\ Len(data[t]) = n[t]
      BY <2>1, <3>1, FunctionIsSeq
    <3>3. \A no \in 0..(n[t] - 1) : no < n[t] /\ no + 1 \in 1..n[t]
      BY <2>1
    <3> QED
      BY <2>3, <3>1, <3>2, <3>3 DEF LoadChunk
  <2>7. Stored
    BY <1>3, <2>6 DEF Stored, Files
  <2> QED
    BY <1>1, <1>3, <2>5, <2>7 DEF DiskInv, Files
<1>4. CASE ~(exists = {} /\ metaFile = NoMeta /\ data = [t \in Types |-> <<>>] /\ held = NoHeld)
  <2>1. PICK n \in [Types -> 0..MaxChunks], v \in Values :
          \E deleted \in SUBSET {t \in Types : n[t] > 0} :
            /\ exists = Files
            /\ metaFile = Image(n, LastFreed(n, deleted))
            /\ data = [t \in Types |-> [i \in 1..n[t] |-> v]]
            /\ held = [t \in Types |->
                         [no \in (0..(n[t] - 1)) \ Range(LastFreed(n, deleted)[t]) |-> v]]
    BY <1>4, Zenon DEF DiskInit
  <2> QED
    BY <1>3, <2>1, Zenon
<1> QED
  BY <1>2, <1>4

\* Steps that leave the files, the metadata and the client's chunks alone.
LEMMA PlaceStepInv ==
  ASSUME DiskInv, UNCHANGED <<exists, metaFile, data, meta, freeList, held, clean>>,
         opened' = {} \/ (opened' = opened /\ (manager' = "closed" => manager = "closed")),
         manager' \in Managers,
         \/ manager' = manager
         \/ /\ manager \in {"closed", "open_files", "failed", "hint"}
            /\ manager' \in {"closed", "open_files", "failed"}
         \/ manager = "hint" /\ manager' = "ready"
  PROVE  DiskInv'
<1>1. Stored' = Stored
  BY DEF Stored, LoadChunk
<1>2. FileAccounts' = FileAccounts
  BY DEF FileAccounts
<1>3. /\ (manager \in {"hint", "ready"})' => Types \subseteq exists'
      /\ opened' \subseteq Files /\ opened' \subseteq exists'
  BY DEF DiskInv
<1> QED
  BY <1>1, <1>2, <1>3 DEF DiskInv

\* Opening a file empties it only when it is new or everything is given up.
LEMMA PrepareFileInv ==
  ASSUME DiskInv, PrepareFile
  PROVE  DiskInv'
<1> DEFINE f == NextFile
<1>1. /\ manager = "open_files" /\ f \in Files
      /\ UNCHANGED <<meta, freeList, options, clean, opens>>
  BY DEF PrepareFile
<1>2. CASE f \notin exists /\ ~options.create
  <2>1. manager' = "failed" /\ UNCHANGED <<exists, metaFile, data, opened, held>>
    BY <1>2 DEF PrepareFile
  <2> QED
    BY <1>1, <2>1, PlaceStepInv DEF Managers
<1>3. CASE ~(f \notin exists /\ ~options.create)
  <2>1. /\ exists' = exists \cup {f} /\ opened' = opened \cup {f} /\ manager' = manager
        /\ metaFile' = IF Emptied(f) /\ f = Meta THEN NoMeta ELSE metaFile
        /\ data' = IF Emptied(f) /\ f \in Types THEN [data EXCEPT ![f] = <<>>] ELSE data
        /\ held' = IF options.truncate THEN NoHeld ELSE held
    BY <1>3 DEF PrepareFile
  <2> HIDE DEF f
  <2>2. opened' \subseteq Files /\ opened' \subseteq exists'
    BY <1>1, <2>1 DEF DiskInv
  <2>3. metaFile' # NoMeta => Meta \in exists'
    BY <2>1 DEF DiskInv
  <2>4. CASE ~clean
    BY <1>1, <2>1, <2>2, <2>4, <2>3 DEF DiskInv
  <2>5. CASE clean
    <3>1. Stored /\ FileAccounts
      BY <1>1, <2>5 DEF DiskInv
    <3>2. options.truncate => DOMAIN held' = Types /\ \A t \in Types : DOMAIN held'[t] = {}
      BY <2>1 DEF NoHeld
    <3>3. data' \in [Types -> Seq(Pages)]
      BY <2>1, <3>1 DEF Stored
    <3>4. Stored'
      <4>1. CASE options.truncate
        BY <3>2, <3>3, <4>1 DEF Stored
      <4>2. CASE ~options.truncate
        <5>1. held' = held
          BY <2>1, <4>2
        <5>2. \A t \in Types : data'[t] = data[t] \/ (t = f /\ f \notin exists)
          BY <2>1, <3>1, <4>2 DEF Stored, Emptied
        <5>3. ASSUME NEW t \in Types, NEW no \in DOMAIN held[t]
              PROVE  LoadChunk(t, no)' = held[t][no]
          <6>1. t \in exists
            BY <3>1, <5>3 DEF Stored
          <6>2. data'[t] = data[t]
            BY <5>2, <6>1
          <6> QED
            BY <3>1, <5>3, <6>2 DEF Stored, LoadChunk
        <5> QED
          BY <2>1, <3>1, <3>3, <5>1, <5>3 DEF Stored
      <4> QED
        BY <4>1, <4>2
    <3>5. FileAccounts'
      <4>1. CASE options.truncate
        <5>1. CASE metaFile' = NoMeta
          BY <3>2, <4>1, <5>1 DEF FileAccounts
        <5>2. CASE metaFile' = metaFile /\ AccountedBy(metaFile, held)
          BY <3>2, <4>1, <5>2, FewerChunks DEF FileAccounts, AccountedBy
        <5> QED
          BY <2>1, <3>1, <5>1, <5>2 DEF FileAccounts
      <4>2. CASE ~options.truncate
        <5>1. held' = held
          BY <2>1, <4>2
        <5>2. CASE metaFile' = metaFile
          BY <3>1, <5>1, <5>2 DEF FileAccounts
        <5>3. CASE metaFile' # metaFile
          <6>1. f = Meta /\ Meta \notin exists /\ metaFile' = NoMeta
            BY <2>1, <4>2, <5>3 DEF Emptied
          <6> QED
            BY <5>3, <6>1 DEF DiskInv
        <5> QED
          BY <5>2, <5>3
      <4> QED
        BY <4>1, <4>2
    <3> QED
      BY <1>1, <2>1, <2>2, <2>5, <2>3, <3>4, <3>5 DEF DiskInv
  <2> QED
    BY <2>4, <2>5
<1> QED
  BY <1>2, <1>3

\* When there is no file left to open, every file is open.
LEMMA AllOpened ==
  ASSUME DiskInv, NextFile \notin Files
  PROVE  Files \subseteq exists
<1>1. Levels \in Nat \ {0} /\ Files = -1..(Levels - 1)
  BY DiskAssumption DEF Files, Types, Meta
<1>2. IsFiniteSet(Files) /\ Cardinality(Files) = Levels + 1
  <2>1. -1 \in Int /\ Levels - 1 \in Int /\ ~(-1 > Levels - 1) /\ (Levels - 1) - (-1) + 1 = Levels + 1
    BY <1>1
  <2> QED
    BY <1>1, <2>1, FS_Interval
<1>3. opened \subseteq Files /\ opened \subseteq exists
  BY DEF DiskInv
<1>4. /\ Cardinality(opened) \in Nat /\ Cardinality(opened) <= Levels + 1
      /\ Cardinality(Files) = Cardinality(opened) => Files = opened
  BY <1>2, <1>3, FS_Subset, FS_CardinalityType
<1>5. Cardinality(opened) = Levels + 1
  BY <1>1, <1>4 DEF NextFile
<1> QED
  BY <1>2, <1>3, <1>4, <1>5

\* A fresh header accounts for a client that has nothing; a file that accounts for the
\* client's chunks is read back as it was written.
LEMMA LoadMetaInv ==
  ASSUME DiskInv, LoadMeta
  PROVE  DiskInv'
<1>1. /\ manager = "open_files" /\ UNCHANGED <<exists, data, options, opened, held, opens>>
      /\ Files \subseteq exists
  BY AllOpened DEF LoadMeta
<1>2. Types \subseteq exists /\ Meta \in exists
  BY <1>1 DEF Files
<1>3. CASE metaFile = NoMeta
  <2>1. /\ meta' = ZeroCounts /\ freeList' = NoFree /\ metaFile' = Image(ZeroCounts, NoFree)
        /\ clean' = (clean /\ held = NoHeld) /\ manager' = "hint"
    BY <1>3 DEF LoadMeta
  <2>2. CASE ~clean'
    BY <1>1, <1>2, <2>1, <2>2 DEF DiskInv, Managers
  <2>3. CASE clean'
    <3>1. Stored /\ \A t \in Types : DOMAIN held[t] = {}
      <4>1. Stored /\ held = NoHeld
        BY <1>1, <2>1, <2>3 DEF DiskInv
      <4> QED
        BY <4>1 DEF NoHeld
    <3>2. Accounts(ZeroCounts, NoFree, held)
      <4>1. ZeroCounts \in [Types -> Nat] /\ NoFree \in [Types -> Seq(Nat)]
        BY DEF ZeroCounts, NoFree
      <4>2. \A t \in Types : Range(NoFree[t]) = {} /\ IsInjective(NoFree[t])
        BY DEF NoFree, Range, IsInjective
      <4> QED
        BY <3>1, <4>1, <4>2 DEF Accounts
    <3>3. FileAccounts'
      BY <1>1, <2>1, <3>2 DEF FileAccounts, AccountedBy
    <3>4. Stored'
      BY <1>1, <3>1 DEF Stored, LoadChunk
    <3> QED
      BY <1>1, <1>2, <2>1, <3>2, <3>3, <3>4 DEF DiskInv, Managers
  <2> QED
    BY <2>2, <2>3
<1>4. CASE metaFile # NoMeta
  <2>1. /\ meta' = metaFile.counts
        /\ freeList' = [t \in Types |-> IF \E b \in BadLists(metaFile) : b < t THEN <<>>
                                        ELSE ListOf(metaFile, t)]
        /\ manager' = IF BadLists(metaFile) = {} THEN "hint" ELSE "failed"
        /\ UNCHANGED <<metaFile, clean>>
    BY <1>4 DEF LoadMeta
  <2>2. CASE ~clean
    BY <1>1, <1>2, <2>1, <2>2 DEF DiskInv, Managers
  <2>3. CASE clean
    <3>1. Stored /\ FileAccounts
      BY <1>1, <2>3 DEF DiskInv
    <3>2. PICK counts, lists : metaFile = Image(counts, lists) /\ Accounts(counts, lists, held)
      BY <1>4, <3>1 DEF FileAccounts, AccountedBy
    <3>3. /\ metaFile.counts = counts /\ BadLists(metaFile) = {}
          /\ \A t \in Types : ListOf(metaFile, t) = lists[t]
      BY <3>2, ReadBackLemma
    <3>4. lists = [t \in Types |-> lists[t]]
      BY <3>2 DEF Accounts
    <3>5. meta' = counts /\ freeList' = lists /\ manager' = "hint"
      <4>1. freeList' = [t \in Types |-> ListOf(metaFile, t)]
        BY <2>1, <3>3
      <4>2. [t \in Types |-> ListOf(metaFile, t)] = [t \in Types |-> lists[t]]
        BY <3>3
      <4> QED
        BY <2>1, <3>3, <3>4, <4>1, <4>2
    <3>6. Stored' /\ FileAccounts'
      BY <1>1, <2>1, <3>1 DEF Stored, LoadChunk, FileAccounts
    <3> QED
      BY <1>1, <1>2, <2>1, <3>2, <3>5, <3>6 DEF DiskInv, Managers
  <2> QED
    BY <2>2, <2>3
<1> QED
  BY <1>3, <1>4

\* The header is written from the metadata in memory; where that is older than the file,
\* the step is a loss.
LEMMA FlushHeaderInv ==
  ASSUME DiskInv, FlushHeader
  PROVE  DiskInv'
<1>1. /\ manager \in {"ready", "failed"} /\ Meta \in opened /\ manager' = "flushing"
      /\ clean' = (clean /\ (manager = "ready" \/ metaFile = Image(meta, freeList)))
      /\ UNCHANGED <<exists, data, meta, freeList, options, opened, held, opens>>
  BY DEF FlushHeader
<1>2. Meta \in exists
  BY <1>1 DEF DiskInv
<1>3. CASE ~clean'
  BY <1>1, <1>2, <1>3 DEF DiskInv, Managers
<1>4. CASE clean'
  <2>1. Stored /\ Stored'
    BY <1>1, <1>4 DEF DiskInv, Stored, LoadChunk
  <2>2. AccountedBy(Image(meta, freeList), held)
    <3>1. CASE manager = "ready"
      BY <1>1, <1>4, <3>1 DEF DiskInv, AccountedBy
    <3>2. CASE manager = "failed" /\ metaFile = Image(meta, freeList)
      <4>1. metaFile # NoMeta
        BY <3>2 DEF Image, NoMeta
      <4> QED
        BY <1>1, <1>4, <3>2, <4>1 DEF DiskInv, FileAccounts
    <3> QED
      BY <1>1, <1>4, <3>1, <3>2
  <2> QED
    BY <1>1, <1>2, <2>1, <2>2 DEF DiskInv, Managers
<1> QED
  BY <1>3, <1>4

\* After the lists the file accounts for what the memory did.
LEMMA FlushListsInv ==
  ASSUME DiskInv, FlushLists
  PROVE  DiskInv'
<1>1. /\ manager = "flushing" /\ metaFile' = Image(meta, freeList) /\ opened' = {}
      /\ manager' = "closed"
      /\ UNCHANGED <<exists, data, meta, freeList, options, held, clean, opens>>
  BY DEF FlushLists
<1>2. clean => Stored' /\ FileAccounts'
  BY <1>1 DEF DiskInv, Stored, LoadChunk, FileAccounts
<1> QED
  BY <1>1, <1>2 DEF DiskInv, Managers

\* A crash loses what the file does not say.
LEMMA CrashInv ==
  ASSUME DiskInv, Crash
  PROVE  DiskInv'
<1>1. /\ manager # "closed" /\ manager' = "closed" /\ opened' = {}
      /\ clean' = (clean /\ (manager \in {"open_files", "failed"}
                               \/ metaFile = Image(meta, freeList)))
      /\ UNCHANGED <<exists, metaFile, data, options, held, opens>>
  BY DEF Crash
<1>2. CASE ~clean'
  BY <1>1, <1>2 DEF DiskInv, Managers
<1>3. CASE clean'
  <2>1. Stored'
    BY <1>1, <1>3 DEF DiskInv, Stored, LoadChunk
  <2>2. FileAccounts'
    <3>1. CASE manager \in {"open_files", "failed"}
      BY <1>1, <1>3, <3>1 DEF DiskInv, FileAccounts
    <3>2. CASE manager \in {"hint", "ready", "flushing"}
      BY <1>1, <1>3, <3>2 DEF DiskInv, FileAccounts, AccountedBy
    <3> QED
      BY <1>1, <3>1, <3>2 DEF DiskInv, Managers
  <2> QED
    BY <1>1, <2>1, <2>2 DEF DiskInv, Managers
<1> QED
  BY <1>2, <1>3

\* A chunk file that is lost held nothing anybody has a slot in.
LEMMA LoseFileInv ==
  ASSUME DiskInv, NEW t \in Types, LoseFile(t)
  PROVE  DiskInv'
<1>1. /\ manager = "closed" /\ t \in exists /\ held[t] = <<>>
      /\ exists' = exists \ {t} /\ data' = [data EXCEPT ![t] = <<>>]
      /\ UNCHANGED <<metaFile, manager, meta, freeList, options, opened, held, clean, opens>>
  BY DEF LoseFile
<1>2. t # Meta
  BY DiskAssumption DEF Types, Meta
<1>3. opened = {} /\ t \notin exists'
  BY <1>1 DEF DiskInv
<1>4. CASE ~clean
  BY <1>1, <1>2, <1>3, <1>4 DEF DiskInv
<1>5. CASE clean
  <2>1. Stored /\ FileAccounts
    BY <1>1, <1>5 DEF DiskInv
  <2>2. Stored'
    <3>1. DOMAIN held[t] = {}
      BY <1>1
    <3>2. data' \in [Types -> Seq(Pages)] /\ \A s \in Types : s # t => data'[s] = data[s]
      BY <1>1, <2>1 DEF Stored
    <3>3. ASSUME NEW s \in Types
          PROVE  /\ \A no \in DOMAIN held[s] : LoadChunk(s, no)' = held[s][no]
                 /\ s \notin exists' => DOMAIN held[s] = {}
      <4>1. CASE s = t
        BY <3>1, <4>1
      <4>2. CASE s # t
        BY <1>1, <2>1, <3>2, <4>2 DEF Stored, LoadChunk
      <4> QED
        BY <4>1, <4>2
    <3> QED
      BY <1>1, <2>1, <3>2, <3>3 DEF Stored
  <2>3. FileAccounts'
    BY <1>1, <2>1 DEF FileAccounts
  <2> QED
    BY <1>1, <1>2, <1>3, <1>5, <2>2, <2>3 DEF DiskInv
<1> QED
  BY <1>4, <1>5

-----------------------------------------------------------------------------
(***************************************************************************)
(* Pages.                                                                  *)
(***************************************************************************)
\* reserve_file_space only adds zero pages at the end.
LEMMA ReservedLemma ==
  ASSUME NEW t \in Types, data[t] \in Seq(Pages), NEW no \in Nat
  PROVE  /\ Reserved(t, no) \in Seq(Pages)
         /\ Len(Reserved(t, no)) >= no + 1 /\ Len(Reserved(t, no)) >= Len(data[t])
         /\ \A i \in 1..Len(data[t]) : Reserved(t, no)[i] = data[t][i]
         /\ \A i \in (Len(data[t]) + 1)..Len(Reserved(t, no)) : Reserved(t, no)[i] = Zero
<1> DEFINE d == data[t]
           n == Len(d)
           k == IF no + 1 > n THEN no + 1 - n ELSE 0
           z == [i \in 1..k |-> Zero]
<1>1. n \in Nat /\ k \in Nat /\ n + k >= no + 1 /\ n + k >= n
  <2>1. n \in Nat
    OBVIOUS
  <2> HIDE DEF n
  <2> QED
    BY <2>1
<1>2. Zero \in Pages /\ Reserved(t, no) = d \o z
  BY DEF Pages, Reserved
<1>3. d \in Seq(Pages) /\ n = Len(d)
  OBVIOUS
<1> HIDE DEF d, k, n
<1>4. z \in Seq(Pages) /\ Len(z) = k
  BY <1>1, <1>2, FunctionIsSeq
<1>5. \A i \in 1..k : z[i] = Zero
  OBVIOUS
<1> HIDE DEF z
<1>6. d \o z \in Seq(Pages) /\ Len(d \o z) = n + k
  BY <1>1, <1>3, <1>4
<1>7. \A i \in 1..n : (d \o z)[i] = d[i]
  BY <1>1, <1>3, <1>4
<1>8. \A i \in (n + 1)..(n + k) : (d \o z)[i] = Zero
  <2> SUFFICES ASSUME NEW i \in (n + 1)..(n + k) PROVE (d \o z)[i] = Zero
    OBVIOUS
  <2>1. i - n \in 1..k /\ i \in Nat /\ i > n
    BY <1>1
  <2>2. (d \o z)[i] = z[i - n]
    BY <1>1, <1>3, <1>4, <2>1
  <2> QED
    BY <1>5, <2>1, <2>2
<1> QED
  BY <1>1, <1>2, <1>3, <1>6, <1>7, <1>8 DEF d, n

\* Making room in a file changes nothing that is read from it.
LEMMA ReserveReads ==
  ASSUME Stored, NEW t \in Types, NEW no \in Nat,
         data' = [data EXCEPT ![t] = Reserved(t, no)]
  PROVE  /\ data' \in [Types -> Seq(Pages)]
         /\ \A s \in Types : \A x \in Nat : LoadChunk(s, x)' = LoadChunk(s, x)
<1> DEFINE r == Reserved(t, no)
           d == data[t]
<1>1. /\ d \in Seq(Pages) /\ r \in Seq(Pages) /\ Len(r) >= Len(d)
      /\ \A i \in 1..Len(d) : r[i] = d[i]
      /\ \A i \in (Len(d) + 1)..Len(r) : r[i] = Zero
  BY ReservedLemma DEF Stored
<1>2. data \in [Types -> Seq(Pages)] /\ data' = [data EXCEPT ![t] = r]
  BY DEF Stored
<1>3. d = data[t]
  OBVIOUS
<1> HIDE DEF r, d
<1>4. data' \in [Types -> Seq(Pages)] /\ data'[t] = r /\ \A s \in Types \ {t} : data'[s] = data[s]
  BY <1>1, <1>2
<1>5. ASSUME NEW x \in Nat
      PROVE  (IF x < Len(r) THEN r[x + 1] ELSE Zero) = (IF x < Len(d) THEN d[x + 1] ELSE Zero)
  <2>1. Len(r) \in Nat /\ Len(d) \in Nat
    BY <1>1
  <2>2. CASE x < Len(d)
    <3>1. x + 1 \in 1..Len(d) /\ x < Len(r)
      BY <1>1, <2>1, <2>2
    <3> QED
      BY <1>1, <2>2, <3>1
  <2>3. CASE ~(x < Len(d)) /\ x < Len(r)
    <3>1. x + 1 \in (Len(d) + 1)..Len(r)
      BY <2>1, <2>3
    <3> QED
      BY <1>1, <2>3, <3>1
  <2>4. CASE ~(x < Len(d)) /\ ~(x < Len(r))
    BY <2>4
  <2> QED
    BY <2>2, <2>3, <2>4
<1>6. ASSUME NEW s \in Types, NEW x \in Nat PROVE LoadChunk(s, x)' = LoadChunk(s, x)
  BY <1>3, <1>4, <1>5 DEF LoadChunk
<1> QED
  BY <1>4, <1>6

\* Writing a page, with the room it needs, changes that page alone.
LEMMA WriteReads ==
  ASSUME Stored, NEW t \in Types, NEW no \in Nat, NEW v \in Pages,
         data' = [data EXCEPT ![t] = [Reserved(t, no) EXCEPT ![no + 1] = v]]
  PROVE  /\ data' \in [Types -> Seq(Pages)]
         /\ LoadChunk(t, no)' = v
         /\ \A s \in Types : \A x \in Nat :
              s # t \/ x # no => LoadChunk(s, x)' = LoadChunk(s, x)
<1> DEFINE r == Reserved(t, no)
           d == data[t]
           u == [r EXCEPT ![no + 1] = v]
<1>1. /\ d \in Seq(Pages) /\ r \in Seq(Pages) /\ Len(r) >= Len(d) /\ Len(r) >= no + 1
      /\ \A i \in 1..Len(d) : r[i] = d[i]
      /\ \A i \in (Len(d) + 1)..Len(r) : r[i] = Zero
  BY ReservedLemma DEF Stored
<1>2. data \in [Types -> Seq(Pages)] /\ data' = [data EXCEPT ![t] = u]
  BY DEF Stored
<1>3. d = data[t] /\ u = [r EXCEPT ![no + 1] = v]
  OBVIOUS
<1> HIDE DEF r, d, u
<1>4. u \in Seq(Pages) /\ Len(u) = Len(r) /\ u[no + 1] = v /\ no < Len(u)
      /\ \A i \in 1..Len(r) : i # no + 1 => u[i] = r[i]
  BY <1>1, <1>3
<1>5. data' \in [Types -> Seq(Pages)] /\ data'[t] = u /\ \A s \in Types \ {t} : data'[s] = data[s]
  BY <1>2, <1>4
<1>6. LoadChunk(t, no)' = v
  BY <1>4, <1>5 DEF LoadChunk
<1>7. ASSUME NEW x \in Nat, x # no
      PROVE  (IF x < Len(u) THEN u[x + 1] ELSE Zero) = (IF x < Len(d) THEN d[x + 1] ELSE Zero)
  <2>1. Len(r) \in Nat /\ Len(d) \in Nat /\ x + 1 # no + 1
    BY <1>1, <1>7
  <2>2. CASE x < Len(d)
    <3>1. x + 1 \in 1..Len(d) /\ x + 1 \in 1..Len(r) /\ x < Len(r)
      BY <1>1, <2>1, <2>2
    <3> QED
      BY <1>1, <1>4, <2>1, <2>2, <3>1
  <2>3. CASE ~(x < Len(d)) /\ x < Len(r)
    <3>1. x + 1 \in (Len(d) + 1)..Len(r) /\ x + 1 \in 1..Len(r)
      BY <2>1, <2>3
    <3> QED
      BY <1>1, <1>4, <2>1, <2>3, <3>1
  <2>4. CASE ~(x < Len(d)) /\ ~(x < Len(r))
    BY <1>4, <2>4
  <2> QED
    BY <2>2, <2>3, <2>4
<1>8. ASSUME NEW s \in Types, NEW x \in Nat, s # t \/ x # no
      PROVE  LoadChunk(s, x)' = LoadChunk(s, x)
  BY <1>3, <1>5, <1>7, <1>8 DEF LoadChunk
<1> QED
  BY <1>5, <1>6, <1>8

-----------------------------------------------------------------------------
(***************************************************************************)
(* Slots.                                                                  *)
(***************************************************************************)
\* The accounts with the slot allocate_chunk takes given out: it was nobody's, it is not
\* free any more, and nothing else changes hands.
LEMMA AllocateLemma ==
  ASSUME Accounts(meta, freeList, held), NEW t \in Types, DOMAIN held[t] \subseteq Nat,
         NEW chunks, \A s \in Types \ {t} : chunks[s] = held[s],
         DOMAIN chunks[t] \subseteq DOMAIN held[t] \cup {Slot(t)}
  PROVE  /\ Slot(t) \in Nat /\ Slot(t) \notin DOMAIN held[t]
         /\ Accounts(CountsAfterAllocate(t), FreeAfterAllocate(t), chunks)
         /\ Slot(t) < CountsAfterAllocate(t)[t] /\ Slot(t) \notin Range(FreeAfterAllocate(t)[t])
<1> DEFINE no == Slot(t)
           C == CountsAfterAllocate(t)
           F == FreeAfterAllocate(t)
           list == freeList[t]
<1>1. /\ meta \in [Types -> Nat] /\ freeList \in [Types -> Seq(Nat)]
      /\ list \in Seq(Nat) /\ IsInjective(list)
      /\ \A x \in Range(list) : x < meta[t]
      /\ \A x \in DOMAIN held[t] : x < meta[t] /\ x \notin Range(list)
  BY DEF Accounts
<1>2. CASE list # <<>>
  <2>1. no = Last(list) /\ C = meta /\ F = [freeList EXCEPT ![t] = Front(list)]
    BY <1>2 DEF Slot, CountsAfterAllocate, FreeAfterAllocate
  <2>2. /\ Front(list) \in Seq(Nat) /\ IsInjective(Front(list))
        /\ no \in Nat /\ no \in Range(list) /\ Range(Front(list)) = Range(list) \ {no}
    <3>1. list \in Seq(Nat) /\ IsInjective(list) /\ list # <<>>
      BY <1>1, <1>2
    <3> HIDE DEF list
    <3>2. /\ Front(list) \in Seq(Nat) /\ IsInjective(Front(list))
          /\ Last(list) \in Nat /\ Last(list) \in Range(list)
          /\ Range(Front(list)) = Range(list) \ {Last(list)}
      BY <3>1, PopLemma
    <3> QED
      BY <2>1, <3>2
  <2> HIDE DEF no, C, F
  <2>3. /\ F \in [Types -> Seq(Nat)] /\ F[t] = Front(list)
        /\ \A s \in Types \ {t} : F[s] = freeList[s]
    BY <1>1, <2>1, <2>2
  <2>4. Accounts(C, F, chunks)
    <3> SUFFICES ASSUME NEW s \in Types
                 PROVE  /\ \A x \in Range(F[s]) : x < C[s]
                        /\ IsInjective(F[s])
                        /\ \A x \in DOMAIN chunks[s] : x < C[s] /\ x \notin Range(F[s])
      BY <1>1, <2>1, <2>3 DEF Accounts
    <3>1. CASE s = t
      BY <1>1, <2>1, <2>2, <2>3, <3>1 DEF no
    <3>2. CASE s # t
      BY <2>1, <2>3, <3>2 DEF Accounts
    <3> QED
      BY <3>1, <3>2
  <2> QED
    BY <1>1, <2>1, <2>2, <2>3, <2>4 DEF no, C, F
<1>3. CASE list = <<>>
  <2>1. no = meta[t] /\ C = [meta EXCEPT ![t] = @ + 1] /\ F = freeList
    BY <1>3 DEF Slot, CountsAfterAllocate, FreeAfterAllocate
  <2>2. Range(list) = {}
    BY <1>3 DEF Range
  <2> HIDE DEF no, C, F
  <2>3. /\ C \in [Types -> Nat] /\ C[t] = no + 1 /\ no \in Nat
        /\ \A s \in Types \ {t} : C[s] = meta[s]
    BY <1>1, <2>1
  <2>4. no \notin DOMAIN held[t] /\ \A x \in DOMAIN held[t] : x < no + 1
    <3> SUFFICES ASSUME NEW x \in DOMAIN held[t] PROVE x < no + 1 /\ x # no
      OBVIOUS
    <3>1. x < no /\ x \in Nat
      BY <1>1, <2>1
    <3> QED
      BY <2>3, <3>1
  <2>5. Accounts(C, F, chunks)
    <3> SUFFICES ASSUME NEW s \in Types
                 PROVE  /\ \A x \in Range(F[s]) : x < C[s]
                        /\ IsInjective(F[s])
                        /\ \A x \in DOMAIN chunks[s] : x < C[s] /\ x \notin Range(F[s])
      BY <1>1, <2>1, <2>3 DEF Accounts
    <3>1. CASE s = t
      BY <1>1, <2>1, <2>2, <2>3, <2>4, <3>1 DEF no
    <3>2. CASE s # t
      BY <2>1, <2>3, <3>2 DEF Accounts
    <3> QED
      BY <3>1, <3>2
  <2> QED
    BY <2>1, <2>2, <2>3, <2>4, <2>5 DEF no, C, F
<1> QED
  BY <1>2, <1>3

-----------------------------------------------------------------------------
(***************************************************************************)
(* Chunks.                                                                 *)
(***************************************************************************)
\* While the manager is ready only the chunks and their accounts change.
LEMMA ChunkStepInv ==
  ASSUME DiskInv, manager = "ready", UNCHANGED <<exists, metaFile, manager, opened, clean>>,
         clean => Stored' /\ Accounts(meta', freeList', held')
  PROVE  DiskInv'
<1>1. Accounts(meta, freeList, held)' = Accounts(meta', freeList', held')
  BY DEF Accounts
<1> QED
  BY <1>1 DEF DiskInv

\* What the invariant says of a manager that serves and never failed.
LEMMA ReadyFacts ==
  ASSUME DiskInv, manager = "ready", clean, NEW t \in Types
  PROVE  /\ Stored /\ Accounts(meta, freeList, held) /\ Types \subseteq exists
         /\ DOMAIN held[t] \subseteq Nat
BY DEF DiskInv, Stored

\* What is held of one type changes in one slot at most.
LEMMA StoredStep ==
  ASSUME Stored, Types \subseteq exists, exists' = exists, data' \in [Types -> Seq(Pages)],
         NEW t \in Types, NEW no \in Nat,
         \A s \in Types : \A x \in Nat : s # t \/ x # no => LoadChunk(s, x)' = LoadChunk(s, x),
         DOMAIN held' = Types, \A s \in Types \ {t} : held'[s] = held[s],
         DOMAIN held'[t] \subseteq DOMAIN held[t] \cup {no},
         \A x \in DOMAIN held'[t] : x # no => held'[t][x] = held[t][x],
         no \in DOMAIN held'[t] => held'[t][no] = LoadChunk(t, no)'
  PROVE  Stored'
<1>1. ASSUME NEW s \in Types
      PROVE  /\ DOMAIN held'[s] \subseteq Nat
             /\ \A x \in DOMAIN held'[s] : LoadChunk(s, x)' = held'[s][x]
  <2>1. CASE s # t
    BY <2>1 DEF Stored
  <2>2. CASE s = t
    <3>1. DOMAIN held'[t] \subseteq Nat
      BY DEF Stored
    <3>2. ASSUME NEW x \in DOMAIN held'[t] PROVE LoadChunk(t, x)' = held'[t][x]
      <4>1. CASE x = no
        BY <4>1
      <4>2. CASE x # no
        BY <3>1, <4>2 DEF Stored
      <4> QED
        BY <4>1, <4>2
    <3> QED
      BY <2>2, <3>1, <3>2
  <2> QED
    BY <2>1, <2>2
<1> QED
  BY <1>1 DEF Stored

\* write_new_chunk gives out a slot nobody holds, with the bytes it was called with.
LEMMA WriteNewChunkInv ==
  ASSUME DiskInv, NEW t \in Types, NEW v \in Values, WriteNewChunk(t, v)
  PROVE  DiskInv'
<1> PICK no : no = Slot(t)
  OBVIOUS
<1> DEFINE g == Put(held[t], no, v)
<1>1. /\ manager = "ready" /\ UNCHANGED <<exists, metaFile, manager, opened, clean>>
      /\ freeList' = FreeAfterAllocate(t) /\ meta' = CountsAfterAllocate(t)
      /\ data' = [data EXCEPT ![t] = [Reserved(t, no) EXCEPT ![no + 1] = v]]
      /\ held' = [held EXCEPT ![t] = g]
  BY DEF WriteNewChunk
<1>2. /\ DOMAIN g = DOMAIN held[t] \cup {no} /\ g[no] = v
      /\ \A x \in DOMAIN g : x # no => g[x] = held[t][x]
  BY DEF Put
<1> HIDE DEF g
<1>3. ASSUME clean PROVE Stored' /\ Accounts(meta', freeList', held')
  <2>1. /\ Stored /\ Accounts(meta, freeList, held) /\ Types \subseteq exists
        /\ DOMAIN held[t] \subseteq Nat
    BY <1>1, <1>3, ReadyFacts
  <2>2. DOMAIN held' = Types /\ held'[t] = g /\ \A s \in Types \ {t} : held'[s] = held[s]
    BY <1>1, <2>1 DEF Stored
  <2>3. no \in Nat /\ Accounts(meta', freeList', held')
    BY <1>1, <1>2, <2>1, <2>2, AllocateLemma
  <2>4. v \in Pages
    BY DEF Pages
  <2>5. /\ data' \in [Types -> Seq(Pages)] /\ LoadChunk(t, no)' = v
        /\ \A s \in Types : \A x \in Nat : s # t \/ x # no => LoadChunk(s, x)' = LoadChunk(s, x)
    BY <1>1, <2>1, <2>3, <2>4, WriteReads
  <2>6. Stored'
    BY <1>1, <1>2, <2>1, <2>2, <2>3, <2>5, StoredStep
  <2> QED
    BY <2>3, <2>6
<1> QED
  BY <1>1, <1>3, ChunkStepInv

\* When its write throws the slot is free again and the page belongs to nobody.
LEMMA WriteNewChunkFailsInv ==
  ASSUME DiskInv, NEW t \in Types, WriteNewChunkFails(t)
  PROVE  DiskInv'
<1> DEFINE no == Slot(t)
           F == FreeAfterAllocate(t)
           C == CountsAfterAllocate(t)
<1>1. /\ manager = "ready" /\ UNCHANGED <<exists, metaFile, manager, opened, clean, held>>
      /\ freeList' = [F EXCEPT ![t] = Append(@, no)] /\ meta' = C
      /\ data' = [data EXCEPT ![t] = [Reserved(t, no) EXCEPT ![no + 1] = Zero]]
  BY DEF WriteNewChunkFails
<1>2. ASSUME clean PROVE Stored' /\ Accounts(meta', freeList', held')
  <2>1. /\ Stored /\ Accounts(meta, freeList, held) /\ Types \subseteq exists
        /\ DOMAIN held[t] \subseteq Nat
    BY <1>1, <1>2, ReadyFacts
  <2>2. /\ no \in Nat /\ no \notin DOMAIN held[t] /\ Accounts(C, F, held)
        /\ no < C[t] /\ no \notin Range(F[t])
    BY <2>1, AllocateLemma
  <2> HIDE DEF no, F, C
  <2>3. /\ C \in [Types -> Nat] /\ F \in [Types -> Seq(Nat)] /\ F[t] \in Seq(Nat)
        /\ IsInjective(F[t])
    BY <2>2 DEF Accounts
  <2>4. /\ Append(F[t], no) \in Seq(Nat) /\ IsInjective(Append(F[t], no))
        /\ Range(Append(F[t], no)) = Range(F[t]) \cup {no}
    BY <2>2, <2>3, PushLemma
  <2>5. /\ freeList' \in [Types -> Seq(Nat)] /\ freeList'[t] = Append(F[t], no)
        /\ \A s \in Types \ {t} : freeList'[s] = F[s]
    BY <1>1, <2>3, <2>4
  <2>6. Accounts(meta', freeList', held')
    <3> SUFFICES ASSUME NEW s \in Types
                 PROVE  /\ \A x \in Range(freeList'[s]) : x < C[s]
                        /\ IsInjective(freeList'[s])
                        /\ \A x \in DOMAIN held[s] : x < C[s] /\ x \notin Range(freeList'[s])
      BY <1>1, <2>3, <2>5 DEF Accounts
    <3>1. CASE s = t
      BY <2>2, <2>4, <2>5, <3>1 DEF Accounts
    <3>2. CASE s # t
      BY <2>2, <2>5, <3>2 DEF Accounts
    <3> QED
      BY <3>1, <3>2
  <2>7. Zero \in Pages
    BY DEF Pages
  <2>8. /\ data' \in [Types -> Seq(Pages)]
        /\ \A s \in Types : \A x \in Nat : s # t \/ x # no => LoadChunk(s, x)' = LoadChunk(s, x)
    BY <1>1, <2>1, <2>2, <2>7, WriteReads
  <2>9. Stored'
    BY <1>1, <2>1, <2>2, <2>8 DEF Stored
  <2> QED
    BY <2>6, <2>9
<1> QED
  BY <1>1, <1>2, ChunkStepInv

\* allocate_chunk gives out the page as it is read now.
LEMMA AllocateChunkInv ==
  ASSUME DiskInv, NEW t \in Types, AllocateChunk(t)
  PROVE  DiskInv'
<1> PICK no : no = Slot(t)
  OBVIOUS
<1> DEFINE page == IF no < Len(data[t]) THEN data[t][no + 1] ELSE Zero
           g == Put(held[t], no, page)
<1>1. /\ manager = "ready" /\ UNCHANGED <<exists, metaFile, manager, opened, clean>>
      /\ freeList' = FreeAfterAllocate(t) /\ meta' = CountsAfterAllocate(t)
      /\ data' = (IF freeList[t] = <<>> THEN [data EXCEPT ![t] = Reserved(t, no)] ELSE data)
      /\ held' = [held EXCEPT ![t] = g]
  BY DEF AllocateChunk
<1>2. /\ DOMAIN g = DOMAIN held[t] \cup {no} /\ g[no] = LoadChunk(t, no)
      /\ \A x \in DOMAIN g : x # no => g[x] = held[t][x]
  BY DEF Put, LoadChunk
<1> HIDE DEF page, g
<1>3. ASSUME clean PROVE Stored' /\ Accounts(meta', freeList', held')
  <2>1. /\ Stored /\ Accounts(meta, freeList, held) /\ Types \subseteq exists
        /\ DOMAIN held[t] \subseteq Nat
    BY <1>1, <1>3, ReadyFacts
  <2>2. DOMAIN held' = Types /\ held'[t] = g /\ \A s \in Types \ {t} : held'[s] = held[s]
    BY <1>1, <2>1 DEF Stored
  <2>3. no \in Nat /\ Accounts(meta', freeList', held')
    BY <1>1, <1>2, <2>1, <2>2, AllocateLemma
  <2>4. /\ data' \in [Types -> Seq(Pages)]
        /\ \A s \in Types : \A x \in Nat : LoadChunk(s, x)' = LoadChunk(s, x)
    <3>1. CASE freeList[t] = <<>>
      BY <1>1, <2>1, <2>3, <3>1, ReserveReads
    <3>2. CASE freeList[t] # <<>>
      BY <1>1, <2>1, <3>2 DEF Stored, LoadChunk
    <3> QED
      BY <3>1, <3>2
  <2>5. g[no] = LoadChunk(t, no)'
    BY <1>2, <2>3, <2>4
  <2>6. Stored'
    BY <1>1, <1>2, <2>1, <2>2, <2>3, <2>4, <2>5, StoredStep
  <2> QED
    BY <2>3, <2>6
<1> QED
  BY <1>1, <1>3, ChunkStepInv

\* A failed reservation leaves a slot that is nobody's and not free.
LEMMA AllocateChunkFailsInv ==
  ASSUME DiskInv, NEW t \in Types, AllocateChunkFails(t)
  PROVE  DiskInv'
<1>1. /\ manager = "ready" /\ UNCHANGED <<exists, metaFile, manager, opened, clean, held, data, freeList>>
      /\ meta' = [meta EXCEPT ![t] = @ + 1]
  BY DEF AllocateChunkFails
<1>2. ASSUME clean PROVE Stored' /\ Accounts(meta', freeList', held')
  <2>1. Stored /\ Accounts(meta, freeList, held)
    BY <1>1, <1>2, ReadyFacts
  <2>2. Stored'
    BY <1>1, <2>1 DEF Stored, LoadChunk
  <2>3. meta \in [Types -> Nat] /\ meta' \in [Types -> Nat]
    BY <1>1, <2>1 DEF Accounts
  <2>4. \A s \in Types : meta'[s] = meta[s] \/ meta'[s] = meta[s] + 1
    BY <1>1, <2>3
  <2>5. ASSUME NEW s \in Types, NEW x \in Nat, x < meta[s] PROVE x < meta'[s]
    BY <2>3, <2>4, <2>5
  <2>6. \A s \in Types : Range(freeList[s]) \subseteq Nat /\ DOMAIN held[s] \subseteq Nat
    BY <2>1 DEF Accounts, Stored, Range
  <2> QED
    BY <1>1, <2>1, <2>2, <2>3, <2>5, <2>6 DEF Accounts
<1> QED
  BY <1>1, <1>2, ChunkStepInv

\* write_chunk changes a page the client holds.
LEMMA WriteChunkInv ==
  ASSUME DiskInv, NEW t \in Types, NEW no \in 0..(MaxChunks - 1), NEW v \in Values,
         WriteChunk(t, no, v)
  PROVE  DiskInv'
<1> DEFINE g == Put(held[t], no, v)
<1>1. /\ manager = "ready" /\ UNCHANGED <<exists, metaFile, manager, opened, clean, meta, freeList>>
      /\ no \in DOMAIN held[t]
      /\ data' = [data EXCEPT ![t] = [Reserved(t, no) EXCEPT ![no + 1] = v]]
      /\ held' = [held EXCEPT ![t] = g]
  BY DEF WriteChunk
<1>2. /\ DOMAIN g = DOMAIN held[t] /\ g[no] = v
      /\ \A x \in DOMAIN g : x # no => g[x] = held[t][x]
  BY <1>1 DEF Put
<1>3. no \in Nat /\ v \in Pages
  BY DEF Pages
<1> HIDE DEF g
<1>4. ASSUME clean PROVE Stored' /\ Accounts(meta', freeList', held')
  <2>1. /\ Stored /\ Accounts(meta, freeList, held) /\ Types \subseteq exists
    BY <1>1, <1>4, ReadyFacts
  <2>2. /\ DOMAIN held' = Types /\ held'[t] = g /\ \A s \in Types \ {t} : held'[s] = held[s]
        /\ \A s \in Types : DOMAIN held'[s] \subseteq DOMAIN held[s]
    BY <1>1, <1>2, <2>1 DEF Stored
  <2>3. Accounts(meta', freeList', held')
    BY <1>1, <2>1, <2>2, FewerChunks
  <2>4. /\ data' \in [Types -> Seq(Pages)] /\ LoadChunk(t, no)' = v
        /\ \A s \in Types : \A x \in Nat : s # t \/ x # no => LoadChunk(s, x)' = LoadChunk(s, x)
    BY <1>1, <1>3, <2>1, WriteReads
  <2>5. Stored'
    BY <1>1, <1>2, <1>3, <2>1, <2>2, <2>4, StoredStep
  <2> QED
    BY <2>3, <2>5
<1> QED
  BY <1>1, <1>4, ChunkStepInv

\* delete_chunk refuses a slot that is free already, so none is free twice.
LEMMA DeleteChunkInv ==
  ASSUME DiskInv, NEW t \in Types, NEW no \in 0..(MaxChunks - 1), DeleteChunk(t, no)
  PROVE  DiskInv'
<1> DEFINE g == Drop(held[t], no)
<1>1. /\ manager = "ready" /\ UNCHANGED <<exists, metaFile, manager, opened, clean, meta, data>>
      /\ no \in DOMAIN held[t] /\ no < meta[t] /\ no \notin Range(freeList[t])
      /\ freeList' = [freeList EXCEPT ![t] = Append(@, no)]
      /\ held' = [held EXCEPT ![t] = g]
  BY DEF DeleteChunk, Valid
<1>2. /\ DOMAIN g = DOMAIN held[t] \ {no} /\ \A x \in DOMAIN g : g[x] = held[t][x]
  BY DEF Drop
<1>3. no \in Nat
  OBVIOUS
<1> HIDE DEF g
<1>4. ASSUME clean PROVE Stored' /\ Accounts(meta', freeList', held')
  <2>1. /\ Stored /\ Accounts(meta, freeList, held) /\ Types \subseteq exists
    BY <1>1, <1>4, ReadyFacts
  <2>2. DOMAIN held' = Types /\ held'[t] = g /\ \A s \in Types \ {t} : held'[s] = held[s]
    BY <1>1, <2>1 DEF Stored
  <2>3. freeList \in [Types -> Seq(Nat)] /\ freeList[t] \in Seq(Nat) /\ IsInjective(freeList[t])
    BY <2>1 DEF Accounts
  <2>4. /\ Append(freeList[t], no) \in Seq(Nat) /\ IsInjective(Append(freeList[t], no))
        /\ Range(Append(freeList[t], no)) = Range(freeList[t]) \cup {no}
    BY <1>1, <1>3, <2>3, PushLemma
  <2>5. /\ freeList' \in [Types -> Seq(Nat)] /\ freeList'[t] = Append(freeList[t], no)
        /\ \A s \in Types \ {t} : freeList'[s] = freeList[s]
    BY <1>1, <2>3, <2>4
  <2>6. Accounts(meta', freeList', held')
    <3> SUFFICES ASSUME NEW s \in Types
                 PROVE  /\ \A x \in Range(freeList'[s]) : x < meta[s]
                        /\ IsInjective(freeList'[s])
                        /\ \A x \in DOMAIN held'[s] : x < meta[s] /\ x \notin Range(freeList'[s])
      BY <1>1, <2>1, <2>5 DEF Accounts
    <3>1. CASE s = t
      BY <1>1, <1>2, <2>1, <2>2, <2>4, <2>5, <3>1 DEF Accounts
    <3>2. CASE s # t
      BY <2>1, <2>2, <2>5, <3>2 DEF Accounts
    <3> QED
      BY <3>1, <3>2
  <2>7. \A s \in Types : \A x \in Nat : LoadChunk(s, x)' = LoadChunk(s, x)
    BY <1>1 DEF LoadChunk
  <2>8. data' \in [Types -> Seq(Pages)]
    BY <1>1, <2>1 DEF Stored
  <2>9. Stored'
    BY <1>1, <1>2, <1>3, <2>1, <2>2, <2>7, <2>8, StoredStep
  <2> QED
    BY <2>6, <2>9
<1> QED
  BY <1>1, <1>4, ChunkStepInv

-----------------------------------------------------------------------------
(***************************************************************************)
(* The theorems.                                                           *)
(***************************************************************************)
LEMMA DiskStepInv == DiskInv /\ [DiskNext]_diskVars => DiskInv'
<1> SUFFICES ASSUME DiskInv, [DiskNext]_diskVars PROVE DiskInv'
  OBVIOUS
<1>1. manager \in Managers
  BY DEF DiskInv
<1>2. CASE UNCHANGED diskVars
  BY <1>1, <1>2, PlaceStepInv DEF diskVars
<1>3. ASSUME NEW create \in BOOLEAN, NEW truncate \in BOOLEAN, Open(create, truncate)
      PROVE  DiskInv'
  BY <1>3, PlaceStepInv DEF Open, Managers
<1>4. CASE PrepareFails
  BY <1>4, PlaceStepInv DEF PrepareFails, Managers
<1>5. CASE HugePageHint
  BY <1>5, PlaceStepInv DEF HugePageHint, Managers
<1>6. CASE CloseUnopened
  BY <1>6, PlaceStepInv DEF CloseUnopened, Managers
<1> QED
  BY <1>2, <1>3, <1>4, <1>5, <1>6, PrepareFileInv, LoadMetaInv, FlushHeaderInv, FlushListsInv,
     CrashInv, LoseFileInv, WriteNewChunkInv, WriteNewChunkFailsInv, AllocateChunkInv,
     AllocateChunkFailsInv, WriteChunkInv, DeleteChunkInv
  DEF DiskNext

\* Over any number of opens, closes, failures and crashes: as long as no metadata was
\* lost, the metadata file or the memory accounts for the client's chunks.
THEOREM DiskInvariance == DiskSpec => []DiskInv
<1> QED
  BY DiskInitInv, DiskStepInv, PTL DEF DiskSpec

\* allocate_chunk and write_new_chunk never give out a chunk a client holds.
THEOREM NoSlotGivenTwiceHolds == DiskSpec => []NoSlotGivenTwice
<1>1. DiskInv => NoSlotGivenTwice
  BY DEF DiskInv, Accounts, NoSlotGivenTwice, Valid
<1> QED
  BY <1>1, DiskInvariance, PTL

\* load_chunk returns what the client last wrote, in this session or an earlier one.
THEOREM ChunksReadBackHolds == DiskSpec => []ChunksReadBack
<1>1. DiskInv => ChunksReadBack
  BY DEF DiskInv, Stored, ChunksReadBack
<1> QED
  BY <1>1, DiskInvariance, PTL

-----------------------------------------------------------------------------
(***************************************************************************)
(* The chunk buffer pool.  The stack of free slots lists exactly the chunks *)
(* that are free, and a free chunk was reset when it was released; nothing *)
(* but allocate_chunk touches a chunk on the stack.                        *)
(***************************************************************************)
PoolIInv == PoolTypeOK /\ StackListsFree /\ NextChunkIsPristine

\* The constructor's pool has no chunk yet.
LEMMA PoolInitLemma == PoolInit => PoolIInv
<1> SUFFICES ASSUME PoolInit
             PROVE  PoolIInv
  OBVIOUS
<1>1. Slots = {} /\ DOMAIN freeSlots = {} /\ DOMAIN chunk = {}
  BY DEF PoolInit, Slots
<1>2. PoolTypeOK
  BY <1>1, PoolAssumption DEF PoolInit, PoolTypeOK
<1> QED
  BY <1>1, <1>2 DEF PoolIInv, StackListsFree, NextChunkIsPristine, IsInjective, Range

\* init and move_from leave a level whose n chunks are all free.
LEMMA PoolFreshLemma ==
  ASSUME NEW n \in 0 .. MaxCount, PoolFresh(n)
  PROVE  PoolIInv'
<1>1. n \in Nat /\ Slots' = 0 .. n - 1 /\ count' = n
  BY PoolAssumption DEF PoolFresh, Slots
<1>2. /\ freeSlots' \in Seq(Slots') /\ DOMAIN freeSlots' = 1 .. n
      /\ \A k \in 1 .. n : freeSlots'[k] = n - k
  BY <1>1 DEF PoolFresh
<1>3. /\ chunk' = [i \in 0 .. n - 1 |-> Bound(i)]
      /\ \A i \in 0 .. n - 1 : Bound(i) \in Bodies
  BY <1>1, PoolAssumption DEF PoolFresh, Bound, Bodies, Indexes
<1>4. PoolTypeOK'
  BY <1>1, <1>2, <1>3 DEF PoolTypeOK, Slots
<1>5. IsInjective(freeSlots')
  BY <1>1, <1>2 DEF IsInjective
<1>6. Range(freeSlots') = 0 .. n - 1
  <2>1. ASSUME NEW i \in 0 .. n - 1
        PROVE  i \in Range(freeSlots')
    <3>1. n - i \in 1 .. n /\ n - (n - i) = i
      BY <1>1
    <3> QED
      BY <1>2, <3>1 DEF Range
  <2> QED
    BY <1>1, <1>2, <2>1 DEF Range
<1> QED
  BY <1>1, <1>3, <1>4, <1>5, <1>6 DEF PoolIInv, StackListsFree, NextChunkIsPristine, Bound

\* reset_memory leaves a clean, unpinned and zeroed body.
LEMMA ResetLemma ==
  ASSUME NEW c \in Bodies
  PROVE  /\ ResetMemory(c) \in Bodies
         /\ ResetMemory(c).pins = 0 /\ ~ResetMemory(c).dirty /\ ResetMemory(c).zeroed
<1>1. 0 \in 0 .. MaxPins
  BY PoolAssumption
<1>2. ResetMemory(c) \in Bodies
  BY <1>1, Zenon DEF ResetMemory, Bodies
<1>3. ResetMemory(c).pins = 0 /\ ~ResetMemory(c).dirty /\ ResetMemory(c).zeroed
  BY Zenon DEF ResetMemory, Bodies
<1> QED
  BY <1>2, <1>3

\* AllocateFrame pops the top of free_slots_ and hands its chunk out pinned.
LEMMA AllocateFrameLemma ==
  ASSUME PoolIInv, AllocateFrame
  PROVE  PoolIInv'
<1> DEFINE i == Last(freeSlots)
<1> USE DEF PoolIInv
<1>1. freeSlots \in Seq(Slots) /\ freeSlots # <<>> /\ IsInjective(freeSlots)
  BY DEF AllocateFrame, PoolTypeOK, StackListsFree
<1>2. /\ freeSlots' = Front(freeSlots) /\ freeSlots' \in Seq(Slots)
      /\ IsInjective(freeSlots') /\ i \in Slots
      /\ Range(freeSlots') = Range(freeSlots) \ {i}
  BY <1>1, PopLemma DEF AllocateFrame
<1> HIDE DEF i
<1>3. /\ chunk' = [chunk EXCEPT ![i] =
              [ResetMemory(@) EXCEPT !.state = "resident", !.referenced = TRUE]]
      /\ UNCHANGED count
  BY DEF AllocateFrame, i
<1>4. Slots' = Slots
  BY <1>3 DEF Slots
<1>5. /\ chunk'[i] \in Bodies /\ chunk'[i].state = "resident"
      /\ chunk' = [chunk EXCEPT ![i] = chunk'[i]]
  <2> DEFINE r == ResetMemory(chunk[i])
             b == [r EXCEPT !.state = "resident", !.referenced = TRUE]
  <2>1. /\ chunk' = [chunk EXCEPT ![i] = b] /\ chunk[i] \in Bodies /\ chunk'[i] = b
        /\ r \in Bodies
    BY <1>2, <1>3, ResetLemma DEF PoolTypeOK
  <2> HIDE DEF r
  <2>2. b \in Bodies /\ b.state = "resident"
    BY <2>1 DEF Bodies
  <2> QED
    BY <2>1, <2>2
<1>6. PoolTypeOK'
  BY <1>2, <1>3, <1>4, <1>5 DEF PoolTypeOK
<1>7. chunk'[i].state = "resident" /\ \A k \in Slots \ {i} : chunk'[k] = chunk[k]
  BY <1>2, <1>5 DEF PoolTypeOK
<1>8. Range(freeSlots') \subseteq Slots
  BY <1>2, RangeOfSeq
<1> QED
  BY <1>2, <1>4, <1>6, <1>7, <1>8 DEF StackListsFree, NextChunkIsPristine

\* release_chunk resets the frame and pushes it: it was resident, so it was not
\* on the stack.
LEMMA ReleaseFrameLemma ==
  ASSUME PoolIInv, NEW i \in Indexes, ReleaseFrame(i)
  PROVE  PoolIInv'
<1> USE DEF PoolIInv
<1>1. freeSlots \in Seq(Slots) /\ IsInjective(freeSlots) /\ i \in Slots /\ i \notin Range(freeSlots)
  BY DEF ReleaseFrame, PoolTypeOK, StackListsFree
<1>2. /\ freeSlots' \in Seq(Slots) /\ IsInjective(freeSlots')
      /\ Range(freeSlots') = Range(freeSlots) \cup {i}
  BY <1>1, PushLemma DEF ReleaseFrame
<1>3. /\ chunk' = [chunk EXCEPT ![i] = [ResetMemory(@) EXCEPT !.state = "free"]]
      /\ UNCHANGED count /\ Slots' = Slots
  BY DEF ReleaseFrame, Slots
<1>4. /\ chunk'[i] \in Bodies /\ chunk' = [chunk EXCEPT ![i] = chunk'[i]]
      /\ chunk'[i].state = "free" /\ chunk'[i].pins = 0
      /\ ~chunk'[i].dirty /\ chunk'[i].zeroed
  <2> DEFINE r == ResetMemory(chunk[i])
             b == [r EXCEPT !.state = "free"]
  <2>1. /\ chunk' = [chunk EXCEPT ![i] = b] /\ chunk[i] \in Bodies /\ chunk'[i] = b
        /\ r \in Bodies /\ r.pins = 0 /\ ~r.dirty /\ r.zeroed
    BY <1>1, <1>3, ResetLemma DEF PoolTypeOK
  <2> HIDE DEF r
  <2>2. b \in Bodies /\ b.state = "free" /\ b.pins = 0 /\ ~b.dirty /\ b.zeroed
    BY <2>1 DEF Bodies
  <2> QED
    BY <2>1, <2>2
<1>5. PoolTypeOK'
  BY <1>2, <1>3, <1>4 DEF PoolTypeOK
<1>6. \A k \in Slots \ {i} : chunk'[k] = chunk[k]
  BY <1>1, <1>4 DEF PoolTypeOK
<1>7. Range(freeSlots) \subseteq Slots
  BY <1>1, RangeOfSeq
<1> QED
  BY <1>1, <1>2, <1>3, <1>4, <1>5, <1>6, <1>7 DEF StackListsFree, NextChunkIsPristine

\* The other operations change the body of a chunk in use, not whether it is.
LEMMA BodyLemma ==
  ASSUME PoolIInv, NEW i \in Slots, NEW c \in Bodies,
         chunk[i].state = "resident" => c.state = "resident",
         chunk[i].state = "free" => c = chunk[i],
         chunk' = [chunk EXCEPT ![i] = c], UNCHANGED <<count, freeSlots>>
  PROVE  PoolIInv'
<1> USE DEF PoolIInv
<1>1. Slots' = Slots /\ chunk' \in [Slots -> Bodies]
  BY DEF Slots, PoolTypeOK
<1>2. PoolTypeOK'
  BY <1>1 DEF PoolTypeOK
<1>3. \A k \in Slots : /\ chunk'[k].state = chunk[k].state
                       /\ chunk[k].state = "free" => chunk'[k] = chunk[k]
  BY DEF PoolTypeOK, Bodies
<1>4. Range(freeSlots) \subseteq Slots
  BY RangeOfSeq DEF PoolTypeOK
<1> QED
  BY <1>1, <1>2, <1>3, <1>4 DEF StackListsFree, NextChunkIsPristine

\* Filling, pinning and naming a chunk leave the free slots alone.
LEMMA UseLemma ==
  ASSUME PoolIInv, NEW i \in Indexes,
         \/ Fill(i) \/ IncPinCount(i) \/ DecPinCount(i)
         \/ \E no \in Indexes : SetChunkId(i, no)
  PROVE  PoolIInv'
<1> DEFINE b == chunk[i]
<1>1. i \in Slots /\ UNCHANGED <<count, freeSlots>>
  BY DEF Fill, IncPinCount, DecPinCount, SetChunkId
<1>2. /\ chunk \in [Slots -> Bodies] /\ b \in Bodies
      /\ MaxPins \in Nat
  BY <1>1, PoolAssumption DEF PoolIInv, PoolTypeOK
<1>3. b.state = "free" => b.pins = 0
  BY <1>1 DEF PoolIInv, StackListsFree, NextChunkIsPristine
<1>4. CASE Fill(i)
  <2> DEFINE c == [b EXCEPT !.zeroed = FALSE, !.dirty = TRUE]
  <2>1. chunk' = [chunk EXCEPT ![i] = c] /\ b.state = "resident"
    BY <1>2, <1>4 DEF Fill
  <2>2. c \in Bodies /\ c.state = b.state
    BY <1>2 DEF Bodies
  <2> HIDE DEF c
  <2> QED
    BY <1>1, <2>1, <2>2, BodyLemma
<1>5. CASE IncPinCount(i)
  <2> DEFINE c == [b EXCEPT !.pins = b.pins + 1]
  <2>1. chunk' = [chunk EXCEPT ![i] = c] /\ b.state = "resident" /\ b.pins < MaxPins
    BY <1>2, <1>5 DEF IncPinCount
  <2>2. c \in Bodies /\ c.state = b.state
    BY <1>2, <2>1 DEF Bodies
  <2> HIDE DEF c
  <2> QED
    BY <1>1, <2>1, <2>2, BodyLemma
<1>6. CASE DecPinCount(i)
  <2> DEFINE c == [b EXCEPT !.pins = b.pins - 1]
  <2>1. chunk' = [chunk EXCEPT ![i] = c] /\ b.pins > 0
    BY <1>2, <1>6 DEF DecPinCount
  <2>2. c \in Bodies /\ c.state = b.state
    BY <1>2, <2>1 DEF Bodies
  <2>3. b.state # "free"
    BY <1>2, <1>3, <2>1 DEF Bodies
  <2> HIDE DEF c
  <2> QED
    BY <1>1, <2>1, <2>2, <2>3, BodyLemma
<1>7. ASSUME NEW no \in Indexes, SetChunkId(i, no)
      PROVE  PoolIInv'
  <2> DEFINE c == [b EXCEPT !.no = no]
  <2>1. chunk' = [chunk EXCEPT ![i] = c] /\ b.state = "resident"
    BY <1>2, <1>7 DEF SetChunkId
  <2>2. c \in Bodies /\ c.state = b.state
    BY <1>2 DEF Bodies
  <2> HIDE DEF c
  <2> QED
    BY <1>1, <2>1, <2>2, BodyLemma
<1> QED
  BY <1>4, <1>5, <1>6, <1>7

\* The pool's invariant is inductive.
LEMMA PoolNextLemma == PoolIInv /\ [PoolNext]_poolVars => PoolIInv'
<1> SUFFICES ASSUME PoolIInv, [PoolNext]_poolVars
             PROVE  PoolIInv'
  OBVIOUS
<1>1. CASE \E n \in 0 .. MaxCount : InitLevel(n)
  BY <1>1, PoolFreshLemma DEF InitLevel
<1>2. CASE MovedFrom
  BY <1>2, PoolFreshLemma, PoolAssumption DEF MovedFrom
<1>3. CASE AllocateFrame
  BY <1>3, AllocateFrameLemma
<1>4. CASE \E i \in Indexes :
             \/ ReleaseFrame(i) \/ Fill(i) \/ IncPinCount(i) \/ DecPinCount(i)
             \/ \E no \in Indexes : SetChunkId(i, no)
  BY <1>4, ReleaseFrameLemma, UseLemma
<1>5. CASE UNCHANGED poolVars
  BY <1>5 DEF PoolIInv, PoolTypeOK, StackListsFree, NextChunkIsPristine, Slots, poolVars
<1> QED
  BY <1>1, <1>2, <1>3, <1>4, <1>5 DEF PoolNext

\* The chunks a pool has handed out and the stack of free slots fit together in
\* every state the allocate, free, pin and fill calls of its clients can reach.
THEOREM PoolInvariance == PoolSpec => []PoolIInv
<1> QED
  BY PoolInitLemma, PoolNextLemma, PTL DEF PoolSpec

\* The stack lists the free chunks, each once: no slot leaks, and allocate_chunk
\* never hands out a chunk that is in use.
THEOREM PoolStackExact == PoolSpec => []StackListsFree
<1>1. PoolIInv => StackListsFree
  BY DEF PoolIInv
<1> QED
  BY <1>1, PoolInvariance, PTL

\* What allocate_chunk hands out next is unpinned, clean and zeroed.
THEOREM PoolPristine == PoolSpec => []NextChunkIsPristine
<1>1. PoolIInv => NextChunkIsPristine
  BY DEF PoolIInv
<1> QED
  BY <1>1, PoolInvariance, PTL
=============================================================================

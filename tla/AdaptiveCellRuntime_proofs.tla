--------------------- MODULE AdaptiveCellRuntime_proofs ---------------------
(***************************************************************************)
(* Proofs about the Adaptive Cell runtime, for any number of Cells, merge  *)
(* candidates, queries and publishers, and any set of configurations.      *)
(***************************************************************************)
EXTENDS AdaptiveCellRuntime, SharedLemmas

-----------------------------------------------------------------------------
(***************************************************************************)
(* The inductive invariant.                                                *)
(***************************************************************************)
Generations == 0..Current
OverlayEnd == CellCount + nextOverlay

RuntimeTypeOK ==
  /\ config \in Configs
  /\ Len(snaps) \in Nat \ {0} /\ \E S : snaps \in Seq(S)
  /\ nextOverlay \in Nat /\ DOMAIN disk = 1..OverlayEnd
  /\ DOMAIN ppc = Publishers /\ DOMAIN cand = Publishers
  /\ DOMAIN repl = Publishers /\ DOMAIN seen = Publishers
  /\ DOMAIN snap = Queries /\ DOMAIN raw = Queries
  /\ successful \in Nat
  /\ \A w \in Publishers : ppc[w] \in {"build", "try", "cas"} => cand[w] \in Ids

\* In every snapshot a view is shared by exactly the Cells it lists.
ViewsShared ==
  \A g \in Generations : \A c \in Cells :
    /\ Snapshot(g).view[c].cells \subseteq Cells
    /\ \A d \in Cells : d \in Snapshot(g).view[c].cells
                          <=> Snapshot(g).view[d] = Snapshot(g).view[c]

\* In every snapshot a Cell's vector stands on a page written, where the snapshot says.
VectorsInPlace ==
  \A g \in Generations : \A c \in Cells :
    /\ Snapshot(g).location[c] \in 1..OverlayEnd
    /\ disk[Snapshot(g).location[c]] = c

\* A replacement not yet published has its vectors in place too; one about to be
\* published merges two views of the snapshot its publisher read.
Fits(w) ==
  /\ ppc[w] \in {"try", "cas"} =>
       \A d \in Cells : d \in DOMAIN repl[w].at =>
         repl[w].at[d] \in 1..OverlayEnd /\ disk[repl[w].at[d]] = d
  /\ ppc[w] = "cas" =>
       /\ seen[w] \in Generations /\ repl[w].gen = seen[w] + 1
       /\ repl[w].cells = Left(seen[w], cand[w]).cells \cup Right(seen[w], cand[w]).cells
  /\ ppc[w] \in {"count", "final"} => repl[w].gen \in Generations
ReplacementsFit == \A w \in Publishers : Fits(w)

\* Queries and final_snapshot_ hold published snapshots.
HeldArePublished ==
  /\ final # None => final \in Generations
  /\ \A q \in Queries : snap[q] # None => snap[q] \in Generations

RuntimeInv ==
  RuntimeTypeOK /\ ViewsShared /\ VectorsInPlace /\ ReplacementsFit /\ HeldArePublished

\* With the builder as the only publisher, nothing is published once the budget is
\* spent, and a query has final_snapshot_ only after that.
FinalInv ==
  config.externals = {} =>
    /\ \A w \in Externals : ppc[w] = "idle"
    /\ final # None => /\ final = Current /\ ~AcceptsObservations
                       /\ ppc["builder"] \notin {"cas", "count", "final"}
    /\ ppc["builder"] \in {"count", "final"} => repl["builder"].gen = Current
    /\ ppc["builder"] = "final" => ~AcceptsObservations
    /\ \A q \in Queries : raw[q] => final # None /\ snap[q] = final

-----------------------------------------------------------------------------
(***************************************************************************)
(* What the steps leave alone.                                             *)
(***************************************************************************)
LEMMA GenerationFacts ==
  ASSUME RuntimeTypeOK
  PROVE  /\ Current \in Generations /\ Current \in Nat /\ Len(snaps) = Current + 1
         /\ OverlayEnd \in Nat /\ CellCount \in Nat
BY CountAssumption DEF RuntimeTypeOK, Current, Generations, OverlayEnd

\* A merge candidate names two Cells.
LEMMA CandidateFacts ==
  ASSUME NEW c \in Ids
  PROVE  Candidates[c][1] \in Cells /\ Candidates[c][2] \in Cells
BY CandidateAssumption DEF Ids, Cells

\* The snapshots and the pages stay: so does all that is said of them.
LEMMA SnapshotFrame ==
  ASSUME RuntimeInv, UNCHANGED <<snaps, disk, nextOverlay>>
  PROVE  /\ Generations' = Generations /\ OverlayEnd' = OverlayEnd /\ Current' = Current
         /\ \A g \in Generations : Snapshot(g)' = Snapshot(g)
         /\ ViewsShared' /\ VectorsInPlace'
BY DEF RuntimeInv, ViewsShared, VectorsInPlace, Generations, Current, OverlayEnd, Snapshot

\* A step of one publisher that publishes and writes nothing.
LEMMA PublisherFrame ==
  ASSUME RuntimeInv, UNCHANGED <<config, snaps, disk, nextOverlay>>,
         NEW w \in Publishers,
         \A v \in Publishers \ {w} : /\ ppc'[v] = ppc[v] /\ cand'[v] = cand[v]
                                     /\ repl'[v] = repl[v] /\ seen'[v] = seen[v],
         DOMAIN ppc' = Publishers, DOMAIN cand' = Publishers,
         DOMAIN repl' = Publishers, DOMAIN seen' = Publishers,
         DOMAIN snap' = Queries, DOMAIN raw' = Queries, successful' \in Nat,
         ppc'[w] \in {"build", "try", "cas"} => cand'[w] \in Ids,
         Fits(w)', HeldArePublished'
  PROVE  RuntimeInv'
<1>1. /\ Generations' = Generations /\ OverlayEnd' = OverlayEnd
      /\ \A g \in Generations : Snapshot(g)' = Snapshot(g)
      /\ ViewsShared' /\ VectorsInPlace'
  BY SnapshotFrame
<1>2. RuntimeTypeOK'
  BY <1>1 DEF RuntimeInv, RuntimeTypeOK, OverlayEnd
<1>3. ReplacementsFit'
  <2> SUFFICES ASSUME NEW v \in Publishers \ {w} PROVE Fits(v)'
    BY DEF ReplacementsFit
  <2>1. Fits(v)
    BY DEF RuntimeInv, ReplacementsFit
  <2>2. seen[v] \in Generations => Left(seen[v], cand[v])' = Left(seen[v], cand[v])
                                   /\ Right(seen[v], cand[v])' = Right(seen[v], cand[v])
    BY <1>1 DEF Left, Right
  <2> QED
    BY <1>1, <2>1, <2>2 DEF Fits, Left, Right
<1> QED
  BY <1>1, <1>2, <1>3 DEF RuntimeInv

\* A step of no publisher.
LEMMA OtherFrame ==
  ASSUME RuntimeInv,
         UNCHANGED <<config, snaps, disk, nextOverlay, successful, final, ppc, cand, repl, seen>>,
         DOMAIN snap' = Queries, DOMAIN raw' = Queries,
         \A q \in Queries : snap'[q] # None => snap'[q] \in Generations
  PROVE  RuntimeInv'
<1>1. Generations' = Generations /\ "builder" \in Publishers
  BY SnapshotFrame DEF Publishers
<1>2. HeldArePublished'
  BY <1>1 DEF RuntimeInv, HeldArePublished
<1>3. Fits("builder")'
  <2>1. Fits("builder")
    BY <1>1 DEF RuntimeInv, ReplacementsFit
  <2> QED
    BY <2>1 DEF Fits, Left, Right, Snapshot, Generations, Current, OverlayEnd
<1> QED
  BY <1>1, <1>2, <1>3, PublisherFrame DEF RuntimeInv, RuntimeTypeOK

-----------------------------------------------------------------------------
(***************************************************************************)
(* The builder's overlay pages.                                            *)
(***************************************************************************)
\* Every Cell of a set has a page of its own in a run of as many pages from first on.
PlacesAll(first, cells) ==
  /\ Cardinality(cells) \in Nat
  /\ \A c \in cells : PlaceOf(first, cells, c) \in first..(first + Cardinality(cells) - 1)
  /\ \A c, d \in cells : PlaceOf(first, cells, c) = PlaceOf(first, cells, d) => c = d
  /\ \A p \in first..(first + Cardinality(cells) - 1) :
       \E c \in cells : PlaceOf(first, cells, c) = p

\* make_physical_replacement packs the vectors of a set of Cells in the order of their
\* Cells: no two land on one page, and the run has no hole.
LEMMA PlaceLemma ==
  ASSUME NEW cells, cells \subseteq Cells, NEW first \in Int
  PROVE  PlacesAll(first, cells)
<1> DEFINE Rank(x) == Cardinality({d \in cells : d < x})
           n == Cardinality(cells)
<1>1. IsFiniteSet(cells) /\ cells \subseteq Int
  <2>1. CellCount \in Int
    BY CountAssumption
  <2>2. IsFiniteSet(Cells) /\ Cells \subseteq Int
    BY <2>1, FS_Interval DEF Cells
  <2> QED
    BY <2>2, FS_Subset
<1>2. n \in Nat
  BY <1>1, FS_CardinalityType
<1>3. /\ \A x \in cells : Rank(x) \in 0..(n - 1)
      /\ \A x, y \in cells : x < y => Rank(x) < Rank(y)
      /\ \A i \in 0..(n - 1) : \E x \in cells : Rank(x) = i
  BY <1>1, RankLemma
<1>4. \A c : PlaceOf(first, cells, c) = first + Rank(c)
  BY DEF PlaceOf
<1> HIDE DEF Rank, n
<1>5. \A c, d \in cells : first + Rank(c) = first + Rank(d) => c = d
  <2> SUFFICES ASSUME NEW c \in cells, NEW d \in cells, first + Rank(c) = first + Rank(d), c # d
               PROVE  FALSE
    OBVIOUS
  <2>1. c \in Int /\ d \in Int /\ Rank(c) \in Int /\ Rank(d) \in Int
    BY <1>1, <1>2, <1>3
  <2>2. (c < d \/ d < c) /\ Rank(c) = Rank(d)
    BY <2>1
  <2>3. Rank(c) < Rank(d) \/ Rank(d) < Rank(c)
    BY <1>3, <2>2
  <2> QED
    BY <2>1, <2>2, <2>3
<1>6. \A c \in cells : first + Rank(c) \in first..(first + n - 1)
  BY <1>2, <1>3
<1>7. ASSUME NEW p \in first..(first + n - 1)
      PROVE  \E c \in cells : first + Rank(c) = p
  <2>1. p - first \in 0..(n - 1) /\ first + (p - first) = p
    BY <1>2
  <2>2. PICK c \in cells : Rank(c) = p - first
    BY <1>3, <2>1
  <2> QED
    BY <2>1, <2>2
<1> QED
  BY <1>2, <1>4, <1>5, <1>6, <1>7 DEF n, PlacesAll

\* The pages written are above every page a snapshot knows: what stood there stays,
\* and the replacement finds each vector on its new page.
LEMMA BuildPhysicalInv ==
  ASSUME RuntimeInv, NEW ok \in BOOLEAN, BuildPhysical(ok), config' = config
  PROVE  RuntimeInv'
<1> DEFINE w == "builder"
           c == cand[w]
           cells == Left(Current, c).cells \cup Right(Current, c).cells
           first == CellCount + nextOverlay + 1
           n == Cardinality(cells)
           fresh == first..(first + n - 1)
           packed(p) == CHOOSE d \in cells : PlaceOf(first, cells, d) = p
<1>1. /\ w \in Publishers /\ ppc[w] = "build" /\ c \in Ids
      /\ UNCHANGED <<snaps, successful, final, cand, seen, snap, raw>>
  BY DEF BuildPhysical, RuntimeInv, RuntimeTypeOK, Publishers, queryVars
<1>2. HeldArePublished'
  BY <1>1 DEF RuntimeInv, HeldArePublished, Generations, Current
<1>3. CASE Left(Current, c) = Right(Current, c)
  <2>1. ppc' = [ppc EXCEPT ![w] = "end"] /\ UNCHANGED <<repl, disk, nextOverlay>>
    BY <1>3 DEF BuildPhysical, PGoto
  <2>2. Fits(w)'
    BY <1>1, <2>1 DEF RuntimeInv, RuntimeTypeOK, Fits
  <2> QED
    BY <1>1, <1>2, <2>1, <2>2, PublisherFrame DEF RuntimeInv, RuntimeTypeOK
<1>4. CASE Left(Current, c) # Right(Current, c)
  <2>1. /\ nextOverlay' = nextOverlay + n
        /\ disk' = [p \in DOMAIN disk \cup fresh |->
                      IF p \notin fresh THEN disk[p]
                      ELSE IF ok THEN disk[Snapshot(Current).location[packed(p)]]
                      ELSE None]
        /\ \/ /\ ok
              /\ repl' = [repl EXCEPT ![w] =
                            Merged(Current, c, first, [d \in cells |-> PlaceOf(first, cells, d)])]
              /\ ppc' = [ppc EXCEPT ![w] = "try"]
           \/ repl' = repl /\ ppc' = [ppc EXCEPT ![w] = "end"]
    BY <1>4 DEF BuildPhysical, PGoto, Advance
  <2>2. Current \in Generations /\ OverlayEnd \in Nat /\ first = OverlayEnd + 1 /\ first \in Int
    BY GenerationFacts DEF RuntimeInv, OverlayEnd
  <2>3. cells \subseteq Cells
    BY <1>1, <2>2, CandidateFacts DEF RuntimeInv, ViewsShared, Left, Right
  <2> HIDE DEF cells, first
  <2>4. /\ n \in Nat /\ \A d \in cells : PlaceOf(first, cells, d) \in fresh
        /\ \A d, e \in cells : PlaceOf(first, cells, d) = PlaceOf(first, cells, e) => d = e
        /\ \A p \in fresh : \E d \in cells : PlaceOf(first, cells, d) = p
    <3>1. PlacesAll(first, cells)
      BY <2>2, <2>3, PlaceLemma
    <3> QED
      BY <3>1 DEF PlacesAll
  <2> HIDE DEF n, fresh
  <2>5. OverlayEnd' = OverlayEnd + n /\ CellCount \in Nat /\ nextOverlay \in Nat
    BY <2>1, <2>4, CountAssumption DEF OverlayEnd, RuntimeInv, RuntimeTypeOK
  <2>6. /\ 1..OverlayEnd' = 1..OverlayEnd \cup fresh
        /\ \A p \in 1..OverlayEnd : p \notin fresh /\ p \in 1..OverlayEnd'
    BY <2>2, <2>4, <2>5 DEF fresh
  <2>7. DOMAIN disk = 1..OverlayEnd
    BY DEF RuntimeInv, RuntimeTypeOK
  <2>8. DOMAIN disk' = 1..OverlayEnd' /\ \A p \in 1..OverlayEnd : disk'[p] = disk[p]
    BY <2>1, <2>6, <2>7
  <2>9. /\ Generations' = Generations /\ \A g \in Generations : Snapshot(g)' = Snapshot(g)
        /\ Current' = Current
    BY <1>1 DEF Generations, Current, Snapshot
  <2>10. ViewsShared'
    BY <2>9 DEF RuntimeInv, ViewsShared
  <2>11. VectorsInPlace'
    BY <2>6, <2>8, <2>9 DEF RuntimeInv, VectorsInPlace
  <2>12. RuntimeTypeOK'
    <3>1. nextOverlay' \in Nat
      BY <2>1, <2>4, <2>5
    <3>2. DOMAIN ppc' = Publishers /\ DOMAIN repl' = Publishers
      BY <2>1 DEF RuntimeInv, RuntimeTypeOK
    <3> QED
      BY <1>1, <2>1, <2>8, <3>1, <3>2 DEF RuntimeInv, RuntimeTypeOK
  <2>13. ASSUME NEW v \in Publishers, v # w
         PROVE  Fits(v)'
    <3>1. Fits(v) /\ ppc'[v] = ppc[v] /\ repl'[v] = repl[v] /\ cand' = cand /\ seen' = seen
      BY <1>1, <2>1, <2>13 DEF RuntimeInv, RuntimeTypeOK, ReplacementsFit
    <3> QED
      BY <2>6, <2>8, <2>9, <3>1 DEF Fits, Left, Right
  <2>14. Fits(w)'
    <3>1. CASE repl' = repl /\ ppc' = [ppc EXCEPT ![w] = "end"]
      BY <1>1, <3>1 DEF RuntimeInv, RuntimeTypeOK, Fits
    <3>2. CASE /\ ok
               /\ repl' = [repl EXCEPT ![w] =
                             Merged(Current, c, first, [d \in cells |-> PlaceOf(first, cells, d)])]
               /\ ppc' = [ppc EXCEPT ![w] = "try"]
      <4>1. ppc'[w] = "try" /\ repl'[w].at = [d \in cells |-> PlaceOf(first, cells, d)]
        BY <1>1, <3>2 DEF RuntimeInv, RuntimeTypeOK, Merged
      <4>2. ASSUME NEW d \in cells
            PROVE  PlaceOf(first, cells, d) \in 1..OverlayEnd' /\ disk'[PlaceOf(first, cells, d)] = d
        <5> DEFINE p == PlaceOf(first, cells, d)
        <5>1. p \in fresh /\ packed(p) = d
          BY <2>4
        <5> HIDE DEF p, packed
        <5>2. disk'[p] = disk[Snapshot(Current).location[d]]
          BY <2>1, <3>2, <5>1
        <5>3. disk[Snapshot(Current).location[d]] = d
          BY <2>2, <2>3 DEF RuntimeInv, VectorsInPlace
        <5> QED
          BY <2>6, <5>1, <5>2, <5>3 DEF p
      <4> QED
        BY <4>1, <4>2 DEF Fits
    <3> QED
      BY <2>1, <3>1, <3>2
  <2> QED
    BY <1>2, <2>10, <2>11, <2>12, <2>13, <2>14 DEF RuntimeInv, ReplacementsFit
<1> QED
  BY <1>3, <1>4

-----------------------------------------------------------------------------
(***************************************************************************)
(* The other steps of publishers and of the builder.                       *)
(***************************************************************************)
\* At the start each Cell has a view and a page of its own.
LEMMA InitInv == Init => RuntimeInv /\ FinalInv
<1> SUFFICES ASSUME Init PROVE RuntimeInv /\ FinalInv
  OBVIOUS
<1>1. CellCount \in Nat \ {0} /\ Cells = 1..CellCount
  BY CountAssumption DEF Cells
<1> DEFINE base == [view |-> [c \in Cells |-> BaseView(c)], location |-> [c \in Cells |-> c]]
<1>2. snaps = <<base>>
  BY DEF Init
<1>3. /\ base.view = [c \in Cells |-> BaseView(c)] /\ base.location = [c \in Cells |-> c]
  OBVIOUS
<1>4. \A c \in Cells : base.view[c].cells = {c} /\ base.location[c] = c
  BY <1>3 DEF BaseView
<1>5. \A c, d \in Cells : base.view[c] = base.view[d] <=> c = d
  <2> SUFFICES ASSUME NEW c \in Cells, NEW d \in Cells, base.view[c] = base.view[d] PROVE c = d
    OBVIOUS
  <2> QED
    BY <1>4
<1> HIDE DEF base
<1>6. Len(snaps) = 1 /\ snaps \in Seq({base}) /\ snaps[1] = base
  BY <1>2
<1>7. Current = 0 /\ Generations = {0} /\ Snapshot(0) = base
  BY <1>6 DEF Current, Generations, Snapshot
<1>8. OverlayEnd = CellCount /\ DOMAIN disk = 1..OverlayEnd /\ \A p \in Cells : disk[p] = p
  BY <1>1 DEF Init, OverlayEnd
<1>9. RuntimeTypeOK
  <2>1. \A w \in Publishers : ppc[w] = "idle"
    BY DEF Init
  <2>2. Len(snaps) \in Nat \ {0} /\ \E S : snaps \in Seq(S)
    <3>1. \E S : snaps \in Seq(S)
      BY <1>6, Zenon
    <3> QED
      BY <1>6, <3>1
  <2>3. nextOverlay \in Nat /\ successful \in Nat /\ config \in Configs
    BY DEF Init
  <2>4. /\ DOMAIN ppc = Publishers /\ DOMAIN cand = Publishers
        /\ DOMAIN repl = Publishers /\ DOMAIN seen = Publishers
        /\ DOMAIN snap = Queries /\ DOMAIN raw = Queries
    BY DEF Init
  <2> QED
    BY <1>8, <2>1, <2>2, <2>3, <2>4 DEF RuntimeTypeOK
<1>10. ViewsShared
  BY <1>4, <1>5, <1>7 DEF ViewsShared
<1>11. VectorsInPlace
  BY <1>1, <1>4, <1>7, <1>8 DEF VectorsInPlace
<1>12. ReplacementsFit /\ HeldArePublished /\ FinalInv
  <2>1. \A w \in Publishers : ppc[w] = "idle"
    BY DEF Init
  <2>2. final = None /\ \A q \in Queries : snap[q] = None /\ ~raw[q]
    BY DEF Init
  <2>3. ReplacementsFit
    BY <2>1 DEF ReplacementsFit, Fits
  <2>4. HeldArePublished
    BY <2>2 DEF HeldArePublished
  <2>5. FinalInv
    BY <2>1, <2>2 DEF FinalInv, Publishers
  <2> QED
    BY <2>3, <2>4, <2>5
<1> QED
  BY <1>9, <1>10, <1>11, <1>12 DEF RuntimeInv

\* make_contiguous_replacement moves no vector.
LEMMA BuildContiguousInv ==
  ASSUME RuntimeInv, BuildContiguous, config' = config
  PROVE  RuntimeInv'
<1>1. /\ "builder" \in Publishers /\ ppc["builder"] = "build" /\ cand["builder"] \in Ids
      /\ UNCHANGED <<snaps, disk, nextOverlay, successful, final, cand, seen, snap, raw>>
  BY DEF BuildContiguous, RuntimeInv, RuntimeTypeOK, Publishers, queryVars
<1>2. HeldArePublished'
  BY <1>1 DEF RuntimeInv, HeldArePublished, Generations, Current
<1>3. \/ ppc' = [ppc EXCEPT !["builder"] = "end"] /\ repl' = repl
      \/ /\ ppc' = [ppc EXCEPT !["builder"] = "try"]
         /\ \E first : repl' = [repl EXCEPT !["builder"] =
                                  Merged(Current, cand["builder"], first, <<>>)]
  BY DEF BuildContiguous, PGoto
<1>4. CASE ppc' = [ppc EXCEPT !["builder"] = "end"] /\ repl' = repl
  <2>1. Fits("builder")'
    BY <1>1, <1>4 DEF RuntimeInv, RuntimeTypeOK, Fits
  <2> QED
    BY <1>1, <1>2, <1>4, <2>1, PublisherFrame DEF RuntimeInv, RuntimeTypeOK
<1>5. CASE ppc' = [ppc EXCEPT !["builder"] = "try"]
  <2>1. PICK first : repl' = [repl EXCEPT !["builder"] =
                                Merged(Current, cand["builder"], first, <<>>)]
    BY <1>1, <1>3, <1>5 DEF RuntimeInv, RuntimeTypeOK
  <2>2. ppc'["builder"] = "try" /\ repl'["builder"].at = <<>>
    BY <1>1, <1>5, <2>1 DEF RuntimeInv, RuntimeTypeOK, Merged
  <2>3. Fits("builder")'
    BY <2>2 DEF Fits
  <2> QED
    BY <1>1, <1>2, <1>5, <2>1, <2>3, PublisherFrame DEF RuntimeInv, RuntimeTypeOK
<1> QED
  BY <1>3, <1>4, <1>5

\* Nor does a replacement another caller brings.
LEMMA ExternalCallsInv ==
  ASSUME RuntimeInv, NEW w \in Externals, NEW c \in Ids, ExternalCalls(w, c), config' = config
  PROVE  RuntimeInv'
<1>1. /\ w \in Publishers
      /\ UNCHANGED <<snaps, disk, nextOverlay, successful, final, seen, snap, raw>>
      /\ ppc' = [ppc EXCEPT ![w] = "try"] /\ cand' = [cand EXCEPT ![w] = c]
      /\ repl' = [repl EXCEPT ![w] = Merged(Current, c, CellCount + 1, <<>>)]
  BY DEF ExternalCalls, PGoto, Publishers, queryVars
<1>2. HeldArePublished'
  BY <1>1 DEF RuntimeInv, HeldArePublished, Generations, Current
<1>3. ppc'[w] = "try" /\ repl'[w].at = <<>> /\ cand'[w] = c
  BY <1>1 DEF RuntimeInv, RuntimeTypeOK, Merged
<1>4. Fits(w)'
  BY <1>3 DEF Fits
<1> QED
  BY <1>1, <1>2, <1>3, <1>4, PublisherFrame DEF RuntimeInv, RuntimeTypeOK

\* What passes the validation merges two views of the snapshot it was validated against.
LEMMA TryPublishInv ==
  ASSUME RuntimeInv, NEW w \in Publishers, TryPublish(w), config' = config
  PROVE  RuntimeInv'
<1>1. /\ ppc[w] = "try" /\ cand[w] \in Ids /\ Fits(w) /\ Current \in Generations
      /\ UNCHANGED <<snaps, disk, nextOverlay, successful, final, cand, repl, snap, raw>>
  BY GenerationFacts DEF TryPublish, RuntimeInv, RuntimeTypeOK, ReplacementsFit, queryVars
<1>2. HeldArePublished'
  BY <1>1 DEF RuntimeInv, HeldArePublished, Generations, Current
<1>3. CASE ppc' = [ppc EXCEPT ![w] = "end"] /\ seen' = seen
  <2>1. Fits(w)'
    BY <1>1, <1>3 DEF RuntimeInv, RuntimeTypeOK, Fits
  <2> QED
    BY <1>1, <1>2, <1>3, <2>1, PublisherFrame DEF RuntimeInv, RuntimeTypeOK
<1>4. CASE Validated(w) /\ ppc' = [ppc EXCEPT ![w] = "cas"] /\ seen' = [seen EXCEPT ![w] = Current]
  <2>1. ppc'[w] = "cas" /\ seen'[w] = Current
    BY <1>4 DEF RuntimeInv, RuntimeTypeOK
  <2>2. /\ Current' = Current /\ Generations' = Generations /\ OverlayEnd' = OverlayEnd
        /\ Left(Current, cand[w])' = Left(Current, cand[w])
        /\ Right(Current, cand[w])' = Right(Current, cand[w])
    BY <1>1 DEF Current, Generations, OverlayEnd, Left, Right, Snapshot
  <2>3. Fits(w)'
    <3>1. /\ Left(seen[w], cand[w])' = Left(Current, cand[w])
          /\ Right(seen[w], cand[w])' = Right(Current, cand[w])
      BY <1>1, <2>1 DEF Left, Right, Snapshot
    <3>2. /\ repl[w].gen = Current + 1
          /\ repl[w].cells = Left(Current, cand[w]).cells \cup Right(Current, cand[w]).cells
      BY <1>4 DEF Validated
    <3>3. \A d \in Cells : d \in DOMAIN repl[w].at =>
            repl[w].at[d] \in 1..OverlayEnd /\ disk[repl[w].at[d]] = d
      BY <1>1 DEF Fits
    <3> QED
      BY <1>1, <2>1, <2>2, <3>1, <3>2, <3>3 DEF Fits
  <2> QED
    BY <1>1, <1>2, <1>4, <2>1, <2>3, PublisherFrame DEF RuntimeInv, RuntimeTypeOK
<1> QED
  BY <1>3, <1>4 DEF TryPublish, PGoto

\* A step of a publisher that leaves its replacement, towards a place where less is asked of it.
LEMMA PublisherLeaves ==
  ASSUME RuntimeInv, NEW w \in Publishers, config' = config,
         UNCHANGED <<snaps, disk, nextOverlay, cand, repl, seen, snap, raw>>, successful' \in Nat,
         NEW place, ppc' = [ppc EXCEPT ![w] = place],
         \/ place \in {"end", "idle"}
         \/ place = "final" /\ ppc[w] = "count",
         final' = final \/ final' \in Generations
  PROVE  RuntimeInv'
<1>1. Fits(w) /\ ppc'[w] = place
  BY DEF RuntimeInv, RuntimeTypeOK, ReplacementsFit
<1>2. Generations' = Generations
  BY SnapshotFrame
<1>3. HeldArePublished'
  BY <1>2 DEF RuntimeInv, HeldArePublished
<1>4. Fits(w)'
  BY <1>1, <1>2 DEF Fits
<1> QED
  BY <1>1, <1>3, <1>4, PublisherFrame DEF RuntimeInv, RuntimeTypeOK

-----------------------------------------------------------------------------
(***************************************************************************)
(* The CAS.                                                                *)
(***************************************************************************)
\* A CAS that wins appends one generation on top of the one it read, which is still
\* the published one.
LEMMA CasFacts ==
  ASSUME RuntimeInv, NEW w \in Publishers, PublishCas(w), CasWins(w)
  PROVE  /\ ppc' = [ppc EXCEPT ![w] = "count"]
         /\ UNCHANGED <<disk, nextOverlay, successful, final, cand, repl, seen, snap, raw>>
         /\ ppc[w] = "cas" /\ seen[w] = Current /\ cand[w] \in Ids /\ Fits(w)
         /\ \E S : snaps' \in Seq(S)
         /\ Current \in Nat /\ Current' = Current + 1 /\ Len(snaps') \in Nat \ {0}
         /\ Generations' = Generations \cup {Current + 1}
         /\ \A g \in Generations : Snapshot(g)' = Snapshot(g)
         /\ Snapshot(Current)' = NextSnapshot(Current, repl[w])
<1>1. /\ ppc[w] = "cas" /\ seen[w] = Current /\ cand[w] \in Ids /\ Fits(w)
      /\ ppc' = [ppc EXCEPT ![w] = "count"]
      /\ UNCHANGED <<disk, nextOverlay, successful, final, cand, repl, seen, snap, raw>>
      /\ snaps' = Append(snaps, NextSnapshot(Current, repl[w]))
  BY DEF PublishCas, CasWins, PGoto, RuntimeInv, RuntimeTypeOK, ReplacementsFit, queryVars
<1> DEFINE N == NextSnapshot(Current, repl[w])
<1>2. PICK S : snaps \in Seq(S)
  BY DEF RuntimeInv, RuntimeTypeOK
<1>3. Current \in Nat /\ Len(snaps) = Current + 1
  BY GenerationFacts DEF RuntimeInv
<1> HIDE DEF N
<1>4. snaps \in Seq(S \cup {N}) /\ N \in S \cup {N} /\ snaps' = Append(snaps, N)
  BY <1>1, <1>2 DEF N
<1>5. /\ snaps' \in Seq(S \cup {N}) /\ Len(snaps') = Len(snaps) + 1
      /\ \A i \in 1..Len(snaps) : snaps'[i] = snaps[i]
      /\ snaps'[Len(snaps) + 1] = N
  BY <1>4
<1>6. Current' = Current + 1 /\ Len(snaps') \in Nat \ {0}
  BY <1>3, <1>5 DEF Current
<1>7. Generations' = Generations \cup {Current + 1}
  BY <1>3, <1>6 DEF Generations
<1>8. \A g \in Generations : Snapshot(g)' = Snapshot(g)
  <2> SUFFICES ASSUME NEW g \in Generations PROVE snaps'[g + 1] = snaps[g + 1]
    BY DEF Snapshot
  <2>1. g + 1 \in 1..Len(snaps)
    BY <1>3 DEF Generations
  <2> QED
    BY <1>5, <2>1
<1>9. Snapshot(Current)' = N
  <2>1. snaps'[(Current + 1) + 1] = N
    BY <1>3, <1>5
  <2> QED
    BY <1>6, <2>1 DEF Snapshot
<1>10. \E T : snaps' \in Seq(T)
  BY <1>5, Zenon
<1> QED
  BY <1>1, <1>3, <1>6, <1>7, <1>8, <1>9, <1>10 DEF N

\* The snapshot the CAS publishes: the Cells of the two views share the merged one, every
\* other Cell keeps its view, and every vector is in place.
LEMMA CasKeepsInv ==
  ASSUME RuntimeInv, NEW w \in Publishers, PublishCas(w), CasWins(w), config' = config
  PROVE  /\ RuntimeInv'
         /\ \A c, d \in Cells : Snapshot(Current).view[c] = Snapshot(Current).view[d]
                                  => Snapshot(Current)'.view[c] = Snapshot(Current)'.view[d]
<1> DEFINE v == repl[w]
           N == NextSnapshot(Current, v)
           view == Snapshot(Current).view
           L == Left(Current, cand[w])
           R == Right(Current, cand[w])
<1>1. /\ ppc' = [ppc EXCEPT ![w] = "count"]
      /\ UNCHANGED <<disk, nextOverlay, successful, final, cand, repl, seen, snap, raw>>
      /\ ppc[w] = "cas" /\ seen[w] = Current /\ cand[w] \in Ids /\ Fits(w)
      /\ Current \in Nat /\ Current' = Current + 1
      /\ Generations' = Generations \cup {Current'}
      /\ \A g \in Generations : Snapshot(g)' = Snapshot(g)
      /\ Snapshot(Current)' = N
  BY CasFacts
<1>2. \A c \in Cells : /\ N.view[c] = IF c \in v.cells THEN v ELSE view[c]
                       /\ N.location[c] = IF c \in DOMAIN v.at THEN v.at[c]
                                          ELSE Snapshot(Current).location[c]
  BY DEF NextSnapshot
<1>3. Current \in Generations
  BY GenerationFacts DEF RuntimeInv
<1>4. /\ v.gen = Current + 1 /\ v.cells = L.cells \cup R.cells
      /\ \A d \in Cells : d \in DOMAIN v.at => v.at[d] \in 1..OverlayEnd /\ disk[v.at[d]] = d
  BY <1>1 DEF Fits
<1>5. \A c \in Cells : /\ view[c].cells \subseteq Cells
                       /\ \A d \in Cells : d \in view[c].cells <=> view[d] = view[c]
  BY <1>3 DEF RuntimeInv, ViewsShared
<1>6. PICK a \in Cells, b \in Cells : L = view[a] /\ R = view[b]
  BY <1>1, CandidateFacts DEF Left, Right
<1> HIDE DEF N, v, view, L, R
<1>7. v.cells \subseteq Cells /\ \A c \in Cells : c \in v.cells <=> view[c] = L \/ view[c] = R
  BY <1>4, <1>5, <1>6
<1>8. \A c \in Cells : c \notin v.cells => view[c] # v
  BY <1>5
<1>9. \A c \in Cells : /\ N.view[c].cells \subseteq Cells
                       /\ \A d \in Cells : d \in N.view[c].cells <=> N.view[d] = N.view[c]
  <2> SUFFICES ASSUME NEW c \in Cells
               PROVE  /\ N.view[c].cells \subseteq Cells
                      /\ \A d \in Cells : d \in N.view[c].cells <=> N.view[d] = N.view[c]
    OBVIOUS
  <2>1. CASE c \in v.cells
    <3>1. N.view[c] = v
      BY <1>2, <2>1
    <3>2. \A d \in Cells : d \in v.cells <=> N.view[d] = v
      BY <1>2, <1>8
    <3> QED
      BY <1>7, <3>1, <3>2
  <2>2. CASE c \notin v.cells
    <3>1. N.view[c] = view[c]
      BY <1>2, <2>2
    <3>2. ASSUME NEW d \in Cells
          PROVE  d \in view[c].cells <=> N.view[d] = view[c]
      <4>1. CASE d \in v.cells
        <5>1. N.view[d] = v /\ view[c] # v
          BY <1>2, <1>8, <2>2, <4>1
        <5>2. d \notin view[c].cells
          BY <1>5, <1>7, <2>2, <4>1
        <5> QED
          BY <5>1, <5>2
      <4>2. CASE d \notin v.cells
        <5>1. N.view[d] = view[d]
          BY <1>2, <4>2
        <5> QED
          BY <1>5, <5>1
      <4> QED
        BY <4>1, <4>2
    <3> QED
      BY <1>5, <3>1, <3>2
  <2> QED
    BY <2>1, <2>2
<1>10. \A c, d \in Cells : view[c] = view[d] => N.view[c] = N.view[d]
  BY <1>2, <1>7
<1>11. ViewsShared'
  <2> SUFFICES ASSUME NEW g \in Generations', NEW c \in Cells
               PROVE  /\ Snapshot(g)'.view[c].cells \subseteq Cells
                      /\ \A d \in Cells : d \in Snapshot(g)'.view[c].cells
                                            <=> Snapshot(g)'.view[d] = Snapshot(g)'.view[c]
    BY DEF ViewsShared
  <2>1. CASE g \in Generations
    BY <1>1, <2>1 DEF RuntimeInv, ViewsShared
  <2>2. CASE g = Current'
    <3>1. Snapshot(g)' = N
      BY <1>1, <2>2 DEF Snapshot
    <3> QED
      BY <1>9, <3>1
  <2> QED
    BY <1>1, <2>1, <2>2
<1>12. VectorsInPlace'
  <2>1. OverlayEnd' = OverlayEnd
    BY <1>1 DEF OverlayEnd
  <2> SUFFICES ASSUME NEW g \in Generations', NEW c \in Cells
               PROVE  /\ Snapshot(g)'.location[c] \in 1..OverlayEnd
                      /\ disk[Snapshot(g)'.location[c]] = c
    BY <1>1, <2>1 DEF VectorsInPlace
  <2>2. CASE g \in Generations
    BY <1>1, <2>2 DEF RuntimeInv, VectorsInPlace
  <2>3. CASE g = Current'
    <3>1. Snapshot(g)' = N
      BY <1>1, <2>3 DEF Snapshot
    <3>2. /\ Snapshot(Current).location[c] \in 1..OverlayEnd
          /\ disk[Snapshot(Current).location[c]] = c
      BY <1>3 DEF RuntimeInv, VectorsInPlace
    <3> QED
      BY <1>2, <1>4, <3>1, <3>2
  <2> QED
    BY <1>1, <2>2, <2>3
<1>13. RuntimeTypeOK'
  <2>1. Len(snaps') \in Nat \ {0} /\ \E S : snaps' \in Seq(S)
    BY CasFacts
  <2> QED
    BY <1>1, <2>1 DEF RuntimeInv, RuntimeTypeOK, OverlayEnd
<1>14. ReplacementsFit'
  <2> SUFFICES ASSUME NEW u \in Publishers PROVE Fits(u)'
    BY DEF ReplacementsFit
  <2>1. Fits(u)
    BY DEF RuntimeInv, ReplacementsFit
  <2>2. CASE u = w
    <3>1. ppc'[u] = "count" /\ repl'[u].gen = Current'
      BY <1>1, <1>4, <2>2 DEF RuntimeInv, RuntimeTypeOK, v
    <3> QED
      BY <1>1, <3>1 DEF Fits
  <2>3. CASE u # w
    <3>1. ppc'[u] = ppc[u] /\ repl'[u] = repl[u] /\ seen'[u] = seen[u] /\ cand'[u] = cand[u]
      BY <1>1, <2>3 DEF RuntimeInv, RuntimeTypeOK
    <3>2. seen[u] \in Generations => /\ Left(seen[u], cand[u])' = Left(seen[u], cand[u])
                                     /\ Right(seen[u], cand[u])' = Right(seen[u], cand[u])
      BY <1>1, <3>1 DEF Left, Right
    <3>3. OverlayEnd' = OverlayEnd
      BY <1>1 DEF OverlayEnd
    <3> QED
      BY <1>1, <2>1, <3>1, <3>2, <3>3 DEF Fits
  <2> QED
    BY <2>2, <2>3
<1>15. HeldArePublished'
  BY <1>1 DEF RuntimeInv, HeldArePublished
<1>16. Snapshot(Current)'.view = N.view
  BY <1>1
<1> QED
  BY <1>10, <1>11, <1>12, <1>13, <1>14, <1>15, <1>16 DEF RuntimeInv, view

-----------------------------------------------------------------------------
(***************************************************************************)
(* Every step keeps the invariant.                                         *)
(***************************************************************************)
LEMMA QueryStepInv ==
  ASSUME RuntimeInv, NEW q \in Queries, QueryStep(q)
  PROVE  RuntimeInv'
<1>1. /\ UNCHANGED <<config, snaps, disk, nextOverlay, successful, final, publishVars>>
      /\ DOMAIN snap' = Queries /\ DOMAIN raw' = Queries
  BY DEF QueryStep, BeginQuery, ProfileCandidate, QueryNotifies, EndQuery, ObserveQuery,
         RuntimeInv, RuntimeTypeOK
<1>2. Current \in Generations
  BY GenerationFacts DEF RuntimeInv
<1>3. \/ snap' = snap
      \/ snap' = [snap EXCEPT ![q] = IF final = None THEN Current ELSE final]
      \/ snap' = [snap EXCEPT ![q] = None]
  BY DEF QueryStep, BeginQuery, ProfileCandidate, QueryNotifies, EndQuery, ObserveQuery
<1>4. \A p \in Queries : snap'[p] # None => snap'[p] \in Generations
  BY <1>2, <1>3 DEF RuntimeInv, RuntimeTypeOK, HeldArePublished
<1> QED
  BY <1>1, <1>4, OtherFrame DEF publishVars

\* Every step of try_publish, whichever thread makes it.
LEMMA PublishStepInv ==
  ASSUME RuntimeInv, NEW w \in Publishers, PublishStep(w)
  PROVE  RuntimeInv'
<1>1. CASE TryPublish(w)
  BY <1>1, TryPublishInv DEF PublishStep
<1>2. CASE PublishCas(w)
  <2>1. CASE CasWins(w)
    BY <1>2, <2>1, CasKeepsInv DEF PublishStep
  <2>2. CASE ~CasWins(w)
    BY <1>2, <2>2, PublisherLeaves
    DEF PublishStep, PublishCas, PGoto, queryVars, RuntimeInv, RuntimeTypeOK
  <2> QED
    BY <2>1, <2>2
<1>3. CASE CountPublish(w)
  <2>1. /\ ppc[w] = "count" /\ successful' \in Nat
        /\ UNCHANGED <<config, snaps, disk, nextOverlay, cand, repl, seen, snap, raw, final>>
    BY <1>3 DEF PublishStep, CountPublish, queryVars, RuntimeInv, RuntimeTypeOK
  <2>2. ppc' = [ppc EXCEPT ![w] = "final"] \/ ppc' = [ppc EXCEPT ![w] = "end"]
    BY <1>3 DEF CountPublish, PGoto
  <2> QED
    BY <2>1, <2>2, PublisherLeaves
<1>4. CASE StoreFinal(w)
  <2>1. /\ ppc[w] = "final" /\ successful' = successful /\ final' = repl[w].gen
        /\ UNCHANGED <<config, snaps, disk, nextOverlay, cand, repl, seen, snap, raw>>
        /\ ppc' = [ppc EXCEPT ![w] = "end"]
    BY <1>4 DEF PublishStep, StoreFinal, PGoto, queryVars
  <2>2. repl[w].gen \in Generations /\ successful' \in Nat
    BY <2>1 DEF RuntimeInv, RuntimeTypeOK, ReplacementsFit, Fits
  <2> QED
    BY <2>1, <2>2, PublisherLeaves
<1> QED
  BY <1>1, <1>2, <1>3, <1>4 DEF PublishStep

\* Every step of the maintenance thread.
LEMMA BuilderStepInv ==
  ASSUME RuntimeInv, BuilderStep
  PROVE  RuntimeInv'
<1>1. config' = config /\ "builder" \in Publishers
  BY DEF BuilderStep, Publishers
<1>2. CASE BuilderTop \/ BuilderChecks \/ BuilderSleeps \/ BuilderNotifies \/ BuilderWraps
  <2>1. UNCHANGED <<snaps, disk, nextOverlay, successful, final, queryVars, publishVars>>
    BY <1>2 DEF BuilderTop, BuilderChecks, BuilderSleeps, BuilderNotifies, BuilderWraps
  <2> QED
    BY <1>1, <2>1, OtherFrame
    DEF queryVars, publishVars, RuntimeInv, RuntimeTypeOK, HeldArePublished
<1>3. CASE BuilderTakes
  <2>1. UNCHANGED <<snaps, disk, nextOverlay, successful, final, snap, raw, repl, seen>>
    BY <1>3 DEF BuilderTakes, queryVars
  <2>2. \/ UNCHANGED <<ppc, cand>>
        \/ /\ scan \in Ids /\ ppc' = [ppc EXCEPT !["builder"] = "build"]
           /\ cand' = [cand EXCEPT !["builder"] = scan]
    BY <1>3 DEF BuilderTakes, PGoto
  <2>3. CASE UNCHANGED <<ppc, cand>>
    BY <1>1, <2>1, <2>3, OtherFrame DEF RuntimeInv, RuntimeTypeOK, HeldArePublished
  <2>4. CASE /\ scan \in Ids /\ ppc' = [ppc EXCEPT !["builder"] = "build"]
             /\ cand' = [cand EXCEPT !["builder"] = scan]
    <3>1. ppc'["builder"] = "build" /\ cand'["builder"] = scan
      BY <1>1, <2>4 DEF RuntimeInv, RuntimeTypeOK
    <3>2. HeldArePublished'
      BY <2>1 DEF RuntimeInv, HeldArePublished, Generations, Current
    <3>3. Fits("builder")'
      BY <3>1 DEF Fits
    <3> QED
      BY <1>1, <2>1, <2>4, <3>1, <3>2, <3>3, PublisherFrame DEF RuntimeInv, RuntimeTypeOK
  <2> QED
    BY <2>2, <2>3, <2>4
<1>4. CASE BuilderFinishes
  BY <1>1, <1>4, PublisherLeaves
  DEF BuilderFinishes, PGoto, queryVars, RuntimeInv, RuntimeTypeOK
<1>5. CASE BuildContiguous
  BY <1>1, <1>5, BuildContiguousInv
<1>6. CASE \E ok \in BOOLEAN : BuildPhysical(ok)
  BY <1>1, <1>6, BuildPhysicalInv
<1> QED
  BY <1>2, <1>3, <1>4, <1>5, <1>6 DEF BuilderStep

\* The runtime's invariant is inductive.
LEMMA StepInv == RuntimeInv /\ [Next]_vars => RuntimeInv'
<1> SUFFICES ASSUME RuntimeInv, [Next]_vars PROVE RuntimeInv'
  OBVIOUS
<1>1. ASSUME UNCHANGED <<config, snaps, disk, nextOverlay, successful, final, snap, raw, publishVars>>
      PROVE  RuntimeInv'
  BY <1>1, OtherFrame DEF publishVars, RuntimeInv, RuntimeTypeOK, HeldArePublished
<1>2. CASE UNCHANGED vars
  BY <1>1, <1>2 DEF vars, queryVars
<1>3. CASE DriverStep
  BY <1>1, <1>3
  DEF DriverStep, DrainChecks, DrainSleeps, DestroyStops, DestroyNotifies, Join, queryVars
<1> QED
  BY <1>2, <1>3, QueryStepInv, PublishStepInv, BuilderStepInv, ExternalCallsInv DEF Next

\* The last publication of the budget is counted before final_snapshot_ is stored, and
\* the gate of try_publish is closed from then on.
LEMMA FinalStep == RuntimeInv /\ FinalInv /\ [Next]_vars => FinalInv'
<1> SUFFICES ASSUME RuntimeInv, FinalInv, [Next]_vars, config'.externals = {} PROVE FinalInv'
  BY DEF FinalInv
<1> DEFINE b == "builder"
<1>1. config' = config /\ b \in Publishers /\ Publishers = {b} \cup Externals /\ b \notin Externals
  BY ActorAssumption
  DEF Next, vars, QueryStep, PublishStep, BuilderStep, DriverStep, Publishers
<1>2. /\ \A w \in Externals : ppc[w] = "idle"
      /\ final # None => /\ final = Current /\ ~AcceptsObservations
                         /\ ppc[b] \notin {"cas", "count", "final"}
      /\ ppc[b] \in {"count", "final"} => repl[b].gen = Current
      /\ ppc[b] = "final" => ~AcceptsObservations
      /\ \A q \in Queries : raw[q] => final # None /\ snap[q] = final
  BY <1>1 DEF FinalInv
<1>3. /\ DOMAIN ppc = Publishers /\ DOMAIN repl = Publishers
      /\ DOMAIN snap = Queries /\ DOMAIN raw = Queries
      /\ successful \in Nat /\ config.maxPublishes \in Nat
  BY ConfigAssumption DEF RuntimeInv, RuntimeTypeOK
\* A step of the builder's, or of nobody's, that publishes nothing.
<1>4. ASSUME UNCHANGED <<snaps, successful, final, snap, raw>>,
             NEW place, ppc' = [ppc EXCEPT ![b] = place],
             place \notin {"cas", "count", "final"} \/ (place = "cas" /\ AcceptsObservations)
      PROVE  FinalInv'
  <2>1. ppc'[b] = place /\ \A w \in Externals : ppc'[w] = "idle"
    BY <1>1, <1>2, <1>3, <1>4
  <2>2. Current' = Current /\ AcceptsObservations' = AcceptsObservations
    BY <1>1, <1>4 DEF Current, AcceptsObservations
  <2> QED
    BY <1>2, <1>4, <2>1, <2>2 DEF FinalInv
<1>5. ASSUME UNCHANGED <<snaps, successful, final, ppc, repl>>,
             \A q \in Queries : raw'[q] => final # None /\ snap'[q] = final
      PROVE  FinalInv'
  BY <1>1, <1>2, <1>5 DEF FinalInv, Current, AcceptsObservations
<1>6. ASSUME NEW q \in Queries, QueryStep(q) PROVE FinalInv'
  <2>1. UNCHANGED <<snaps, successful, final, ppc, repl>>
    BY <1>6 DEF QueryStep, BeginQuery, ProfileCandidate, QueryNotifies, EndQuery, ObserveQuery,
                publishVars
  <2>2. \/ UNCHANGED <<snap, raw>>
        \/ /\ snap' = [snap EXCEPT ![q] = IF final = None THEN Current ELSE final]
           /\ raw' = [raw EXCEPT ![q] = final # None]
        \/ /\ snap' = [snap EXCEPT ![q] = None]
           /\ raw' = [raw EXCEPT ![q] = FALSE]
    BY <1>6 DEF QueryStep, BeginQuery, ProfileCandidate, QueryNotifies, EndQuery, ObserveQuery
  <2>3. \A p \in Queries : raw'[p] => final # None /\ snap'[p] = final
    BY <1>2, <1>3, <2>2
  <2> QED
    BY <1>5, <2>1, <2>3
<1>7. ASSUME NEW w \in Publishers, PublishStep(w) PROVE FinalInv'
  <2>1. w = b
    BY <1>1, <1>2, <1>7 DEF PublishStep, TryPublish, PublishCas, CountPublish, StoreFinal
  <2>2. CASE TryPublish(b)
    <3>1. UNCHANGED <<snaps, successful, final, snap, raw>>
      BY <2>2 DEF TryPublish, queryVars
    <3>2. \/ ppc' = [ppc EXCEPT ![b] = "end"]
          \/ AcceptsObservations /\ ppc' = [ppc EXCEPT ![b] = "cas"]
      BY <2>2 DEF TryPublish, PGoto
    <3> QED
      BY <1>4, <3>1, <3>2
  <2>3. CASE PublishCas(b) /\ ~CasWins(b)
    <3>1. UNCHANGED <<snaps, successful, final, snap, raw>> /\ ppc' = [ppc EXCEPT ![b] = "end"]
      BY <2>3 DEF PublishCas, PGoto, queryVars
    <3> QED
      BY <1>4, <3>1
  <2>4. CASE PublishCas(b) /\ CasWins(b)
    <3>1. /\ ppc' = [ppc EXCEPT ![b] = "count"] /\ ppc[b] = "cas" /\ seen[b] = Current
          /\ UNCHANGED <<successful, final, repl, snap, raw>> /\ Fits(b)
          /\ Current' = Current + 1
      BY <1>1, <2>4, CasFacts
    <3>2. repl'[b].gen = Current' /\ final' = None
      BY <1>2, <3>1 DEF Fits
    <3>3. ppc'[b] = "count" /\ \A x \in Externals : ppc'[x] = "idle"
      BY <1>1, <1>2, <1>3, <3>1
    <3> QED
      BY <1>2, <3>1, <3>2, <3>3 DEF FinalInv
  <2>5. CASE CountPublish(b)
    <3>1. /\ ppc[b] = "count" /\ successful' = successful + 1
          /\ ppc' = [ppc EXCEPT ![b] = IF SpendsBudget THEN "final" ELSE "end"]
          /\ UNCHANGED <<snaps, final, repl, snap, raw>>
      BY <2>5 DEF CountPublish, PGoto, queryVars
    <3>2. final' = None /\ repl'[b].gen = Current'
      BY <1>2, <3>1 DEF Current
    <3>3. ppc'[b] = "final" => ~AcceptsObservations'
      BY <1>1, <1>3, <3>1 DEF SpendsBudget, AcceptsObservations
    <3>4. \A x \in Externals : ppc'[x] = "idle"
      BY <1>1, <1>2, <1>3, <3>1
    <3> QED
      BY <1>2, <3>1, <3>2, <3>3, <3>4 DEF FinalInv
  <2>6. CASE StoreFinal(b)
    <3>1. /\ ppc[b] = "final" /\ final' = repl[b].gen /\ ppc' = [ppc EXCEPT ![b] = "end"]
          /\ UNCHANGED <<snaps, successful, repl, snap, raw>>
      BY <2>6 DEF StoreFinal, PGoto, queryVars
    <3>2. final' = Current' /\ ~AcceptsObservations'
      BY <1>1, <1>2, <3>1 DEF Current, AcceptsObservations
    <3>3. ppc'[b] = "end" /\ \A x \in Externals : ppc'[x] = "idle"
      BY <1>1, <1>2, <1>3, <3>1
    <3>4. \A q \in Queries : ~raw'[q]
      BY <1>2, <3>1
    <3> QED
      BY <3>2, <3>3, <3>4 DEF FinalInv
  <2> QED
    BY <1>7, <2>1, <2>2, <2>3, <2>4, <2>5, <2>6 DEF PublishStep
<1>8. ASSUME BuilderStep PROVE FinalInv'
  <2>1. UNCHANGED <<snaps, successful, final, snap, raw>>
    BY <1>8 DEF BuilderStep, BuilderTop, BuilderChecks, BuilderSleeps, BuilderTakes,
                BuilderFinishes, BuilderNotifies, BuilderWraps, BuildContiguous, BuildPhysical,
                queryVars
  <2>2. \/ UNCHANGED <<ppc, repl>>
        \/ \E place \in {"build", "idle", "try", "end"} : ppc' = [ppc EXCEPT ![b] = place]
    <3>1. CASE BuildContiguous \/ \E ok \in BOOLEAN : BuildPhysical(ok)
      BY <3>1 DEF BuildContiguous, BuildPhysical, PGoto
    <3>2. CASE BuilderTakes \/ BuilderFinishes
      BY <3>2 DEF BuilderTakes, BuilderFinishes, PGoto
    <3>3. CASE BuilderTop \/ BuilderChecks \/ BuilderSleeps \/ BuilderNotifies \/ BuilderWraps
      BY <3>3 DEF BuilderTop, BuilderChecks, BuilderSleeps, BuilderNotifies, BuilderWraps,
                  publishVars
    <3> QED
      BY <1>8, <3>1, <3>2, <3>3 DEF BuilderStep
  <2> QED
    BY <1>2, <1>4, <1>5, <2>1, <2>2
<1>9. ASSUME NEW w \in Externals, NEW c \in Ids, ExternalCalls(w, c) PROVE FALSE
  BY <1>1, <1>9 DEF ExternalCalls
<1>10. CASE DriverStep \/ UNCHANGED vars
  <2>1. UNCHANGED <<snaps, successful, final, ppc, repl, snap, raw>>
    BY <1>10 DEF DriverStep, DrainChecks, DrainSleeps, DestroyStops, DestroyNotifies, Join,
                 publishVars, queryVars, vars
  <2> QED
    BY <1>2, <1>5, <2>1
<1> QED
  BY <1>6, <1>7, <1>8, <1>9, <1>10 DEF Next

-----------------------------------------------------------------------------
(***************************************************************************)
(* The theorems.                                                           *)
(***************************************************************************)
\* The invariant holds in every behaviour, whoever calls try_publish and however often
\* a write of the builder's fails.
THEOREM RuntimeInvariance == Spec => []RuntimeInv
<1>1. Init => RuntimeInv
  BY InitInv
<1> QED
  BY <1>1, StepInv, PTL DEF Spec

\* A search finds every vector where its snapshot says it is: the builder writes overlay
\* pages no published snapshot knows, and a snapshot is never changed once published.
THEOREM VectorsWhereSnapshotSaysHolds == Spec => []VectorsWhereSnapshotSays
<1>1. RuntimeInv => VectorsWhereSnapshotSays
  BY DEF RuntimeInv, HeldArePublished, VectorsInPlace, VectorsWhereSnapshotSays
<1> QED
  BY <1>1, RuntimeInvariance, PTL

\* No publication is lost to another: the compare-and-swap publishes on top of the
\* snapshot its replacement was validated against, so Cells once merged stay together.
THEOREM MergesPersistHolds == Spec => MergesPersist
<1> DEFINE Persist == \A c, d \in Cells :
                        Snapshot(Current).view[c] = Snapshot(Current).view[d]
                          => Snapshot(Current)'.view[c] = Snapshot(Current)'.view[d]
<1>1. RuntimeInv /\ [Next]_vars => [Persist]_vars
  <2> SUFFICES ASSUME RuntimeInv, [Next]_vars PROVE Persist
    OBVIOUS
  <2>1. CASE snaps' = snaps
    BY <2>1 DEF Snapshot, Current
  <2>2. ASSUME NEW w \in Publishers, PublishCas(w), CasWins(w), config' = config
        PROVE  Persist
    BY <2>2, CasKeepsInv
  <2>3. \/ snaps' = snaps
        \/ \E w \in Publishers : PublishCas(w) /\ CasWins(w) /\ config' = config
    <3>1. ASSUME NEW q \in Queries, QueryStep(q) PROVE snaps' = snaps
      BY <3>1 DEF QueryStep, BeginQuery, ProfileCandidate, QueryNotifies, EndQuery, ObserveQuery
    <3>2. ASSUME NEW w \in Publishers, PublishStep(w)
          PROVE  snaps' = snaps \/ (PublishCas(w) /\ CasWins(w) /\ config' = config)
      BY <3>2 DEF PublishStep, TryPublish, PublishCas, CountPublish, StoreFinal
    <3>3. CASE BuilderStep
      BY <3>3 DEF BuilderStep, BuilderTop, BuilderChecks, BuilderSleeps, BuilderTakes,
                  BuilderFinishes, BuilderNotifies, BuilderWraps, BuildContiguous, BuildPhysical
    <3>4. CASE DriverStep \/ UNCHANGED vars
      BY <3>4 DEF DriverStep, DrainChecks, DrainSleeps, DestroyStops, DestroyNotifies, Join, vars
    <3>5. ASSUME NEW w \in Externals, NEW c \in Ids, ExternalCalls(w, c) PROVE snaps' = snaps
      BY <3>5 DEF ExternalCalls
    <3> QED
      BY <3>1, <3>2, <3>3, <3>4, <3>5 DEF Next
  <2> QED
    BY <2>1, <2>2, <2>3
<1> QED
  BY <1>1, RuntimeInvariance, PTL DEF Spec, MergesPersist

\* With the builder as the only publisher, as in the search driver, the raw pointer a
\* query takes from final_snapshot_ is the published snapshot's, which stays owned.
THEOREM FinalIsCurrentHolds == Spec => [](config.externals = {} => FinalIsCurrent)
<1>1. Init => RuntimeInv /\ FinalInv
  BY InitInv
<1>2. RuntimeInv /\ FinalInv /\ [Next]_vars => (RuntimeInv /\ FinalInv)'
  BY StepInv, FinalStep
<1>3. FinalInv => (config.externals = {} => FinalIsCurrent)
  BY DEF FinalInv, FinalIsCurrent
<1> QED
  BY <1>1, <1>2, <1>3, PTL DEF Spec
=============================================================================

------------------------- MODULE VamanaIndex_proofs -------------------------
(***************************************************************************)
(* Proofs about the Vamana index: the incremental one, for any number of   *)
(* slots, tags, threads, inserts and saves, and any degree bound; then the *)
(* static one, for any points, labels, parameters, threads and lookups.    *)
(***************************************************************************)
EXTENDS VamanaIndex, VamanaBuild, SharedLemmas

-----------------------------------------------------------------------------
(***************************************************************************)
(* The slot tables: every location is empty, tagged, deleted, or swapped   *)
(* out to the running consolidation, and the two tag tables are inverse.   *)
(***************************************************************************)
Contents == VTags \cup {Zero, Blank}
ScoredNodes == Nodes \X Contents
Calls == [pc : {"idle", "write", "expand", "search", "inter", "prune", "consolidate"},
          loc : Locs \cup {NoLoc}, tag : Contents, frontier : SUBSET ScoredNodes, pool : SUBSET ScoredNodes,
          links : SUBSET Nodes, des : Nodes \cup {NoLoc}, copy : SUBSET Nodes]
Work == [loc : Nodes, ngh : SUBSET Nodes, set : SUBSET Nodes]
Consos == [pc : {"idle", "process"}, by : VThreads \cup {Blank}, old : SUBSET Locs,
           todo : SUBSET Nodes, work : SUBSET Work]

VTypeOK ==
  /\ conc \in BOOLEAN
  /\ nd \in 0..MaxPoints
  /\ emptySlots \in Seq(Locs)
  /\ deleteSet \in SUBSET Locs
  /\ tagLoc \in [VTags \cup {Zero} -> Locs \cup {NoLoc}]
  /\ locTag \in [Locs -> Contents]
  /\ compacted \in BOOLEAN
  /\ vec \in [Nodes -> Contents]
  /\ graph \in [Nodes -> SUBSET Nodes]
  /\ call \in [VThreads -> Calls]
  /\ conso \in Consos

EmptyCount == Len(emptySlots) + nd = MaxPoints /\ IsInjective(emptySlots)

TagsInverse ==
  /\ \A l \in Locs : Tagged(l) => locTag[l] \in VTags /\ tagLoc[locTag[l]] = l
  /\ \A tag \in VTags \cup {Zero} : tagLoc[tag] # NoLoc => locTag[tagLoc[tag]] = tag

Partition ==
  /\ TaggedLocs \cup deleteSet \cup conso.old = Locs \ Empties
  /\ TaggedLocs \cap (deleteSet \cup conso.old) = {}
  /\ deleteSet \cap conso.old = {}

\* data_compacted_ is cleared by every delete.
CompactedIsClean == compacted => deleteSet = {} /\ conso.old = {}

ConsoMatchesCalls ==
  /\ conso.pc = "idle" => conso = NoConso
  /\ conso.pc = "process" => conso.by \in VThreads /\ call[conso.by].pc = "consolidate"

\* A call that inserts knows its location, one that prunes also whose list it prunes.
CallsHaveLocs ==
  \A t \in VThreads :
    /\ call[t].pc \in {"write", "expand", "inter", "prune"} => call[t].loc \in Locs
    /\ call[t].pc = "prune" => call[t].des \in Nodes

\* A save writes the tags of the occupied locations, each once.
FileTags ==
  files.points # -1 =>
    /\ files.points \in 0..MaxPoints
    /\ files.tag \in [0..(files.points - 1) -> VTags] /\ IsInjective(files.tag)
    /\ files.vec \in [0..(files.points - 1) -> Contents]
    /\ files.graph \in [0..(files.points - 1) \cup {Frozen} -> SUBSET Nodes]

SlotInv ==
  /\ VTypeOK /\ EmptyCount /\ TagsInverse /\ Partition /\ CompactedIsClean
  /\ ConsoMatchesCalls /\ CallsHaveLocs /\ FileTags

-----------------------------------------------------------------------------
(***************************************************************************)
(* The graph, without concurrent consolidation.                            *)
(***************************************************************************)
Linked == Nodes \ (Empties \cup Unlinked)
InFlight(t) == call[t].pc \in {"write", "expand"}

\* A linked node leads to linked nodes only.
EdgesAreLinked == \A n \in Linked : graph[n] \subseteq Linked

\* What a call holds is linked, except the location it inserts until it links it; no
\* two calls insert the same location.
CallsHoldLinked ==
  \A t \in VThreads :
    /\ call[t].pc = "write" => call[t].pool = {}
    /\ call[t].pc \in {"expand", "search"} => Seen(t) \subseteq Linked
    /\ call[t].pc \in {"inter", "prune"} => call[t].loc \in Linked /\ call[t].links \subseteq Linked
    /\ call[t].pc = "prune" => call[t].des \in Linked /\ call[t].copy \subseteq Linked
    /\ InFlight(t) => /\ call[t].loc \in Locs \ Empties
                      /\ \A u \in VThreads : InFlight(u) /\ call[u].loc = call[t].loc => u = t

\* A consolidation has the index to itself.
ConsoIsAlone ==
  conso.pc = "process" =>
    \A t \in VThreads : call[t].pc = IF t = conso.by THEN "consolidate" ELSE "idle"

\* What a consolidation has done so far: a linked node neither deleted, nor still to be
\* read, nor being repaired leads to no deleted node.
ConsoRepairs ==
  conso.pc = "process" =>
    /\ conso.old \cap Empties = {}
    /\ \A n \in Linked \ (conso.old \cup conso.todo) :
         (\A w \in conso.work : w.loc # n) => graph[n] \cap conso.old = {}
    /\ \A w \in conso.work : /\ w.loc \in Linked \ (conso.old \cup conso.todo)
                             /\ w.ngh \subseteq conso.old
                             /\ w.set \subseteq Linked \ conso.old

\* A location in use holds its tag's vector, once the insert wrote it; a scored
\* candidate carries the vector its location still has.
VectorsMatchTags ==
  /\ \A l \in Locs : Tagged(l) /\ (\A t \in VThreads : call[t].pc = "write" => call[t].loc # l)
       => vec[l] = locTag[l]
  /\ \A t \in VThreads :
       /\ call[t].pc = "write" => locTag[call[t].loc] \in {call[t].tag, Blank}
       /\ call[t].pc \in {"expand", "search"} =>
            \A c \in call[t].frontier \cup call[t].pool :
              c[1] \in Locs /\ Tagged(c[1]) => c[2] = locTag[c[1]]

FileGraph ==
  files.points # -1 =>
    /\ \A n \in 0..(files.points - 1) \cup {Frozen} :
         files.graph[n] \subseteq 0..(files.points - 1) \cup {Frozen}
    /\ \A l \in 0..(files.points - 1) : files.vec[l] = files.tag[l]

GraphInv ==
  EdgesAreLinked /\ CallsHoldLinked /\ ConsoIsAlone /\ ConsoRepairs /\ VectorsMatchTags /\ FileGraph
GraphInvariant == ~conc /\ ~damaged => GraphInv

-----------------------------------------------------------------------------
(***************************************************************************)
(* Steps that leave the slot tables alone.                                 *)
(***************************************************************************)
LEMMA SlotFrame ==
  ASSUME SlotInv, UNCHANGED <<conc, slots, files>>,
         vec' \in [Nodes -> Contents], graph' \in [Nodes -> SUBSET Nodes],
         call' \in [VThreads -> Calls], conso' \in Consos, conso'.old = conso.old,
         ConsoMatchesCalls', CallsHaveLocs'
  PROVE  SlotInv'
<1> USE DEF SlotInv, slots
<1>1. VTypeOK'
  BY DEF VTypeOK
<1>2. EmptyCount' /\ TagsInverse' /\ FileTags'
  BY DEF EmptyCount, TagsInverse, FileTags, Tagged
<1>3. Partition' /\ CompactedIsClean'
  BY DEF Partition, CompactedIsClean, TaggedLocs, Tagged, Empties
<1> QED
  BY <1>1, <1>2, <1>3

HasLocs(r) ==
  /\ r.pc \in {"write", "expand", "inter", "prune"} => r.loc \in Locs
  /\ r.pc = "prune" => r.des \in Nodes

\* A step of a call that is not the consolidation.
LEMMA CallFrame ==
  ASSUME SlotInv, NEW t \in VThreads, call[t].pc # "consolidate",
         NEW r \in Calls, HasLocs(r),
         call' = [call EXCEPT ![t] = r], UNCHANGED conso
  PROVE  call' \in [VThreads -> Calls] /\ ConsoMatchesCalls' /\ CallsHaveLocs'
<1>1. call' \in [VThreads -> Calls] /\ \A u \in VThreads : call'[u] = IF u = t THEN r ELSE call[u]
  BY DEF SlotInv, VTypeOK
<1>2. ConsoMatchesCalls'
  BY <1>1 DEF SlotInv, ConsoMatchesCalls
<1>3. CallsHaveLocs'
  BY <1>1 DEF SlotInv, CallsHaveLocs, HasLocs
<1> QED
  BY <1>1, <1>2, <1>3

\* The types the proofs take from SlotInv.
LEMMA CallsType ==
  ASSUME SlotInv
  PROVE  /\ call \in [VThreads -> Calls] /\ graph \in [Nodes -> SUBSET Nodes]
         /\ vec \in [Nodes -> Contents] /\ conso \in Consos
         /\ locTag \in [Locs -> Contents] /\ emptySlots \in Seq(Locs)
         /\ Frozen \in Nodes /\ Locs \subseteq Nodes
         /\ Idle \in Calls /\ HasLocs(Idle) /\ NoConso \in Consos
BY VamanaAssumption DEF SlotInv, VTypeOK, Nodes, Idle, NoConso, Calls, Consos, Contents, HasLocs

\* The candidates of a traversal are nodes.
LEMMA SeenType ==
  ASSUME SlotInv, NEW t \in VThreads
  PROVE  Seen(t) \subseteq Nodes
BY CallsType DEF Calls, ScoredNodes, Seen

\* insert_point writes the vector into the slot it reserved.
LEMMA InsertWriteSlots ==
  ASSUME SlotInv, NEW t \in VThreads, InsertWrite(t)
  PROVE  SlotInv'
<1> DEFINE r == [call[t] EXCEPT !.pc = "expand", !.tag = Blank, !.frontier = {<<Frozen, vec[Frozen]>>}]
<1>1. /\ call' = [call EXCEPT ![t] = r] /\ UNCHANGED <<conc, slots, graph, conso, files>>
      /\ call[t].pc = "write" /\ call[t].loc \in Locs
      /\ vec' = [vec EXCEPT ![call[t].loc] = call[t].tag]
  BY CallsType DEF InsertWrite, SlotInv, CallsHaveLocs
<1>2. call[t] \in Calls /\ {<<Frozen, vec[Frozen]>>} \in SUBSET ScoredNodes /\ Blank \in Contents
  BY CallsType DEF ScoredNodes, Contents
<1>3. r \in Calls /\ HasLocs(r)
  BY <1>1, <1>2 DEF Calls, HasLocs
<1>4. vec' \in [Nodes -> Contents]
  BY <1>1, <1>2, CallsType DEF Calls
<1> HIDE DEF r
<1> QED
  BY <1>1, <1>3, <1>4, CallFrame, SlotFrame, CallsType

\* A search starts at the frozen point.
LEMMA SearchStartSlots ==
  ASSUME SlotInv, NEW t \in VThreads, SearchStart(t)
  PROVE  SlotInv'
<1> DEFINE r == [Idle EXCEPT !.pc = "search", !.frontier = {<<Frozen, vec[Frozen]>>}]
<1>1. /\ call' = [call EXCEPT ![t] = r] /\ UNCHANGED <<conc, slots, vec, graph, conso, files>>
      /\ call[t].pc = "idle"
  BY CallsType DEF SearchStart
<1>2. Idle \in Calls /\ {<<Frozen, vec[Frozen]>>} \in SUBSET ScoredNodes
  BY CallsType DEF ScoredNodes
<1>3. r \in Calls /\ HasLocs(r)
  BY <1>2 DEF Calls, HasLocs
<1> HIDE DEF r
<1> QED
  BY <1>1, <1>3, CallFrame, SlotFrame, CallsType

\* An expansion scores neighbours only.
LEMMA ExpandSlots ==
  ASSUME SlotInv, NEW t \in VThreads, Expand(t)
  PROVE  SlotInv'
<1>1. PICK c \in call[t].frontier :
         call' = [call EXCEPT
           ![t].pool = @ \cup {c},
           ![t].frontier = (@ \ {c}) \cup {<<n, vec[n]>> : n \in graph[c[1]] \ Seen(t)}]
  BY DEF Expand
<1> DEFINE new == {<<n, vec[n]>> : n \in graph[c[1]] \ Seen(t)}
           r == [call[t] EXCEPT !.pool = call[t].pool \cup {c}, !.frontier = (call[t].frontier \ {c}) \cup new]
<1>2. /\ call' = [call EXCEPT ![t] = r] /\ UNCHANGED <<conc, slots, vec, graph, conso, files>>
      /\ call[t].pc \in {"expand", "search"}
  BY <1>1, CallsType DEF Expand
<1>3. call[t] \in Calls /\ c \in ScoredNodes /\ c[1] \in Nodes
  BY CallsType DEF Calls, ScoredNodes
<1>4. new \in SUBSET ScoredNodes
  BY <1>3, CallsType DEF ScoredNodes
<1> HIDE DEF new
<1>5. r \in Calls /\ HasLocs(r)
  BY <1>2, <1>3, <1>4 DEF Calls, HasLocs, SlotInv, CallsHaveLocs
<1> HIDE DEF r
<1> QED
  BY <1>2, <1>5, CallFrame, SlotFrame, CallsType

\* The pruned neighbours of the new point become its edges.
LEMMA InsertLinkSlots ==
  ASSUME SlotInv, NEW t \in VThreads, InsertLink(t)
  PROVE  SlotInv'
<1>1. PICK S \in Pruned(Seen(t), call[t].loc) :
         /\ graph' = [graph EXCEPT ![call[t].loc] = KeptLinks(S)]
         /\ call' = [call EXCEPT ![t].pc = "inter", ![t].links = S, ![t].pool = {}]
  BY DEF InsertLink
<1> DEFINE r == [call[t] EXCEPT !.pc = "inter", !.links = S, !.pool = {}]
<1>2. /\ call' = [call EXCEPT ![t] = r] /\ UNCHANGED <<conc, slots, vec, conso, files>>
      /\ call[t].pc = "expand" /\ call[t].loc \in Locs
  BY <1>1, CallsType DEF InsertLink, SlotInv, CallsHaveLocs
<1>3. call[t] \in Calls /\ S \subseteq Nodes /\ KeptLinks(S) \subseteq Nodes
  <2>1. S \subseteq Seen(t)
    BY DEF Pruned
  <2>2. KeptLinks(S) \subseteq S
    BY DEF KeptLinks
  <2> QED
    BY <2>1, <2>2, CallsType, SeenType
<1>4. r \in Calls /\ HasLocs(r)
  BY <1>2, <1>3 DEF Calls, HasLocs
<1>5. graph' \in [Nodes -> SUBSET Nodes]
  BY <1>1, <1>3, CallsType
<1> HIDE DEF r
<1> QED
  BY <1>2, <1>4, <1>5, CallFrame, SlotFrame, CallsType

\* inter_insert adds back edges only.
LEMMA InterInsertSlots ==
  ASSUME SlotInv, NEW t \in VThreads, InterInsert(t)
  PROVE  SlotInv'
<1> DEFINE n == call[t].loc
           full(des) == n \notin graph[des] /\ Cardinality(graph[des]) >= Slack
<1>1. PICK des \in call[t].links :
         /\ graph' = IF full(des) THEN graph ELSE [graph EXCEPT ![des] = @ \cup {n}]
         /\ call' = [call EXCEPT ![t].links = @ \ {des},
                                 ![t].pc = IF full(des) THEN "prune" ELSE @,
                                 ![t].des = IF full(des) THEN des ELSE NoLoc,
                                 ![t].copy = IF full(des) THEN graph[des] \cup {n} ELSE {}]
  BY DEF InterInsert
<1> DEFINE r == [call[t] EXCEPT !.links = call[t].links \ {des},
                                !.pc = IF full(des) THEN "prune" ELSE call[t].pc,
                                !.des = IF full(des) THEN des ELSE NoLoc,
                                !.copy = IF full(des) THEN graph[des] \cup {n} ELSE {}]
<1>2. /\ call' = [call EXCEPT ![t] = r] /\ UNCHANGED <<conc, slots, vec, conso, files>>
      /\ call[t].pc = "inter" /\ n \in Locs
  BY <1>1, CallsType DEF InterInsert, SlotInv, CallsHaveLocs
<1>3. call[t] \in Calls /\ des \in Nodes /\ n \in Nodes /\ graph[des] \subseteq Nodes
  BY <1>2, CallsType DEF Calls
<1> HIDE DEF full
<1>4. r \in Calls /\ HasLocs(r)
  BY <1>2, <1>3 DEF Calls, HasLocs
<1>5. graph' \in [Nodes -> SUBSET Nodes]
  BY <1>1, <1>3, CallsType
<1> HIDE DEF r
<1> QED
  BY <1>2, <1>4, <1>5, CallFrame, SlotFrame, CallsType

\* A full back list is pruned outside the lock, slots untouched.
LEMMA InterPruneSlots ==
  ASSUME SlotInv, NEW t \in VThreads, InterPrune(t)
  PROVE  SlotInv'
<1> DEFINE r == [call[t] EXCEPT !.pc = "inter", !.des = NoLoc, !.copy = {}]
<1>1. /\ call' = [call EXCEPT ![t] = r] /\ UNCHANGED <<conc, slots, vec, conso, files>>
      /\ call[t].pc = "prune" /\ call[t].loc \in Locs /\ call[t].des \in Nodes
  BY CallsType DEF InterPrune, SlotInv, CallsHaveLocs
<1>2. call[t] \in Calls
  BY CallsType
<1>3. r \in Calls /\ HasLocs(r)
  BY <1>1, <1>2 DEF Calls, HasLocs
<1>4. graph' \in [Nodes -> SUBSET Nodes]
  BY <1>1, <1>2, CallsType DEF InterPrune, Pruned, Calls
<1> HIDE DEF r
<1> QED
  BY <1>1, <1>3, <1>4, CallFrame, SlotFrame, CallsType

\* Returning from a call leaves the slots alone.
LEMMA ReturnSlots ==
  ASSUME SlotInv, NEW t \in VThreads, InsertReturn(t) \/ SearchReturn(t)
  PROVE  SlotInv'
<1>1. /\ call' = [call EXCEPT ![t] = Idle] /\ UNCHANGED <<conc, slots, vec, graph, conso, files>>
      /\ call[t].pc \in {"inter", "search"}
  BY DEF InsertReturn, SearchReturn
<1> QED
  BY <1>1, CallFrame, SlotFrame, CallsType

\* process_delete rewrites edges only.
LEMMA ProcessSlots ==
  ASSUME SlotInv,
         \/ \E n \in Nodes : ProcessRead(n)
         \/ \E w \in conso.work : ProcessWrite(w) \/ \E d \in w.ngh : ProcessExpand(w, d)
  PROVE  SlotInv'
<1> SUFFICES /\ UNCHANGED <<conc, slots, vec, call, files>>
             /\ conso' \in Consos /\ conso'.old = conso.old /\ conso'.pc = conso.pc
             /\ conso'.by = conso.by /\ conso.pc = "process"
             /\ graph' \in [Nodes -> SUBSET Nodes]
  BY SlotFrame, CallsType DEF SlotInv, ConsoMatchesCalls, CallsHaveLocs
<1>0. conso.pc = "process" \/ conso.work = {}
  BY DEF SlotInv, ConsoMatchesCalls, NoConso, Consos, VTypeOK
<1>1. ASSUME NEW n \in Nodes, ProcessRead(n)
      PROVE  /\ UNCHANGED <<conc, slots, vec, graph, call, files>>
             /\ conso' \in Consos /\ conso'.old = conso.old /\ conso'.pc = conso.pc
             /\ conso'.by = conso.by /\ conso.pc = "process"
  <2> DEFINE w == [loc |-> n, ngh |-> graph[n] \cap conso.old, set |-> graph[n] \ conso.old]
             work == IF n \in conso.old \cup Empties \/ graph[n] \cap conso.old = {}
                     THEN conso.work ELSE conso.work \cup {w}
  <2>1. /\ conso' = [conso EXCEPT !.todo = conso.todo \ {n}, !.work = work]
        /\ UNCHANGED <<conc, slots, vec, graph, call, files>> /\ conso.pc = "process"
    BY <1>1 DEF ProcessRead
  <2>2. w \in Work /\ conso \in Consos
    BY CallsType DEF Work
  <2>3. work \in SUBSET Work
    BY <2>2 DEF Consos
  <2> HIDE DEF work, w
  <2> QED
    BY <2>1, <2>2, <2>3 DEF Consos
<1>2. ASSUME NEW w \in conso.work, NEW d \in w.ngh, ProcessExpand(w, d)
      PROVE  /\ UNCHANGED <<conc, slots, vec, graph, call, files>>
             /\ conso' \in Consos /\ conso'.old = conso.old /\ conso'.pc = conso.pc
             /\ conso'.by = conso.by /\ conso.pc = "process"
  <2> DEFINE v == [w EXCEPT !.ngh = w.ngh \ {d},
                            !.set = w.set \cup (graph[d] \ (conso.old \cup {w.loc}))]
             work == (conso.work \ {w}) \cup {v}
  <2>1. conso' = [conso EXCEPT !.work = work]
    BY <1>2 DEF ProcessExpand
  <2>2. conso \in Consos /\ w \in Work /\ d \in Nodes /\ graph[d] \subseteq Nodes
    BY CallsType DEF Consos, Work
  <2>3. v \in Work
    BY <2>2 DEF Work
  <2> HIDE DEF v
  <2>4. work \in SUBSET Work
    BY <2>2, <2>3 DEF Consos
  <2> HIDE DEF work
  <2> QED
    BY <1>0, <1>2, <2>1, <2>2, <2>4 DEF Consos, ProcessExpand
<1>3. ASSUME NEW w \in conso.work, ProcessWrite(w)
      PROVE  /\ UNCHANGED <<conc, slots, vec, call, files>>
             /\ conso' \in Consos /\ conso'.old = conso.old /\ conso'.pc = conso.pc
             /\ conso'.by = conso.by /\ conso.pc = "process"
             /\ graph' \in [Nodes -> SUBSET Nodes]
  <2>1. conso' = [conso EXCEPT !.work = conso.work \ {w}] /\ UNCHANGED <<conc, slots, vec, call, files>>
    BY <1>3 DEF ProcessWrite
  <2>2. conso \in Consos /\ w \in Work
    BY CallsType DEF Consos
  <2>3. PICK S : S \subseteq w.set /\ graph' = [graph EXCEPT ![w.loc] = S]
    BY <1>3 DEF ProcessWrite, Pruned
  <2>4. graph' \in [Nodes -> SUBSET Nodes]
    BY <2>2, <2>3, CallsType DEF Work
  <2> QED
    BY <1>0, <2>1, <2>2, <2>4 DEF Consos
<1> QED
  BY <1>1, <1>2, <1>3, CallsType

-----------------------------------------------------------------------------
(***************************************************************************)
(* How many locations are in each use.                                     *)
(***************************************************************************)
LEMMA LocsFinite == IsFiniteSet(Locs) /\ Cardinality(Locs) = MaxPoints
BY FS_Interval, VamanaAssumption DEF Locs

\* The free slots are the members of the stack.
LEMMA EmptiesRange == Empties = Range(emptySlots)
BY DEF Empties, ToSet, Range

\* Live, deleted and being-consolidated slots are counted by nd.
LEMMA SlotCounts ==
  ASSUME SlotInv
  PROVE  /\ IsFiniteSet(TaggedLocs) /\ IsFiniteSet(deleteSet) /\ IsFiniteSet(conso.old)
         /\ Cardinality(TaggedLocs) \in Nat /\ Cardinality(deleteSet) \in Nat
         /\ Cardinality(conso.old) \in Nat
         /\ Cardinality(TaggedLocs) + Cardinality(deleteSet) + Cardinality(conso.old) = nd
<1> DEFINE T == TaggedLocs
           D == deleteSet
           O == conso.old
           E == Empties
<1>1. /\ T \subseteq Locs /\ D \subseteq Locs /\ O \subseteq Locs
      /\ T \cap (D \cup O) = {} /\ D \cap O = {} /\ T \cup (D \cup O) = Locs \ E
  BY CallsType DEF SlotInv, VTypeOK, Partition, TaggedLocs, Consos
<1>2. /\ IsFiniteSet(E) /\ Cardinality(E) = Len(emptySlots) /\ E \subseteq Locs
      /\ Len(emptySlots) + nd = MaxPoints /\ nd \in Nat /\ Len(emptySlots) \in Nat
  BY StackCardinality, EmptiesRange, RangeOfSeq DEF SlotInv, VTypeOK, EmptyCount
<1> HIDE DEF T, D, O, E
<1>3. IsFiniteSet(T) /\ IsFiniteSet(D) /\ IsFiniteSet(O)
  BY <1>1, LocsFinite, FS_Subset
<1>4. Cardinality(T) \in Nat /\ Cardinality(D) \in Nat /\ Cardinality(O) \in Nat
  BY <1>3, FS_CardinalityType
<1>5. Cardinality(Locs \ E) = nd
  <2>1. Cardinality(Locs \ E) = MaxPoints - Len(emptySlots)
    BY <1>2, LocsFinite, DifferenceCardinality
  <2> QED
    BY <1>2, <2>1, VamanaAssumption
<1>6. IsFiniteSet(D \cup O) /\ Cardinality(D \cup O) = Cardinality(D) + Cardinality(O)
  BY <1>1, <1>3, DisjointCardinality
<1>7. Cardinality(T \cup (D \cup O)) = Cardinality(T) + Cardinality(D \cup O)
  BY <1>1, <1>3, <1>6, DisjointCardinality
<1>8. Cardinality(T) + Cardinality(D) + Cardinality(O) = nd
  <2>1. Cardinality(T \cup (D \cup O)) = nd
    BY <1>1, <1>5
  <2> QED
    BY <1>4, <1>6, <1>7, <2>1
<1> QED
  BY <1>3, <1>4, <1>8 DEF T, D, O

\* A live tag stands at one location.
LEMMA LiveCount ==
  ASSUME SlotInv
  PROVE  IsFiniteSet(Live) /\ Cardinality(Live) = Cardinality(TaggedLocs) /\ Live \subseteq VTags
<1> DEFINE f == [l \in TaggedLocs |-> locTag[l]]
<1>1. \A l \in TaggedLocs : l \in Locs /\ locTag[l] \in VTags /\ tagLoc[locTag[l]] = l
  BY DEF SlotInv, TagsInverse, TaggedLocs
<1>2. \A tag \in Live : tagLoc[tag] \in Locs /\ locTag[tagLoc[tag]] = tag /\ tag # Blank
  BY VamanaAssumption DEF SlotInv, VTypeOK, TagsInverse, Live
<1>3. \A tag \in Live : tagLoc[tag] \in TaggedLocs
  BY <1>2 DEF TaggedLocs, Tagged
<1>4. \A l \in TaggedLocs : locTag[l] \in Live
  BY <1>1, VamanaAssumption DEF Live, NoLoc, Locs
<1>5. Live \subseteq VTags
  BY <1>1, <1>2, <1>3
<1>6. f \in Bijection(TaggedLocs, Live)
  <2>1. f \in [TaggedLocs -> Live]
    BY <1>4
  <2>2. IsInjective(f)
    BY <1>1 DEF IsInjective
  <2>3. \A tag \in Live : \E l \in TaggedLocs : f[l] = tag
    BY <1>2, <1>3
  <2> QED
    BY <2>1, <2>2, <2>3 DEF Bijection, Injection, Surjection
<1>7. ExistsBijection(TaggedLocs, Live)
  BY <1>6 DEF ExistsBijection
<1> QED
  BY <1>5, <1>7, SlotCounts, FS_Bijection

\* The last empty slot, which an insert reserves while the index has room.
LEMMA ReserveLemma ==
  ASSUME SlotInv, Reservable
  PROVE  /\ emptySlots # <<>> /\ Reserved = Last(emptySlots) /\ EmptyAfterReserve = Front(emptySlots)
         /\ Reserved \in Locs /\ Reserved \in Empties /\ Reserved \notin deleteSet
         /\ ~Tagged(Reserved) /\ Reserved \notin conso.old
         /\ EmptyAfterReserve \in Seq(Locs) /\ Len(EmptyAfterReserve) = Len(emptySlots) - 1
         /\ IsInjective(EmptyAfterReserve)
         /\ ToSet(EmptyAfterReserve) = Empties \ {Reserved}
         /\ DeletesAfterReserve = deleteSet
<1>1. emptySlots \in Seq(Locs) /\ IsInjective(emptySlots) /\ Len(emptySlots) + nd = MaxPoints
  BY DEF SlotInv, VTypeOK, EmptyCount
<1>2. emptySlots # <<>>
  BY <1>1, VamanaAssumption DEF Reservable, SlotInv, VTypeOK
<1>3. Reserved = Last(emptySlots) /\ EmptyAfterReserve = Front(emptySlots)
  BY <1>2 DEF Reserved, EmptyAfterReserve
<1>4. /\ Reserved \in Locs /\ Reserved \in Empties
      /\ EmptyAfterReserve \in Seq(Locs) /\ Len(EmptyAfterReserve) = Len(emptySlots) - 1
      /\ IsInjective(EmptyAfterReserve)
      /\ Range(EmptyAfterReserve) = Empties \ {Reserved}
  BY <1>1, <1>2, <1>3, PopLemma, EmptiesRange
<1>5. ToSet(EmptyAfterReserve) = Range(EmptyAfterReserve)
  BY DEF ToSet, Range
<1>6. Reserved \notin deleteSet /\ ~Tagged(Reserved) /\ Reserved \notin conso.old
  BY <1>4 DEF SlotInv, Partition, TaggedLocs
<1> QED
  BY <1>2, <1>3, <1>4, <1>5, <1>6 DEF DeletesAfterReserve

\* reserve_location gives a free slot to a new tag.
LEMMA InsertReserveSlots ==
  ASSUME SlotInv, NEW t \in VThreads, NEW tag \in VTags, InsertReserve(t, tag)
  PROVE  SlotInv'
<1> DEFINE x == Reserved
           r == [Idle EXCEPT !.pc = "write", !.loc = x, !.tag = tag]
<1>1. /\ nd' = nd + 1 /\ emptySlots' = EmptyAfterReserve /\ deleteSet' = DeletesAfterReserve
      /\ tagLoc' = [tagLoc EXCEPT ![tag] = x] /\ locTag' = [locTag EXCEPT ![x] = tag]
      /\ call' = [call EXCEPT ![t] = r]
      /\ UNCHANGED <<conc, compacted, vec, graph, conso, files>>
      /\ call[t].pc = "idle" /\ tagLoc[tag] = NoLoc
  BY DEF InsertReserve
<1>2. Reservable
  BY DEF InsertReserve
<1>3. /\ x \in Locs /\ x \in Empties /\ ~Tagged(x) /\ x \notin conso.old
      /\ emptySlots' \in Seq(Locs) /\ Len(emptySlots') = Len(emptySlots) - 1
      /\ IsInjective(emptySlots') /\ Empties' = Empties \ {x} /\ deleteSet' = deleteSet
      /\ x \notin deleteSet
  BY <1>1, <1>2, ReserveLemma DEF Empties
<1> HIDE DEF x
<1>4. /\ tagLoc \in [VTags \cup {Zero} -> Locs \cup {NoLoc}] /\ locTag \in [Locs -> Contents]
      /\ tag \in Contents /\ tag # Blank
  BY VamanaAssumption DEF SlotInv, VTypeOK, Contents
<1>5. r \in Calls /\ HasLocs(r)
  BY <1>3, <1>4, CallsType DEF Calls, HasLocs
<1> HIDE DEF r
<1>6. call' \in [VThreads -> Calls] /\ ConsoMatchesCalls' /\ CallsHaveLocs'
  BY <1>1, <1>5, CallFrame
<1>7. VTypeOK'
  <2>1. nd' \in 0..MaxPoints
    BY <1>1, <1>2, VamanaAssumption DEF SlotInv, VTypeOK, Reservable
  <2> QED
    BY <1>1, <1>3, <1>4, <1>6, <2>1 DEF SlotInv, VTypeOK
<1>8. EmptyCount'
  BY <1>1, <1>3 DEF SlotInv, VTypeOK, EmptyCount
<1>9. \A l \in Locs : locTag'[l] = IF l = x THEN tag ELSE locTag[l]
  BY <1>1, <1>4
<1>10. TagsInverse'
  <2>1. \A l \in Locs : Tagged(l)' => locTag'[l] \in VTags /\ tagLoc'[locTag'[l]] = l
    BY <1>1, <1>3, <1>4, <1>9 DEF Tagged, SlotInv, TagsInverse, NoLoc, Locs
  <2>2. \A g \in VTags \cup {Zero} : tagLoc'[g] # NoLoc => locTag'[tagLoc'[g]] = g
    BY <1>1, <1>3, <1>4, VamanaAssumption DEF Tagged, SlotInv, TagsInverse
  <2> QED
    BY <2>1, <2>2 DEF TagsInverse
<1>11. TaggedLocs' = TaggedLocs \cup {x}
  BY <1>3, <1>4, <1>9 DEF TaggedLocs, Tagged
<1>12. Partition' /\ CompactedIsClean'
  BY <1>1, <1>3, <1>11 DEF SlotInv, Partition, CompactedIsClean
<1> QED
  BY <1>1, <1>6, <1>7, <1>8, <1>10, <1>12 DEF SlotInv, FileTags

\* A refused duplicate tag gives its slot back.
LEMMA InsertDuplicateSlots ==
  ASSUME SlotInv, NEW t \in VThreads, NEW tag \in VTags, InsertDuplicate(t, tag)
  PROVE  SlotInv' /\ UNCHANGED <<conc, slots, vec, graph, call, conso, files>>
<1>1. /\ emptySlots' = Append(EmptyAfterReserve, Reserved) /\ deleteSet' = DeletesAfterReserve
      /\ UNCHANGED <<conc, nd, tagLoc, locTag, compacted, vec, graph, call, conso, files>>
      /\ Reservable
  BY DEF InsertDuplicate
<1>2. emptySlots' = emptySlots /\ deleteSet' = deleteSet
  <2>1. Append(Front(emptySlots), Last(emptySlots)) = emptySlots
    BY <1>1, ReserveLemma, CallsType DEF Front, Last
  <2> QED
    BY <1>1, <2>1, ReserveLemma
<1>3. UNCHANGED <<conc, slots, vec, graph, call, conso, files>>
  BY <1>1, <1>2 DEF slots
<1>4. ConsoMatchesCalls' /\ CallsHaveLocs'
  BY <1>3 DEF SlotInv, ConsoMatchesCalls, CallsHaveLocs
<1> QED
  BY <1>3, <1>4, SlotFrame, CallsType

\* A delete clears both tag entries of every live tag it names and keeps their
\* locations in the delete set.
LEMMA LazyDeleteSlots ==
  ASSUME SlotInv, NEW S \in SUBSET VTags, LazyDelete(S)
  PROVE  /\ SlotInv' /\ UNCHANGED <<conc, vec, graph, call, conso, files, emptySlots>>
         /\ locTag' = [l \in Locs |-> IF locTag[l] \in S \cap Live THEN Blank ELSE locTag[l]]
         /\ Live' = Live \ (S \cap Live)
         /\ Cardinality(deleteSet') = Cardinality(deleteSet) + Cardinality(S \cap Live)
<1> DEFINE gone == S \cap Live
           moved == {l \in TaggedLocs : locTag[l] \in gone}
<1>1. /\ deleteSet' = deleteSet \cup {tagLoc[tag] : tag \in gone}
      /\ locTag' = [l \in Locs |-> IF locTag[l] \in gone THEN Blank ELSE locTag[l]]
      /\ tagLoc' = [tag \in DOMAIN tagLoc |-> IF tag \in gone THEN NoLoc ELSE tagLoc[tag]]
      /\ compacted' = FALSE
      /\ UNCHANGED <<conc, nd, emptySlots, vec, graph, call, conso, files>>
  BY DEF LazyDelete
<1>2. \A tag \in gone : /\ tag \in VTags /\ tag # Blank /\ tagLoc[tag] \in Locs
                        /\ locTag[tagLoc[tag]] = tag
  BY VamanaAssumption DEF SlotInv, VTypeOK, TagsInverse, Live
<1>3. \A l \in TaggedLocs : l \in Locs /\ locTag[l] \in VTags /\ tagLoc[locTag[l]] = l
  BY DEF SlotInv, TagsInverse, TaggedLocs
<1> HIDE DEF gone
<1>4. {tagLoc[tag] : tag \in gone} = moved
  BY <1>2, <1>3 DEF TaggedLocs, Tagged
<1>5. TaggedLocs' = TaggedLocs \ moved
  BY <1>1, <1>2 DEF TaggedLocs, Tagged
<1>6. deleteSet' = deleteSet \cup moved /\ moved \subseteq TaggedLocs /\ TaggedLocs \subseteq Locs
  BY <1>1, <1>4 DEF TaggedLocs
<1>7. VTypeOK'
  <2>1. locTag' \in [Locs -> Contents]
    BY <1>1, CallsType DEF Contents
  <2>2. tagLoc' \in [VTags \cup {Zero} -> Locs \cup {NoLoc}]
    BY <1>1 DEF SlotInv, VTypeOK
  <2> QED
    BY <1>1, <1>6, <2>1, <2>2 DEF SlotInv, VTypeOK
<1>8. TagsInverse'
  <2>1. \A l \in Locs : Tagged(l)' => locTag'[l] \in VTags /\ tagLoc'[locTag'[l]] = l
    BY <1>1, <1>3 DEF Tagged, TaggedLocs, SlotInv, VTypeOK
  <2>2. \A g \in VTags \cup {Zero} : tagLoc'[g] # NoLoc => locTag'[tagLoc'[g]] = g
    BY <1>1 DEF SlotInv, VTypeOK, TagsInverse
  <2> QED
    BY <2>1, <2>2 DEF TagsInverse
<1>9. Partition'
  BY <1>1, <1>5, <1>6 DEF SlotInv, Partition, Empties
<1>10. SlotInv'
  BY <1>1, <1>7, <1>8, <1>9
     DEF SlotInv, EmptyCount, CompactedIsClean, ConsoMatchesCalls, CallsHaveLocs, FileTags
<1>11. Live' = Live \ gone
  BY <1>1 DEF Live, SlotInv, VTypeOK
<1>12. Cardinality(deleteSet') = Cardinality(deleteSet) + Cardinality(gone)
  <2> DEFINE f == [tag \in gone |-> tagLoc[tag]]
  <2>1. f \in Bijection(gone, moved)
    <3>1. f \in [gone -> moved]
      BY <1>4
    <3>2. IsInjective(f)
      BY <1>2 DEF IsInjective
    <3>3. \A l \in moved : \E tag \in gone : f[tag] = l
      BY <1>4
    <3> QED
      BY <3>1, <3>2, <3>3 DEF Bijection, Injection, Surjection
  <2>2. ExistsBijection(gone, moved)
    BY <2>1 DEF ExistsBijection
  <2>3. IsFiniteSet(gone)
    BY LiveCount, FS_Subset DEF gone
  <2>4. IsFiniteSet(moved) /\ Cardinality(moved) = Cardinality(gone)
    BY <2>2, <2>3, FS_Bijection
  <2>5. deleteSet \cap moved = {}
    BY DEF SlotInv, Partition
  <2>6. Cardinality(deleteSet \cup moved) = Cardinality(deleteSet) + Cardinality(moved)
    BY <2>4, <2>5, SlotCounts, DisjointCardinality
  <2> QED
    BY <1>6, <2>4, <2>6
<1> QED
  BY <1>1, <1>10, <1>11, <1>12 DEF gone

\* consolidate_deletes takes the delete set over.
LEMMA ConsolidateStartSlots ==
  ASSUME SlotInv, NEW t \in VThreads, ConsolidateStart(t)
  PROVE  /\ SlotInv' /\ conso'.old = deleteSet /\ deleteSet' = {} /\ conso.old = {}
         /\ UNCHANGED <<conc, locTag, tagLoc, emptySlots, vec, graph, files>>
<1> DEFINE c == [NoConso EXCEPT !.pc = "process", !.by = t, !.old = deleteSet, !.todo = Nodes]
           r == [call[t] EXCEPT !.pc = "consolidate"]
<1>1. /\ conso' = c /\ call' = [call EXCEPT ![t] = r] /\ deleteSet' = {}
      /\ UNCHANGED <<conc, nd, emptySlots, tagLoc, locTag, compacted, vec, graph, files>>
      /\ call[t].pc = "idle" /\ conso.pc = "idle"
  BY CallsType DEF ConsolidateStart
<1>2. c \in Consos /\ c.old = deleteSet /\ c.pc = "process" /\ c.by = t
  BY CallsType DEF SlotInv, VTypeOK, Consos, NoConso
<1>3. r \in Calls /\ r.pc = "consolidate"
  BY CallsType DEF Calls
<1>4. conso.old = {}
  BY <1>1 DEF SlotInv, ConsoMatchesCalls, NoConso
<1> HIDE DEF c, r
<1>5. VTypeOK'
  BY <1>1, <1>2, <1>3 DEF SlotInv, VTypeOK
<1>6. ConsoMatchesCalls' /\ CallsHaveLocs'
  BY <1>1, <1>2, <1>3, CallsType DEF SlotInv, ConsoMatchesCalls, CallsHaveLocs
<1>7. Partition' /\ CompactedIsClean'
  BY <1>1, <1>2, <1>4 DEF SlotInv, Partition, CompactedIsClean, TaggedLocs, Tagged, Empties
<1> QED
  BY <1>1, <1>2, <1>4, <1>5, <1>6, <1>7 DEF SlotInv, EmptyCount, TagsInverse, Tagged, FileTags

\* release_locations gives the consolidated slots back.
LEMMA ConsolidateEndSlots ==
  ASSUME SlotInv, ConsolidateEnd
  PROVE  /\ SlotInv' /\ conso'.old = {} /\ Empties' = Empties \cup conso.old
         /\ UNCHANGED <<conc, deleteSet, tagLoc, locTag, vec, graph, files>>
<1>1. PICK order \in SetToSeqs(conso.old) : emptySlots' = emptySlots \o order
  BY DEF ConsolidateEnd, Released
<1>2. /\ nd' = nd - Cardinality(conso.old)
      /\ call' = [call EXCEPT ![conso.by] = Idle] /\ conso' = NoConso
      /\ UNCHANGED <<conc, deleteSet, tagLoc, locTag, compacted, vec, graph, files>>
      /\ conso.pc = "process"
  BY DEF ConsolidateEnd, NdAfterRelease
<1>3. order \in Seq(conso.old) /\ Len(order) = Cardinality(conso.old) /\ IsInjective(order)
      /\ Range(order) = conso.old
  BY SlotCounts, SetToSeqsLemma
<1>4. conso.old \subseteq Locs /\ Empties \cap conso.old = {}
  BY CallsType DEF Consos, SlotInv, Partition
<1>5. order \in Seq(Locs)
  BY <1>3, <1>4, SeqMonotonic
<1>6. /\ emptySlots' \in Seq(Locs) /\ Len(emptySlots') = Len(emptySlots) + Cardinality(conso.old)
      /\ IsInjective(emptySlots') /\ Range(emptySlots') = Range(emptySlots) \cup conso.old
  <2>1. emptySlots \in Seq(Locs) /\ IsInjective(emptySlots)
    BY DEF SlotInv, VTypeOK, EmptyCount
  <2>2. Range(emptySlots) \cap Range(order) = {}
    BY <1>3, <1>4, EmptiesRange
  <2>3. /\ emptySlots \o order \in Seq(Locs) /\ Len(emptySlots \o order) = Len(emptySlots) + Len(order)
        /\ IsInjective(emptySlots \o order)
        /\ Range(emptySlots \o order) = Range(emptySlots) \cup Range(order)
    BY <1>3, <1>5, <2>1, <2>2, JoinLemma
  <2> QED
    BY <1>1, <1>3, <2>3
<1>7. Empties' = Empties \cup conso.old
  BY <1>6, EmptiesRange DEF Empties, ToSet, Range
<1>8. NoConso \in Consos /\ NoConso.old = {} /\ NoConso.pc = "idle"
  BY CallsType DEF NoConso
<1>9. /\ call' \in [VThreads -> Calls]
      /\ \A u \in VThreads : call'[u] = call[u] \/ (call'[u] = Idle /\ u = conso.by)
  BY <1>2, CallsType
<1>10. nd' \in 0..MaxPoints
  <2>1. Cardinality(conso.old) <= nd /\ Cardinality(conso.old) \in Nat
    BY SlotCounts
  <2> QED
    BY <1>2, <2>1, VamanaAssumption DEF SlotInv, VTypeOK
<1>11. VTypeOK'
  BY <1>2, <1>6, <1>8, <1>9, <1>10 DEF SlotInv, VTypeOK
<1>12. EmptyCount'
  <2>1. Cardinality(conso.old) \in Nat /\ nd \in Nat /\ Len(emptySlots) \in Nat
    BY SlotCounts DEF SlotInv, VTypeOK
  <2> QED
    BY <1>2, <1>6, <2>1 DEF SlotInv, EmptyCount
<1>13. ConsoMatchesCalls' /\ CallsHaveLocs'
  <2>1. HasLocs(Idle)
    BY CallsType
  <2> QED
    BY <1>2, <1>8, <1>9, <2>1 DEF SlotInv, ConsoMatchesCalls, CallsHaveLocs, HasLocs
<1>14. Partition' /\ CompactedIsClean'
  BY <1>2, <1>4, <1>7, <1>8 DEF SlotInv, Partition, CompactedIsClean, TaggedLocs, Tagged
<1> QED
  BY <1>2, <1>7, <1>8, <1>11, <1>12, <1>13, <1>14 DEF SlotInv, TagsInverse, Tagged, FileTags

-----------------------------------------------------------------------------
(***************************************************************************)
(* Save and load.                                                          *)
(***************************************************************************)
\* The empty slots in ascending order, as set up at the start, by a compaction and a load.
LEMMA AscendingLemma ==
  ASSUME NEW k \in 0..MaxPoints, NEW s, s = [i \in 1..(MaxPoints - k) |-> k + i - 1]
  PROVE  /\ s \in Seq(Locs) /\ Len(s) = MaxPoints - k /\ IsInjective(s)
         /\ ToSet(s) = Locs \ (0..(k - 1))
<1> DEFINE n == MaxPoints - k
<1>1. n \in Nat /\ k \in Nat /\ MaxPoints \in Nat /\ MaxPoints = k + n
  BY VamanaAssumption
<1> HIDE DEF n
<1>2. s = [i \in 1..n |-> k + i - 1]
  BY DEF n
<1>3. \A i \in 1..n : s[i] \in Locs /\ s[i] \notin 0..(k - 1)
  BY <1>1, <1>2 DEF Locs
<1>4. s \in [1..n -> Locs]
  BY <1>2, <1>3
<1>41. s \in Seq(Locs) /\ Len(s) = n /\ DOMAIN s = 1..n
  BY <1>1, <1>4, FunctionIsSeq
<1>5. IsInjective(s)
  BY <1>1, <1>2, <1>41 DEF IsInjective
<1>6. \A l \in Locs \ (0..(k - 1)) : l - k + 1 \in 1..n /\ s[l - k + 1] = l
  BY <1>1, <1>2 DEF Locs
<1>7. ToSet(s) = Locs \ (0..(k - 1))
  <2>1. \A l \in ToSet(s) : l \in Locs \ (0..(k - 1))
    BY <1>3, <1>41 DEF ToSet
  <2>2. \A l \in Locs \ (0..(k - 1)) : l \in ToSet(s)
    BY <1>6, <1>41 DEF ToSet
  <2> QED
    BY <2>1, <2>2
<1> QED
  BY <1>41, <1>5, <1>7 DEF n

\* A save finds every location tagged or empty.
LEMMA SaveFindsClean ==
  ASSUME SlotInv, Save
  PROVE  /\ deleteSet = {} /\ conso.old = {} /\ TaggedLocs = Locs \ Empties
         /\ Cardinality(TaggedLocs) = nd /\ nd \in Nat /\ nd <= MaxPoints /\ Locs \ TaggedLocs = Empties
<1>1. conso.old = {}
  BY DEF Save, Quiet, SlotInv, ConsoMatchesCalls, NoConso
<1>2. deleteSet = {}
  BY DEF Save, SlotInv, CompactedIsClean
<1>3. Cardinality(TaggedLocs) = nd
  BY <1>1, <1>2, SlotCounts, FS_EmptySet
<1>4. Empties \subseteq Locs
  BY CallsType, EmptiesRange, RangeOfSeq
<1> QED
  BY <1>1, <1>2, <1>3, <1>4, VamanaAssumption DEF SlotInv, VTypeOK, Partition

\* Where compaction takes a location from: a numbering of the tagged locations.
Packed == 0..(nd - 1)
IsMove(move) ==
  /\ move \in [Packed -> TaggedLocs]
  /\ \A i, j \in Packed : move[i] = move[j] => i = j
  /\ \A l \in TaggedLocs : \E i \in Packed : move[i] = l

\* compact_data moves the tagged slots to the front, one to one.
LEMMA OldLocLemma ==
  ASSUME SlotInv, Cardinality(TaggedLocs) = nd
  PROVE  /\ IsMove([l \in Packed |-> OldLoc(l)])
         /\ \A l \in TaggedLocs : NewLoc(l) \in Packed
         /\ \A l \in Packed : OldLoc(l) \in TaggedLocs
<1> DEFINE Rank(x) == Cardinality({m \in TaggedLocs : m < x})
<1>1. TaggedLocs \subseteq Locs /\ TaggedLocs \subseteq Int /\ nd \in Nat /\ nd <= MaxPoints
      /\ Frozen \notin TaggedLocs /\ Frozen \notin Packed
  BY VamanaAssumption DEF TaggedLocs, Locs, Frozen, SlotInv, VTypeOK, Packed
<1>2. /\ \A x \in TaggedLocs : Rank(x) \in Packed
      /\ \A x, y \in TaggedLocs : x < y => Rank(x) < Rank(y)
      /\ \A i \in Packed : \E x \in TaggedLocs : Rank(x) = i
  BY <1>1, SlotCounts, RankLemma DEF Packed
<1>3. \A x \in TaggedLocs : NewLoc(x) = Rank(x)
  BY <1>1 DEF NewLoc
<1>4. \A i \in Packed : OldLoc(i) = CHOOSE m \in TaggedLocs : NewLoc(m) = i
  BY <1>1 DEF OldLoc
<1> HIDE DEF Rank
<1>5. \A i \in Packed : OldLoc(i) \in TaggedLocs /\ NewLoc(OldLoc(i)) = i
  BY <1>2, <1>3, <1>4
<1>6. \A x, y \in TaggedLocs : Rank(x) = Rank(y) => x = y
  <2> SUFFICES ASSUME NEW x \in TaggedLocs, NEW y \in TaggedLocs, Rank(x) = Rank(y), x # y
               PROVE  FALSE
    OBVIOUS
  <2>1. x \in Int /\ y \in Int /\ Rank(x) \in Int /\ Rank(y) \in Int
    BY <1>1, <1>2 DEF Packed
  <2>2. x < y \/ y < x
    BY <2>1
  <2>3. Rank(x) < Rank(y) \/ Rank(y) < Rank(x)
    BY <1>2, <2>2
  <2> QED
    BY <2>1, <2>3
<1>7. \A x \in TaggedLocs : NewLoc(x) \in Packed /\ OldLoc(NewLoc(x)) = x
  BY <1>2, <1>3, <1>5, <1>6
<1> QED
  BY <1>5, <1>7 DEF IsMove

\* What moving the frozen point does to each part of the index.
LEMMA MovedFields ==
  ASSUME NEW T, NEW V, NEW G, NEW E, NEW c, NEW m,
         c = [tag |-> T, vec |-> V, graph |-> G, empty |-> E], m = Moved(c)
  PROVE  /\ m.tag = T /\ m.empty = E
         /\ m.vec = IF nd = MaxPoints THEN V ELSE [V EXCEPT ![nd] = Blank]
         /\ m.graph = IF nd = MaxPoints THEN G
                      ELSE [n \in Nodes |-> {IF k = nd THEN Frozen ELSE k : k \in G[n]}]
<1>1. CASE nd = MaxPoints
  BY <1>1 DEF Moved
<1>2. CASE nd # MaxPoints
  <2>1. m = [c EXCEPT !.vec = [V EXCEPT ![nd] = Blank],
               !.graph = [n \in Nodes |-> {IF k = nd THEN Frozen ELSE k : k \in G[n]}]]
    BY <1>2 DEF Moved
  <2> QED
    BY <1>2, <2>1
<1> QED
  BY <1>1, <1>2

\* What a save leaves in memory: the tagged locations moved to the front, in order.
LEMMA SaveMoves ==
  ASSUME SlotInv, Save, ~damaged'
  PROVE  /\ \E move : /\ IsMove(move)
                      /\ \A l \in Packed : locTag'[l] = locTag[move[l]] /\ vec'[l] = vec[move[l]]
         /\ \A l \in Locs \ Packed : locTag'[l] = Blank
         /\ locTag' \in [Locs -> Contents] /\ vec' \in [Nodes -> Contents]
         /\ graph' \in [Nodes -> SUBSET Nodes]
         /\ emptySlots' \in Seq(Locs) /\ Len(emptySlots') = MaxPoints - nd
         /\ IsInjective(emptySlots') /\ ToSet(emptySlots') = Locs \ Packed
         /\ (\A n \in TaggedLocs \cup {Frozen} : graph[n] \subseteq TaggedLocs \cup {Frozen})
              => \A n \in Packed \cup {Frozen} : graph'[n] \subseteq Packed \cup {Frozen}
<1> DEFINE T == Compact.tag
           V == Compact.vec
           G == Compact.graph
           E == Compact.empty
<1>1. /\ deleteSet = {} /\ conso.old = {} /\ TaggedLocs = Locs \ Empties
      /\ Cardinality(TaggedLocs) = nd /\ nd \in Nat /\ nd <= MaxPoints /\ Locs \ TaggedLocs = Empties
  BY SaveFindsClean
<1>2. /\ Packed \subseteq Locs /\ Frozen \notin Locs /\ nd \notin Packed
      /\ nd \in Nodes /\ (nd # MaxPoints => nd \in Locs) /\ Frozen = MaxPoints
      /\ TaggedLocs \subseteq Locs /\ Nodes = Locs \cup {Frozen}
      /\ Packed = Locs \ {l \in Locs : l >= nd}
  BY <1>1, VamanaAssumption DEF Locs, Frozen, Nodes, TaggedLocs, Packed
<1>3. /\ locTag \in [Locs -> Contents] /\ vec \in [Nodes -> Contents]
      /\ graph \in [Nodes -> SUBSET Nodes] /\ emptySlots \in Seq(Locs)
      /\ Len(emptySlots) = MaxPoints - nd /\ IsInjective(emptySlots)
  BY <1>1, VamanaAssumption, CallsType DEF SlotInv, EmptyCount
<1>4. Compact = [tag |-> T, vec |-> V, graph |-> G, empty |-> E]
  BY DEF Compact
<1>5. /\ locTag' = T /\ emptySlots' = E
      /\ vec' = IF nd = MaxPoints THEN V ELSE [V EXCEPT ![nd] = Blank]
      /\ graph' = IF nd = MaxPoints THEN G
                  ELSE [n \in Nodes |-> {IF k = nd THEN Frozen ELSE k : k \in G[n]}]
  <2> HIDE DEF T, V, G, E
  <2> DEFINE m == Moved(Compact)
  <2>1. locTag' = m.tag /\ vec' = m.vec /\ graph' = m.graph /\ emptySlots' = m.empty
    BY DEF Save
  <2> HIDE DEF m
  <2> QED
    BY <1>4, <2>1, MovedFields DEF m
<1>6. /\ \E move : /\ IsMove(move)
                   /\ \A l \in Packed : T[l] = locTag[move[l]] /\ V[l] = vec[move[l]]
      /\ \A l \in Locs \ Packed : T[l] = Blank
      /\ T \in [Locs -> Contents] /\ V \in [Nodes -> Contents] /\ G \in [Nodes -> SUBSET Nodes]
      /\ E \in Seq(Locs) /\ Len(E) = MaxPoints - nd
      /\ IsInjective(E) /\ ToSet(E) = Locs \ Packed
      /\ (\A n \in TaggedLocs \cup {Frozen} : graph[n] \subseteq TaggedLocs \cup {Frozen})
           => \A n \in Packed \cup {Frozen} : G[n] \subseteq Packed \cup {Frozen}
  <2>1. CASE compacted
    <3>1. T = locTag /\ V = vec /\ G = graph /\ E = emptySlots
      BY <2>1 DEF Compact
    <3>2. TaggedLocs = Packed
      BY <2>1 DEF Save, Contiguous, Packed
    <3> DEFINE move == [l \in Packed |-> l]
    <3>3. IsMove(move) /\ \A l \in Packed : move[l] = l
      BY <3>2 DEF IsMove
    <3>4. \A l \in Locs \ Packed : locTag[l] = Blank
      BY <3>2 DEF TaggedLocs, Tagged
    <3>5. ToSet(emptySlots) = Locs \ Packed
      BY <1>1, <3>2 DEF Empties
    <3> HIDE DEF T, V, G, E, move
    <3> QED
      BY <1>3, <3>1, <3>2, <3>3, <3>4, <3>5
  <2>2. CASE ~compacted
    <3> DEFINE move == [l \in Packed |-> OldLoc(l)]
    <3>1. Occupied = Packed
      BY <1>1, <2>2 DEF Occupied, Packed
    <3>2. /\ T = [l \in Locs |-> IF l \in Packed THEN locTag[OldLoc(l)] ELSE Blank]
          /\ V = [n \in Nodes |-> IF n = Frozen \/ n \in Packed THEN vec[OldLoc(n)] ELSE vec[n]]
          /\ G = [n \in Nodes |-> IF n = Frozen \/ n \in Packed THEN Renamed(OldLoc(n)) ELSE {}]
          /\ E = [i \in 1..(MaxPoints - nd) |-> nd + i - 1]
      BY <2>2, <3>1 DEF Compact, MovedVec
    <3> HIDE DEF T, V, G, E
    <3>3. /\ IsMove(move) /\ \A l \in TaggedLocs : NewLoc(l) \in Packed
          /\ \A l \in Packed : OldLoc(l) \in TaggedLocs
          /\ OldLoc(Frozen) = Frozen /\ NewLoc(Frozen) = Frozen
      BY <1>1, OldLocLemma DEF OldLoc, NewLoc
    <3>4. E \in Seq(Locs) /\ Len(E) = MaxPoints - nd /\ IsInjective(E) /\ ToSet(E) = Locs \ Packed
      <4>1. nd \in 0..MaxPoints
        BY <1>1, VamanaAssumption
      <4> QED
        BY <3>2, <4>1, AscendingLemma DEF Packed
    <3>5. \A n \in Nodes : Renamed(n) \subseteq Packed \cup {Frozen}
      <4>1. \A n \in Nodes : \A k \in graph[n] : k \in Nodes /\ (Tagged(k) /\ k # Frozen => k \in TaggedLocs)
        BY <1>2, <1>3 DEF TaggedLocs
      <4> QED
        BY <3>3, <4>1 DEF Renamed
    <3>6. T \in [Locs -> Contents] /\ \A l \in Locs \ Packed : T[l] = Blank
      BY <1>2, <1>3, <3>2, <3>3 DEF Contents
    <3>7. V \in [Nodes -> Contents]
      BY <1>2, <1>3, <3>2, <3>3
    <3>8. /\ G \in [Nodes -> SUBSET Nodes]
          /\ \A n \in Packed \cup {Frozen} : G[n] \subseteq Packed \cup {Frozen}
      BY <1>2, <3>2, <3>3, <3>5
    <3>9. \A l \in Packed : T[l] = locTag[move[l]] /\ V[l] = vec[move[l]]
      BY <1>2, <3>2
    <3> HIDE DEF move
    <3> QED
      BY <3>3, <3>4, <3>6, <3>7, <3>8, <3>9
  <2> QED
    BY <2>1, <2>2
<1> HIDE DEF T, V, G, E
<1>7. /\ vec' \in [Nodes -> Contents] /\ \A l \in Packed : vec'[l] = V[l]
  BY <1>2, <1>5, <1>6 DEF Contents
<1>8. graph' \in [Nodes -> SUBSET Nodes]
  BY <1>2, <1>5, <1>6
<1>9. ASSUME NEW n \in Packed \cup {Frozen}, G[n] \subseteq Packed \cup {Frozen}
      PROVE  graph'[n] \subseteq Packed \cup {Frozen}
  BY <1>2, <1>5, <1>9
<1>10. /\ \E move : /\ IsMove(move)
                    /\ \A l \in Packed : locTag'[l] = locTag[move[l]] /\ vec'[l] = vec[move[l]]
       /\ \A l \in Locs \ Packed : locTag'[l] = Blank
  BY <1>5, <1>6, <1>7
<1>11. (\A n \in TaggedLocs \cup {Frozen} : graph[n] \subseteq TaggedLocs \cup {Frozen})
         => \A n \in Packed \cup {Frozen} : graph'[n] \subseteq Packed \cup {Frozen}
  BY <1>6, <1>9
<1> QED
  BY <1>5, <1>6, <1>7, <1>8, <1>10, <1>11

\* What save leaves in memory and in the files.
LEMMA SaveWrites ==
  ASSUME Save
  PROVE  /\ UNCHANGED <<conc, nd, deleteSet, call, conso>> /\ compacted' = TRUE
         /\ files' = [points |-> nd,
                      tag |-> [l \in Packed |-> IF locTag'[l] = Blank THEN Zero ELSE locTag'[l]],
                      vec |-> [l \in Packed |-> vec'[l]],
                      graph |-> [n \in Packed \cup {Frozen} |-> graph'[n]]]
         /\ tagLoc' = [tag \in DOMAIN tagLoc |->
                         IF \E l \in Locs : locTag'[l] = tag
                         THEN CHOOSE l \in Locs : locTag'[l] = tag ELSE NoLoc]
<1> DEFINE m == Moved(Compact)
<1>1. locTag' = m.tag /\ vec' = m.vec /\ graph' = m.graph
  BY DEF Save
<1>2. UNCHANGED <<conc, nd, deleteSet, call, conso>> /\ compacted' = TRUE
  BY DEF Save
<1>3. files' = [points |-> nd,
                tag |-> [l \in Packed |-> IF m.tag[l] = Blank THEN Zero ELSE m.tag[l]],
                vec |-> [l \in Packed |-> m.vec[l]],
                graph |-> [n \in Packed \cup {Frozen} |-> m.graph[n]]]
  BY DEF Save, Packed
<1>4. tagLoc' = [tag \in DOMAIN tagLoc |->
                   IF \E l \in Locs : m.tag[l] = tag
                   THEN CHOOSE l \in Locs : m.tag[l] = tag ELSE NoLoc]
  BY DEF Save
<1> HIDE DEF m
<1> QED
  BY <1>1, <1>2, <1>3, <1>4

\* save compacts: the tags keep their vectors in new slots.
LEMMA SaveSlots ==
  ASSUME SlotInv, Save, ~damaged'
  PROVE  /\ SlotInv' /\ Live' = Live /\ conso.old = {} /\ deleteSet = {}
         /\ TaggedLocs' = Packed /\ Empties' = Locs \ Packed
         /\ UNCHANGED <<conc, nd, deleteSet, call, conso>>
<1>1. PICK move : /\ IsMove(move)
                  /\ \A l \in Packed : locTag'[l] = locTag[move[l]] /\ vec'[l] = vec[move[l]]
  BY SaveMoves
<1>2. /\ \A l \in Locs \ Packed : locTag'[l] = Blank
      /\ locTag' \in [Locs -> Contents] /\ vec' \in [Nodes -> Contents]
      /\ graph' \in [Nodes -> SUBSET Nodes]
      /\ emptySlots' \in Seq(Locs) /\ Len(emptySlots') = MaxPoints - nd
      /\ IsInjective(emptySlots') /\ ToSet(emptySlots') = Locs \ Packed
  BY SaveMoves
<1>3. /\ UNCHANGED <<conc, nd, deleteSet, call, conso>> /\ compacted' = TRUE
      /\ files' = [points |-> nd,
                   tag |-> [l \in Packed |-> IF locTag'[l] = Blank THEN Zero ELSE locTag'[l]],
                   vec |-> [l \in Packed |-> vec'[l]],
                   graph |-> [n \in Packed \cup {Frozen} |-> graph'[n]]]
      /\ tagLoc' = [tag \in DOMAIN tagLoc |->
                      IF \E l \in Locs : locTag'[l] = tag
                      THEN CHOOSE l \in Locs : locTag'[l] = tag ELSE NoLoc]
  BY SaveWrites
<1>4. deleteSet = {} /\ conso.old = {} /\ nd \in Nat /\ nd <= MaxPoints
  BY SaveFindsClean
<1>5. Packed \subseteq Locs
  BY <1>4, VamanaAssumption DEF Packed, Locs
<1>6. \A l \in TaggedLocs : l \in Locs /\ locTag[l] \in VTags /\ tagLoc[locTag[l]] = l
  BY DEF SlotInv, TagsInverse, TaggedLocs
<1>7. \A l \in Packed : move[l] \in TaggedLocs /\ locTag'[l] \in VTags
  BY <1>1, <1>6 DEF IsMove
<1>8. \A l, k \in Packed : locTag'[l] = locTag'[k] => l = k
  BY <1>1, <1>6, <1>7 DEF IsMove
<1>9. TaggedLocs' = Packed
  BY <1>2, <1>5, <1>7, VamanaAssumption DEF TaggedLocs, Tagged
<1>10. DOMAIN tagLoc = VTags \cup {Zero}
  BY DEF SlotInv, VTypeOK
<1>11. /\ tagLoc' \in [VTags \cup {Zero} -> Locs \cup {NoLoc}]
       /\ \A g \in VTags \cup {Zero} :
            /\ tagLoc'[g] # NoLoc => locTag'[tagLoc'[g]] = g
            /\ (\E l \in Packed : locTag'[l] = g) => tagLoc'[g] \in Locs /\ locTag'[tagLoc'[g]] = g
            /\ (\A l \in Packed : locTag'[l] # g) => tagLoc'[g] = NoLoc
  <2>1. ASSUME NEW g \in VTags \cup {Zero}
        PROVE  /\ tagLoc'[g] \in Locs \cup {NoLoc}
               /\ tagLoc'[g] # NoLoc => locTag'[tagLoc'[g]] = g
               /\ (\E l \in Packed : locTag'[l] = g) => tagLoc'[g] \in Locs /\ locTag'[tagLoc'[g]] = g
               /\ (\A l \in Packed : locTag'[l] # g) => tagLoc'[g] = NoLoc
    <3>1. tagLoc'[g] = IF \E l \in Locs : locTag'[l] = g
                       THEN CHOOSE l \in Locs : locTag'[l] = g ELSE NoLoc
      BY <1>3, <1>10
    <3>2. \A l \in Locs : locTag'[l] = g => l \in Packed
      BY <1>2, VamanaAssumption
    <3>3. CASE \E l \in Locs : locTag'[l] = g
      BY <1>5, <3>1, <3>2, <3>3
    <3>4. CASE ~\E l \in Locs : locTag'[l] = g
      BY <1>5, <3>1, <3>4
    <3> QED
      BY <3>3, <3>4
  <2>2. tagLoc' = [tag \in VTags \cup {Zero} |-> tagLoc'[tag]]
    BY <1>3, <1>10
  <2> QED
    BY <2>1, <2>2
<1>12. TagsInverse'
  <2>1. \A l \in Locs : Tagged(l)' => locTag'[l] \in VTags /\ tagLoc'[locTag'[l]] = l
    <3> SUFFICES ASSUME NEW l \in Locs, locTag'[l] # Blank
                 PROVE  locTag'[l] \in VTags /\ tagLoc'[locTag'[l]] = l
      BY DEF Tagged
    <3>1. l \in Packed /\ locTag'[l] \in VTags
      BY <1>2, <1>7
    <3>2. tagLoc'[locTag'[l]] \in Locs /\ locTag'[tagLoc'[locTag'[l]]] = locTag'[l]
      BY <1>11, <3>1
    <3>3. tagLoc'[locTag'[l]] \in Packed
      BY <1>2, <3>1, <3>2, VamanaAssumption
    <3> QED
      BY <1>8, <3>1, <3>2, <3>3
  <2> QED
    BY <1>11, <2>1 DEF TagsInverse
<1>13. Live' = Live
  <2>1. \A g \in VTags \cup {Zero} : tagLoc[g] # NoLoc => \E l \in Packed : locTag'[l] = g
    <3> SUFFICES ASSUME NEW g \in VTags \cup {Zero}, tagLoc[g] # NoLoc
                 PROVE  \E l \in Packed : locTag'[l] = g
      OBVIOUS
    <3>1. tagLoc[g] \in Locs /\ locTag[tagLoc[g]] = g /\ g # Blank
      BY VamanaAssumption DEF SlotInv, VTypeOK, TagsInverse
    <3>2. tagLoc[g] \in TaggedLocs
      BY <3>1 DEF TaggedLocs, Tagged
    <3> QED
      BY <1>1, <3>1, <3>2 DEF IsMove
  <2>2. \A g \in VTags \cup {Zero} : (\E l \in Packed : locTag'[l] = g) => tagLoc[g] # NoLoc
    BY <1>1, <1>6, <1>7 DEF NoLoc, Locs
  <2>3. NoLoc \notin Locs
    BY DEF NoLoc, Locs
  <2>4. \A g \in VTags \cup {Zero} : tagLoc'[g] # NoLoc <=> tagLoc[g] # NoLoc
    BY <1>11, <2>1, <2>2, <2>3
  <2> QED
    BY <2>4 DEF Live
<1>14. Empties' = Locs \ Packed
  BY <1>2 DEF Empties
<1>15. VTypeOK'
  BY <1>2, <1>3, <1>11 DEF SlotInv, VTypeOK
<1>16. EmptyCount' /\ CompactedIsClean' /\ ConsoMatchesCalls' /\ CallsHaveLocs'
  BY <1>2, <1>3, <1>4, VamanaAssumption
     DEF SlotInv, EmptyCount, CompactedIsClean, ConsoMatchesCalls, CallsHaveLocs
<1>17. Partition'
  BY <1>3, <1>4, <1>5, <1>9, <1>14 DEF Partition
<1>18. FileTags'
  <2> DEFINE tags == [l \in Packed |-> IF locTag'[l] = Blank THEN Zero ELSE locTag'[l]]
  <2>1. tags \in [Packed -> VTags] /\ IsInjective(tags)
    BY <1>7, <1>8, VamanaAssumption DEF IsInjective
  <2>2. [l \in Packed |-> vec'[l]] \in [Packed -> Contents]
    BY <1>2, <1>5 DEF Nodes
  <2>3. [n \in Packed \cup {Frozen} |-> graph'[n]] \in [Packed \cup {Frozen} -> SUBSET Nodes]
    BY <1>2, <1>5 DEF Nodes
  <2>4. files'.points = nd /\ nd \in 0..MaxPoints
    BY <1>3, <1>4, VamanaAssumption
  <2>5. 0..(files'.points - 1) = Packed
    BY <2>4 DEF Packed
  <2> HIDE DEF tags
  <2> QED
    BY <1>3, <2>1, <2>2, <2>3, <2>4, <2>5 DEF FileTags, tags
<1> QED
  BY <1>3, <1>4, <1>9, <1>12, <1>13, <1>14, <1>15, <1>16, <1>17, <1>18 DEF SlotInv

\* What a load finds in the files and makes of it.
LEMMA LoadReads ==
  ASSUME SlotInv, Load
  PROVE  LET occupied == 0..(nd' - 1) IN
         /\ nd' = files.points /\ nd' \in Nat /\ nd' < MaxPoints /\ files.points # -1
         /\ files.tag \in [occupied -> VTags] /\ IsInjective(files.tag)
         /\ files.vec \in [occupied -> Contents]
         /\ files.graph \in [occupied \cup {Frozen} -> SUBSET Nodes]
         /\ locTag' = [l \in Locs |-> IF l \in occupied THEN files.tag[l] ELSE Blank]
         /\ vec' = [n \in Nodes |-> IF n = Frozen THEN Zero
                                    ELSE IF n \in occupied THEN files.vec[n] ELSE Blank]
         /\ graph' = [n \in Nodes |-> IF n = Frozen \/ n \in occupied THEN files.graph[n] ELSE {}]
         /\ tagLoc' = [tag \in VTags \cup {Zero} |->
                         IF \E l \in occupied : files.tag[l] = tag
                         THEN CHOOSE l \in occupied : files.tag[l] = tag /\
                                \A m \in occupied : files.tag[m] = tag => m <= l
                         ELSE NoLoc]
         /\ emptySlots' = [i \in 1..(MaxPoints - nd') |-> nd' + i - 1]
         /\ deleteSet' = {} /\ compacted' = TRUE /\ files' = NoFiles
         /\ conso = NoConso /\ UNCHANGED <<conc, call, conso>>
<1>1. files.points \in 0..(MaxPoints - 1) /\ nd' = files.points
  BY DEF Load
<1>2. nd' \in Nat /\ nd' < MaxPoints /\ files.points # -1
  BY <1>1, VamanaAssumption
<1>3. DOMAIN tagLoc = VTags \cup {Zero}
  BY DEF SlotInv, VTypeOK
<1>4. conso = NoConso
  BY DEF Load, Quiet, SlotInv, ConsoMatchesCalls
<1> QED
  BY <1>1, <1>2, <1>3, <1>4 DEF Load, SlotInv, FileTags

\* load rebuilds the slots from the files.
LEMMA LoadSlots ==
  ASSUME SlotInv, Load
  PROVE  /\ SlotInv' /\ Live' \subseteq VTags /\ deleteSet' = {} /\ conso'.old = {}
         /\ TaggedLocs' = 0..(nd' - 1) /\ Empties' = Locs \ (0..(nd' - 1))
<1> DEFINE occupied == 0..(nd' - 1)
<1>1. /\ nd' \in Nat /\ nd' < MaxPoints
      /\ files.tag \in [occupied -> VTags] /\ IsInjective(files.tag)
      /\ locTag' = [l \in Locs |-> IF l \in occupied THEN files.tag[l] ELSE Blank]
      /\ tagLoc' = [tag \in VTags \cup {Zero} |->
                      IF \E l \in occupied : files.tag[l] = tag
                      THEN CHOOSE l \in occupied : files.tag[l] = tag /\
                             \A m \in occupied : files.tag[m] = tag => m <= l
                      ELSE NoLoc]
      /\ emptySlots' = [i \in 1..(MaxPoints - nd') |-> nd' + i - 1]
      /\ deleteSet' = {} /\ compacted' = TRUE /\ files' = NoFiles
      /\ conso = NoConso /\ UNCHANGED <<conc, call, conso>>
  BY LoadReads
<1>2. vec' \in [Nodes -> Contents] /\ graph' \in [Nodes -> SUBSET Nodes]
  <2>1. /\ files.vec \in [occupied -> Contents]
        /\ files.graph \in [occupied \cup {Frozen} -> SUBSET Nodes]
        /\ vec' = [n \in Nodes |-> IF n = Frozen THEN Zero
                                   ELSE IF n \in occupied THEN files.vec[n] ELSE Blank]
        /\ graph' = [n \in Nodes |-> IF n = Frozen \/ n \in occupied THEN files.graph[n] ELSE {}]
    BY LoadReads
  <2> HIDE DEF occupied
  <2> QED
    BY <2>1 DEF Contents
<1>3. occupied \subseteq Locs /\ nd' \in 0..MaxPoints /\ \A l \in occupied : l \in Int
  BY <1>1, VamanaAssumption DEF Locs
<1>4. /\ emptySlots' \in Seq(Locs) /\ Len(emptySlots') = MaxPoints - nd'
      /\ IsInjective(emptySlots') /\ ToSet(emptySlots') = Locs \ occupied
  BY <1>1, <1>3, AscendingLemma
<1> HIDE DEF occupied
<1>5. \A l, m \in occupied : files.tag[l] = files.tag[m] => l = m
  BY <1>1 DEF IsInjective
<1>6. ASSUME NEW g \in VTags \cup {Zero}
      PROVE  /\ tagLoc'[g] \in Locs \cup {NoLoc}
             /\ tagLoc'[g] # NoLoc => tagLoc'[g] \in occupied /\ files.tag[tagLoc'[g]] = g
             /\ (\E l \in occupied : files.tag[l] = g) => tagLoc'[g] # NoLoc
  <2> DEFINE last(l) == files.tag[l] = g /\ \A m \in occupied : files.tag[m] = g => m <= l
  <2>1. tagLoc'[g] = IF \E l \in occupied : files.tag[l] = g
                     THEN CHOOSE l \in occupied : last(l) ELSE NoLoc
    BY <1>1
  <2>2. \A l \in occupied : files.tag[l] = g => last(l)
    BY <1>3, <1>5
  <2>3. NoLoc \notin Locs
    BY DEF NoLoc, Locs
  <2>4. CASE \E l \in occupied : files.tag[l] = g
    <3>1. tagLoc'[g] \in occupied /\ last(tagLoc'[g])
      BY <2>1, <2>2, <2>4
    <3> QED
      BY <1>3, <2>3, <3>1
  <2>5. CASE ~\E l \in occupied : files.tag[l] = g
    BY <2>1, <2>5
  <2> QED
    BY <2>4, <2>5
<1>7. tagLoc' \in [VTags \cup {Zero} -> Locs \cup {NoLoc}]
  <2>1. tagLoc' = [tag \in VTags \cup {Zero} |-> tagLoc'[tag]]
    BY <1>1
  <2> QED
    BY <1>6, <2>1
<1>8. TaggedLocs' = occupied
  BY <1>1, <1>3, VamanaAssumption DEF TaggedLocs, Tagged
<1>9. Empties' = Locs \ occupied
  BY <1>4 DEF Empties
<1>10. TagsInverse'
  <2>1. \A l \in Locs : Tagged(l)' => locTag'[l] \in VTags /\ tagLoc'[locTag'[l]] = l
    <3> SUFFICES ASSUME NEW l \in Locs, locTag'[l] # Blank
                 PROVE  locTag'[l] \in VTags /\ tagLoc'[locTag'[l]] = l
      BY DEF Tagged
    <3>1. l \in occupied /\ locTag'[l] = files.tag[l] /\ files.tag[l] \in VTags
      BY <1>1
    <3>2. tagLoc'[files.tag[l]] \in occupied /\ files.tag[tagLoc'[files.tag[l]]] = files.tag[l]
      BY <1>6, <3>1
    <3> QED
      BY <1>5, <3>1, <3>2
  <2>2. \A g \in VTags \cup {Zero} : tagLoc'[g] # NoLoc => locTag'[tagLoc'[g]] = g
    BY <1>1, <1>3, <1>6
  <2> QED
    BY <2>1, <2>2 DEF TagsInverse
<1>11. VTypeOK'
  <2>1. locTag' \in [Locs -> Contents]
    BY <1>1 DEF Contents
  <2> QED
    BY <1>1, <1>2, <1>3, <1>4, <1>7, <2>1, CallsType DEF SlotInv, VTypeOK
<1>12. EmptyCount' /\ CompactedIsClean' /\ ConsoMatchesCalls' /\ CallsHaveLocs' /\ FileTags'
  <2>0. nd' \in Int /\ MaxPoints \in Int
    BY <1>1, VamanaAssumption
  <2>1. EmptyCount'
    <3> DEFINE n == Len(emptySlots')
    <3>1. n = MaxPoints - nd'
      BY <1>4
    <3> HIDE DEF n
    <3>2. n \in Int
      BY <2>0, <3>1
    <3>3. \A a, b, c \in Int : a = b - c => a + c = b
      OBVIOUS
    <3>4. n + nd' = MaxPoints
      BY <2>0, <3>1, <3>2, <3>3, Zenon
    <3> QED
      BY <1>4, <3>4 DEF EmptyCount, n
  <2>2. CompactedIsClean' /\ ConsoMatchesCalls'
    BY <1>1 DEF SlotInv, CompactedIsClean, ConsoMatchesCalls, NoConso
  <2>3. CallsHaveLocs'
    BY <1>1 DEF SlotInv, CallsHaveLocs
  <2>4. FileTags'
    BY <1>1 DEF FileTags, NoFiles
  <2> QED
    BY <2>1, <2>2, <2>3, <2>4
<1>13. conso'.old = {}
  BY <1>1 DEF NoConso
<1>14. Partition'
  BY <1>1, <1>3, <1>8, <1>9, <1>13 DEF Partition
<1>15. Live' \subseteq VTags
  BY <1>1, <1>6 DEF Live
<1> QED
  BY <1>1, <1>8, <1>9, <1>10, <1>11, <1>12, <1>13, <1>14, <1>15 DEF SlotInv, occupied

\* The constructor's index satisfies SlotInv.
LEMMA InitSlots ==
  ASSUME VInit
  PROVE  SlotInv /\ Live = {} /\ deleteSet = {} /\ conso.old = {}
<1>1. /\ conc \in BOOLEAN /\ nd = 0 /\ deleteSet = {} /\ compacted = TRUE
      /\ emptySlots = [i \in 1..MaxPoints |-> i - 1]
      /\ tagLoc = [tag \in VTags \cup {Zero} |-> NoLoc] /\ locTag = [l \in Locs |-> Blank]
      /\ vec = [n \in Nodes |-> IF n = Frozen THEN Zero ELSE Blank]
      /\ graph = [n \in Nodes |-> {}] /\ call = [t \in VThreads |-> Idle]
      /\ conso = NoConso /\ files = NoFiles
  BY DEF VInit
<1>2. emptySlots \in Seq(Locs) /\ Len(emptySlots) = MaxPoints /\ IsInjective(emptySlots)
      /\ ToSet(emptySlots) = Locs
  <2>1. 0 \in 0..MaxPoints /\ MaxPoints - 0 = MaxPoints /\ \A i \in 1..MaxPoints : i - 1 = 0 + i - 1
    BY VamanaAssumption
  <2>2. emptySlots = [i \in 1..(MaxPoints - 0) |-> 0 + i - 1]
    BY <1>1, <2>1
  <2>3. Locs \ (0..(0 - 1)) = Locs
    OBVIOUS
  <2> QED
    BY <2>1, <2>2, <2>3, AscendingLemma
<1>3. Idle \in Calls /\ Idle.pc = "idle" /\ NoConso \in Consos /\ NoConso.old = {} /\ NoConso.pc = "idle"
  BY VamanaAssumption DEF Idle, NoConso, Calls, Consos, Contents
<1>4. VTypeOK
  BY <1>1, <1>2, <1>3, VamanaAssumption DEF VTypeOK, Contents
<1>5. TaggedLocs = {}
  BY <1>1 DEF TaggedLocs, Tagged
<1>6. EmptyCount /\ CompactedIsClean /\ ConsoMatchesCalls /\ CallsHaveLocs /\ FileTags /\ TagsInverse
  BY <1>1, <1>2, <1>3, VamanaAssumption
     DEF EmptyCount, CompactedIsClean, ConsoMatchesCalls, CallsHaveLocs, FileTags, NoFiles,
         TagsInverse, Tagged
<1>7. Partition
  BY <1>1, <1>2, <1>3, <1>5 DEF Partition, Empties
<1> QED
  BY <1>1, <1>3, <1>4, <1>6, <1>7 DEF SlotInv, Live

-----------------------------------------------------------------------------
(***************************************************************************)
(* The invariant and the refinement of TagStore.  A save may find          *)
(* data_compacted_ set over a layout with holes; then it writes locations  *)
(* without a tag, the index is damaged, and the results are about those    *)
(* that are not.                                                           *)
(***************************************************************************)
LEMMA SlotStep ==
  ASSUME SlotInv, VNext, ~damaged'
  PROVE  SlotInv'
<1>1. ASSUME NEW t \in VThreads, NEW tag \in VTags, InsertReserve(t, tag) \/ InsertDuplicate(t, tag)
      PROVE  SlotInv'
  BY <1>1, InsertReserveSlots, InsertDuplicateSlots
<1>2. ASSUME NEW t \in VThreads,
             \/ InsertWrite(t) \/ InsertLink(t) \/ InterInsert(t) \/ InterPrune(t) \/ InsertReturn(t)
             \/ SearchStart(t) \/ SearchReturn(t) \/ Expand(t)
      PROVE  SlotInv'
  BY <1>2, InsertWriteSlots, InsertLinkSlots, InterInsertSlots, InterPruneSlots, ReturnSlots,
     SearchStartSlots, ExpandSlots
<1>3. ASSUME NEW t \in VThreads, ConsolidateStart(t)
      PROVE  SlotInv'
  BY <1>3, ConsolidateStartSlots
<1>4. ASSUME NEW S \in SUBSET VTags, LazyDelete(S)
      PROVE  SlotInv'
  BY <1>4, LazyDeleteSlots
<1>5. ASSUME \/ \E n \in Nodes : ProcessRead(n)
             \/ \E w \in conso.work : ProcessWrite(w) \/ \E d \in w.ngh : ProcessExpand(w, d)
      PROVE  SlotInv'
  BY <1>5, ProcessSlots
<1> QED
  BY <1>1, <1>2, <1>3, <1>4, <1>5, ConsolidateEndSlots, SaveSlots, LoadSlots DEF VNext

\* Damage is never undone, not by a load either.
LEMMA DamageStays ==
  ASSUME [VNext]_vvars, ~damaged'
  PROVE  ~damaged
BY DEF VNext, vvars, bounds, InsertReserve, InsertDuplicate, InsertWrite, InsertLink, InterInsert,
       InterPrune, InsertReturn, SearchStart, SearchReturn, Expand, ConsolidateStart,
       LazyDelete, ProcessRead, ProcessExpand, ProcessWrite, ConsolidateEnd, Save, Load

\* Whatever inserts, deletes, consolidations, searches, saves and loads do at the same
\* time, every location is empty, tagged, deleted or being consolidated, and only one of
\* these; the counts consolidate_deletes compares agree; the two tag tables are inverse.
THEOREM SlotInvariance == VSpec => [](~damaged => SlotInv)
<1>1. VInit => SlotInv
  BY InitSlots
<1>2. (~damaged => SlotInv) /\ [VNext]_vvars => (~damaged => SlotInv)'
  <2> SUFFICES ASSUME ~damaged => SlotInv, [VNext]_vvars, ~damaged' PROVE SlotInv'
    OBVIOUS
  <2>3. SlotInv
    BY DamageStays
  <2>1. CASE VNext
    BY <2>1, <2>3, SlotStep
  <2>2. CASE UNCHANGED vvars
    <3>1. UNCHANGED <<conc, slots, vec, graph, call, conso, files>>
      BY <2>2 DEF vvars, slots
    <3>2. ConsoMatchesCalls' /\ CallsHaveLocs'
      BY <2>3, <3>1 DEF SlotInv, ConsoMatchesCalls, CallsHaveLocs
    <3> QED
      BY <2>3, <3>1, <3>2, SlotFrame, CallsType
  <2> QED
    BY <2>1, <2>2
<1> QED
  BY <1>1, <1>2, PTL DEF VSpec

Pending == Cardinality(deleteSet) + Cardinality(conso.old)

\* The abstract store counts as this module does.
LEMMA StoreCardinality == ASSUME NEW S PROVE Store!Cardinality(S) = Cardinality(S)
BY DEF Store!Cardinality, Cardinality

\* Reserving a slot for a new tag is the store's Add.
LEMMA InsertReserveAdds ==
  ASSUME SlotInv, NEW t \in VThreads, NEW tag \in VTags, InsertReserve(t, tag)
  PROVE  Store!Add(tag)
<1>1. /\ tagLoc' = [tagLoc EXCEPT ![tag] = Reserved] /\ deleteSet' = deleteSet /\ conso' = conso
      /\ Reserved \in Locs /\ tagLoc[tag] = NoLoc /\ Reservable
  BY ReserveLemma DEF InsertReserve
<1>2. tag \notin Live /\ Live' = Live \cup {tag}
  BY <1>1 DEF Live, SlotInv, VTypeOK, NoLoc, Locs
<1>3. Cardinality(Live) + Pending = nd
  BY LiveCount, SlotCounts DEF Pending
<1>4. Cardinality(Live) + Pending < MaxPoints
  BY <1>1, <1>3, VamanaAssumption DEF Reservable
<1>5. Pending' = Pending
  BY <1>1 DEF Pending
<1> QED
  BY <1>2, <1>4, <1>5, StoreCardinality DEF Store!Add, Pending

\* lazy_delete is the store's Remove.
LEMMA LazyDeleteRemoves ==
  ASSUME SlotInv, NEW S \in SUBSET VTags, LazyDelete(S)
  PROVE  UNCHANGED <<Live, Pending>> \/ \E gone \in SUBSET Live : Store!Remove(gone)
<1> DEFINE gone == S \cap Live
<1>1. /\ Live' = Live \ gone /\ Cardinality(deleteSet') = Cardinality(deleteSet) + Cardinality(gone)
      /\ conso' = conso
  BY LazyDeleteSlots
<1>2. Cardinality(deleteSet) \in Nat /\ Cardinality(conso.old) \in Nat /\ IsFiniteSet(Live)
  BY SlotCounts, LiveCount
<1>3. Cardinality(gone) \in Nat /\ (gone = {} => Cardinality(gone) = 0)
  BY <1>2, FS_Subset, FS_CardinalityType, FS_EmptySet
<1>4. gone \in SUBSET Live
  OBVIOUS
<1> HIDE DEF gone
<1>5. Pending' = Pending + Cardinality(gone)
  BY <1>1, <1>2, <1>3 DEF Pending
<1>6. CASE gone = {}
  <2>1. Pending' = Pending
    BY <1>2, <1>3, <1>5, <1>6 DEF Pending
  <2> QED
    BY <1>1, <1>6, <2>1
<1>7. CASE gone # {}
  <2>1. Store!Remove(gone)
    BY <1>1, <1>4, <1>5, <1>7, StoreCardinality DEF Store!Remove, Pending
  <2> QED
    BY <1>4, <2>1
<1> QED
  BY <1>6, <1>7

\* Starting to consolidate is invisible to the store.
LEMMA ConsolidateStartKeeps ==
  ASSUME SlotInv, NEW t \in VThreads, ConsolidateStart(t)
  PROVE  UNCHANGED <<Live, Pending>>
<1>1. conso'.old = deleteSet /\ deleteSet' = {} /\ conso.old = {} /\ tagLoc' = tagLoc
  BY ConsolidateStartSlots
<1>2. Cardinality(deleteSet) \in Nat /\ Cardinality({}) = 0
  BY SlotCounts, FS_EmptySet
<1>3. Pending' = Pending
  BY <1>1, <1>2 DEF Pending
<1> QED
  BY <1>1, <1>3 DEF Live

\* Releasing the slots is the store's Reclaim.
LEMMA ConsolidateEndReclaims ==
  ASSUME SlotInv, ConsolidateEnd
  PROVE  UNCHANGED <<Live, Pending>> \/ \E n \in 1..MaxPoints : Store!Reclaim(n)
<1> DEFINE n == Cardinality(conso.old)
           d == Cardinality(deleteSet)
<1>1. conso'.old = {} /\ deleteSet' = deleteSet /\ tagLoc' = tagLoc
  BY ConsolidateEndSlots
<1>2. n \in Nat /\ d \in Nat /\ n <= nd /\ nd <= MaxPoints /\ nd \in Nat
  BY SlotCounts, VamanaAssumption DEF SlotInv, VTypeOK
<1>3. Cardinality(conso'.old) = 0 /\ Cardinality(deleteSet') = d /\ Live' = Live
  BY <1>1, FS_EmptySet DEF Live
<1>4. Pending = d + n
  BY DEF Pending
<1>5. Pending' = d + 0
  BY <1>3 DEF Pending
<1> HIDE DEF n, d
<1>6. n \in 0..MaxPoints /\ n <= Pending /\ Pending' = Pending - n /\ (n = 0 => Pending' = Pending)
  BY <1>2, <1>4, <1>5, VamanaAssumption
<1>7. CASE n = 0
  BY <1>3, <1>6, <1>7
<1>8. CASE n # 0
  <2>1. n \in 1..MaxPoints
    BY <1>6, <1>8, VamanaAssumption
  <2>2. Store!Reclaim(n)
    BY <1>3, <1>6 DEF Store!Reclaim, Pending
  <2> QED
    BY <2>1, <2>2
<1> QED
  BY <1>7, <1>8

\* load is the store's Restore.
LEMMA LoadRestores ==
  ASSUME SlotInv, Load
  PROVE  \E S \in SUBSET VTags : Store!Restore(S)
<1>1. Live' \in SUBSET VTags /\ deleteSet' = {} /\ conso'.old = {}
  BY LoadSlots
<1>2. Cardinality(deleteSet') + Cardinality(conso'.old) = 0
  BY <1>1, FS_EmptySet
<1> QED
  BY <1>1, <1>2 DEF Store!Restore

\* Live tags and deleted slots are what takes slots.
LEMMA SlotsTaken == SlotInv => Cardinality(Live) + Pending = nd
BY LiveCount, SlotCounts DEF Pending

\* So a full index is full of them, and a step that changes neither does not change
\* whether an insert is turned away.
LEMMA RefusalsAreRight ==
  ASSUME SlotInv, SlotInv', UNCHANGED <<Live, Pending>> \/ Store!StoreNext
  PROVE  [Store!StoreStep]_(Store!storeVars)
<1>1. Cardinality(Live) + Pending = nd
  BY SlotsTaken
<1>2. Cardinality(Live') + Pending' = nd'
  <2>1. (SlotInv => Cardinality(Live) + Pending = nd)'
    BY SlotsTaken, PTL
  <2> QED
    BY <2>1
<1>3. Store!RefusesOnlyWhenFull'
  <2>1. nd' \in Nat /\ MaxPoints \in Nat
    BY VamanaAssumption DEF SlotInv, VTypeOK
  <2>2. Store!Cardinality(Live') = Cardinality(Live')
    BY StoreCardinality
  <2>3. ~Reservable' => Cardinality(Live') + Pending' >= MaxPoints
    BY <1>2, <2>1 DEF Reservable
  <2> QED
    BY <2>2, <2>3 DEF Store!RefusesOnlyWhenFull, Pending
<1>4. CASE UNCHANGED <<Live, Pending>>
  BY <1>1, <1>2, <1>4 DEF Store!storeVars, Reservable, Pending
<1>5. CASE Store!StoreNext
  BY <1>3, <1>5 DEF Store!StoreStep
<1> QED
  BY <1>4, <1>5

\* The index implements the store of tags until a save damages it: inserts take effect at one
\* step and within the capacity, and a new tag is turned away only when live and deleted
\* points fill the index; a delete takes effect at once for all the tags it names, slots
\* return only through a consolidation, and a save of a layout without holes, or of one that
\* compact_data packs, changes nothing.
THEOREM IndexImplementsStore == VSpec => ImplementsStore
<1>1. VInit => Store!StoreInit
  <2> SUFFICES ASSUME VInit PROVE Store!StoreInit
    OBVIOUS
  <2>1. Live = {} /\ Cardinality(deleteSet) + Cardinality(conso.old) = 0
    BY InitSlots, FS_EmptySet
  <2>2. Reservable
    BY VamanaAssumption DEF VInit, Reservable
  <2> QED
    BY <2>1, <2>2 DEF Store!StoreInit
<1>2. SlotInv /\ SlotInv' /\ ~damaged' /\ [VNext]_vvars => [Store!StoreStep]_(Store!storeVars)
  <2> SUFFICES ASSUME SlotInv, SlotInv', ~damaged', [VNext]_vvars
               PROVE  UNCHANGED <<Live, Pending>> \/ Store!StoreNext
    BY RefusalsAreRight
  <2>1. ASSUME NEW t \in VThreads, NEW tag \in VTags, InsertReserve(t, tag)
        PROVE  Store!StoreNext
    BY <2>1, InsertReserveAdds DEF Store!StoreNext
  <2>2. ASSUME NEW t \in VThreads, NEW tag \in VTags, InsertDuplicate(t, tag)
        PROVE  UNCHANGED <<Live, Pending>>
    BY <2>2, InsertDuplicateSlots DEF Live, Pending, slots
  <2>3. ASSUME NEW t \in VThreads,
               \/ InsertWrite(t) \/ InsertLink(t) \/ InterInsert(t) \/ InterPrune(t)
               \/ InsertReturn(t) \/ SearchStart(t) \/ SearchReturn(t) \/ Expand(t)
        PROVE  UNCHANGED <<Live, Pending>>
    BY <2>3 DEF InsertWrite, InsertLink, InterInsert, InterPrune, InsertReturn, SearchStart,
                SearchReturn, Expand, slots, Live, Pending
  <2>4. ASSUME NEW t \in VThreads, ConsolidateStart(t)
        PROVE  UNCHANGED <<Live, Pending>>
    BY <2>4, ConsolidateStartKeeps
  <2>5. ASSUME NEW S \in SUBSET VTags, LazyDelete(S)
        PROVE  UNCHANGED <<Live, Pending>> \/ Store!StoreNext
    BY <2>5, LazyDeleteRemoves DEF Store!StoreNext
  <2>6. ASSUME \/ \E n \in Nodes : ProcessRead(n)
               \/ \E w \in conso.work : ProcessWrite(w) \/ \E d \in w.ngh : ProcessExpand(w, d)
        PROVE  UNCHANGED <<Live, Pending>>
    <3>1. conso'.old = conso.old /\ UNCHANGED slots
      BY <2>6, CallsType DEF ProcessRead, ProcessWrite, ProcessExpand, Consos
    <3> QED
      BY <3>1 DEF slots, Live, Pending
  <2>7. CASE ConsolidateEnd
    BY <2>7, ConsolidateEndReclaims DEF Store!StoreNext
  <2>8. CASE Save
    BY <2>8, SaveSlots DEF Pending
  <2>9. CASE Load
    BY <2>9, LoadRestores DEF Store!StoreNext
  <2>10. CASE UNCHANGED vvars
    BY <2>10 DEF vvars, Live, Pending
  <2> QED
    BY <2>1, <2>2, <2>3, <2>4, <2>5, <2>6, <2>7, <2>8, <2>9, <2>10 DEF VNext
<1> QED
  <2>1. VSpec => [](~damaged => SlotInv)
    BY SlotInvariance
  <2>2. (~damaged => SlotInv) /\ (~damaged => SlotInv)' /\ [VNext]_vvars
          => [damaged' \/ Store!StoreStep]_(Store!storeVars)
    BY <1>2, DamageStays
  <2> QED
    BY <1>1, <2>1, <2>2, PTL DEF VSpec, ImplementsStore

-----------------------------------------------------------------------------
(***************************************************************************)
(* Steps of the calls, and the graph.                                      *)
(***************************************************************************)
LEMMA LinkedFacts ==
  ASSUME SlotInv
  PROVE  /\ Empties \subseteq Locs /\ Unlinked \subseteq Locs /\ Frozen \in Linked
         /\ Frozen \notin Locs /\ Linked \subseteq Nodes
         /\ \A t \in VThreads : InFlight(t) => call[t].loc \in Unlinked /\ call[t].loc \notin Linked
         /\ \A n \in Locs : n \in Linked => \A t \in VThreads : call[t].pc = "write" => call[t].loc # n
<1>1. Empties \subseteq Locs
  BY CallsType, EmptiesRange, RangeOfSeq
<1>2. Unlinked \subseteq Locs
  BY DEF Unlinked, SlotInv, CallsHaveLocs
<1>3. Frozen \notin Locs /\ Frozen \in Nodes
  BY VamanaAssumption DEF Frozen, Locs, Nodes
<1>4. \A t \in VThreads : InFlight(t) => call[t].loc \in Unlinked
  BY DEF InFlight, Unlinked
<1> QED
  BY <1>1, <1>2, <1>3, <1>4 DEF Linked, InFlight

\* Without concurrent consolidation a call never meets one.
LEMMA NoConsoBeside ==
  ASSUME SlotInv, GraphInv, ~conc,
         ~ExclusiveUpdate \/ \E t \in VThreads : call[t].pc \notin {"idle", "consolidate"}
  PROVE  conso.pc = "idle"
BY CallsType DEF GraphInv, ConsoIsAlone, ExclusiveUpdate, Consos

\* A scored candidate carries its location's vector.
ScoredRight(C) == \A c \in C : c[1] \in Locs /\ Tagged(c[1]) => c[2] = locTag[c[1]]

\* What a step of one call has to show for GraphInv: its own record and the edges.
LEMMA CallGraphFrame ==
  ASSUME SlotInv, GraphInv, conso.pc = "idle", UNCHANGED <<slots, vec, conso, files>>,
         NEW t \in VThreads, NEW r \in Calls, call' = [call EXCEPT ![t] = r],
         call[t].pc # "write", r.pc # "write",
         r.pc = "expand" => call[t].pc = "expand" /\ r.loc = call[t].loc,
         r.pc \in {"expand", "search"} =>
           /\ \A c \in r.frontier \cup r.pool : c[1] \in Linked
           /\ ScoredRight(r.frontier \cup r.pool),
         r.pc \in {"inter", "prune"} => r.loc \in Linked' /\ r.links \subseteq Linked',
         r.pc = "prune" => r.des \in Linked' /\ r.copy \subseteq Linked',
         EdgesAreLinked'
  PROVE  GraphInv'
<1>1. /\ call \in [VThreads -> Calls]
      /\ \A u \in VThreads : call'[u] = IF u = t THEN r ELSE call[u]
  BY CallsType
<1>2. Empties' = Empties /\ locTag' = locTag /\ conso'.pc = "idle"
  BY DEF slots, Empties
<1>3. Unlinked' \subseteq Unlinked
  BY <1>1 DEF Unlinked
<1>4. Linked \subseteq Linked'
  BY <1>2, <1>3 DEF Linked
<1>5. CallsHoldLinked'
  <2> SUFFICES ASSUME NEW u \in VThreads
               PROVE  (/\ call[u].pc = "write" => call[u].pool = {}
                       /\ call[u].pc \in {"expand", "search"} => Seen(u) \subseteq Linked
                       /\ call[u].pc \in {"inter", "prune"} => call[u].loc \in Linked /\ call[u].links \subseteq Linked
                       /\ call[u].pc = "prune" => call[u].des \in Linked /\ call[u].copy \subseteq Linked
                       /\ InFlight(u) =>
                            /\ call[u].loc \in Locs \ Empties
                            /\ \A v \in VThreads : InFlight(v) /\ call[v].loc = call[u].loc => v = u)'
    BY DEF CallsHoldLinked
  <2>1. \A v \in VThreads : InFlight(v)' => InFlight(v) /\ call'[v].loc = call[v].loc
    BY <1>1 DEF InFlight
  <2>2. (InFlight(u) => /\ call[u].loc \in Locs \ Empties
                        /\ \A v \in VThreads : InFlight(v) /\ call[v].loc = call[u].loc => v = u)'
    BY <1>2, <2>1 DEF GraphInv, CallsHoldLinked
  <2>3. CASE u = t
    BY <1>1, <1>4, <2>2, <2>3 DEF Seen
  <2>4. CASE u # t
    <3>1. call'[u] = call[u] /\ Seen(u)' = Seen(u)
      BY <1>1, <2>4 DEF Seen
    <3> QED
      BY <1>4, <2>2, <3>1 DEF GraphInv, CallsHoldLinked
  <2> QED
    BY <2>3, <2>4
<1>6. VectorsMatchTags'
  <2>1. \A l \in Locs : (Tagged(l) /\ (\A u \in VThreads : call[u].pc = "write" => call[u].loc # l)
                           => vec[l] = locTag[l])'
    BY <1>1, <1>2 DEF GraphInv, VectorsMatchTags, Tagged
  <2>2. ASSUME NEW u \in VThreads
        PROVE  (/\ call[u].pc = "write" => locTag[call[u].loc] \in {call[u].tag, Blank}
                /\ call[u].pc \in {"expand", "search"} =>
                     \A c \in call[u].frontier \cup call[u].pool :
                       c[1] \in Locs /\ Tagged(c[1]) => c[2] = locTag[c[1]])'
    BY <1>1, <1>2 DEF GraphInv, VectorsMatchTags, Tagged, ScoredRight
  <2> QED
    BY <2>1, <2>2 DEF VectorsMatchTags
<1>7. ConsoIsAlone' /\ ConsoRepairs' /\ FileGraph'
  BY <1>2 DEF GraphInv, ConsoIsAlone, ConsoRepairs, FileGraph
<1> QED
  BY <1>5, <1>6, <1>7 DEF GraphInv

\* The graph where neither a list nor what is linked changes.
LEMMA EdgesFrame ==
  ASSUME GraphInv, graph' = graph, Linked' = Linked
  PROVE  EdgesAreLinked'
BY DEF GraphInv, EdgesAreLinked

\* The frozen point is linked and scored by its vector.
LEMMA SearchStartGraph ==
  ASSUME SlotInv, GraphInv, ~conc, NEW t \in VThreads, SearchStart(t)
  PROVE  GraphInv'
<1> DEFINE r == [Idle EXCEPT !.pc = "search", !.frontier = {<<Frozen, vec[Frozen]>>}]
<1>1. /\ call' = [call EXCEPT ![t] = r] /\ UNCHANGED <<slots, vec, graph, conso, files>>
      /\ call[t].pc = "idle" /\ ~ExclusiveUpdate
  BY CallsType DEF SearchStart
<1>2. {<<Frozen, vec[Frozen]>>} \in SUBSET ScoredNodes
  BY CallsType DEF ScoredNodes
<1>3. r \in Calls /\ r.pc = "search" /\ r.frontier \cup r.pool = {<<Frozen, vec[Frozen]>>}
  BY <1>2, CallsType DEF Calls, Idle
<1> HIDE DEF r
<1>4. conso.pc = "idle"
  BY <1>1, NoConsoBeside
<1>5. Linked' = Linked
  <2>1. Empties' = Empties /\ Unlinked' = Unlinked
    BY <1>1, <1>3, CallsType DEF slots, Empties, Unlinked
  <2> QED
    BY <2>1 DEF Linked
<1>6. /\ \A c \in r.frontier \cup r.pool : c[1] \in Linked
      /\ ScoredRight(r.frontier \cup r.pool)
  BY <1>3, LinkedFacts DEF ScoredRight
<1>7. EdgesAreLinked'
  BY <1>1, <1>5, EdgesFrame
<1> QED
  BY <1>1, <1>3, <1>4, <1>6, <1>7, CallGraphFrame

\* The neighbours of a linked point are linked.
LEMMA ExpandGraph ==
  ASSUME SlotInv, GraphInv, ~conc, NEW t \in VThreads, Expand(t)
  PROVE  GraphInv'
<1>1. PICK c \in call[t].frontier :
         call' = [call EXCEPT
           ![t].pool = @ \cup {c},
           ![t].frontier = (@ \ {c}) \cup {<<n, vec[n]>> : n \in graph[c[1]] \ Seen(t)}]
  BY DEF Expand
<1> DEFINE new == {<<n, vec[n]>> : n \in graph[c[1]] \ Seen(t)}
           r == [call[t] EXCEPT !.pool = call[t].pool \cup {c}, !.frontier = (call[t].frontier \ {c}) \cup new]
<1>2. /\ call' = [call EXCEPT ![t] = r] /\ UNCHANGED <<slots, vec, graph, conso, files>>
      /\ call[t].pc \in {"expand", "search"}
  BY <1>1, CallsType DEF Expand
<1>3. call[t] \in Calls /\ c \in ScoredNodes /\ c[1] \in Nodes
  BY CallsType DEF Calls, ScoredNodes
<1>4. new \in SUBSET ScoredNodes
  BY <1>3, CallsType DEF ScoredNodes
<1>5. conso.pc = "idle"
  BY <1>2, NoConsoBeside
<1>6. \A d \in call[t].frontier \cup call[t].pool : d[1] \in Linked
  BY <1>2 DEF GraphInv, CallsHoldLinked, Seen
<1>7. graph[c[1]] \subseteq Linked
  BY <1>6 DEF GraphInv, EdgesAreLinked
<1>8. \A d \in new : d[1] \in Linked
  BY <1>7
<1>9. ScoredRight(new)
  <2>1. \A n \in Linked : n \in Locs /\ Tagged(n) => vec[n] = locTag[n]
    BY LinkedFacts DEF GraphInv, VectorsMatchTags
  <2> QED
    BY <1>7, <2>1 DEF ScoredRight
<1>10. ScoredRight(call[t].frontier \cup call[t].pool)
  BY <1>2 DEF GraphInv, VectorsMatchTags, ScoredRight
<1> HIDE DEF new
<1>11. /\ r \in Calls /\ r.pc = call[t].pc /\ r.loc = call[t].loc
       /\ r.frontier \cup r.pool \subseteq call[t].frontier \cup call[t].pool \cup new
  BY <1>3, <1>4 DEF Calls
<1> HIDE DEF r
<1>12. /\ \A d \in r.frontier \cup r.pool : d[1] \in Linked
       /\ ScoredRight(r.frontier \cup r.pool)
  BY <1>6, <1>8, <1>9, <1>10, <1>11 DEF ScoredRight
<1>13. Linked' = Linked
  <2>1. Empties' = Empties /\ Unlinked' = Unlinked
    BY <1>2, <1>11, CallsType DEF slots, Empties, Unlinked
  <2> QED
    BY <2>1 DEF Linked
<1>14. EdgesAreLinked'
  BY <1>2, <1>13, EdgesFrame
<1> QED
  BY <1>2, <1>5, <1>11, <1>12, <1>14, CallGraphFrame

\* The new node is linked, to nodes that are.
LEMMA InsertLinkGraph ==
  ASSUME SlotInv, GraphInv, ~conc, NEW t \in VThreads, InsertLink(t)
  PROVE  GraphInv'
<1>1. PICK S \in Pruned(Seen(t), call[t].loc) :
         /\ graph' = [graph EXCEPT ![call[t].loc] = KeptLinks(S)]
         /\ call' = [call EXCEPT ![t].pc = "inter", ![t].links = S, ![t].pool = {}]
  BY DEF InsertLink
<1> DEFINE r == [call[t] EXCEPT !.pc = "inter", !.links = S, !.pool = {}]
           n == call[t].loc
<1>2. /\ call' = [call EXCEPT ![t] = r] /\ UNCHANGED <<slots, vec, conso, files>>
      /\ call[t].pc = "expand" /\ n \in Locs
  BY <1>1, CallsType DEF InsertLink, SlotInv, CallsHaveLocs
<1>3. S \subseteq Linked /\ n \notin S /\ KeptLinks(S) = S
  BY <1>2 DEF Pruned, KeptLinks, GraphInv, CallsHoldLinked
<1>4. call[t] \in Calls /\ S \subseteq Nodes
  BY <1>3, CallsType, LinkedFacts
<1>5. r \in Calls /\ r.pc = "inter" /\ r.loc = n /\ r.links = S
  BY <1>4 DEF Calls
<1> HIDE DEF r
<1>6. conso.pc = "idle"
  BY <1>2, NoConsoBeside
<1>7. Empties' = Empties
  BY <1>2 DEF slots, Empties
<1>8. Unlinked' = Unlinked \ {n}
  <2>1. \A u \in VThreads : call'[u] = IF u = t THEN r ELSE call[u]
    BY <1>2, CallsType
  <2>2. \A u \in VThreads : InFlight(u) /\ call[u].loc = n => u = t
    BY <1>2 DEF GraphInv, CallsHoldLinked, InFlight
  <2> QED
    BY <1>2, <1>5, <2>1, <2>2 DEF Unlinked, InFlight
<1>9. Linked' = Linked \cup {n}
  <2>1. n \in Nodes /\ n \notin Empties
    BY <1>2, CallsType DEF GraphInv, CallsHoldLinked, InFlight
  <2> QED
    BY <1>7, <1>8, <2>1 DEF Linked
<1>10. EdgesAreLinked'
  <2>1. graph' = [graph EXCEPT ![n] = S] /\ n \in Nodes
    BY <1>1, <1>2, <1>3, CallsType
  <2> QED
    BY <1>3, <1>9, <2>1, CallsType, LinkedFacts DEF GraphInv, EdgesAreLinked
<1> QED
  BY <1>2, <1>3, <1>5, <1>6, <1>9, <1>10, CallGraphFrame

\* A back edge leads to the linked new point.
LEMMA InterInsertGraph ==
  ASSUME SlotInv, GraphInv, ~conc, NEW t \in VThreads, InterInsert(t)
  PROVE  GraphInv'
<1> DEFINE n == call[t].loc
           full(des) == n \notin graph[des] /\ Cardinality(graph[des]) >= Slack
<1>1. PICK des \in call[t].links :
         /\ graph' = IF full(des) THEN graph ELSE [graph EXCEPT ![des] = @ \cup {n}]
         /\ call' = [call EXCEPT ![t].links = @ \ {des},
                                 ![t].pc = IF full(des) THEN "prune" ELSE @,
                                 ![t].des = IF full(des) THEN des ELSE NoLoc,
                                 ![t].copy = IF full(des) THEN graph[des] \cup {n} ELSE {}]
  BY DEF InterInsert
<1> DEFINE r == [call[t] EXCEPT !.links = call[t].links \ {des},
                                !.pc = IF full(des) THEN "prune" ELSE call[t].pc,
                                !.des = IF full(des) THEN des ELSE NoLoc,
                                !.copy = IF full(des) THEN graph[des] \cup {n} ELSE {}]
<1>2. /\ call' = [call EXCEPT ![t] = r] /\ UNCHANGED <<slots, vec, conso, files>>
      /\ call[t].pc = "inter" /\ n \in Locs
  BY <1>1, CallsType DEF InterInsert, SlotInv, CallsHaveLocs
<1>3. /\ call[t] \in Calls /\ des \in Nodes /\ n \in Nodes /\ graph[des] \subseteq Nodes
      /\ n \in Linked /\ call[t].links \subseteq Linked
  BY <1>2, CallsType DEF Calls, GraphInv, CallsHoldLinked
<1>4. des \in Linked /\ graph[des] \cup {n} \subseteq Linked
  BY <1>3 DEF GraphInv, EdgesAreLinked
<1> HIDE DEF full
<1>5. /\ r \in Calls /\ r.pc \in {"inter", "prune"} /\ r.loc = n /\ r.links \subseteq call[t].links
      /\ r.pc = "prune" => r.des = des /\ r.copy = graph[des] \cup {n}
  BY <1>2, <1>3 DEF Calls
<1> HIDE DEF r
<1>6. conso.pc = "idle"
  BY <1>2, NoConsoBeside
<1>7. Linked' = Linked
  <2>1. Empties' = Empties /\ Unlinked' = Unlinked
    BY <1>2, <1>5, CallsType DEF slots, Empties, Unlinked
  <2> QED
    BY <2>1 DEF Linked
<1>8. EdgesAreLinked'
  <2>1. \A m \in Nodes : graph'[m] = graph[m] \/ (m = des /\ graph'[m] = graph[m] \cup {n})
    BY <1>1, <1>3, CallsType
  <2> QED
    BY <1>4, <1>7, <2>1, LinkedFacts DEF GraphInv, EdgesAreLinked
<1> QED
  BY <1>2, <1>3, <1>4, <1>5, <1>6, <1>7, <1>8, CallGraphFrame

\* The pruned back list is a part of the copy.
LEMMA InterPruneGraph ==
  ASSUME SlotInv, GraphInv, ~conc, NEW t \in VThreads, InterPrune(t)
  PROVE  GraphInv'
<1> DEFINE r == [call[t] EXCEPT !.pc = "inter", !.des = NoLoc, !.copy = {}]
<1>1. /\ call' = [call EXCEPT ![t] = r] /\ UNCHANGED <<slots, vec, conso, files>>
      /\ call[t].pc = "prune"
  BY CallsType DEF InterPrune
<1>2. PICK S : S \subseteq call[t].copy /\ graph' = [graph EXCEPT ![call[t].des] = S]
  BY DEF InterPrune, Pruned
<1>3. /\ call[t] \in Calls /\ call[t].loc \in Linked /\ call[t].links \subseteq Linked
      /\ call[t].copy \subseteq Linked
  BY <1>1, CallsType DEF GraphInv, CallsHoldLinked
<1>4. r \in Calls /\ r.pc = "inter" /\ r.loc = call[t].loc /\ r.links = call[t].links
  BY <1>3 DEF Calls
<1> HIDE DEF r
<1>5. conso.pc = "idle"
  BY <1>1, NoConsoBeside
<1>6. Linked' = Linked
  <2>1. Empties' = Empties /\ Unlinked' = Unlinked
    BY <1>1, <1>4, CallsType DEF slots, Empties, Unlinked
  <2> QED
    BY <2>1 DEF Linked
<1>7. EdgesAreLinked'
  <2>1. \A m \in Nodes : graph'[m] = graph[m] \/ graph'[m] = S
    BY <1>2, CallsType
  <2> QED
    BY <1>2, <1>3, <1>6, <2>1, LinkedFacts DEF GraphInv, EdgesAreLinked
<1> QED
  BY <1>1, <1>3, <1>4, <1>5, <1>6, <1>7, CallGraphFrame

\* A call that returns drops its candidates.
LEMMA ReturnGraph ==
  ASSUME SlotInv, GraphInv, ~conc, NEW t \in VThreads, InsertReturn(t) \/ SearchReturn(t)
  PROVE  GraphInv'
<1>1. /\ call' = [call EXCEPT ![t] = Idle] /\ UNCHANGED <<slots, vec, graph, conso, files>>
      /\ call[t].pc \in {"inter", "search"}
  BY DEF InsertReturn, SearchReturn
<1>2. Idle.pc = "idle" /\ Idle \in Calls
  BY CallsType DEF Idle
<1>3. conso.pc = "idle"
  BY <1>1, NoConsoBeside
<1>4. Linked' = Linked
  <2>1. Empties' = Empties /\ Unlinked' = Unlinked
    BY <1>1, <1>2, CallsType DEF slots, Empties, Unlinked
  <2> QED
    BY <2>1 DEF Linked
<1>5. EdgesAreLinked'
  BY <1>1, <1>4, EdgesFrame
<1> QED
  BY <1>1, <1>2, <1>3, <1>5, CallGraphFrame

\* Where the tables and the calls stay, the graph part stays.
LEMMA GraphFrame ==
  ASSUME GraphInv, UNCHANGED <<slots, vec, graph, call, conso, files>>
  PROVE  GraphInv'
<1>1. Empties' = Empties /\ locTag' = locTag /\ Unlinked' = Unlinked
  BY DEF slots, Empties, Unlinked
<1>2. Linked' = Linked
  BY <1>1 DEF Linked
<1>3. EdgesAreLinked'
  BY <1>2 DEF GraphInv, EdgesAreLinked
<1>4. CallsHoldLinked'
  BY <1>1, <1>2 DEF GraphInv, CallsHoldLinked, Seen, InFlight
<1>5. ConsoIsAlone' /\ ConsoRepairs'
  BY <1>1, <1>2 DEF GraphInv, ConsoIsAlone, ConsoRepairs
<1>6. VectorsMatchTags' /\ FileGraph'
  BY <1>1 DEF GraphInv, VectorsMatchTags, FileGraph, Tagged
<1> QED
  BY <1>3, <1>4, <1>5, <1>6 DEF GraphInv

\* The reserved slot was empty and is not linked yet: nothing leads to it.
LEMMA InsertReserveGraph ==
  ASSUME SlotInv, GraphInv, ~conc, NEW t \in VThreads, NEW tag \in VTags, InsertReserve(t, tag)
  PROVE  GraphInv'
<1> DEFINE x == Reserved
           r == [Idle EXCEPT !.pc = "write", !.loc = x, !.tag = tag]
<1>1. /\ locTag' = [locTag EXCEPT ![x] = tag] /\ call' = [call EXCEPT ![t] = r]
      /\ UNCHANGED <<vec, graph, conso, files>> /\ call[t].pc = "idle" /\ ~ExclusiveUpdate
  BY DEF InsertReserve
<1>2. x \in Locs /\ x \in Empties /\ Empties' = Empties \ {x}
  BY ReserveLemma DEF InsertReserve, Empties
<1>3. r.pc = "write" /\ r.loc = x /\ r.tag = tag /\ r.pool = {}
  BY DEF Idle
<1> HIDE DEF x, r
<1>4. /\ \A u \in VThreads : call'[u] = IF u = t THEN r ELSE call[u]
      /\ \A l \in Locs : locTag'[l] = IF l = x THEN tag ELSE locTag[l]
  BY <1>1, CallsType
<1>5. conso.pc = "idle"
  BY <1>1, NoConsoBeside
<1>6. Unlinked' = Unlinked \cup {x}
  BY <1>1, <1>3, <1>4 DEF Unlinked
<1>7. \A u \in VThreads : InFlight(u) => call[u].loc \in Locs \ Empties
  BY DEF GraphInv, CallsHoldLinked
<1>8. Linked' = Linked /\ x \notin Linked
  BY <1>2, <1>6 DEF Linked
<1>9. EdgesAreLinked'
  BY <1>1, <1>8, EdgesFrame
<1>10. CallsHoldLinked'
  <2> SUFFICES ASSUME NEW u \in VThreads
               PROVE  (/\ call[u].pc = "write" => call[u].pool = {}
                       /\ call[u].pc \in {"expand", "search"} => Seen(u) \subseteq Linked
                       /\ call[u].pc \in {"inter", "prune"} => call[u].loc \in Linked /\ call[u].links \subseteq Linked
                       /\ call[u].pc = "prune" => call[u].des \in Linked /\ call[u].copy \subseteq Linked
                       /\ InFlight(u) =>
                            /\ call[u].loc \in Locs \ Empties
                            /\ \A v \in VThreads : InFlight(v) /\ call[v].loc = call[u].loc => v = u)'
    BY DEF CallsHoldLinked
  <2>1. \A v \in VThreads : InFlight(v)' => \/ v = t /\ call'[v].loc = x
                                            \/ v # t /\ InFlight(v) /\ call'[v].loc = call[v].loc
    BY <1>3, <1>4 DEF InFlight
  <2>2. (InFlight(u) => /\ call[u].loc \in Locs \ Empties
                        /\ \A v \in VThreads : InFlight(v) /\ call[v].loc = call[u].loc => v = u)'
    BY <1>2, <1>7, <2>1 DEF GraphInv, CallsHoldLinked
  <2>3. CASE u = t
    BY <1>3, <1>4, <2>2, <2>3
  <2>4. CASE u # t
    <3>1. call'[u] = call[u] /\ Seen(u)' = Seen(u)
      BY <1>4, <2>4 DEF Seen
    <3> QED
      BY <1>8, <2>2, <3>1 DEF GraphInv, CallsHoldLinked
  <2> QED
    BY <2>3, <2>4
<1>11. VectorsMatchTags'
  <2>1. \A l \in Locs : (Tagged(l) /\ (\A u \in VThreads : call[u].pc = "write" => call[u].loc # l)
                           => vec[l] = locTag[l])'
    <3> SUFFICES ASSUME NEW l \in Locs, Tagged(l)',
                        \A u \in VThreads : call'[u].pc = "write" => call'[u].loc # l
                 PROVE  vec'[l] = locTag'[l]
      OBVIOUS
    <3>1. l # x
      BY <1>3, <1>4
    <3>2. \A u \in VThreads : call[u].pc = "write" => call[u].loc # l
      BY <1>1, <1>4
    <3> QED
      BY <1>1, <1>4, <3>1, <3>2 DEF GraphInv, VectorsMatchTags, Tagged
  <2>2. ASSUME NEW u \in VThreads
        PROVE  (/\ call[u].pc = "write" => locTag[call[u].loc] \in {call[u].tag, Blank}
                /\ call[u].pc \in {"expand", "search"} =>
                     \A c \in call[u].frontier \cup call[u].pool :
                       c[1] \in Locs /\ Tagged(c[1]) => c[2] = locTag[c[1]])'
    <3>1. CASE u = t
      BY <1>2, <1>3, <1>4, <3>1
    <3>2. CASE u # t
      <4>1. call'[u] = call[u]
        BY <1>4, <3>2
      <4>2. call[u].pc = "write" => call[u].loc \in Locs /\ call[u].loc # x
        BY <1>2, <1>7 DEF InFlight
      <4>3. call[u].pc \in {"expand", "search"} =>
              \A c \in call[u].frontier \cup call[u].pool : c[1] # x
        BY <1>8 DEF GraphInv, CallsHoldLinked, Seen
      <4> QED
        BY <1>4, <4>1, <4>2, <4>3 DEF GraphInv, VectorsMatchTags, Tagged
    <3> QED
      BY <3>1, <3>2
  <2> QED
    BY <2>1, <2>2 DEF VectorsMatchTags
<1>12. ConsoIsAlone' /\ ConsoRepairs' /\ FileGraph'
  BY <1>1, <1>5 DEF GraphInv, ConsoIsAlone, ConsoRepairs, FileGraph
<1> QED
  BY <1>9, <1>10, <1>11, <1>12 DEF GraphInv

\* The vector arrives at the reserved slot before anything scores it.
LEMMA InsertWriteGraph ==
  ASSUME SlotInv, GraphInv, ~conc, NEW t \in VThreads, InsertWrite(t)
  PROVE  GraphInv'
<1> DEFINE x == call[t].loc
           r == [call[t] EXCEPT !.pc = "expand", !.tag = Blank, !.frontier = {<<Frozen, vec[Frozen]>>}]
<1>1. /\ call' = [call EXCEPT ![t] = r] /\ UNCHANGED <<slots, graph, conso, files>>
      /\ call[t].pc = "write" /\ x \in Locs /\ vec' = [vec EXCEPT ![x] = call[t].tag]
  BY CallsType DEF InsertWrite, SlotInv, CallsHaveLocs
<1>2. call[t] \in Calls /\ call[t].pool = {} /\ locTag[x] \in {call[t].tag, Blank}
  BY <1>1, CallsType DEF GraphInv, CallsHoldLinked, VectorsMatchTags
<1>3. r.pc = "expand" /\ r.loc = x /\ r.pool = {} /\ r.frontier = {<<Frozen, vec[Frozen]>>}
  BY <1>2 DEF Calls
<1> HIDE DEF x, r
<1>4. /\ \A u \in VThreads : call'[u] = IF u = t THEN r ELSE call[u]
      /\ \A l \in Locs : l # x => vec'[l] = vec[l]
      /\ vec'[x] = call[t].tag
  BY <1>1, CallsType
<1>5. conso.pc = "idle"
  BY <1>1, NoConsoBeside
<1>6. Empties' = Empties /\ Unlinked' = Unlinked /\ locTag' = locTag
  BY <1>1, <1>3, <1>4 DEF slots, Empties, Unlinked, x
<1>7. Linked' = Linked
  BY <1>6 DEF Linked
<1>8. EdgesAreLinked'
  BY <1>1, <1>7, EdgesFrame
<1>9. CallsHoldLinked'
  <2> SUFFICES ASSUME NEW u \in VThreads
               PROVE  (/\ call[u].pc = "write" => call[u].pool = {}
                       /\ call[u].pc \in {"expand", "search"} => Seen(u) \subseteq Linked
                       /\ call[u].pc \in {"inter", "prune"} => call[u].loc \in Linked /\ call[u].links \subseteq Linked
                       /\ call[u].pc = "prune" => call[u].des \in Linked /\ call[u].copy \subseteq Linked
                       /\ InFlight(u) =>
                            /\ call[u].loc \in Locs \ Empties
                            /\ \A v \in VThreads : InFlight(v) /\ call[v].loc = call[u].loc => v = u)'
    BY DEF CallsHoldLinked
  <2>1. \A v \in VThreads : InFlight(v)' => InFlight(v) /\ call'[v].loc = call[v].loc
    BY <1>1, <1>3, <1>4 DEF InFlight, x
  <2>2. (InFlight(u) => /\ call[u].loc \in Locs \ Empties
                        /\ \A v \in VThreads : InFlight(v) /\ call[v].loc = call[u].loc => v = u)'
    BY <1>6, <2>1 DEF GraphInv, CallsHoldLinked
  <2>3. CASE u = t
    <3>1. Seen(u)' \subseteq {Frozen}
      <4> DEFINE C == (call[u].frontier \cup call[u].pool)'
      <4>1. C = {<<Frozen, vec[Frozen]>>}
        BY <1>3, <1>4, <2>3
      <4>2. Seen(u)' = {c[1] : c \in C}
        BY DEF Seen
      <4>3. <<Frozen, vec[Frozen]>>[1] = Frozen
        OBVIOUS
      <4> HIDE DEF C
      <4> QED
        BY <4>1, <4>2, <4>3
    <3> QED
      BY <1>3, <1>4, <1>7, <2>2, <2>3, <3>1, LinkedFacts
  <2>4. CASE u # t
    <3>1. call'[u] = call[u] /\ Seen(u)' = Seen(u)
      BY <1>4, <2>4 DEF Seen
    <3> QED
      BY <1>7, <2>2, <3>1 DEF GraphInv, CallsHoldLinked
  <2> QED
    BY <2>3, <2>4
<1>10. VectorsMatchTags'
  <2>1. \A l \in Locs : (Tagged(l) /\ (\A u \in VThreads : call[u].pc = "write" => call[u].loc # l)
                           => vec[l] = locTag[l])'
    <3> SUFFICES ASSUME NEW l \in Locs, Tagged(l)',
                        \A u \in VThreads : call'[u].pc = "write" => call'[u].loc # l
                 PROVE  vec'[l] = locTag'[l]
      OBVIOUS
    <3>1. CASE l = x
      BY <1>2, <1>4, <1>6, <3>1 DEF Tagged
    <3>2. CASE l # x
      <4>1. \A u \in VThreads : call[u].pc = "write" => call[u].loc # l
        BY <1>4, <3>2 DEF x
      <4> QED
        BY <1>4, <1>6, <3>2, <4>1 DEF GraphInv, VectorsMatchTags, Tagged
    <3> QED
      BY <3>1, <3>2
  <2>2. ASSUME NEW u \in VThreads
        PROVE  (/\ call[u].pc = "write" => locTag[call[u].loc] \in {call[u].tag, Blank}
                /\ call[u].pc \in {"expand", "search"} =>
                     \A c \in call[u].frontier \cup call[u].pool :
                       c[1] \in Locs /\ Tagged(c[1]) => c[2] = locTag[c[1]])'
    <3>1. CASE u = t
      BY <1>3, <1>4, <3>1, LinkedFacts
    <3>2. CASE u # t
      BY <1>4, <1>6, <3>2 DEF GraphInv, VectorsMatchTags, Tagged
    <3> QED
      BY <3>1, <3>2
  <2> QED
    BY <2>1, <2>2 DEF VectorsMatchTags
<1>11. ConsoIsAlone' /\ ConsoRepairs' /\ FileGraph'
  BY <1>1, <1>5 DEF GraphInv, ConsoIsAlone, ConsoRepairs, FileGraph
<1> QED
  BY <1>8, <1>9, <1>10, <1>11 DEF GraphInv

\* A deleted point stays linked until it is consolidated.
LEMMA LazyDeleteGraph ==
  ASSUME SlotInv, GraphInv, ~conc, NEW S \in SUBSET VTags, LazyDelete(S)
  PROVE  GraphInv'
<1>1. /\ UNCHANGED <<vec, graph, call, conso, files, emptySlots>>
      /\ \A l \in Locs : locTag'[l] \in {locTag[l], Blank}
  BY LazyDeleteSlots
<1>2. conso.pc = "idle"
  BY NoConsoBeside DEF LazyDelete
<1>3. Linked' = Linked /\ Empties' = Empties
  BY <1>1 DEF Linked, Empties, Unlinked
<1>4. EdgesAreLinked'
  BY <1>1, <1>3, EdgesFrame
<1>5. CallsHoldLinked'
  BY <1>1, <1>3 DEF GraphInv, CallsHoldLinked, Seen, InFlight
<1>6. VectorsMatchTags'
  <2>1. \A l \in Locs : Tagged(l)' => Tagged(l) /\ locTag'[l] = locTag[l]
    BY <1>1 DEF Tagged
  <2>2. \A u \in VThreads : call[u].pc = "write" => call[u].loc \in Locs
    BY DEF SlotInv, CallsHaveLocs
  <2> QED
    BY <1>1, <2>1, <2>2 DEF GraphInv, VectorsMatchTags
<1>7. ConsoIsAlone' /\ ConsoRepairs' /\ FileGraph'
  BY <1>1, <1>2 DEF GraphInv, ConsoIsAlone, ConsoRepairs, FileGraph
<1> QED
  BY <1>4, <1>5, <1>6, <1>7 DEF GraphInv

-----------------------------------------------------------------------------
(***************************************************************************)
(* The steps of a consolidation, alone in the index.                       *)
(***************************************************************************)
LEMMA ConsolidateStartGraph ==
  ASSUME SlotInv, GraphInv, ~conc, NEW t \in VThreads, ConsolidateStart(t)
  PROVE  GraphInv'
<1> DEFINE r == [call[t] EXCEPT !.pc = "consolidate"]
<1>1. /\ conso' = [NoConso EXCEPT !.pc = "process", !.by = t, !.old = deleteSet, !.todo = Nodes]
      /\ call' = [call EXCEPT ![t] = r]
      /\ UNCHANGED <<emptySlots, locTag, vec, graph, files>>
      /\ \A u \in VThreads : call[u].pc = "idle"
  BY CallsType DEF ConsolidateStart, NoReaders
<1>2. /\ conso'.pc = "process" /\ conso'.by = t /\ conso'.old = deleteSet /\ conso'.todo = Nodes
      /\ conso'.work = {}
  BY <1>1 DEF NoConso
<1>3. call[t] \in Calls /\ r.pc = "consolidate"
  BY CallsType DEF Calls
<1> HIDE DEF r
<1>4. \A u \in VThreads : call'[u].pc = IF u = t THEN "consolidate" ELSE "idle"
  BY <1>1, <1>3, CallsType
<1>5. Empties' = Empties /\ Unlinked = {} /\ Unlinked' = {}
  BY <1>1, <1>4 DEF Empties, Unlinked
<1>6. Linked' = Linked
  BY <1>5 DEF Linked
<1>7. EdgesAreLinked'
  BY <1>1, <1>6, EdgesFrame
<1>8. CallsHoldLinked' /\ ConsoIsAlone'
  BY <1>2, <1>4 DEF CallsHoldLinked, ConsoIsAlone, InFlight
<1>9. ConsoRepairs'
  <2>1. deleteSet \cap Empties = {} /\ Linked \subseteq Nodes
    BY LinkedFacts DEF SlotInv, Partition
  <2> QED
    BY <1>2, <1>5, <1>6, <2>1 DEF ConsoRepairs
<1>10. VectorsMatchTags' /\ FileGraph'
  BY <1>1, <1>4 DEF GraphInv, VectorsMatchTags, FileGraph, Tagged
<1> QED
  BY <1>7, <1>8, <1>9, <1>10 DEF GraphInv

\* Nothing but the list of one node, or what the consolidation knows of it, changes.
LEMMA ProcessFrame ==
  ASSUME SlotInv, GraphInv, conso.pc = "process", UNCHANGED <<slots, vec, call, files>>,
         conso'.pc = "process", conso'.by = conso.by, EdgesAreLinked', ConsoRepairs'
  PROVE  GraphInv'
<1>1. Empties' = Empties /\ Unlinked' = Unlinked /\ locTag' = locTag
  BY DEF slots, Empties, Unlinked
<1>2. Linked' = Linked
  BY <1>1 DEF Linked
<1>3. CallsHoldLinked'
  BY <1>1, <1>2 DEF GraphInv, CallsHoldLinked, Seen, InFlight
<1>4. ConsoIsAlone'
  BY DEF GraphInv, ConsoIsAlone
<1>5. VectorsMatchTags' /\ FileGraph'
  BY <1>1 DEF GraphInv, VectorsMatchTags, FileGraph, Tagged
<1> QED
  BY <1>3, <1>4, <1>5 DEF GraphInv

\* While process_delete runs, the points it has finished lead to no old one.
LEMMA ProcessFacts ==
  ASSUME SlotInv, GraphInv, conso.pc = "process"
  PROVE  /\ Unlinked = {} /\ Linked = Nodes \ Empties /\ conso.old \subseteq Linked
         /\ \A w \in conso.work : /\ w \in Work /\ w.loc \in Linked \ (conso.old \cup conso.todo)
                                  /\ w.ngh \subseteq conso.old /\ w.set \subseteq Linked \ conso.old
         /\ \A n \in Linked \ (conso.old \cup conso.todo) :
              (\A w \in conso.work : w.loc # n) => graph[n] \cap conso.old = {}
<1>1. Unlinked = {}
  BY DEF GraphInv, ConsoIsAlone, Unlinked
<1>2. conso.old \subseteq Locs /\ conso.work \subseteq Work
  BY CallsType DEF Consos
<1> QED
  BY <1>1, <1>2, CallsType DEF GraphInv, ConsoRepairs, Linked

\* A worker copies the neighbours to repair.
LEMMA ProcessReadGraph ==
  ASSUME SlotInv, GraphInv, NEW n \in Nodes, ProcessRead(n)
  PROVE  GraphInv'
<1> DEFINE v == [loc |-> n, ngh |-> graph[n] \cap conso.old, set |-> graph[n] \ conso.old]
           skip == n \in conso.old \cup Empties \/ graph[n] \cap conso.old = {}
           work == IF skip THEN conso.work ELSE conso.work \cup {v}
<1>1. /\ conso' = [conso EXCEPT !.todo = conso.todo \ {n}, !.work = work]
      /\ UNCHANGED <<slots, vec, graph, call, files>> /\ conso.pc = "process"
  BY DEF ProcessRead
<1>2. /\ conso'.pc = "process" /\ conso'.by = conso.by /\ conso'.old = conso.old
      /\ conso'.todo = conso.todo \ {n} /\ conso'.work = work
  <2> HIDE DEF work
  <2> QED
    BY <1>1, CallsType DEF Consos
<1>3. Empties' = Empties /\ Linked' = Linked
  BY <1>1 DEF slots, Empties, Linked, Unlinked
<1>4. EdgesAreLinked'
  BY <1>1, <1>3, EdgesFrame
<1>5. ConsoRepairs'
  <2>1. ASSUME NEW w \in work
        PROVE  /\ w.loc \in Linked \ (conso.old \cup conso'.todo)
               /\ w.ngh \subseteq conso.old /\ w.set \subseteq Linked \ conso.old
    <3>1. CASE w \in conso.work
      BY <1>1, <1>2, <3>1, ProcessFacts
    <3>2. CASE ~skip /\ w = v
      <4>1. n \in Linked /\ graph[n] \subseteq Linked
        BY <1>1, <3>2, ProcessFacts DEF GraphInv, EdgesAreLinked
      <4> QED
        BY <1>2, <3>2, <4>1
    <3> QED
      BY <3>1, <3>2
  <2>2. ASSUME NEW m \in Linked \ (conso.old \cup conso'.todo), \A w \in work : w.loc # m
        PROVE  graph[m] \cap conso.old = {}
    <3>1. CASE m = n
      <4>1. skip
        <5>1. v.loc = n
          OBVIOUS
        <5> HIDE DEF v, skip
        <5>2. skip \/ v \in work
          OBVIOUS
        <5> QED
          BY <2>2, <3>1, <5>1, <5>2
      <4> QED
        BY <1>1, <3>1, <4>1, ProcessFacts
    <3>2. CASE m # n
      BY <1>1, <1>2, <2>2, <3>2, ProcessFacts
    <3> QED
      BY <3>1, <3>2
  <2> HIDE DEF work
  <2> QED
    BY <1>1, <1>2, <1>3, <2>1, <2>2 DEF GraphInv, ConsoRepairs
<1> QED
  BY <1>1, <1>2, <1>4, <1>5, ProcessFrame

\* A worker replaces an old neighbour by its neighbours.
LEMMA ProcessExpandGraph ==
  ASSUME SlotInv, GraphInv, conso.pc = "process",
         NEW w \in conso.work, NEW d \in w.ngh, ProcessExpand(w, d)
  PROVE  GraphInv'
<1> DEFINE v == [w EXCEPT !.ngh = w.ngh \ {d},
                          !.set = w.set \cup (graph[d] \ (conso.old \cup {w.loc}))]
           work == (conso.work \ {w}) \cup {v}
<1>1. conso' = [conso EXCEPT !.work = work] /\ UNCHANGED <<slots, vec, graph, call, files>>
  BY DEF ProcessExpand
<1>2. /\ conso'.pc = "process" /\ conso'.by = conso.by /\ conso'.old = conso.old
      /\ conso'.todo = conso.todo /\ conso'.work = work
  <2> HIDE DEF work
  <2> QED
    BY <1>1, CallsType DEF Consos
<1>3. Empties' = Empties /\ Linked' = Linked
  BY <1>1 DEF slots, Empties, Linked, Unlinked
<1>4. EdgesAreLinked'
  BY <1>1, <1>3, EdgesFrame
<1>5. w \in Work /\ graph[d] \subseteq Linked
  BY ProcessFacts DEF GraphInv, EdgesAreLinked
<1>6. /\ v.loc = w.loc /\ v.ngh \subseteq w.ngh
      /\ v.set = w.set \cup (graph[d] \ (conso.old \cup {w.loc}))
  BY <1>5 DEF Work
<1> HIDE DEF v
<1>7. ConsoRepairs'
  <2>1. ASSUME NEW u \in work
        PROVE  /\ u.loc \in Linked \ (conso.old \cup conso.todo)
               /\ u.ngh \subseteq conso.old /\ u.set \subseteq Linked \ conso.old
    BY <1>5, <1>6, ProcessFacts
  <2>2. ASSUME NEW m \in Linked \ (conso.old \cup conso.todo), \A u \in work : u.loc # m
        PROVE  graph[m] \cap conso.old = {}
    <3>1. \A u \in conso.work : u.loc # m
      BY <1>6, <2>2
    <3> QED
      BY <3>1, ProcessFacts
  <2> HIDE DEF work
  <2> QED
    BY <1>1, <1>2, <1>3, <2>1, <2>2 DEF GraphInv, ConsoRepairs
<1> QED
  BY <1>1, <1>2, <1>4, <1>7, ProcessFrame

\* A worker writes its repaired list back.
LEMMA ProcessWriteGraph ==
  ASSUME SlotInv, GraphInv, conso.pc = "process", NEW w \in conso.work, ProcessWrite(w)
  PROVE  GraphInv'
<1>1. /\ conso' = [conso EXCEPT !.work = conso.work \ {w}] /\ UNCHANGED <<slots, vec, call, files>>
  BY DEF ProcessWrite
<1>2. /\ conso'.pc = "process" /\ conso'.by = conso.by /\ conso'.old = conso.old
      /\ conso'.todo = conso.todo /\ conso'.work = conso.work \ {w}
  BY <1>1, CallsType DEF Consos
<1>3. PICK S : S \subseteq w.set /\ graph' = [graph EXCEPT ![w.loc] = S]
  BY DEF ProcessWrite, Pruned
<1>4. Empties' = Empties /\ Linked' = Linked
  BY <1>1 DEF slots, Empties, Linked, Unlinked
<1>5. S \subseteq Linked \ conso.old
  BY <1>3, ProcessFacts
<1>6. \A n \in Nodes : graph'[n] = IF n = w.loc THEN S ELSE graph[n]
  BY <1>3, CallsType
<1>7. EdgesAreLinked'
  BY <1>4, <1>5, <1>6, LinkedFacts DEF GraphInv, EdgesAreLinked
<1>8. ConsoRepairs'
  <2>1. ASSUME NEW m \in Linked \ (conso.old \cup conso.todo),
               \A u \in conso.work \ {w} : u.loc # m
        PROVE  graph'[m] \cap conso.old = {}
    <3>1. m \in Nodes
      BY LinkedFacts
    <3>2. CASE m = w.loc
      BY <1>5, <1>6, <3>1, <3>2
    <3>3. CASE m # w.loc
      BY <1>6, <2>1, <3>1, <3>3, ProcessFacts
    <3> QED
      BY <3>2, <3>3
  <2> QED
    BY <1>1, <1>2, <1>4, <2>1 DEF GraphInv, ConsoRepairs
<1> QED
  BY <1>1, <1>2, <1>7, <1>8, ProcessFrame

\* Once every list is repaired, the deleted locations become empty: no linked node
\* leads to them any more.
LEMMA ConsolidateEndGraph ==
  ASSUME SlotInv, GraphInv, ConsolidateEnd
  PROVE  GraphInv'
<1>1. /\ conso.pc = "process" /\ conso.todo = {} /\ conso.work = {}
      /\ call' = [call EXCEPT ![conso.by] = Idle] /\ conso' = NoConso
  BY DEF ConsolidateEnd
<1>2. UNCHANGED <<locTag, vec, graph, files>> /\ Empties' = Empties \cup conso.old
  BY ConsolidateEndSlots
<1>3. \A u \in VThreads : call'[u].pc = "idle"
  BY <1>1, CallsType DEF GraphInv, ConsoIsAlone, Idle
<1>4. conso'.pc = "idle"
  BY <1>1 DEF NoConso
<1>5. Linked' = Linked \ conso.old
  <2>1. Unlinked' = {}
    BY <1>3 DEF Unlinked
  <2> QED
    BY <1>1, <1>2, <2>1, ProcessFacts DEF Linked
<1>6. EdgesAreLinked'
  <2>1. \A n \in Linked \ conso.old : graph[n] \cap conso.old = {} /\ graph[n] \subseteq Linked
    BY <1>1, ProcessFacts DEF GraphInv, EdgesAreLinked
  <2> QED
    BY <1>2, <1>5, <2>1 DEF EdgesAreLinked
<1>7. CallsHoldLinked' /\ ConsoIsAlone' /\ ConsoRepairs'
  BY <1>3, <1>4 DEF CallsHoldLinked, ConsoIsAlone, ConsoRepairs, InFlight
<1>8. VectorsMatchTags' /\ FileGraph'
  <2>1. \A u \in VThreads : call[u].pc # "write"
    BY <1>1 DEF GraphInv, ConsoIsAlone
  <2> QED
    BY <1>2, <1>3, <2>1 DEF GraphInv, VectorsMatchTags, FileGraph, Tagged
<1> QED
  BY <1>6, <1>7, <1>8 DEF GraphInv

-----------------------------------------------------------------------------
(***************************************************************************)
(* Save and load, and the graph.                                           *)
(***************************************************************************)

\* save moves the points and their edges together.
LEMMA SaveGraph ==
  ASSUME SlotInv, GraphInv, ~damaged', Save
  PROVE  GraphInv'
<1>1. /\ TaggedLocs' = Packed /\ Empties' = Locs \ Packed
      /\ UNCHANGED <<nd, call, conso>>
  BY SaveSlots
<1>2. conso.pc = "idle" /\ \A u \in VThreads : call[u].pc = "idle"
  BY DEF Save, Quiet, NoReaders
<1>3. TaggedLocs = Locs \ Empties /\ nd \in Nat /\ nd <= MaxPoints
  BY SaveFindsClean
<1>4. Packed \subseteq Locs /\ Nodes = Locs \cup {Frozen} /\ Frozen \notin Locs
  BY <1>3, VamanaAssumption DEF Packed, Locs, Nodes, Frozen
<1>5. Linked = TaggedLocs \cup {Frozen} /\ Linked' = Packed \cup {Frozen}
  <2>1. Unlinked = {} /\ Unlinked' = {}
    BY <1>1, <1>2 DEF Unlinked
  <2> QED
    BY <1>1, <1>3, <1>4, <2>1, LinkedFacts DEF Linked
<1>6. \A n \in Packed \cup {Frozen} : graph'[n] \subseteq Packed \cup {Frozen}
  BY <1>5, SaveMoves DEF GraphInv, EdgesAreLinked
<1>7. EdgesAreLinked'
  BY <1>5, <1>6 DEF EdgesAreLinked
<1>8. CallsHoldLinked' /\ ConsoIsAlone' /\ ConsoRepairs'
  BY <1>1, <1>2 DEF CallsHoldLinked, ConsoIsAlone, ConsoRepairs, InFlight
<1>9. \A l \in Packed : vec'[l] = locTag'[l] /\ locTag'[l] # Blank
  <2>1. PICK move : /\ IsMove(move)
                    /\ \A l \in Packed : locTag'[l] = locTag[move[l]] /\ vec'[l] = vec[move[l]]
    BY SaveMoves
  <2>2. \A l \in TaggedLocs : vec[l] = locTag[l] /\ locTag[l] # Blank
    BY <1>2 DEF GraphInv, VectorsMatchTags, TaggedLocs, Tagged
  <2> QED
    BY <2>1, <2>2 DEF IsMove
<1>10. VectorsMatchTags'
  <2>1. \A l \in Locs : Tagged(l)' => l \in Packed
    BY <1>1 DEF TaggedLocs
  <2> QED
    BY <1>1, <1>2, <1>9, <2>1 DEF VectorsMatchTags
<1>11. FileGraph'
  <2>1. /\ files'.points = nd
        /\ files'.tag = [l \in Packed |-> IF locTag'[l] = Blank THEN Zero ELSE locTag'[l]]
        /\ files'.vec = [l \in Packed |-> vec'[l]]
        /\ files'.graph = [n \in Packed \cup {Frozen} |-> graph'[n]]
    BY SaveWrites
  <2>2. 0..(files'.points - 1) = Packed
    BY <2>1 DEF Packed
  <2> QED
    BY <1>6, <1>9, <2>1, <2>2 DEF FileGraph
<1> QED
  BY <1>7, <1>8, <1>10, <1>11 DEF GraphInv

\* load reads a graph that save wrote.
LEMMA LoadGraph ==
  ASSUME SlotInv, GraphInv, Load
  PROVE  GraphInv'
<1> DEFINE occupied == 0..(nd' - 1)
<1>1. /\ files.points = nd' /\ nd' \in Nat /\ nd' < MaxPoints /\ files.points # -1
      /\ locTag' = [l \in Locs |-> IF l \in occupied THEN files.tag[l] ELSE Blank]
      /\ vec' = [n \in Nodes |-> IF n = Frozen THEN Zero
                                 ELSE IF n \in occupied THEN files.vec[n] ELSE Blank]
      /\ graph' = [n \in Nodes |-> IF n = Frozen \/ n \in occupied THEN files.graph[n] ELSE {}]
      /\ files' = NoFiles /\ conso = NoConso /\ UNCHANGED <<call, conso>>
  BY LoadReads
<1>2. TaggedLocs' = occupied /\ Empties' = Locs \ occupied
  BY LoadSlots
<1>3. conso'.pc = "idle" /\ \A u \in VThreads : call'[u].pc = "idle"
  BY <1>1 DEF Load, Quiet, NoReaders
<1>4. /\ \A n \in occupied \cup {Frozen} : files.graph[n] \subseteq occupied \cup {Frozen}
      /\ \A l \in occupied : files.vec[l] = files.tag[l]
  BY <1>1 DEF GraphInv, FileGraph
<1>5. occupied \subseteq Locs /\ Nodes = Locs \cup {Frozen} /\ Frozen \notin Locs
  <2>1. occupied \subseteq Locs
    <3>1. \A m \in Nat : m < MaxPoints => 0 .. m - 1 \subseteq 0 .. MaxPoints - 1
      BY VamanaAssumption
    <3> QED
      BY <1>1, <3>1 DEF Locs
  <2>2. Frozen \notin Locs
    BY VamanaAssumption DEF Locs, Frozen
  <2> QED
    BY <2>1, <2>2 DEF Nodes
<1> HIDE DEF occupied
<1>6. Linked' = occupied \cup {Frozen}
  <2>1. Unlinked' = {}
    BY <1>3 DEF Unlinked
  <2> QED
    BY <1>2, <1>5, <2>1 DEF Linked
<1>7. EdgesAreLinked'
  BY <1>1, <1>4, <1>5, <1>6 DEF EdgesAreLinked
<1>8. CallsHoldLinked' /\ ConsoIsAlone' /\ ConsoRepairs'
  BY <1>3 DEF CallsHoldLinked, ConsoIsAlone, ConsoRepairs, InFlight
<1>9. VectorsMatchTags'
  <2>1. \A l \in Locs : Tagged(l)' => vec'[l] = locTag'[l]
    BY <1>1, <1>4, <1>5 DEF Tagged
  <2> QED
    BY <1>3, <2>1 DEF VectorsMatchTags
<1>10. FileGraph'
  BY <1>1 DEF FileGraph, NoFiles
<1> QED
  BY <1>7, <1>8, <1>9, <1>10 DEF GraphInv

\* The constructor's graph has the frozen point only.
LEMMA InitGraph ==
  ASSUME VInit
  PROVE  GraphInv
<1>1. /\ graph = [n \in Nodes |-> {}] /\ call = [t \in VThreads |-> Idle]
      /\ locTag = [l \in Locs |-> Blank] /\ conso = NoConso /\ files = NoFiles
  BY DEF VInit
<1>2. Idle.pc = "idle" /\ NoConso.pc = "idle" /\ NoFiles.points = -1
  BY DEF Idle, NoConso, NoFiles
<1>3. EdgesAreLinked
  BY <1>1 DEF EdgesAreLinked, Linked
<1> QED
  BY <1>1, <1>2, <1>3 DEF GraphInv, CallsHoldLinked, ConsoIsAlone, ConsoRepairs,
       VectorsMatchTags, FileGraph, InFlight, Tagged

\* GraphInv is inductive as long as consolidation excludes the other calls.
LEMMA GraphStep ==
  ASSUME SlotInv, GraphInv, ~conc, ~damaged', VNext
  PROVE  GraphInv'
<1>1. ASSUME NEW t \in VThreads, NEW tag \in VTags, InsertReserve(t, tag)
      PROVE  GraphInv'
  BY <1>1, InsertReserveGraph
<1>2. ASSUME NEW t \in VThreads, NEW tag \in VTags, InsertDuplicate(t, tag)
      PROVE  GraphInv'
  BY <1>2, InsertDuplicateSlots, GraphFrame
<1>3. ASSUME NEW t \in VThreads,
             \/ InsertWrite(t) \/ InsertLink(t) \/ InterInsert(t) \/ InterPrune(t) \/ InsertReturn(t)
             \/ SearchStart(t) \/ SearchReturn(t) \/ Expand(t)
      PROVE  GraphInv'
  BY <1>3, InsertWriteGraph, InsertLinkGraph, InterInsertGraph, InterPruneGraph, ReturnGraph,
     SearchStartGraph, ExpandGraph
<1>4. ASSUME NEW t \in VThreads, ConsolidateStart(t)
      PROVE  GraphInv'
  BY <1>4, ConsolidateStartGraph
<1>5. ASSUME NEW S \in SUBSET VTags, LazyDelete(S)
      PROVE  GraphInv'
  BY <1>5, LazyDeleteGraph
<1>6. ASSUME NEW n \in Nodes, ProcessRead(n)
      PROVE  GraphInv'
  BY <1>6, ProcessReadGraph
<1>7. ASSUME NEW w \in conso.work, ProcessWrite(w) \/ \E d \in w.ngh : ProcessExpand(w, d)
      PROVE  GraphInv'
  <2>1. conso.pc = "process"
    BY CallsType DEF SlotInv, ConsoMatchesCalls, NoConso, Consos
  <2> QED
    BY <1>7, <2>1, ProcessWriteGraph, ProcessExpandGraph
<1> QED
  BY <1>1, <1>2, <1>3, <1>4, <1>5, <1>6, <1>7, ConsolidateEndGraph, SaveGraph, LoadGraph DEF VNext

\* Without concurrent consolidation what is linked leads only to what is linked, what a
\* call holds stays linked, and every scored candidate carries its location's vector.
THEOREM GraphInvariance == VSpec => []GraphInvariant
<1>1. VInit => GraphInvariant
  BY InitGraph DEF GraphInvariant
<1>2. (~damaged => SlotInv) /\ GraphInvariant /\ [VNext]_vvars => GraphInvariant'
  <2> SUFFICES ASSUME ~damaged => SlotInv, GraphInvariant, [VNext]_vvars, ~conc', ~damaged'
               PROVE  GraphInv'
    BY DEF GraphInvariant
  <2>1. conc' = conc
    BY DEF VNext, vvars, InsertReserve, InsertDuplicate, InsertWrite, InsertLink, InterInsert,
           InterPrune, InsertReturn, SearchStart, SearchReturn, Expand, ConsolidateStart,
           LazyDelete, ProcessRead, ProcessExpand, ProcessWrite, ConsolidateEnd, Save, Load
  <2>2. SlotInv /\ GraphInv /\ ~conc
    BY <2>1, DamageStays DEF GraphInvariant
  <2>3. CASE VNext
    BY <2>2, <2>3, GraphStep
  <2>4. CASE UNCHANGED vvars
    BY <2>2, <2>4, GraphFrame DEF vvars, slots
  <2> QED
    BY <2>3, <2>4
<1> QED
  BY <1>1, <1>2, SlotInvariance, PTL DEF VSpec

\* The graph never leads a search or an insert to a slot that was given back.
THEOREM NoEdgeToEmptySlotHolds == VSpec => []NoEdgeToEmptySlot
<1>1. GraphInvariant => NoEdgeToEmptySlot
  BY DEF GraphInvariant, GraphInv, EdgesAreLinked, Linked, NoEdgeToEmptySlot
<1> QED
  BY <1>1, GraphInvariance, PTL

\* A search reports no tag with another vector's distance.
THEOREM SearchScoresItsTagHolds == VSpec => []SearchScoresItsTag
<1>1. GraphInvariant => SearchScoresItsTag
  BY DEF GraphInvariant, GraphInv, VectorsMatchTags, SearchScoresItsTag, Results
<1> QED
  BY <1>1, GraphInvariance, PTL

-----------------------------------------------------------------------------
(* The static index: the sums, folds and orders its build is made of. *)

\* The sum of integers is one.
LEMMA TotalType ==
  ASSUME NEW n \in Nat, NEW s \in [1 .. n -> Int]
  PROVE  Total(s) \in Int
<1> DEFINE Step(g, i) == IF i = 0 THEN 0 ELSE CHOOSE r \in {t + s[i] : t \in {g[i - 1]}} : TRUE
           Sums(g) == g = [i \in 0 .. n |-> Step(g, i)]
           F == [i \in 1 .. n |-> [t \in Int |-> t + s[i]]]
<1>1. Len(s) = n
  BY FunctionIsSeq
<1>2. \A t \in Int, i \in 1 .. n : t + s[i] \in Int
  OBVIOUS
<1>3. PICK f \in [0 .. n -> Int] : f[0] = 0 /\ \A i \in 1 .. n : f[i] = F[i][f[i - 1]]
  <2> DEFINE a == 0
             S == Int
  <2>1. F \in [1 .. n -> [S -> S]]
    BY <1>2
  <2>2. a \in S
    OBVIOUS
  <2> HIDE DEF F, a, S
  <2>3. \E f \in [0 .. n -> S] : IteratesTo(f, n, a, F)
    BY <2>1, <2>2, BoundedIteration
  <2> QED
    BY <2>3 DEF a, S, IteratesTo
<1>4. ASSUME NEW i \in 0 .. n PROVE f[i] = Step(f, i)
  <2>1. CASE i = 0
    BY <1>3, <2>1
  <2>2. CASE i # 0
    <3>1. i \in 1 .. n /\ i - 1 \in 0 .. n /\ f[i - 1] \in Int
      BY <2>2
    <3>2. f[i] = f[i - 1] + s[i]
      BY <1>3, <3>1
    <3>3. \A x : (CHOOSE r \in {t + s[i] : t \in {x}} : TRUE) = x + s[i]
      OBVIOUS
    <3> QED
      BY <2>2, <3>2, <3>3
  <2> QED
    BY <2>1, <2>2
<1>5. Sums(f)
  <2>1. f = [i \in 0 .. n |-> f[i]]
    OBVIOUS
  <2> HIDE DEF Step
  <2> QED
    BY <1>4, <2>1
<1> DEFINE g == CHOOSE h : Sums(h)
<1>6. Sums(g)
  <2> HIDE DEF Sums
  <2> QED
    BY <1>5
<1>7. Total(s) = g[n]
  BY <1>1 DEF Total, FoldOver
<1> HIDE DEF g
<1>8. \A i \in 0 .. n : g[i] = Step(g, i)
  <2> HIDE DEF Step
  <2> QED
    BY <1>6
<1> DEFINE P == {i \in 0 .. n : g[i] \in Int}
<1>9. 0 \in P
  <2>1. 0 \in 0 .. n
    OBVIOUS
  <2>2. g[0] = Step(g, 0)
    BY <1>8, <2>1
  <2> QED
    BY <2>1, <2>2
<1>10. ASSUME NEW i \in P, i < n PROVE i + 1 \in P
  <2>1. i + 1 \in 0 .. n /\ i + 1 # 0 /\ (i + 1) - 1 = i /\ i + 1 \in 1 .. n /\ g[i] \in Int
    BY <1>10
  <2>2. \A x : (CHOOSE r \in {t + s[i + 1] : t \in {x}} : TRUE) = x + s[i + 1]
    OBVIOUS
  <2>3. g[i + 1] = g[i] + s[i + 1]
    BY <1>8, <2>1, <2>2
  <2> QED
    BY <1>2, <2>1, <2>3
<1>11. P = 0 .. n
  <2>1. P \in SUBSET (0 .. n)
    OBVIOUS
  <2> HIDE DEF P
  <2> QED
    BY <1>9, <1>10, <2>1, BoundedInduction
<1> QED
  BY <1>7, <1>11

-----------------------------------------------------------------------------
(* RobustPrune under l2: p holds the candidates of a location, itself not among them. *)

Candidates(p, location) ==
  /\ p \in Seq([id : DOMAIN vb.at, d : Int])
  /\ \A i \in DOMAIN p : p[i].id # location
\* The states of occlude_list over p.
Marks(p) == {<<Between(p[i].id, p[t].id), p[i].id>> : i \in DOMAIN p, t \in DOMAIN p}
PruneStates(p) ==
  [taken : SUBSET DOMAIN p, kept : Seq(DOMAIN vb.at), facts : [DOMAIN p -> SUBSET Marks(p)]]
\* What was taken is kept, and what a candidate was measured against is kept and may occlude it.
KeptIsFair(p, s) ==
  /\ \A t \in s.taken : p[t].id \in Set(s.kept)
  /\ \A t \in DOMAIN p : \A f \in s.facts[t] :
       f[2] \in Set(s.kept) /\ f[1] = Between(f[2], p[t].id) /\ MayOcclude(f[2], p[t].id)
\* Candidate t was decided: there is no room, it was taken, or it is occluded for good.
Decided(c, p, degree, rounds, s, t) ==
  Len(s.kept) >= degree \/ t \in s.taken \/ Occluded(c, p[t].d, s.facts[t], rounds)
\* u goes on from s.
GoesOn(p, s, u) ==
  /\ s.taken \subseteq u.taken /\ Len(s.kept) <= Len(u.kept)
  /\ \A t \in DOMAIN p : s.facts[t] \subseteq u.facts[t]

\* What was decided stays decided.
LEMMA DecidedLemma ==
  ASSUME NEW c, c.metric # "ip", NEW p, NEW degree \in Nat, NEW rounds, NEW t \in DOMAIN p,
         NEW s \in PruneStates(p), NEW u \in PruneStates(p), GoesOn(p, s, u),
         Decided(c, p, degree, rounds, s, t)
  PROVE  Decided(c, p, degree, rounds, u, t)
<1>1. CASE Len(s.kept) >= degree
  <2>1. Len(s.kept) \in Nat /\ Len(u.kept) \in Nat /\ Len(s.kept) <= Len(u.kept)
    BY DEF PruneStates, GoesOn
  <2> QED
    BY <1>1, <2>1 DEF Decided
<1>2. CASE t \in s.taken
  BY <1>2 DEF Decided, GoesOn
<1>3. CASE Occluded(c, p[t].d, s.facts[t], rounds)
  BY <1>3 DEF Decided, GoesOn, Occluded
<1> QED
  BY <1>1, <1>2, <1>3 DEF Decided

\* One candidate of one round.
LEMMA ConsiderLemma ==
  ASSUME NEW c, c.metric # "ip", NEW location, NEW p, Candidates(p, location), NEW degree \in Nat, NEW rounds,
         NEW k, NEW i \in DOMAIN p, NEW s \in PruneStates(p), KeptIsFair(p, s)
  PROVE  LET u == Consider(c, p, location, degree, rounds, s, k, i)
         IN /\ u \in PruneStates(p) /\ KeptIsFair(p, u) /\ GoesOn(p, s, u)
            /\ k = rounds => Decided(c, p, degree, rounds, u, i)
<1> DEFINE u == Consider(c, p, location, degree, rounds, s, k, i)
           skip == Len(s.kept) >= degree \/ i \in s.taken \/ Occluded(c, p[i].d, s.facts[i], k)
           spared(t) == t <= i \/ t \in s.taken \/ Occluded(c, p[t].d, s.facts[t], rounds)
                          \/ ~MayOcclude(p[i].id, p[t].id)
           facts == [t \in DOMAIN p |->
                       IF spared(t) THEN s.facts[t] ELSE s.facts[t] \cup Measure(c, p[i], p[t], k)]
<1>1. CASE skip
  <2>1. u = s
    BY <1>1 DEF Consider
  <2>2. GoesOn(p, s, s)
    BY DEF GoesOn, PruneStates
  <2>3. k = rounds => Decided(c, p, degree, rounds, s, i)
    BY <1>1 DEF Decided
  <2> QED
    BY <2>1, <2>2, <2>3
<1>2. CASE ~skip
  <2> HIDE DEF skip
  <2>1. p[i].id # location /\ p[i].id \in DOMAIN vb.at
    <3>1. p \in Seq([id : DOMAIN vb.at, d : Int])
      BY DEF Candidates
    <3>2. p[i] \in [id : DOMAIN vb.at, d : Int]
      BY <3>1, MemberLemma
    <3> QED
      BY <3>2 DEF Candidates
  <2>2. u = [taken |-> s.taken \cup {i}, kept |-> Append(s.kept, p[i].id), facts |-> facts]
    BY <1>2, <2>1 DEF Consider, skip
  <2> HIDE DEF u, spared
  <2>3. \A t \in DOMAIN p : Measure(c, p[i], p[t], k) = {<<Between(p[i].id, p[t].id), p[i].id>>}
    BY DEF Measure
  <2>4. facts \in [DOMAIN p -> SUBSET Marks(p)]
    <3>1. \A t \in DOMAIN p : Measure(c, p[i], p[t], k) \subseteq Marks(p)
      BY <2>3 DEF Marks
    <3> QED
      BY <3>1 DEF PruneStates
  <2>5. Append(s.kept, p[i].id) \in Seq(DOMAIN vb.at)
        /\ Set(Append(s.kept, p[i].id)) = Set(s.kept) \cup {p[i].id}
        /\ Len(s.kept) \in Nat /\ Len(Append(s.kept, p[i].id)) = Len(s.kept) + 1
    <3>1. s.kept \in Seq(DOMAIN vb.at)
      BY DEF PruneStates
    <3> DEFINE D == DOMAIN vb.at
               l == s.kept
               x == p[i].id
               q == Append(l, x)
    <3>2. l \in Seq(D) /\ x \in D
      BY <2>1, <3>1
    <3> HIDE DEF D, l, x
    <3>3. /\ q \in Seq(D) /\ Len(l) \in Nat /\ Len(q) = Len(l) + 1
          /\ {q[j] : j \in DOMAIN q} = {l[j] : j \in DOMAIN l} \cup {x}
      BY <3>2, AppendLemma
    <3> QED
      BY <3>3 DEF Set, D, l, x
  <2>6. u \in PruneStates(p)
    BY <2>2, <2>4, <2>5 DEF PruneStates
  <2>7. \A t \in DOMAIN p : s.facts[t] \subseteq facts[t]
    OBVIOUS
  <2>8. GoesOn(p, s, u)
    BY <2>2, <2>5, <2>7 DEF GoesOn
  <2>9. KeptIsFair(p, u)
    <3>1. \A t \in u.taken : p[t].id \in Set(u.kept)
      BY <2>2, <2>5 DEF KeptIsFair
    <3>2. ASSUME NEW t \in DOMAIN p, NEW f \in facts[t]
          PROVE  f[2] \in Set(u.kept) /\ f[1] = Between(f[2], p[t].id) /\ MayOcclude(f[2], p[t].id)
      <4>1. CASE f \in s.facts[t]
        BY <2>2, <2>5, <4>1 DEF KeptIsFair
      <4>2. CASE f \notin s.facts[t]
        <5>1. ~spared(t) /\ f = <<Between(p[i].id, p[t].id), p[i].id>>
          BY <2>3, <3>2, <4>2
        <5>2. MayOcclude(p[i].id, p[t].id)
          BY <5>1 DEF spared
        <5> QED
          BY <2>2, <2>5, <5>1, <5>2
      <4> QED
        BY <4>1, <4>2
    <3> HIDE DEF facts
    <3> QED
      BY <2>2, <3>1, <3>2 DEF KeptIsFair
  <2>10. Decided(c, p, degree, rounds, u, i)
    BY <2>2 DEF Decided
  <2> QED
    BY <2>6, <2>8, <2>9, <2>10 DEF u
<1> QED
  BY <1>1, <1>2

\* Going on twice is going on.
LEMMA GoesOnLemma ==
  ASSUME NEW p, NEW r \in PruneStates(p), NEW s \in PruneStates(p), NEW u \in PruneStates(p),
         GoesOn(p, r, s), GoesOn(p, s, u)
  PROVE  GoesOn(p, r, u)
<1>1. Len(r.kept) \in Nat /\ Len(s.kept) \in Nat /\ Len(u.kept) \in Nat
  BY DEF PruneStates
<1> QED
  BY <1>1 DEF GoesOn

FairStates(p) == {s \in PruneStates(p) : KeptIsFair(p, s)}

\* One round takes every candidate in turn; the last one decides each.
LEMMA RoundLemma ==
  ASSUME NEW c, c.metric # "ip", NEW location, NEW p, Candidates(p, location), NEW degree \in Nat, NEW rounds,
         NEW k, NEW s \in FairStates(p)
  PROVE  LET u == OccludeRound(c, p, location, degree, rounds, s, k)
         IN /\ u \in FairStates(p) /\ GoesOn(p, s, u)
            /\ k = rounds => \A t \in DOMAIN p : Decided(c, p, degree, rounds, u, t)
<1> DEFINE n == Len(p)
           ids == [i \in DOMAIN p |-> i]
           Op(u, i) == Consider(c, p, location, degree, rounds, u, k, i)
           Step(g, i) == IF i = 0 THEN s ELSE CHOOSE r \in {Op(u, ids[i]) : u \in {g[i - 1]}} : TRUE
           Passes(g) == g = [i \in 0 .. Len(ids) |-> Step(g, i)]
           S == FairStates(p)
           F == [i \in 1 .. n |-> [u \in S |-> Op(u, i)]]
<1>1. n \in Nat /\ DOMAIN p = 1 .. n
  BY DEF Candidates
<1>2. Len(ids) = n /\ \A i \in 1 .. n : ids[i] = i
  <2>1. ids \in [1 .. n -> 1 .. n]
    BY <1>1
  <2> QED
    BY <1>1, <2>1, FunctionIsSeq
<1>3. ASSUME NEW u \in S, NEW i \in 1 .. n
      PROVE  Op(u, i) \in S /\ GoesOn(p, u, Op(u, i)) /\ (k = rounds => Decided(c, p, degree, rounds, Op(u, i), i))
  <2>1. i \in DOMAIN p /\ u \in PruneStates(p) /\ KeptIsFair(p, u)
    BY <1>1 DEF FairStates
  <2> QED
    BY <2>1, ConsiderLemma DEF FairStates
<1> HIDE DEF Op, n, ids
<1>4. \A x, i : (CHOOSE r \in {Op(u, i) : u \in {x}} : TRUE) = Op(x, i)
  OBVIOUS
<1>5. PICK f \in [0 .. n -> S] : IteratesTo(f, n, s, F)
  <2>1. F \in [1 .. n -> [S -> S]]
    BY <1>3
  <2> HIDE DEF F, S
  <2>2. s \in S
    BY DEF S
  <2> QED
    BY <1>1, <2>1, <2>2, BoundedIteration
<1>6. ASSUME NEW i \in 0 .. n PROVE f[i] = Step(f, i)
  <2>1. CASE i = 0
    BY <1>5, <2>1 DEF IteratesTo
  <2>2. CASE i # 0
    <3>1. i \in 1 .. n /\ i - 1 \in 0 .. n
      BY <1>1, <2>2
    <3>2. f[i - 1] \in S
      BY <3>1
    <3>3. f[i] = F[i][f[i - 1]]
      BY <1>5, <3>1 DEF IteratesTo
    <3>4. f[i] = Op(f[i - 1], i)
      BY <3>1, <3>2, <3>3
    <3> QED
      BY <1>2, <1>4, <2>2, <3>1, <3>4
  <2> QED
    BY <2>1, <2>2
<1>7. Passes(f)
  <2>1. f = [i \in 0 .. n |-> f[i]]
    OBVIOUS
  <2> HIDE DEF Step
  <2> QED
    BY <1>2, <1>6, <2>1
<1> DEFINE g == CHOOSE h : Passes(h)
<1>8. Passes(g)
  <2> HIDE DEF Passes
  <2> QED
    BY <1>7
<1>9. OccludeRound(c, p, location, degree, rounds, s, k) = g[n]
  BY <1>2 DEF OccludeRound, FoldOver, Op, ids
<1> HIDE DEF g
<1>10. \A i \in 0 .. n : g[i] = Step(g, i)
  <2> HIDE DEF Step
  <2> QED
    BY <1>2, <1>8
<1>11. g[0] = s /\ \A i \in 1 .. n : g[i] = Op(g[i - 1], i)
  <2>1. 0 \in 0 .. n /\ \A i \in 1 .. n : i \in 0 .. n /\ i # 0
    BY <1>1
  <2> QED
    BY <1>2, <1>4, <1>10, <2>1
<1> HIDE DEF Step
<1> DEFINE Good(i) == /\ g[i] \in S /\ GoesOn(p, s, g[i])
                      /\ k = rounds => \A t \in 1 .. i : Decided(c, p, degree, rounds, g[i], t)
           P == {i \in 0 .. n : Good(i)}
<1>12. Good(0)
  BY <1>11 DEF GoesOn, FairStates, PruneStates
<1>13. ASSUME NEW i \in 0 .. n, i < n, Good(i) PROVE Good(i + 1)
  <2>1. i + 1 \in 1 .. n /\ (i + 1) - 1 = i /\ i + 1 \in DOMAIN p
    BY <1>1, <1>13
  <2>2. g[i + 1] = Op(g[i], i + 1)
    BY <1>11, <2>1
  <2>3. g[i + 1] \in S /\ GoesOn(p, g[i], g[i + 1]) /\ (k = rounds => Decided(c, p, degree, rounds, g[i + 1], i + 1))
    BY <1>3, <1>13, <2>1, <2>2
  <2>4. g[i] \in PruneStates(p) /\ g[i + 1] \in PruneStates(p) /\ s \in PruneStates(p)
    BY <1>13, <2>3 DEF FairStates
  <2>5. GoesOn(p, s, g[i + 1])
    BY <1>13, <2>3, <2>4, GoesOnLemma
  <2>6. ASSUME k = rounds, NEW t \in 1 .. i + 1 PROVE Decided(c, p, degree, rounds, g[i + 1], t)
    <3>1. CASE t = i + 1
      BY <2>3, <2>6, <3>1
    <3>2. CASE t # i + 1
      <4>1. t \in 1 .. i /\ t \in DOMAIN p
        BY <1>1, <2>1, <3>2
      <4>2. Decided(c, p, degree, rounds, g[i], t)
        BY <1>13, <2>6, <4>1
      <4> QED
        BY <2>3, <2>4, <4>1, <4>2, DecidedLemma
    <3> QED
      BY <3>1, <3>2
  <2> QED
    BY <2>3, <2>5, <2>6
<1>14. P = 0 .. n
  <2> HIDE DEF Good
  <2>1. P \in SUBSET (0 .. n) /\ 0 \in P
    BY <1>1, <1>12
  <2>2. ASSUME NEW i \in P, i < n PROVE i + 1 \in P
    <3>1. i \in 0 .. n /\ Good(i) /\ i + 1 \in 0 .. n
      BY <1>1, <2>2
    <3> QED
      BY <1>13, <2>2, <3>1
  <2> HIDE DEF P
  <2> QED
    BY <1>1, <2>1, <2>2, BoundedInduction
<1>15. Good(n)
  BY <1>1, <1>14
<1> QED
  BY <1>1, <1>9, <1>15

\* occlude_list keeps a fair choice of the candidates and decides each of them.
LEMMA OccludeListLemma ==
  ASSUME NEW c, c.metric # "ip", NEW location, NEW p, Candidates(p, location), NEW degree \in Nat,
         NEW rounds \in Nat
  PROVE  LET u == OccludeList(c, p, location, degree, rounds)
         IN u \in FairStates(p) /\ \A t \in DOMAIN p : Decided(c, p, degree, rounds, u, t)
<1> DEFINE n == rounds + 1
           start == [taken |-> {}, kept |-> <<>>, facts |-> [t \in DOMAIN p |-> {}]]
           ks == [k \in 1 .. rounds + 1 |-> k]
           Op(u, k) == OccludeRound(c, p, location, degree, rounds, u, k - 1)
           Step(g, i) == IF i = 0 THEN start ELSE CHOOSE r \in {Op(u, ks[i]) : u \in {g[i - 1]}} : TRUE
           Passes(g) == g = [i \in 0 .. Len(ks) |-> Step(g, i)]
           S == FairStates(p)
           F == [i \in 1 .. n |-> [u \in S |-> Op(u, i)]]
<1>1. n \in Nat /\ n # 0
  OBVIOUS
<1>2. Len(ks) = n /\ \A i \in 1 .. n : ks[i] = i
  <2>1. ks \in [1 .. n -> 1 .. n]
    OBVIOUS
  <2> QED
    BY <1>1, <2>1, FunctionIsSeq
<1>3. ASSUME NEW u \in S, NEW i \in 1 .. n
      PROVE  Op(u, i) \in S /\ (i = n => \A t \in DOMAIN p : Decided(c, p, degree, rounds, Op(u, i), t))
  <2>1. i = n => i - 1 = rounds
    OBVIOUS
  <2> QED
    BY <2>1, RoundLemma
<1>4. start \in S
  <2>1. start \in PruneStates(p)
    BY DEF PruneStates
  <2>2. KeptIsFair(p, start)
    BY DEF KeptIsFair
  <2> QED
    BY <2>1, <2>2 DEF FairStates
<1> HIDE DEF Op, n, ks, start
<1>5. \A x, i : (CHOOSE r \in {Op(u, i) : u \in {x}} : TRUE) = Op(x, i)
  OBVIOUS
<1>6. PICK f \in [0 .. n -> S] : IteratesTo(f, n, start, F)
  <2>1. F \in [1 .. n -> [S -> S]]
    BY <1>3
  <2> HIDE DEF F, S
  <2> QED
    BY <1>1, <1>4, <2>1, BoundedIteration
<1>7. ASSUME NEW i \in 0 .. n PROVE f[i] = Step(f, i)
  <2>1. CASE i = 0
    BY <1>6, <2>1 DEF IteratesTo
  <2>2. CASE i # 0
    <3>1. i \in 1 .. n /\ i - 1 \in 0 .. n
      BY <1>1, <2>2
    <3>2. f[i - 1] \in S
      BY <3>1
    <3>3. f[i] = F[i][f[i - 1]]
      BY <1>6, <3>1 DEF IteratesTo
    <3>4. f[i] = Op(f[i - 1], i)
      BY <3>1, <3>2, <3>3
    <3> QED
      BY <1>2, <1>5, <2>2, <3>1, <3>4
  <2> QED
    BY <2>1, <2>2
<1>8. Passes(f)
  <2>1. f = [i \in 0 .. n |-> f[i]]
    OBVIOUS
  <2> HIDE DEF Step
  <2> QED
    BY <1>2, <1>7, <2>1
<1> DEFINE g == CHOOSE h : Passes(h)
<1>9. Passes(g)
  <2> HIDE DEF Passes
  <2> QED
    BY <1>8
<1>10. OccludeList(c, p, location, degree, rounds) = g[n]
  BY <1>2 DEF OccludeList, FoldOver, Op, ks, start
<1> HIDE DEF g
<1>11. \A i \in 0 .. n : g[i] = Step(g, i)
  <2> HIDE DEF Step
  <2> QED
    BY <1>2, <1>9
<1>12. g[0] = start /\ \A i \in 1 .. n : g[i] = Op(g[i - 1], i)
  <2>1. 0 \in 0 .. n /\ \A i \in 1 .. n : i \in 0 .. n /\ i # 0
    BY <1>1
  <2> QED
    BY <1>2, <1>5, <1>11, <2>1
<1> HIDE DEF Step, S
<1> DEFINE P == {i \in 0 .. n : g[i] \in S}
<1>13. P = 0 .. n
  <2>1. P \in SUBSET (0 .. n) /\ 0 \in P
    BY <1>1, <1>4, <1>12
  <2>2. ASSUME NEW i \in P, i < n PROVE i + 1 \in P
    <3>1. i + 1 \in 1 .. n /\ i + 1 \in 0 .. n /\ (i + 1) - 1 = i /\ g[i] \in S
      BY <1>1, <2>2
    <3>2. g[i + 1] = Op(g[i], i + 1)
      BY <1>12, <3>1
    <3> QED
      BY <1>3, <3>1, <3>2
  <2> HIDE DEF P
  <2> QED
    BY <1>1, <2>1, <2>2, BoundedInduction
<1>14. n \in 1 .. n /\ n - 1 \in 0 .. n
  BY <1>1
<1>15. g[n - 1] \in S /\ g[n] = Op(g[n - 1], n)
  BY <1>12, <1>13, <1>14
<1> QED
  BY <1>3, <1>10, <1>14, <1>15 DEF S

-----------------------------------------------------------------------------
(* Pools and queues, ordered by distance and id. *)

Found == [id : DOMAIN vb.at, d : Int]
Queued == [id : DOMAIN vb.at, d : Int, x : BOOLEAN]
Rank(S, e) == Cardinality({f \in S : Closer(f, e)})

\* Distance and id number a finite set of candidates from 0.
LEMMA CloserRank ==
  ASSUME NEW S, IsFiniteSet(S), \A e \in S : e.d \in Int /\ e.id \in Int,
         \A e, f \in S : e.d = f.d /\ e.id = f.id => e = f
  PROVE  /\ \A x \in S : Rank(S, x) \in 0 .. Cardinality(S) - 1
         /\ \A x, y \in S : Rank(S, x) = Rank(S, y) => x = y
         /\ \A x, y \in S : Closer(x, y) => Rank(S, x) < Rank(S, y)
         /\ \A i \in 0 .. Cardinality(S) - 1 : \E x \in S : Rank(S, x) = i
<1> DEFINE R == {q \in S \X S : Closer(q[1], q[2])}
<1>1. \A x, y \in S : <<x, y>> \in R <=> Closer(x, y)
  OBVIOUS
<1>2. \A x \in S : <<x, x>> \notin R
  BY <1>1 DEF Closer
<1>3. \A x, y \in S : x # y => <<x, y>> \in R \/ <<y, x>> \in R
  BY <1>1 DEF Closer
<1>4. \A x, y, z \in S : <<x, y>> \in R /\ <<y, z>> \in R => <<x, z>> \in R
  BY <1>1 DEF Closer
<1>5. \A x \in S : RankIn(R, S, x) = Rank(S, x)
  <2>1. \A x \in S : {m \in S : <<m, x>> \in R} = {f \in S : Closer(f, x)}
    BY <1>1
  <2> HIDE DEF R
  <2> QED
    BY <2>1 DEF RankIn, Rank
<1> HIDE DEF R
<1>6. IsOrderOn(R, S)
  BY <1>2, <1>3, <1>4 DEF IsOrderOn
<1>7. RanksNumber(R, S)
  BY <1>6, OrderRankLemma
<1> QED
  BY <1>1, <1>5, <1>7 DEF RanksNumber

\* The candidates of a prune.
Truncated(pool, maxc) == SubSeq(ByDistance(pool), 1, Min({maxc, Cardinality(pool)}))

\* The nearest of a pool, cut to maxc, come in the sorted pool, cut to maxc.
LEMMA SortedPool ==
  ASSUME NEW pool \in SUBSET Found, IsFiniteSet(pool), DOMAIN vb.at \subseteq Int, NEW maxc \in Nat
  PROVE  /\ Truncated(pool, maxc) \in Seq(pool)
         /\ \A e \in Nearest(pool, maxc) : \E t \in DOMAIN Truncated(pool, maxc) : Truncated(pool, maxc)[t] = e
<1> DEFINE n == Cardinality(pool)
           m == Min({maxc, n})
           q == ByDistance(pool)
           p == SubSeq(q, 1, m)
<1>1. n \in Nat /\ \A e \in pool : e.d \in Int /\ e.id \in Int
  BY FS_CardinalityType DEF Found
<1>2. \A e, f \in pool : e.d = f.d /\ e.id = f.id => e = f
  BY DEF Found
<1>3. /\ \A x \in pool : Rank(pool, x) \in 0 .. n - 1
      /\ \A x, y \in pool : Rank(pool, x) = Rank(pool, y) => x = y
      /\ \A i \in 0 .. n - 1 : \E x \in pool : Rank(pool, x) = i
  BY <1>1, <1>2, CloserRank
<1>4. m \in 0 .. n /\ m <= maxc /\ (m = maxc \/ m = n)
  <2>1. m = CHOOSE x \in {maxc, n} : \A y \in {maxc, n} : x <= y
    BY DEF Min
  <2> HIDE DEF m
  <2>2. \E x \in {maxc, n} : \A y \in {maxc, n} : x <= y
    BY <1>1
  <2>3. m \in {maxc, n} /\ \A y \in {maxc, n} : m <= y
    BY <2>1, <2>2
  <2> QED
    BY <1>1, <2>3
<1> HIDE DEF m, n
<1>5. q = [i \in 1 .. n |-> CHOOSE e \in pool : Rank(pool, e) = i - 1]
  BY DEF ByDistance, Ordered, Rank, n
<1>6. \A i \in 1 .. n : q[i] \in pool /\ Rank(pool, q[i]) = i - 1
  <2> TAKE i \in 1 .. n
  <2>1. i - 1 \in 0 .. n - 1
    BY <1>1
  <2>2. \E e \in pool : Rank(pool, e) = i - 1
    BY <1>3, <2>1
  <2>3. q[i] = CHOOSE e \in pool : Rank(pool, e) = i - 1
    BY <1>5
  <2> HIDE DEF q
  <2> QED
    BY <2>2, <2>3
<1>7. q \in Seq(pool) /\ Len(q) = n
  <2>1. q \in [1 .. n -> pool]
    <3>1. q = [i \in 1 .. n |-> q[i]]
      BY <1>5
    <3> HIDE DEF q
    <3> QED
      BY <1>6, <3>1
  <2> HIDE DEF q
  <2> QED
    BY <1>1, <2>1, FunctionIsSeq
<1> HIDE DEF q
<1>8. DOMAIN p = 1 .. m /\ p \in Seq(pool) /\ \A i \in 1 .. m : p[i] = q[i]
  BY <1>1, <1>4, <1>7
<1> HIDE DEF p
<1>10. ASSUME NEW e \in Nearest(pool, maxc) PROVE \E t \in DOMAIN p : p[t] = e
  <2>1. e \in pool /\ Rank(pool, e) < maxc
    BY DEF Nearest, Rank
  <2> DEFINE t == Rank(pool, e) + 1
  <2>2. Rank(pool, e) \in 0 .. n - 1
    BY <1>3, <2>1
  <2>3. t \in 1 .. m /\ t \in 1 .. n /\ t - 1 = Rank(pool, e)
    BY <1>1, <1>4, <2>1, <2>2
  <2>4. q[t] = e
    BY <1>3, <1>6, <2>1, <2>3
  <2> QED
    BY <1>8, <2>3, <2>4
<1> QED
  BY <1>8, <1>10 DEF p, q, m, n, Truncated

-----------------------------------------------------------------------------
(* prune_neighbors *)

\* The kept witness of a candidate that was left out.
Witnessed(e, list) ==
  \E w \in Set(list) :
    MayOcclude(w, e.id) /\ \/ Between(w, e.id) = 0
                           \/ 5 ^ vb.c.alpha * e.d > 6 ^ vb.c.alpha * Between(w, e.id)

\* A list with room left misses no candidate without a witness.
LEMMA PruneNeighborsLemma ==
  ASSUME vb.c.metric = "l2", ~vb.c.saturate, vb.c.alpha \in Nat, DOMAIN vb.at \subseteq Int,
         NEW location, NEW pool \in SUBSET Found, IsFiniteSet(pool), \A e \in pool : e.id # location,
         NEW degree \in Nat, NEW maxc \in Nat
  PROVE  LET list == PruneNeighbors(location, pool, degree, maxc, vb.c.alpha).list
         IN Len(list) < degree => \A e \in Nearest(pool, maxc) : e.id \in Set(list) \/ Witnessed(e, list)
<1> DEFINE out == PruneNeighbors(location, pool, degree, maxc, vb.c.alpha)
           p == Truncated(pool, maxc)
           s == OccludeList(vb.c, p, location, degree, vb.c.alpha)
<1>1. CASE pool = {}
  BY <1>1 DEF Nearest
<1>2. CASE pool # {}
  <2>1. out.list = s.kept
    BY <1>2 DEF PruneNeighbors, Truncated
  <2>11. p \in Seq(pool) /\ \A e \in Nearest(pool, maxc) : \E t \in DOMAIN p : p[t] = e
    BY SortedPool
  <2>2. Candidates(p, location)
    <3> HIDE DEF p
    <3>1. \A i \in DOMAIN p : p[i] \in pool
      BY <2>11, MemberLemma
    <3>2. p \in Seq(Found)
      BY <2>11, SubsetSeq
    <3> QED
      BY <3>1, <3>2 DEF Candidates, Found
  <2>3. vb.c.metric # "ip"
    OBVIOUS
  <2> HIDE DEF p
  <2>4. s \in FairStates(p) /\ \A t \in DOMAIN p : Decided(vb.c, p, degree, vb.c.alpha, s, t)
    BY <2>2, <2>3, OccludeListLemma
  <2> HIDE DEF s, out
  <2> SUFFICES ASSUME Len(s.kept) < degree, NEW e \in Nearest(pool, maxc), e.id \notin Set(s.kept)
               PROVE  Witnessed(e, s.kept)
    BY <2>1 DEF out
  <2>5. PICK t \in DOMAIN p : p[t] = e
    BY <2>11
  <2>6. s \in PruneStates(p) /\ KeptIsFair(p, s)
    BY <2>4 DEF FairStates
  <2>7. Len(s.kept) \in Nat /\ t \notin s.taken
    BY <2>5, <2>6 DEF PruneStates, KeptIsFair
  <2>8. Occluded(vb.c, e.d, s.facts[t], vb.c.alpha)
    BY <2>4, <2>5, <2>7 DEF Decided
  <2>9. PICK f \in s.facts[t] : f[1] = 0 \/ 5 ^ vb.c.alpha * e.d > 6 ^ vb.c.alpha * f[1]
    BY <2>3, <2>8 DEF Occluded
  <2>10. f[2] \in Set(s.kept) /\ f[1] = Between(f[2], e.id) /\ MayOcclude(f[2], e.id)
    BY <2>5, <2>6 DEF KeptIsFair
  <2> QED
    BY <2>9, <2>10 DEF Witnessed
<1> QED
  BY <1>1, <1>2

-----------------------------------------------------------------------------
(* Searches *)

Vectors(m) == [1 .. m -> Int]

\* Distances of integer vectors are integers.
LEMMA DistanceType ==
  ASSUME NEW c, NEW m \in Nat, NEW a \in Vectors(m), NEW b \in Vectors(m)
  PROVE  Distance(c, a, b) \in Int /\ Squares(a, b) \in Int
<1> USE DEF Vectors
<1>1. \A i \in 1 .. m : a[i] * b[i] \in Int /\ (a[i] - b[i]) * (a[i] - b[i]) \in Int
  <2> SUFFICES ASSUME NEW i \in 1 .. m PROVE a[i] * b[i] \in Int /\ (a[i] - b[i]) * (a[i] - b[i]) \in Int
    OBVIOUS
  <2>1. a[i] \in Int /\ b[i] \in Int /\ a[i] - b[i] \in Int
    OBVIOUS
  <2> QED
    BY <2>1
<1>2. [i \in DOMAIN a |-> a[i] * b[i]] \in [1 .. m -> Int]
  BY <1>1
<1>3. [i \in DOMAIN a |-> (a[i] - b[i]) * (a[i] - b[i])] \in [1 .. m -> Int]
  BY <1>1
<1>4. Squares(a, b) \in Int
  BY <1>3, TotalType DEF Squares
<1>5. -Total([i \in DOMAIN a |-> a[i] * b[i]]) \in Int
  BY <1>2, TotalType
<1> QED
  BY <1>4, <1>5 DEF Distance

\* The state of a search: its queue and its pool hold distances of points.
SearchOK(s) ==
  /\ s.queue \in SUBSET Queued /\ IsFiniteSet(s.queue)
  /\ s.pool \in SUBSET Found /\ IsFiniteSet(s.pool)

PointsOK(m) == vb.at \in [DOMAIN vb.at -> Vectors(m)] /\ IsFiniteSet(DOMAIN vb.at) /\ DOMAIN vb.at \subseteq Int

\* Scoring points gives a finite set of queue entries.
LEMMA ScoredLemma ==
  ASSUME NEW m \in Nat, PointsOK(m), NEW target \in Vectors(m), NEW ids, NEW allowed \in SUBSET DOMAIN vb.at
  PROVE  LET S == {Scored(n, target) : n \in ids \cap allowed} IN S \in SUBSET Queued /\ IsFiniteSet(S)
<1>1. \A n \in DOMAIN vb.at : Scored(n, target) \in Queued
  <2> TAKE n \in DOMAIN vb.at
  <2>1. Distance(vb.c, target, vb.at[n]) \in Int
    BY DistanceType DEF PointsOK
  <2> QED
    BY <2>1 DEF Scored, Queued
<1>2. IsFiniteSet(ids \cap allowed)
  BY FS_Subset DEF PointsOK
<1>3. IsFiniteSet({Scored(n, target) : n \in ids \cap allowed})
  <2> DEFINE D == ids \cap allowed
             S == {Scored(n, target) : n \in D}
             f == [n \in D |-> Scored(n, target)]
  <2>1. f \in [D -> S] /\ \A y \in S : \E n \in D : f[n] = y
    OBVIOUS
  <2> HIDE DEF f, S, D
  <2>2. IsFiniteSet(D)
    BY <1>2 DEF D
  <2>3. IsFiniteSet(S)
    BY <2>1, <2>2, ImageFinite
  <2> QED
    BY <2>3 DEF S, D
<1> QED
  BY <1>1, <1>3

\* A search opens with points that are allowed.
LEMMA OpeningLemma ==
  ASSUME NEW m \in Nat, PointsOK(m), NEW target \in Vectors(m), NEW ids, NEW allowed \in SUBSET DOMAIN vb.at, NEW cap
  PROVE  SearchOK(Opening(ids, cap, target, allowed))
<1> DEFINE S == {Scored(n, target) : n \in ids \cap allowed}
<1>1. S \in SUBSET Queued /\ IsFiniteSet(S)
  BY ScoredLemma
<1>2. Nearest(S, cap) \subseteq S
  BY DEF Nearest
<1> HIDE DEF S
<1>3. Nearest(S, cap) \in SUBSET Queued /\ IsFiniteSet(Nearest(S, cap))
  BY <1>1, <1>2, FS_Subset
<1> QED
  BY <1>3, FS_EmptySet DEF Opening, SearchOK, S

\* Expanding the closest entry that was not yet expanded keeps the search sound.
LEMMA ExpandClosestLemma ==
  ASSUME NEW m \in Nat, PointsOK(m), NEW target \in Vectors(m), NEW allowed \in SUBSET DOMAIN vb.at, NEW cap,
         NEW s, SearchOK(s), ~Fixed(s)
  PROVE  SearchOK(ExpandClosest(s, cap, target, allowed))
<1> DEFINE U == {f \in s.queue : ~f.x}
           R == {q \in U \X U : Closer(q[1], q[2])}
           Chosen(e) == ~e.x /\ \A f \in s.queue : (f.x \/ f = e \/ Closer(e, f))
           e == CHOOSE e \in s.queue : Chosen(e)
           fresh == (Set(vb.graph[e.id]) \cap allowed) \ s.seen
           S == {Scored(n, target) : n \in fresh}
           Q == (s.queue \ {e}) \cup {[e EXCEPT !.x = TRUE]} \cup S
<1>1. IsFiniteSet(U) /\ U # {}
  BY FS_Subset DEF SearchOK, Fixed
<1>2. \A f \in U : f.d \in Int /\ f.id \in Int /\ f.x = FALSE /\ f \in Queued
  BY DEF SearchOK, Queued, PointsOK
<1>3. \A f, g \in U : f.d = g.d /\ f.id = g.id => f = g
  BY <1>2 DEF Queued
<1>4. IsOrderOn(R, U)
  <2>1. \A x, y \in U : <<x, y>> \in R <=> Closer(x, y)
    OBVIOUS
  <2> HIDE DEF R, U
  <2>2. \A x \in U : ~Closer(x, x)
    BY <1>2 DEF Closer
  <2>3. \A x, y \in U : x # y => Closer(x, y) \/ Closer(y, x)
    BY <1>2, <1>3 DEF Closer
  <2>4. \A x, y, z \in U : Closer(x, y) /\ Closer(y, z) => Closer(x, z)
    BY <1>2 DEF Closer
  <2> QED
    BY <2>1, <2>2, <2>3, <2>4 DEF IsOrderOn
<1>5. \E f \in s.queue : Chosen(f)
  <2>1. PICK f \in U : \A g \in U : g = f \/ <<f, g>> \in R
    <3> HIDE DEF R, U
    <3> QED
      BY <1>1, <1>4, LeastInOrder DEF HasLeast
  <2> QED
    BY <2>1
<1>6. e \in s.queue
  <2> HIDE DEF Chosen
  <2> QED
    BY <1>5
<1>7. e \in Queued
  BY <1>6 DEF SearchOK
<1> HIDE DEF e
<1>8. S \in SUBSET Queued /\ IsFiniteSet(S)
  <2> DEFINE ids == Set(vb.graph[e.id]) \ s.seen
  <2>1. {Scored(n, target) : n \in ids \cap allowed} = S
    <3>1. ids \cap allowed = fresh
      OBVIOUS
    <3> QED
      BY <3>1
  <2> HIDE DEF ids, S
  <2> QED
    BY <2>1, ScoredLemma
<1> HIDE DEF S, fresh
<1>9. [e EXCEPT !.x = TRUE] \in Queued
  BY <1>7 DEF Queued
<1>10. Q \in SUBSET Queued /\ IsFiniteSet(Q)
  <2>1. IsFiniteSet(s.queue \ {e}) /\ IsFiniteSet({[e EXCEPT !.x = TRUE]})
    BY FS_Subset, FS_Singleton DEF SearchOK
  <2>2. IsFiniteSet((s.queue \ {e}) \cup {[e EXCEPT !.x = TRUE]})
    BY <2>1, FS_Union
  <2>3. IsFiniteSet(Q)
    BY <1>8, <2>2, FS_Union
  <2> QED
    BY <1>8, <1>9, <2>3 DEF SearchOK
<1>11. Nearest(Q, cap) \subseteq Q
  BY DEF Nearest
<1>12. Nearest(Q, cap) \in SUBSET Queued /\ IsFiniteSet(Nearest(Q, cap))
  <2> HIDE DEF Q
  <2> QED
    BY <1>10, <1>11, FS_Subset
<1>13. s.pool \cup {[id |-> e.id, d |-> e.d]} \in SUBSET Found
       /\ IsFiniteSet(s.pool \cup {[id |-> e.id, d |-> e.d]})
  <2>1. [id |-> e.id, d |-> e.d] \in Found
    BY <1>7 DEF Found, Queued
  <2> QED
    BY <2>1, FS_AddElement DEF SearchOK
<1> QED
  BY <1>12, <1>13 DEF ExpandClosest, SearchOK, Q, S, fresh, e

-----------------------------------------------------------------------------
(* The data store *)

\* What the assumption says of one case.
LEMMA CaseLemma ==
  ASSUME NEW c \in BuildCases
  PROVE  /\ c.points \in Seq(Seq(Int)) /\ \A i \in DOMAIN c.points : Len(c.points[i]) = Len(c.points[1])
         /\ c.load \in Nat /\ c.max \in Nat /\ c.frozen \in Nat /\ c.r \in Nat /\ c.maxc \in Nat /\ c.alpha \in Nat
  BY BuildAssumption

\* calculate_medoid returns a slot.
LEMMA MedoidLemma ==
  ASSUME NEW m \in Nat, NEW n \in Nat \ {0}, NEW at \in [0 .. n - 1 -> Vectors(m)]
  PROVE  Medoid(at) \in 0 .. n - 1
<1> DEFINE sum == [d \in DOMAIN at[0] |-> Total([i \in 1 .. n |-> at[i - 1][d]])]
           far(i) == Squares([d \in DOMAIN sum |-> n * at[i][d]], sum)
           Best(i) == \A j \in DOMAIN at : far(i) < far(j) \/ (far(i) = far(j) /\ i <= j)
           D == 0 .. n - 1
           R == {q \in D \X D : far(q[1]) < far(q[2]) \/ (far(q[1]) = far(q[2]) /\ q[1] < q[2])}
<1>1. Cardinality(DOMAIN at) = n /\ DOMAIN at = D /\ IsFiniteSet(D) /\ D # {} /\ D \subseteq Int
  <2>1. 0 \in D /\ 0 \in Int /\ n - 1 \in Int /\ (n - 1) - 0 + 1 = n /\ ~(0 > n - 1)
    OBVIOUS
  <2>2. IsFiniteSet(D) /\ Cardinality(D) = IF 0 > n - 1 THEN 0 ELSE (n - 1) - 0 + 1
    BY <2>1, FS_Interval
  <2>3. DOMAIN at = D /\ D \subseteq Int
    OBVIOUS
  <2> HIDE DEF D
  <2> QED
    BY <2>1, <2>2, <2>3
<1>2. Medoid(at) = CHOOSE i \in DOMAIN at : Best(i)
  BY <1>1 DEF Medoid
<1>3. \A i \in 0 .. n - 1, d \in 1 .. m : at[i][d] \in Int
  BY DEF Vectors
<1>4. sum \in Vectors(m)
  <2>1. DOMAIN at[0] = 1 .. m
    BY <1>1 DEF Vectors
  <2>2. ASSUME NEW d \in 1 .. m PROVE Total([i \in 1 .. n |-> at[i - 1][d]]) \in Int
    <3>1. [i \in 1 .. n |-> at[i - 1][d]] \in [1 .. n -> Int]
      BY <1>3
    <3> QED
      BY <3>1, TotalType
  <2> QED
    BY <2>1, <2>2 DEF Vectors
<1>5. \A i \in D : far(i) \in Int
  <2> TAKE i \in D
  <2>1. DOMAIN sum = 1 .. m
    BY <1>4 DEF Vectors
  <2>2. [d \in DOMAIN sum |-> n * at[i][d]] \in Vectors(m)
    BY <1>3, <2>1 DEF Vectors
  <2> HIDE DEF sum
  <2> QED
    BY <1>4, <2>2, DistanceType
<1> HIDE DEF far
<1>8. \A x, y \in D : <<x, y>> \in R <=> far(x) < far(y) \/ (far(x) = far(y) /\ x < y)
  OBVIOUS
<1>6. IsOrderOn(R, D)
  <2>1. \A x, y \in D : <<x, y>> \in R <=> far(x) < far(y) \/ (far(x) = far(y) /\ x < y)
    BY <1>8
  <2> HIDE DEF R, D
  <2>2. \A x \in D : <<x, x>> \notin R
    BY <1>1, <1>5, <2>1
  <2>3. \A x, y \in D : x # y => <<x, y>> \in R \/ <<y, x>> \in R
    BY <1>1, <1>5, <2>1
  <2>4. \A x, y, z \in D : <<x, y>> \in R /\ <<y, z>> \in R => <<x, z>> \in R
    BY <1>1, <1>5, <2>1
  <2> QED
    BY <2>2, <2>3, <2>4 DEF IsOrderOn
<1>7. \E i \in D : Best(i)
  <2>1. PICK i \in D : \A j \in D : j = i \/ <<i, j>> \in R
    <3> HIDE DEF R, D
    <3>1. HasLeast(R, D)
      BY <1>1, <1>6, LeastInOrder
    <3> QED
      BY <3>1 DEF HasLeast
  <2> HIDE DEF R, D
  <2>3. i \in Int /\ far(i) \in Int
    BY <1>1, <1>5
  <2>2. \A j \in D : far(i) < far(j) \/ (far(i) = far(j) /\ i <= j)
    <3> TAKE j \in D
    <3>0. j \in Int /\ far(j) \in Int
      BY <1>1, <1>5
    <3>1. CASE j = i
      BY <2>3, <3>1
    <3>2. CASE j # i
      <4>1. <<i, j>> \in R
        BY <2>1, <3>2
      <4>2. far(i) < far(j) \/ (far(i) = far(j) /\ i < j)
        BY <1>8, <4>1
      <4>3. i < j => i <= j
        BY <2>3, <3>0
      <4> QED
        BY <4>2, <4>3
    <3> QED
      BY <3>1, <3>2
  <2> QED
    BY <1>1, <2>2
<1> HIDE DEF Best
<1> QED
  BY <1>1, <1>2, <1>7

\* A build's data store holds vectors of one dimension.
LEMMA StoreLemma ==
  ASSUME NEW c \in BuildCases, BuildAllowed(c)
  PROVE  LET at == WithFrozen(c, Populated(c))
         IN /\ Len(c.points[1]) \in Nat /\ Capacity(c) \in Nat \ {0}
            /\ at \in [0 .. Capacity(c) - 1 -> Vectors(Len(c.points[1]))]
<1> DEFINE m == Len(c.points[1])
           n == Capacity(c)
           at == Populated(c)
<1>1. Count(c) \in Nat \ {0} /\ Count(c) <= c.max /\ c.max \in Nat /\ c.frozen \in Nat
  BY CaseLemma DEF BuildAllowed, Count
<1>2. n \in Nat \ {0}
  BY <1>1 DEF Capacity
<1>3. \A i \in 1 .. Count(c) : c.points[i] \in Vectors(m) /\ m \in Nat
  <2> TAKE i \in 1 .. Count(c)
  <2>1. c.points \in Seq(Seq(Int)) /\ i \in DOMAIN c.points /\ Len(c.points[i]) = m
    BY CaseLemma DEF Count
  <2>2. c.points[i] \in Seq(Int)
    BY <2>1, MemberLemma
  <2> QED
    BY <2>1, <2>2 DEF Vectors
<1>4. m \in Nat /\ DOMAIN c.points[1] = 1 .. m /\ c.points[1] \in Vectors(m)
  <2>1. 1 \in 1 .. Count(c)
    BY <1>1
  <2> QED
    BY <1>3, <2>1 DEF Vectors
<1>5. at \in [0 .. n - 1 -> Vectors(m)]
  <2>1. [d \in DOMAIN c.points[1] |-> 0] \in Vectors(m)
    BY <1>4 DEF Vectors
  <2>2. \A i \in 0 .. n - 1 : i < Count(c) => i + 1 \in 1 .. Count(c)
    BY <1>1, <1>2
  <2> HIDE DEF m, n
  <2> QED
    BY <1>3, <2>1, <2>2 DEF Populated, n
<1>6. Medoid(at) \in 0 .. n - 1
  <2> HIDE DEF at, m, n
  <2> QED
    BY <1>2, <1>4, <1>5, MedoidLemma
<1> HIDE DEF at, m, n
<1>7. WithFrozen(c, at) \in [0 .. n - 1 -> Vectors(m)]
  BY <1>5, <1>6 DEF WithFrozen
<1> QED
  BY <1>2, <1>4, <1>7 DEF at, m, n

-----------------------------------------------------------------------------
(* The static index: its fields, the threads of its link, its files. *)

Fields == {"phase", "c", "observer", "at", "nd", "cursor", "starts", "filtered", "lines", "universal",
           "graph", "start", "seen", "answer", "packed", "pruned"}
Phases == {"none", "made", "failed", "link", "built", "answered", "saving", "loaded"}

IndexOK ==
  /\ "phase" \in DOMAIN vb /\ vb.phase \in Phases
  /\ vb.phase = "made" => DOMAIN vb = {"phase", "c", "observer"} /\ vb.c \in BuildCases
  /\ vb.phase \in {"link", "built", "saving"} => DOMAIN vb = Fields /\ vb.cursor \in Nat
  /\ vb.phase = "link" =>
       /\ vb.c \in BuildCases /\ BuildAllowed(vb.c) /\ vb.nd = vb.c.load
       /\ vb.at \in [0 .. Capacity(vb.c) - 1 -> Vectors(Len(vb.c.points[1]))]

SearchFields == {"pc", "todo", "node", "found", "s"}
LinkFields == {"pc", "todo", "node", "links", "pool", "list", "events"}
ThreadOK(w) ==
  /\ w.todo \in Seq(DOMAIN vb.at)
  /\ \/ w.pc = "rest" /\ w = [pc |-> "rest", todo |-> w.todo]
     \/ /\ w.pc \in {"filtered", "open"} /\ DOMAIN w = SearchFields
        /\ w.node \in DOMAIN vb.at /\ SearchOK(w.s)
        /\ w.found \in SUBSET Found /\ IsFiniteSet(w.found)
     \/ w.pc \in {"inter", "prune"} /\ DOMAIN w = LinkFields
CrewOK ==
  /\ crew = [t \in LinkThreads |-> crew[t]]
  /\ vb.phase = "link" => \A t \in LinkThreads : ThreadOK(crew[t])
  /\ vb.phase # "link" => \A t \in LinkThreads : crew[t] = Resting

LinkInv == IndexOK /\ CrewOK

\* What PruneKeepsWitness says of one thread.
KeepsWitness(t) ==
  crew[t].pc = "inter" /\ crew[t].pool # {} /\ vb.c.metric = "l2" /\ ~vb.c.saturate
      /\ Len(crew[t].list) < vb.c.r =>
    \A e \in Nearest(crew[t].pool, vb.c.maxc) : e.id \in Set(crew[t].list) \/ WitnessFor(e, crew[t].list)

WitnessInv == LinkInv /\ PruneKeepsWitness

\* The data a step of the link leaves alone.
SameStore == vb'.c = vb.c /\ vb'.at = vb.at /\ vb'.filtered = vb.filtered /\ vb'.lines = vb.lines

\* What a step leaves of a thread and of the data keeps its witnesses.
LEMMA KeepLemma ==
  ASSUME NEW t \in LinkThreads, KeepsWitness(t), crew'[t] = crew[t], SameStore
  PROVE  KeepsWitness(t)'
<1>1. \A a, b : Between(a, b)' = Between(a, b)
  BY DEF Between, SameStore
<1>2. \A e, list : WitnessFor(e, list)' <=> WitnessFor(e, list)
  BY <1>1 DEF WitnessFor, SameStore
<1> QED
  BY <1>2 DEF KeepsWitness, SameStore

\* The initial state.
LEMMA LinkInit == BuildInit => LinkInv
  BY DEF BuildInit, LinkInv, IndexOK, CrewOK, Resting, NoIndex, Phases

\* The data of a link: its points, and the order it visits them in.
LEMMA LinkData ==
  ASSUME IndexOK, vb.phase = "link"
  PROVE  /\ Len(vb.c.points[1]) \in Nat /\ PointsOK(Len(vb.c.points[1]))
         /\ VisitOrder \in Seq(DOMAIN vb.at)
<1> DEFINE m == Len(vb.c.points[1])
           n == Capacity(vb.c)
<1>1. vb.c \in BuildCases /\ BuildAllowed(vb.c) /\ vb.nd = vb.c.load /\ vb.at \in [0 .. n - 1 -> Vectors(m)]
  BY DEF IndexOK
<1>2. m \in Nat /\ n \in Nat \ {0}
  BY <1>1, StoreLemma
<1>3. /\ vb.c.load \in Nat /\ vb.c.max \in Nat /\ vb.c.frozen \in Nat
      /\ Count(vb.c) <= vb.c.max /\ vb.c.load <= Count(vb.c) /\ Count(vb.c) \in Nat
  BY <1>1, CaseLemma DEF BuildAllowed, Count
<1>4. n = vb.c.max + vb.c.frozen
  BY DEF Capacity
<1> HIDE DEF m, n
<1>5. DOMAIN vb.at = 0 .. n - 1
  BY <1>1
<1>6. PointsOK(m)
  BY <1>1, <1>2, <1>5, FS_Interval DEF PointsOK
<1>7. VisitOrder \in Seq(DOMAIN vb.at)
  <2> DEFINE s == [i \in 1 .. vb.nd |-> i - 1]
             D == 0 .. n - 1
             e == IF vb.c.frozen = 1 THEN <<vb.c.max>> ELSE <<>>
  <2>1. s \in Seq(D)
    <3>1. s \in [1 .. vb.nd -> D]
      BY <1>1, <1>2, <1>3, <1>4
    <3> HIDE DEF s, D
    <3> QED
      BY <1>1, <1>3, <3>1, FunctionIsSeq
  <2>2. e \in Seq(D)
    <3>1. vb.c.frozen = 1 => vb.c.max \in D
      BY <1>2, <1>3, <1>4
    <3> HIDE DEF D
    <3> QED
      BY <3>1
  <2>3. s \o e \in Seq(D)
    <3> HIDE DEF s, e, D
    <3> QED
      BY <2>1, <2>2
  <2> QED
    BY <1>5, <2>3 DEF VisitOrder
<1> QED
  BY <1>2, <1>6, <1>7 DEF m

-----------------------------------------------------------------------------
(* One step after the other. *)

\* A thread that changed, with the same data.
LEMMA ThreadStep ==
  ASSUME LinkInv, vb.phase = "link", NEW t \in LinkThreads, NEW w, ThreadOK(w), crew' = [crew EXCEPT ![t] = w],
         vb'.phase = "link", DOMAIN vb' = Fields, vb'.cursor \in Nat, vb'.nd = vb.nd, SameStore
  PROVE  LinkInv'
<1>1. IndexOK'
  BY DEF LinkInv, IndexOK, SameStore, Phases, Fields, BuildAllowed
<1>2. \A x : ThreadOK(x) => ThreadOK(x)'
  BY DEF ThreadOK, SearchOK, SameStore, Found, Queued
<1>3. crew' = [x \in LinkThreads |-> crew'[x]] /\ \A x \in LinkThreads : crew'[x] = IF x = t THEN w ELSE crew[x]
  BY DEF LinkInv, CrewOK
<1>4. \A x \in LinkThreads : ThreadOK(crew[x])
  BY DEF LinkInv, CrewOK
<1>5. \A x \in LinkThreads : ThreadOK(crew[x])'
  <2> TAKE x \in LinkThreads
  <2>1. PICK y : y = crew'[x]
    OBVIOUS
  <2>2. ThreadOK(y)
    BY <1>3, <1>4, <2>1
  <2>3. ThreadOK(y)'
    BY <1>2, <2>2
  <2> QED
    BY <2>1, <2>3
<1>6. CrewOK'
  BY <1>3, <1>5 DEF CrewOK
<1> QED
  BY <1>1, <1>6 DEF LinkInv

\* A thread at work works for a link.
LEMMA AtWork ==
  ASSUME LinkInv, NEW t \in LinkThreads, crew[t] # Resting
  PROVE  /\ vb.phase = "link" /\ DOMAIN vb = Fields /\ vb.cursor \in Nat
         /\ ThreadOK(crew[t]) /\ crew = [x \in LinkThreads |-> crew[x]]
  BY DEF LinkInv, CrewOK, IndexOK

\* What a step of thread t must do: keep the invariant, the data and the other threads.
Sound(t) ==
  LinkInv' /\ SameStore /\ (\A u \in LinkThreads \ {t} : crew'[u] = crew[u]) /\ KeepsWitness(t)'

\* A step of one thread, from what it does to its record.
LEMMA SoundLemma ==
  ASSUME LinkInv, vb.phase = "link", NEW t \in LinkThreads, NEW w, ThreadOK(w), crew' = [crew EXCEPT ![t] = w],
         vb'.phase = "link", DOMAIN vb' = Fields, vb'.cursor \in Nat, vb'.nd = vb.nd, SameStore,
         w.pc = "inter" => w.pool = {}
  PROVE  Sound(t)
<1>1. LinkInv'
  BY ThreadStep
<1>2. crew'[t] = w /\ \A u \in LinkThreads \ {t} : crew'[u] = crew[u]
  BY DEF LinkInv, CrewOK
<1>3. KeepsWitness(t)'
  BY <1>2 DEF KeepsWitness
<1> QED
  BY <1>1, <1>2, <1>3 DEF Sound

\* A step that leaves the index alone.
LEMMA StillIndex ==
  ASSUME LinkInv, vb.phase = "link", UNCHANGED vb
  PROVE  vb'.phase = "link" /\ DOMAIN vb' = Fields /\ vb'.cursor \in Nat /\ vb'.nd = vb.nd /\ SameStore
  BY DEF LinkInv, IndexOK, SameStore

\* A thread takes a chunk of nodes to link.
LEMMA TakeChunkSound ==
  ASSUME LinkInv, NEW t \in LinkThreads, TakeChunk(t) PROVE Sound(t)
<1> DEFINE n == Len(VisitOrder)
           b == Min({vb.cursor + ChunkNodes, n})
           q == SubSeq(VisitOrder, vb.cursor + 1, b)
           w == [pc |-> "rest", todo |-> q]
<1>1. vb.phase = "link" /\ crew[t] = Resting /\ vb.cursor < n
  BY DEF TakeChunk
<1>2. VisitOrder \in Seq(DOMAIN vb.at) /\ n \in Nat /\ vb.cursor \in Nat /\ ChunkNodes \in Nat \ {0} /\ DOMAIN vb = Fields
  BY <1>1, LinkData, BuildAssumption DEF LinkInv, IndexOK
<1>3. b \in vb.cursor + 1 .. n
  <2>1. b = CHOOSE x \in {vb.cursor + ChunkNodes, n} : \A y \in {vb.cursor + ChunkNodes, n} : x <= y
    BY DEF Min
  <2> HIDE DEF b
  <2>2. \E x \in {vb.cursor + ChunkNodes, n} : \A y \in {vb.cursor + ChunkNodes, n} : x <= y
    BY <1>2
  <2>3. b \in {vb.cursor + ChunkNodes, n} /\ \A y \in {vb.cursor + ChunkNodes, n} : b <= y
    BY <2>1, <2>2
  <2> QED
    BY <1>1, <1>2, <2>3
<1>4. q \in Seq(DOMAIN vb.at)
  <2> HIDE DEF b
  <2>1. vb.cursor + 1 \in Nat \ {0} /\ b \in 0 .. n
    BY <1>2, <1>3
  <2> QED
    BY <1>2, <2>1, SubSeqLemma
<1>5. crew' = [crew EXCEPT ![t] = w]
  <2>1. crew' = [crew EXCEPT ![t] = [crew[t] EXCEPT !.todo = q]]
    BY DEF TakeChunk
  <2>2. [crew[t] EXCEPT !.todo = q] = w
    <3> HIDE DEF q
    <3> QED
      BY <1>1 DEF Resting
  <2> QED
    BY <2>1, <2>2
<1> HIDE DEF q
<1>6. ThreadOK(w)
  BY <1>4 DEF ThreadOK
<1>7. vb'.phase = "link" /\ DOMAIN vb' = Fields /\ vb'.cursor \in Nat /\ vb'.nd = vb.nd /\ SameStore
  <2>1. vb' = [vb EXCEPT !.cursor = vb.cursor + ChunkNodes]
    BY DEF TakeChunk
  <2>2. vb.cursor + ChunkNodes \in Nat
    BY <1>2
  <2> QED
    BY <1>1, <1>2, <2>1, <2>2 DEF Fields, SameStore
<1> QED
  BY <1>1, <1>5, <1>6, <1>7, SoundLemma

\* The points a filter passes are points.
LEMMA PassingLemma == \A labels, searching : Passing(labels, searching) \subseteq DOMAIN vb.at
  BY DEF Passing

\* A thread begins with a node: its search opens.
LEMMA BeginNodeSound ==
  ASSUME LinkInv, NEW t \in LinkThreads, BeginNode(t) PROVE Sound(t)
<1> DEFINE n == Head(crew[t].todo)
           labels == vb.lines[n]
           s == IF vb.filtered
                THEN Opening({vb.starts[x] : x \in labels}, vb.c.lf, vb.at[n], Passing(labels, FALSE))
                ELSE Opening({vb.start}, vb.c.l, vb.at[n], DOMAIN vb.at)
           w == [pc |-> IF vb.filtered THEN "filtered" ELSE "open", todo |-> Tail(crew[t].todo), node |-> n,
                 found |-> {}, s |-> s]
<1>1. crew[t].pc = "rest" /\ crew[t].todo # <<>> /\ crew[t] # Resting /\ UNCHANGED vb
  BY DEF BeginNode, Resting
<1>2. vb.phase = "link" /\ ThreadOK(crew[t])
  BY <1>1, AtWork
<1>3. Len(vb.c.points[1]) \in Nat /\ PointsOK(Len(vb.c.points[1]))
  BY <1>2, LinkData DEF LinkInv
<1>4. n \in DOMAIN vb.at /\ Tail(crew[t].todo) \in Seq(DOMAIN vb.at)
  <2>1. crew[t].todo \in Seq(DOMAIN vb.at)
    BY <1>2 DEF ThreadOK
  <2> QED
    BY <1>1, <2>1, HeadTailLemma
<1>5. crew' = [crew EXCEPT ![t] = w]
  BY DEF BeginNode
<1> HIDE DEF n, labels
<1>6. vb.at[n] \in Vectors(Len(vb.c.points[1]))
  BY <1>3, <1>4 DEF PointsOK
<1>7. SearchOK(s)
  <2>1. SearchOK(Opening({vb.starts[x] : x \in labels}, vb.c.lf, vb.at[n], Passing(labels, FALSE)))
    BY <1>3, <1>6, PassingLemma, OpeningLemma
  <2>2. SearchOK(Opening({vb.start}, vb.c.l, vb.at[n], DOMAIN vb.at))
    BY <1>3, <1>6, OpeningLemma
  <2> QED
    BY <2>1, <2>2
<1> HIDE DEF s
<1>8. ThreadOK(w) /\ w.pc # "inter"
  BY <1>4, <1>7, FS_EmptySet DEF ThreadOK, SearchFields, n
<1> HIDE DEF w
<1> QED
  BY <1>1, <1>2, <1>5, <1>8, StillIndex, SoundLemma

\* A thread expands a node of its search.
LEMMA ExpandNodeSound ==
  ASSUME LinkInv, NEW t \in LinkThreads, ExpandNode(t) PROVE Sound(t)
<1> DEFINE open == crew[t].pc = "open"
           cap == IF open THEN vb.c.l ELSE vb.c.lf
           allowed == IF open THEN DOMAIN vb.at ELSE Passing(vb.lines[crew[t].node], FALSE)
           s == ExpandClosest(crew[t].s, cap, vb.at[crew[t].node], allowed)
           w == [crew[t] EXCEPT !.s = s]
<1>1. crew[t].pc \in {"filtered", "open"} /\ ~Fixed(crew[t].s) /\ crew[t] # Resting /\ UNCHANGED vb
  BY DEF ExpandNode, Resting
<1>2. vb.phase = "link" /\ ThreadOK(crew[t])
  BY <1>1, AtWork
<1>3. Len(vb.c.points[1]) \in Nat /\ PointsOK(Len(vb.c.points[1]))
  BY <1>2, LinkData DEF LinkInv
<1>4. /\ crew[t].todo \in Seq(DOMAIN vb.at) /\ DOMAIN crew[t] = SearchFields
      /\ crew[t].node \in DOMAIN vb.at /\ SearchOK(crew[t].s)
      /\ crew[t].found \in SUBSET Found /\ IsFiniteSet(crew[t].found)
  BY <1>1, <1>2 DEF ThreadOK
<1>5. crew' = [crew EXCEPT ![t] = w]
  BY DEF ExpandNode
<1>6. vb.at[crew[t].node] \in Vectors(Len(vb.c.points[1]))
  BY <1>3, <1>4 DEF PointsOK
<1>7. allowed \in SUBSET DOMAIN vb.at
  BY PassingLemma
<1> HIDE DEF cap, allowed
<1>8. SearchOK(s)
  BY <1>1, <1>3, <1>4, <1>6, <1>7, ExpandClosestLemma
<1> HIDE DEF s
<1>9. ThreadOK(w) /\ w.pc # "inter"
  <2>1. /\ w.pc = crew[t].pc /\ w.todo = crew[t].todo /\ w.node = crew[t].node /\ w.found = crew[t].found
        /\ w.s = s /\ DOMAIN w = SearchFields
    BY <1>4 DEF SearchFields
  <2> HIDE DEF w
  <2> QED
    BY <1>1, <1>4, <1>8, <2>1 DEF ThreadOK
<1> HIDE DEF w
<1> QED
  BY <1>1, <1>2, <1>5, <1>9, StillIndex, SoundLemma

\* The search among the nodes that share a label is over; the one from the entry point opens.
LEMMA EndFilteredSound ==
  ASSUME LinkInv, NEW t \in LinkThreads, EndFiltered(t) PROVE Sound(t)
<1> DEFINE s == Opening({vb.start}, vb.c.l, vb.at[crew[t].node], DOMAIN vb.at)
           w == [crew[t] EXCEPT !.pc = "open", !.found = crew[t].s.pool, !.s = s]
<1>1. crew[t].pc = "filtered" /\ crew[t] # Resting /\ UNCHANGED vb
  BY DEF EndFiltered, Resting
<1>2. vb.phase = "link" /\ ThreadOK(crew[t])
  BY <1>1, AtWork
<1>3. Len(vb.c.points[1]) \in Nat /\ PointsOK(Len(vb.c.points[1]))
  BY <1>2, LinkData DEF LinkInv
<1>4. /\ crew[t].todo \in Seq(DOMAIN vb.at) /\ DOMAIN crew[t] = SearchFields
      /\ crew[t].node \in DOMAIN vb.at /\ SearchOK(crew[t].s)
  BY <1>1, <1>2 DEF ThreadOK
<1>5. crew' = [crew EXCEPT ![t] = w]
  BY DEF EndFiltered
<1>6. vb.at[crew[t].node] \in Vectors(Len(vb.c.points[1]))
  BY <1>3, <1>4 DEF PointsOK
<1>7. SearchOK(s)
  BY <1>3, <1>6, OpeningLemma
<1> HIDE DEF s
<1>8. ThreadOK(w) /\ w.pc # "inter"
  <2>1. /\ w.pc = "open" /\ w.todo = crew[t].todo /\ w.node = crew[t].node /\ w.found = crew[t].s.pool
        /\ w.s = s /\ DOMAIN w = SearchFields
    BY <1>4 DEF SearchFields
  <2> HIDE DEF w
  <2> QED
    BY <1>4, <1>7, <2>1 DEF ThreadOK, SearchOK
<1> HIDE DEF w
<1> QED
  BY <1>1, <1>2, <1>5, <1>8, StillIndex, SoundLemma

\* A thread is done with a node.
LEMMA EndNodeSound ==
  ASSUME LinkInv, NEW t \in LinkThreads, EndNode(t) PROVE Sound(t)
<1> DEFINE w == [pc |-> "rest", todo |-> crew[t].todo]
<1>1. crew[t].pc = "inter" /\ crew[t] # Resting /\ UNCHANGED vb /\ crew' = [crew EXCEPT ![t] = w]
  BY DEF EndNode, Resting
<1>2. vb.phase = "link" /\ ThreadOK(crew[t])
  BY <1>1, AtWork
<1>3. ThreadOK(w) /\ w.pc # "inter"
  BY <1>2 DEF ThreadOK
<1> HIDE DEF w
<1> QED
  BY <1>1, <1>2, <1>3, StillIndex, SoundLemma

\* A link's thread inserts the back link, or takes a copy of the full list to prune.
LEMMA InterSound ==
  ASSUME LinkInv, NEW t \in LinkThreads, Inter(t) PROVE Sound(t)
<1> DEFINE n == crew[t].node
           des == Head(crew[t].links)
           there == n \in Set(vb.graph[des])
           full == Len(vb.graph[des]) >= SlackRange
           w == IF ~there /\ full
                THEN [crew[t] EXCEPT !.pc = "prune", !.pool = Set(vb.graph[des]) \cup {n}, !.list = <<>>]
                ELSE [crew[t] EXCEPT !.links = Tail(@), !.pool = {}, !.list = <<>>]
<1>1. crew[t].pc = "inter" /\ crew[t] # Resting
  BY DEF Inter, Resting
<1>2. vb.phase = "link" /\ DOMAIN vb = Fields /\ vb.cursor \in Nat /\ ThreadOK(crew[t])
  BY <1>1, AtWork
<1>3. crew[t].todo \in Seq(DOMAIN vb.at) /\ DOMAIN crew[t] = LinkFields
  BY <1>1, <1>2 DEF ThreadOK
<1>4. crew' = [crew EXCEPT ![t] = w]
  BY DEF Inter
<1>5. vb' = IF there \/ full THEN vb ELSE [vb EXCEPT !.graph[des] = Append(@, n)]
  BY DEF Inter
<1>6. vb'.phase = "link" /\ DOMAIN vb' = Fields /\ vb'.cursor \in Nat /\ vb'.nd = vb.nd /\ SameStore
  BY <1>2, <1>5 DEF Fields, SameStore
<1> HIDE DEF there, full, n, des
<1>7. /\ w.todo = crew[t].todo /\ DOMAIN w = LinkFields
      /\ w.pc = "prune" \/ (w.pc = "inter" /\ w.pool = {})
  BY <1>1, <1>3 DEF LinkFields
<1> HIDE DEF w
<1>8. ThreadOK(w)
  BY <1>3, <1>7 DEF ThreadOK
<1> QED
  BY <1>2, <1>4, <1>6, <1>7, <1>8, SoundLemma

\* The pruned copy replaces the list.
LEMMA RepruneSound ==
  ASSUME LinkInv, NEW t \in LinkThreads, Reprune(t) PROVE Sound(t)
<1> DEFINE des == Head(crew[t].links)
           w == [crew[t] EXCEPT !.pc = "inter", !.links = Tail(@), !.pool = {}]
<1>1. crew[t].pc = "prune" /\ crew[t] # Resting
  BY DEF Reprune, Resting
<1>2. vb.phase = "link" /\ DOMAIN vb = Fields /\ vb.cursor \in Nat /\ ThreadOK(crew[t])
  BY <1>1, AtWork
<1>3. crew[t].todo \in Seq(DOMAIN vb.at) /\ DOMAIN crew[t] = LinkFields
  BY <1>1, <1>2 DEF ThreadOK
<1>4. crew' = [crew EXCEPT ![t] = w]
  BY DEF Reprune
<1>5. vb' = [vb EXCEPT !.graph[des] = Repruned(des, crew[t].pool)]
  BY DEF Reprune
<1>6. vb'.phase = "link" /\ DOMAIN vb' = Fields /\ vb'.cursor \in Nat /\ vb'.nd = vb.nd /\ SameStore
  BY <1>2, <1>5 DEF Fields, SameStore
<1>7. w.todo = crew[t].todo /\ DOMAIN w = LinkFields /\ w.pc = "inter" /\ w.pool = {}
  BY <1>1, <1>3 DEF LinkFields
<1> HIDE DEF w
<1>8. ThreadOK(w)
  BY <1>3, <1>7 DEF ThreadOK
<1> QED
  BY <1>2, <1>4, <1>6, <1>7, <1>8, SoundLemma

\* The pool of a node is pruned and becomes its list: whatever it left out has its witness.
LEMMA LinkNodeSound ==
  ASSUME LinkInv, NEW t \in LinkThreads, LinkNode(t) PROVE Sound(t)
<1> DEFINE n == crew[t].node
           pool == {e \in crew[t].s.pool \cup crew[t].found : e.id # n}
           out == PruneNeighbors(n, pool, vb.c.r, vb.c.maxc, vb.c.alpha)
           w == [pc |-> "inter", todo |-> crew[t].todo, node |-> n, links |-> out.list,
                 pool |-> pool, list |-> out.list, events |-> out.events]
<1>1. crew[t].pc = "open" /\ crew[t] # Resting
  BY DEF LinkNode, Resting
<1>2. vb.phase = "link" /\ DOMAIN vb = Fields /\ vb.cursor \in Nat /\ ThreadOK(crew[t]) /\ vb.c \in BuildCases
  BY <1>1, AtWork DEF LinkInv, IndexOK
<1>3. /\ crew[t].todo \in Seq(DOMAIN vb.at) /\ DOMAIN crew[t] = SearchFields
      /\ SearchOK(crew[t].s) /\ crew[t].found \in SUBSET Found /\ IsFiniteSet(crew[t].found)
  BY <1>1, <1>2 DEF ThreadOK
<1>4. vb.c.r \in Nat /\ vb.c.maxc \in Nat /\ vb.c.alpha \in Nat
  BY <1>2, CaseLemma
<1>5. crew' = [crew EXCEPT ![t] = w] /\ vb' = [vb EXCEPT !.graph[n] = out.list, !.pruned = @ \cup out.events]
  BY DEF LinkNode
<1>6. vb'.phase = "link" /\ DOMAIN vb' = Fields /\ vb'.cursor \in Nat /\ vb'.nd = vb.nd /\ SameStore
  BY <1>2, <1>5 DEF Fields, SameStore
<1>7. pool \in SUBSET Found /\ IsFiniteSet(pool) /\ \A e \in pool : e.id # n
  <2>1. IsFiniteSet(crew[t].s.pool \cup crew[t].found)
    BY <1>3, FS_Union DEF SearchOK
  <2> QED
    BY <1>3, <2>1, FS_Subset DEF SearchOK
<1> HIDE DEF pool, n
<1>8. DOMAIN vb.at \subseteq Int
  BY <1>2, LinkData DEF LinkInv, PointsOK
<1>9. vb.c.metric = "l2" /\ ~vb.c.saturate /\ Len(out.list) < vb.c.r =>
        \A e \in Nearest(pool, vb.c.maxc) : e.id \in Set(out.list) \/ Witnessed(e, out.list)
  BY <1>4, <1>7, <1>8, PruneNeighborsLemma
<1> HIDE DEF out
<1>10. ThreadOK(w) /\ w.pool = pool /\ w.list = out.list
  BY <1>3 DEF ThreadOK, LinkFields
<1> HIDE DEF w
<1>11. LinkInv'
  BY <1>2, <1>5, <1>6, <1>10, ThreadStep
<1>12. crew'[t] = w /\ \A u \in LinkThreads \ {t} : crew'[u] = crew[u]
  BY <1>5 DEF LinkInv, CrewOK
<1>13. KeepsWitness(t)'
  <2>1. \A a, b : Between(a, b)' = Between(a, b)
    BY <1>6 DEF Between, SameStore
  <2>2. \A e, list : Witnessed(e, list) => WitnessFor(e, list)'
    BY <1>6, <2>1 DEF Witnessed, WitnessFor, SameStore, MayOcclude
  <2> QED
    BY <1>6, <1>9, <1>10, <1>12, <2>2 DEF KeepsWitness, SameStore
<1> QED
  BY <1>6, <1>11, <1>12, <1>13 DEF Sound

\* The steps of a thread.
ThreadActs(t) == TakeChunk(t) \/ BeginNode(t) \/ ExpandNode(t) \/ EndFiltered(t) \/ LinkNode(t)
                   \/ Inter(t) \/ Reprune(t) \/ EndNode(t)

\* Whichever step a thread takes, it is sound.
LEMMA ThreadActsSound ==
  ASSUME LinkInv, NEW t \in LinkThreads, ThreadActs(t) PROVE Sound(t)
  BY TakeChunkSound, BeginNodeSound, ExpandNodeSound, EndFilteredSound, LinkNodeSound, InterSound, RepruneSound,
     EndNodeSound DEF ThreadActs

\* The other steps find every thread at rest and leave it there.
AtRest == IndexOK' /\ crew' = crew /\ \A t \in LinkThreads : crew[t] = Resting

\* A construction, and a build that is refused.
LEMMA MadeAtRest ==
  ASSUME LinkInv, (\E c \in BuildCases : NewIndex(c)) \/ RefuseBuild PROVE AtRest
<1>1. CASE \E c \in BuildCases : NewIndex(c)
  BY <1>1 DEF LinkInv, CrewOK, IndexOK, NewIndex, AtRest, Phases
<1>2. CASE RefuseBuild
  <2>1. vb' = [vb EXCEPT !.phase = "failed", !.observer = FALSE] /\ vb.phase = "made" /\ crew' = crew
    BY <1>2 DEF RefuseBuild
  <2> QED
    BY <2>1 DEF LinkInv, CrewOK, IndexOK, AtRest, Phases
<1> QED
  BY <1>1, <1>2

\* A build that starts.
LEMMA StartBuildAtRest ==
  ASSUME LinkInv, StartBuild PROVE AtRest
<1>1. vb.phase = "made" /\ BuildAllowed(vb.c) /\ vb.c \in BuildCases /\ crew' = crew
  BY DEF StartBuild, LinkInv, IndexOK
<1>2. /\ DOMAIN vb' = Fields /\ vb'.phase = "link" /\ vb'.c = vb.c /\ vb'.nd = vb.c.load /\ vb'.cursor = 0
      /\ vb'.at = WithFrozen(vb.c, Populated(vb.c))
  BY DEF StartBuild, Fields
<1>3. vb'.at \in [0 .. Capacity(vb.c) - 1 -> Vectors(Len(vb.c.points[1]))]
  BY <1>1, <1>2, StoreLemma
<1>4. BuildAllowed(vb.c)'
  BY <1>1, <1>2 DEF BuildAllowed, Count
<1>5. Capacity(vb.c)' = Capacity(vb.c)
  BY <1>2 DEF Capacity
<1>6. IndexOK'
  BY <1>1, <1>2, <1>3, <1>4, <1>5 DEF IndexOK, Phases, Fields, Vectors
<1> QED
  BY <1>1, <1>6 DEF AtRest, LinkInv, CrewOK

\* The end of the link, the ranking, the searches and the optimized layout.
LEMMA BuiltAtRest ==
  ASSUME LinkInv,
         \/ FinishLink \/ RankNodes \/ OptimizeLayout
         \/ \E ask \in Lookups : Search(ask) \/ SearchWithFilters(ask) \/ SearchOptimized(ask)
  PROVE  AtRest
<1>1. CASE FinishLink
  <2>1. /\ DOMAIN vb' = DOMAIN vb /\ vb'.cursor = vb.cursor /\ vb'.phase \in {"failed", "built"}
        /\ vb.phase = "link" /\ crew' = crew /\ \A t \in LinkThreads : crew[t] = Resting
    BY <1>1 DEF FinishLink, LinkInv, IndexOK, Fields
  <2> QED
    BY <2>1 DEF LinkInv, IndexOK, AtRest, Phases, Fields
<1>2. CASE OptimizeLayout
  <2>1. DOMAIN vb' = DOMAIN vb /\ vb'.cursor = vb.cursor /\ vb'.phase = "built" /\ vb.phase = "built" /\ crew' = crew
    BY <1>2 DEF OptimizeLayout, LinkInv, IndexOK, Fields
  <2> QED
    BY <2>1 DEF LinkInv, CrewOK, IndexOK, AtRest, Phases, Fields
<1>3. CASE RankNodes \/ \E ask \in Lookups : Search(ask) \/ SearchWithFilters(ask) \/ SearchOptimized(ask)
  <2>1. vb.phase = "built" /\ crew' = crew
    BY <1>3 DEF RankNodes, Search, SearchWithFilters, SearchOptimized
  <2>2. \E a : vb' = [vb EXCEPT !.phase = "answered", !.answer = a]
    BY <1>3 DEF RankNodes, Search, SearchWithFilters, SearchOptimized, Answer
  <2>3. DOMAIN vb' = DOMAIN vb /\ vb'.phase = "answered"
    BY <2>1, <2>2 DEF LinkInv, IndexOK, Fields
  <2> QED
    BY <2>1, <2>3 DEF LinkInv, CrewOK, IndexOK, AtRest, Phases, Fields
<1> QED
  BY <1>1, <1>2, <1>3

\* The steps of save and load, and the index's end.
LEMMA FilesAtRest ==
  ASSUME LinkInv,
         \/ BeginSave \/ WriteFile \/ EndSave \/ KillSave
         \/ \E c \in BuildCases : LoadIndex(c)
         \/ DropIndex
  PROVE  AtRest
<1>1. CASE BeginSave \/ WriteFile
  <2>1. /\ DOMAIN vb' = DOMAIN vb /\ vb'.cursor \in Nat /\ vb'.phase = "saving"
        /\ vb.phase \in {"built", "saving"} /\ crew' = crew
    <3>1. vb.phase \in {"built", "saving"} /\ crew' = crew /\ DOMAIN vb = Fields /\ vb.cursor \in Nat
      BY <1>1 DEF BeginSave, WriteFile, LinkInv, IndexOK
    <3>2. CASE BeginSave
      BY <3>1, <3>2 DEF BeginSave, Fields
    <3>3. CASE WriteFile
      <4>1. vb' = [vb EXCEPT !.cursor = vb.cursor + 1] /\ vb.phase = "saving"
        BY <3>3 DEF WriteFile
      <4> QED
        BY <3>1, <4>1 DEF Fields
    <3> QED
      BY <1>1, <3>2, <3>3
  <2> QED
    BY <2>1 DEF LinkInv, CrewOK, IndexOK, AtRest, Phases, Fields
<1>2. CASE EndSave \/ KillSave \/ DropIndex \/ \E c \in BuildCases : LoadIndex(c)
  <2>1. "phase" \in DOMAIN vb' /\ vb'.phase \in {"none", "loaded"} /\ vb.phase # "link" /\ crew' = crew
    BY <1>2 DEF EndSave, KillSave, DropIndex, LoadIndex, NoIndex
  <2> QED
    BY <2>1 DEF LinkInv, CrewOK, IndexOK, AtRest, Phases
<1> QED
  BY <1>1, <1>2

\* Next, split into the steps of a thread and the others.
LEMMA BuildNextCases ==
  BuildNext <=>
    \/ \E t \in LinkThreads : ThreadActs(t)
    \/ (\E c \in BuildCases : NewIndex(c)) \/ RefuseBuild
    \/ StartBuild
    \/ FinishLink \/ RankNodes \/ OptimizeLayout
    \/ (\E ask \in Lookups : Search(ask) \/ SearchWithFilters(ask) \/ SearchOptimized(ask))
    \/ BeginSave \/ WriteFile \/ EndSave \/ KillSave
    \/ (\E c \in BuildCases : LoadIndex(c))
    \/ DropIndex
  BY DEF BuildNext, ThreadActs

\* Every step keeps the invariant and every thread's witnesses.
LEMMA WitnessNext ==
  ASSUME WitnessInv, [BuildNext]_buildVars PROVE WitnessInv'
<1>1. CASE \E t \in LinkThreads : ThreadActs(t)
  <2>1. PICK t \in LinkThreads : ThreadActs(t)
    BY <1>1
  <2>2. Sound(t)
    BY <2>1, ThreadActsSound DEF WitnessInv
  <2>3. \A u \in LinkThreads : KeepsWitness(u)
    BY DEF WitnessInv, PruneKeepsWitness, KeepsWitness
  <2>4. \A u \in LinkThreads : KeepsWitness(u)'
    BY <2>2, <2>3, KeepLemma DEF Sound
  <2>5. PruneKeepsWitness'
    BY <2>4 DEF PruneKeepsWitness, KeepsWitness
  <2> QED
    BY <2>2, <2>5 DEF Sound, WitnessInv
<1>2. CASE UNCHANGED buildVars
  <2>1. vb' = vb /\ crew' = crew /\ SameStore
    BY <1>2 DEF buildVars, SameStore
  <2>2. \A u \in LinkThreads : KeepsWitness(u)
    BY DEF WitnessInv, PruneKeepsWitness, KeepsWitness
  <2>3. \A u \in LinkThreads : KeepsWitness(u)'
    BY <2>1, <2>2, KeepLemma
  <2>4. PruneKeepsWitness'
    BY <2>3 DEF PruneKeepsWitness, KeepsWitness
  <2>5. LinkInv'
    BY <2>1 DEF WitnessInv, LinkInv, IndexOK, CrewOK, ThreadOK, SearchOK, Found, Queued, BuildAllowed
  <2> QED
    BY <2>4, <2>5 DEF WitnessInv
<1>3. CASE AtRest
  <2>1. \A t \in LinkThreads : crew'[t] = Resting
    BY <1>3 DEF AtRest
  <2>2. PruneKeepsWitness'
    BY <2>1 DEF PruneKeepsWitness, Resting
  <2>3. \A t \in LinkThreads : ThreadOK(crew[t])'
    <3> TAKE t \in LinkThreads
    <3>1. PICK w : w = crew'[t]
      OBVIOUS
    <3>2. w.todo = <<>> /\ w.pc = "rest" /\ w = [pc |-> "rest", todo |-> w.todo]
      BY <2>1, <3>1 DEF Resting
    <3>3. <<>> \in Seq(DOMAIN vb'.at)
      OBVIOUS
    <3>4. ThreadOK(w)'
      BY <3>2, <3>3 DEF ThreadOK
    <3> QED
      BY <3>1, <3>4
  <2>4. CrewOK'
    BY <1>3, <2>1, <2>3 DEF CrewOK, AtRest, WitnessInv, LinkInv
  <2> QED
    BY <1>3, <2>2, <2>4 DEF WitnessInv, LinkInv, AtRest
<1> QED
  BY <1>1, <1>2, <1>3, MadeAtRest, StartBuildAtRest, BuiltAtRest, FilesAtRest, BuildNextCases DEF WitnessInv

\* RobustPrune: a candidate that a list with room left out has a kept witness, in a filtered index
\* one that carries all its labels.
THEOREM PruneKeepsWitnessHolds == BuildSpec => []PruneKeepsWitness
<1>1. BuildInit => WitnessInv
  <2>1. BuildInit => PruneKeepsWitness
    BY DEF BuildInit, PruneKeepsWitness, Resting
  <2> QED
    BY <2>1, LinkInit DEF WitnessInv
<1>2. WitnessInv /\ [BuildNext]_buildVars => WitnessInv'
  BY WitnessNext
<1>3. WitnessInv => PruneKeepsWitness
  BY DEF WitnessInv
<1> QED
  BY <1>1, <1>2, <1>3, PTL DEF BuildSpec

-----------------------------------------------------------------------------
(* save and load *)

\* What the files hold after a save that ended.
FilesHold ==
  /\ stored["graph"] = [kind |-> "graph", count |-> wrote.count, start |-> wrote.start, graph |-> wrote.graph]
  /\ stored["data"] = [kind |-> "data", count |-> wrote.count, at |-> wrote.at]
  /\ wrote.filtered =>
       /\ stored["medoids"] = [kind |-> "medoids", starts |-> wrote.starts]
       /\ stored["labels"] = [kind |-> "labels", lines |-> wrote.lines]
       /\ wrote.universal => stored["universal"] = [kind |-> "universal"]

\* The files a save has behind it hold what it writes to them.
Written(n) == \A i \in 1 .. n : stored[Writes[i][1]] = Writes[i][2]

SaveInv ==
  /\ LinkInv /\ SavedIndexLoads
  /\ stored = [f \in FileNames |-> stored[f]]
  /\ vb.phase = "saving" => vb.cursor \in 1 .. Len(Writes) + 1 /\ Written(vb.cursor - 1)
  /\ vb.phase # "saving" /\ wrote.kind = "saved" => FilesHold

GraphFile == <<"graph", [kind |-> "graph", count |-> vb.nd, start |-> vb.start, graph |-> Loaded(vb.graph)]>>
DataFile == <<"data", [kind |-> "data", count |-> vb.nd, at |-> Loaded(vb.at)]>>
MedoidsFile == <<"medoids", [kind |-> "medoids", starts |-> vb.starts]>>
LabelsFile == <<"labels", [kind |-> "labels", lines |-> Loaded(vb.lines)]>>
UniversalFile == <<"universal", [kind |-> "universal"]>>

\* A sequence of the files in their order.
Lists(w, row) == Len(w) = Len(row) /\ \A i \in 1 .. Len(row) : w[i] = row[i]

\* The files in their order.
LEMMA WritesCases ==
  \/ ~vb.filtered /\ Lists(Writes, <<GraphFile, DataFile>>)
  \/ vb.filtered /\ ~vb.universal /\ Lists(Writes, <<MedoidsFile, LabelsFile, GraphFile, DataFile>>)
  \/ vb.filtered /\ vb.universal /\ Lists(Writes, <<MedoidsFile, UniversalFile, LabelsFile, GraphFile, DataFile>>)
<1> DEFINE S == {GraphFile, DataFile, MedoidsFile, LabelsFile, UniversalFile}
           one == <<MedoidsFile>>
           two == one \o <<LabelsFile>>
           with == one \o <<UniversalFile>>
           three == with \o <<LabelsFile>>
<1>1. Writes = (IF ~vb.filtered THEN <<>> ELSE
                  <<MedoidsFile>> \o (IF vb.universal THEN <<UniversalFile>> ELSE <<>>) \o <<LabelsFile>>)
               \o <<GraphFile, DataFile>>
  BY DEF Writes, GraphFile, DataFile, MedoidsFile, LabelsFile, UniversalFile
<1>2. GraphFile \in S /\ DataFile \in S /\ MedoidsFile \in S /\ LabelsFile \in S /\ UniversalFile \in S
  OBVIOUS
<1> HIDE DEF GraphFile, DataFile, MedoidsFile, LabelsFile, UniversalFile, S
<1>3. one \in Seq(S) /\ Len(one) = 1 /\ one[1] = MedoidsFile /\ <<>> \in Seq(S) /\ Len(<<>>) = 0
  BY <1>2
<1> HIDE DEF one
<1>4. two \in Seq(S) /\ Len(two) = 2 /\ two[1] = MedoidsFile /\ two[2] = LabelsFile
  <2>1. 1 \in 1 .. Len(one) /\ Len(one) + 1 = 2
    BY <1>3
  <2>2. Longer(S, two, one, <<LabelsFile>>)
    <3>1. <<LabelsFile>> \in Seq(S)
      BY <1>2
    <3> QED
      BY <1>3, <3>1, LongerLemma
  <2> HIDE DEF two
  <2> QED
    BY <1>3, <2>1, <2>2 DEF Longer
<1>5. with \in Seq(S) /\ Len(with) = 2 /\ with[1] = MedoidsFile /\ with[2] = UniversalFile
  <2>1. 1 \in 1 .. Len(one) /\ Len(one) + 1 = 2
    BY <1>3
  <2>2. Longer(S, with, one, <<UniversalFile>>)
    <3>1. <<UniversalFile>> \in Seq(S)
      BY <1>2
    <3> QED
      BY <1>3, <3>1, LongerLemma
  <2> HIDE DEF with
  <2> QED
    BY <1>3, <2>1, <2>2 DEF Longer
<1> HIDE DEF two, with
<1>6. three \in Seq(S) /\ Len(three) = 3 /\ three[1] = MedoidsFile /\ three[2] = UniversalFile /\ three[3] = LabelsFile
  <2>1. 1 \in 1 .. Len(with) /\ 2 \in 1 .. Len(with) /\ Len(with) + 1 = 3
    BY <1>5
  <2>2. Longer(S, three, with, <<LabelsFile>>)
    <3>1. <<LabelsFile>> \in Seq(S)
      BY <1>2
    <3> QED
      BY <1>5, <3>1, LongerLemma
  <2> HIDE DEF three
  <2> QED
    BY <1>5, <2>1, <2>2 DEF Longer
<1> HIDE DEF three
<1>7. CASE ~vb.filtered
  <2>1. Writes = <<GraphFile, DataFile>>
    <3>1. <<GraphFile, DataFile>> \in Seq(S)
      BY <1>2
    <3>2. Writes = <<>> \o <<GraphFile, DataFile>>
      BY <1>1, <1>7
    <3> QED
      BY <3>1, <3>2, ConcatEmptySeq
  <2> QED
    BY <1>7, <2>1 DEF Lists
<1>8. CASE vb.filtered /\ ~vb.universal
  <2> DEFINE u == two \o <<GraphFile, DataFile>>
  <2>1. Writes = u
    <3>1. one \o <<>> = one
      BY <1>3, ConcatEmptySeq
    <3> QED
      BY <1>1, <1>8, <3>1 DEF one, two
  <2>2. 1 \in 1 .. Len(two) /\ 2 \in 1 .. Len(two) /\ Len(two) + 1 = 3 /\ Len(two) + 2 = 4
    BY <1>4
  <2>3. Len(u) = 4 /\ u[1] = MedoidsFile /\ u[2] = LabelsFile /\ u[3] = GraphFile /\ u[4] = DataFile
    <3>1. Longer(S, u, two, <<GraphFile, DataFile>>)
      <4>1. <<GraphFile, DataFile>> \in Seq(S)
        BY <1>2
      <4> QED
        BY <1>4, <4>1, LongerLemma
    <3> HIDE DEF u
    <3> QED
      BY <1>4, <2>2, <3>1 DEF Longer
  <2> HIDE DEF u
  <2> QED
    BY <1>8, <2>1, <2>3 DEF Lists
<1>9. CASE vb.filtered /\ vb.universal
  <2> DEFINE u == three \o <<GraphFile, DataFile>>
  <2>1. Writes = u
    BY <1>1, <1>9 DEF one, with, three
  <2>2. 1 \in 1 .. Len(three) /\ 2 \in 1 .. Len(three) /\ 3 \in 1 .. Len(three) /\ Len(three) + 1 = 4 /\ Len(three) + 2 = 5
    BY <1>6
  <2>3. /\ Len(u) = 5 /\ u[1] = MedoidsFile /\ u[2] = UniversalFile /\ u[3] = LabelsFile
        /\ u[4] = GraphFile /\ u[5] = DataFile
    <3>1. Longer(S, u, three, <<GraphFile, DataFile>>)
      <4>1. <<GraphFile, DataFile>> \in Seq(S)
        BY <1>2
      <4> QED
        BY <1>6, <4>1, LongerLemma
    <3> HIDE DEF u
    <3> QED
      BY <1>6, <2>2, <3>1 DEF Longer
  <2> HIDE DEF u
  <2> QED
    BY <1>9, <2>1, <2>3 DEF Lists
<1> QED
  BY <1>7, <1>8, <1>9

\* They have different names.
LEMMA WritesNames ==
  /\ Len(Writes) \in Nat
  /\ \A i \in 1 .. Len(Writes) : Writes[i][1] \in FileNames
  /\ \A i, j \in 1 .. Len(Writes) : i # j => Writes[i][1] # Writes[j][1]
<1> USE DEF GraphFile, DataFile, MedoidsFile, LabelsFile, UniversalFile, FileNames, Lists
<1>1. CASE Lists(Writes, <<GraphFile, DataFile>>)
  BY <1>1
<1>2. CASE Lists(Writes, <<MedoidsFile, LabelsFile, GraphFile, DataFile>>)
  BY <1>2
<1>3. CASE Lists(Writes, <<MedoidsFile, UniversalFile, LabelsFile, GraphFile, DataFile>>)
  BY <1>3
<1> QED
  BY <1>1, <1>2, <1>3, WritesCases

\* A save that wrote all its files holds the index.
LEMMA AllWritten ==
  ASSUME Written(Len(Writes)), wrote' = [kind |-> "saved", count |-> vb.nd, start |-> vb.start,
               graph |-> Loaded(vb.graph), at |-> Loaded(vb.at), filtered |-> vb.filtered, starts |-> vb.starts,
               lines |-> Loaded(vb.lines), universal |-> vb.universal],
         stored' = stored
  PROVE  FilesHold'
<1> USE DEF Written, Lists, GraphFile, DataFile, MedoidsFile, LabelsFile, UniversalFile
<1>1. CASE ~vb.filtered /\ Lists(Writes, <<GraphFile, DataFile>>)
  <2>1. Len(Writes) = 2 /\ 1 \in 1 .. 2 /\ 2 \in 1 .. 2
    BY <1>1
  <2> QED
    BY <1>1, <2>1 DEF FilesHold
<1>2. CASE vb.filtered /\ ~vb.universal /\ Lists(Writes, <<MedoidsFile, LabelsFile, GraphFile, DataFile>>)
  <2>1. Len(Writes) = 4 /\ 1 \in 1 .. 4 /\ 2 \in 1 .. 4 /\ 3 \in 1 .. 4 /\ 4 \in 1 .. 4
    BY <1>2
  <2> QED
    BY <1>2, <2>1 DEF FilesHold
<1>3. CASE vb.filtered /\ vb.universal /\ Lists(Writes, <<MedoidsFile, UniversalFile, LabelsFile, GraphFile, DataFile>>)
  <2>1. Len(Writes) = 5 /\ 1 \in 1 .. 5 /\ 2 \in 1 .. 5 /\ 3 \in 1 .. 5 /\ 4 \in 1 .. 5 /\ 5 \in 1 .. 5
    BY <1>3
  <2> QED
    BY <1>3, <2>1 DEF FilesHold
<1> QED
  BY <1>1, <1>2, <1>3, WritesCases

\* A step that neither saves nor loads leaves the files and what they hold.
LEMMA FilesStay ==
  ASSUME SaveInv, LinkInv', UNCHANGED <<stored, wrote>>, vb.phase # "saving", vb'.phase \notin {"saving", "loaded"}
  PROVE  SaveInv'
<1>1. SavedIndexLoads'
  BY DEF SavedIndexLoads
<1>2. wrote.kind = "saved" => FilesHold'
  BY DEF SaveInv, FilesHold
<1> QED
  BY <1>1, <1>2 DEF SaveInv

\* What save writes depends on the data of the index alone.
LEMMA WritesStay ==
  ASSUME vb'.nd = vb.nd, vb'.start = vb.start, vb'.graph = vb.graph, vb'.at = vb.at, vb'.lines = vb.lines,
         vb'.starts = vb.starts, vb'.filtered = vb.filtered, vb'.universal = vb.universal
  PROVE  Writes' = Writes
<1>1. Loaded(vb.graph)' = Loaded(vb.graph) /\ Loaded(vb.at)' = Loaded(vb.at) /\ Loaded(vb.lines)' = Loaded(vb.lines)
  BY DEF Loaded
<1> QED
  BY <1>1 DEF Writes

\* A file is written after the ones before it.
LEMMA WriteFileSaves ==
  ASSUME SaveInv, LinkInv', WriteFile PROVE SaveInv'
<1>0. PICK n : n = vb.cursor
  OBVIOUS
<1>1. vb.phase = "saving" /\ n \in 1 .. Len(Writes) /\ DOMAIN vb = Fields /\ Written(n - 1)
  BY <1>0, WritesNames DEF WriteFile, SaveInv, LinkInv, IndexOK
<1>2. vb' = [vb EXCEPT !.cursor = n + 1] /\ stored' = [stored EXCEPT ![Writes[n][1]] = Writes[n][2]] /\ wrote' = wrote
  BY <1>0 DEF WriteFile
<1>3. vb'.phase = "saving" /\ vb'.cursor = n + 1
  BY <1>1, <1>2 DEF Fields
<1>4. Writes' = Writes
  <2>1. /\ vb'.nd = vb.nd /\ vb'.start = vb.start /\ vb'.graph = vb.graph /\ vb'.at = vb.at /\ vb'.lines = vb.lines
        /\ vb'.starts = vb.starts /\ vb'.filtered = vb.filtered /\ vb'.universal = vb.universal
    BY <1>1, <1>2 DEF Fields
  <2> QED
    BY <2>1, WritesStay
<1>5. Len(Writes) \in Nat /\ Writes[n][1] \in FileNames
  BY <1>1, WritesNames
<1>6. ASSUME NEW i \in 1 .. n PROVE stored'[Writes[i][1]] = Writes[i][2]
  <2>1. i \in 1 .. Len(Writes) /\ n \in 1 .. Len(Writes)
    BY <1>1, <1>5
  <2>2. Writes[i][1] \in FileNames /\ (i # n => Writes[i][1] # Writes[n][1] /\ i \in 1 .. n - 1)
    BY <1>1, <2>1, WritesNames
  <2>3. stored = [f \in FileNames |-> stored[f]]
    BY DEF SaveInv
  <2> HIDE DEF FileNames
  <2> QED
    BY <1>1, <1>2, <1>5, <2>2, <2>3 DEF Written
<1>7. Written(n)'
  BY <1>4, <1>6 DEF Written
<1>8. vb'.cursor \in 1 .. Len(Writes') + 1 /\ vb'.cursor - 1 = n
  BY <1>1, <1>3, <1>4, <1>5
<1>9. stored' = [f \in FileNames |-> stored'[f]]
  BY <1>2 DEF SaveInv
<1>10. SavedIndexLoads'
  BY <1>3 DEF SavedIndexLoads
<1> QED
  BY <1>3, <1>7, <1>8, <1>9, <1>10 DEF SaveInv, Written

\* Every step keeps it.
LEMMA SaveNext ==
  ASSUME SaveInv, LinkInv', [BuildNext]_buildVars PROVE SaveInv'
<1>1. CASE \E t \in LinkThreads : ThreadActs(t)
  <2>1. PICK t \in LinkThreads : ThreadActs(t)
    BY <1>1
  <2>2. UNCHANGED <<stored, wrote>>
    BY <2>1 DEF ThreadActs, TakeChunk, BeginNode, ExpandNode, EndFiltered, LinkNode, Inter, Reprune, EndNode
  <2>3. vb.phase = "link"
    <3>1. CASE TakeChunk(t)
      BY <3>1 DEF TakeChunk
    <3>2. CASE ~TakeChunk(t)
      <4>1. BeginNode(t) => crew[t].todo # <<>>
        BY DEF BeginNode
      <4>2. ExpandNode(t) \/ EndFiltered(t) \/ LinkNode(t) \/ Inter(t) \/ Reprune(t) \/ EndNode(t) => crew[t].pc # "rest"
        BY DEF ExpandNode, EndFiltered, LinkNode, Inter, Reprune, EndNode
      <4>3. crew[t] # Resting
        BY <2>1, <3>2, <4>1, <4>2 DEF ThreadActs, Resting
      <4> QED
        BY <4>3, AtWork DEF SaveInv
    <3> QED
      BY <3>1, <3>2
  <2>4. vb'.phase = "link"
    <3>1. DOMAIN vb = Fields
      BY <2>3 DEF SaveInv, LinkInv, IndexOK
    <3> QED
      BY <2>1, <2>3, <3>1
         DEF ThreadActs, TakeChunk, BeginNode, ExpandNode, EndFiltered, LinkNode, Inter, Reprune, EndNode, Fields
  <2> QED
    BY <2>2, <2>3, <2>4, FilesStay
<1> DEFINE Makes == \E c \in BuildCases : NewIndex(c)
           Asks == \E ask \in Lookups : Search(ask) \/ SearchWithFilters(ask) \/ SearchOptimized(ask)
<1>2. CASE Makes \/ RefuseBuild \/ StartBuild \/ FinishLink \/ RankNodes \/ OptimizeLayout \/ DropIndex \/ Asks
  <2>1. UNCHANGED <<stored, wrote>> /\ vb.phase # "saving"
    BY <1>2 DEF NewIndex, RefuseBuild, StartBuild, FinishLink, RankNodes, OptimizeLayout, DropIndex,
                Search, SearchWithFilters, SearchOptimized
  <2>2. vb'.phase \in {"made", "failed", "link", "built", "answered", "none"}
    <3>1. vb.phase \in {"built", "link"} => DOMAIN vb = Fields
      BY DEF SaveInv, LinkInv, IndexOK
    <3>2. vb.phase = "made" => DOMAIN vb = {"phase", "c", "observer"}
      BY DEF SaveInv, LinkInv, IndexOK
    <3>3. CASE Makes \/ DropIndex
      BY <3>3 DEF NewIndex, DropIndex, NoIndex
    <3>6. CASE RefuseBuild
      BY <3>2, <3>6 DEF RefuseBuild
    <3>7. CASE StartBuild
      BY <3>7 DEF StartBuild
    <3>4. CASE FinishLink \/ RankNodes \/ OptimizeLayout
      BY <3>1, <3>4 DEF FinishLink, RankNodes, OptimizeLayout, Fields
    <3>5. CASE Asks
      <4>1. vb.phase = "built" /\ \E a : vb' = [vb EXCEPT !.phase = "answered", !.answer = a]
        BY <3>5 DEF Search, SearchWithFilters, SearchOptimized, Answer
      <4> QED
        BY <3>1, <4>1 DEF Fields
    <3> HIDE DEF Makes, Asks
    <3> QED
      BY <1>2, <3>3, <3>4, <3>5, <3>6, <3>7
  <2> QED
    BY <2>1, <2>2, FilesStay
<1>3. CASE BeginSave
  <2>1. vb' = [vb EXCEPT !.phase = "saving", !.cursor = 1] /\ DOMAIN vb = Fields /\ UNCHANGED <<stored, wrote>>
    BY <1>3 DEF BeginSave, SaveInv, LinkInv, IndexOK
  <2>2. vb'.phase = "saving" /\ vb'.cursor = 1
    BY <2>1 DEF Fields
  <2>3. Len(Writes') \in Nat
    BY WritesNames
  <2>4. Written(0)' /\ SavedIndexLoads'
    BY <2>2 DEF Written, SavedIndexLoads
  <2> QED
    BY <2>1, <2>2, <2>3, <2>4 DEF SaveInv
<1>4. CASE WriteFile
  BY <1>4, WriteFileSaves
<1>5. CASE EndSave
  <2>1. vb'.phase = "none" /\ stored' = stored /\ Written(Len(Writes))
    <3>1. vb.phase = "saving" /\ vb.cursor > Len(Writes) /\ vb.cursor \in 1 .. Len(Writes) + 1 /\ Written(vb.cursor - 1)
      BY <1>5 DEF EndSave, SaveInv
    <3>2. vb.cursor - 1 = Len(Writes)
      BY <3>1, WritesNames
    <3> QED
      BY <1>5, <3>1, <3>2 DEF EndSave, NoIndex
  <2>2. FilesHold'
    BY <1>5, <2>1, AllWritten DEF EndSave
  <2>3. SavedIndexLoads'
    BY <2>1 DEF SavedIndexLoads
  <2> QED
    BY <2>1, <2>2, <2>3 DEF SaveInv
<1>6. CASE KillSave
  <2>1. vb'.phase = "none" /\ wrote'.kind = "torn" /\ stored' = [f \in FileNames |-> stored'[f]]
    BY <1>6 DEF KillSave, NoIndex, Torn, SaveInv
  <2>2. SavedIndexLoads'
    BY <2>1 DEF SavedIndexLoads
  <2> QED
    BY <2>1, <2>2 DEF SaveInv
<1>7. CASE \E c \in BuildCases : LoadIndex(c)
  <2>1. PICK c \in BuildCases : LoadIndex(c)
    BY <1>7
  <2>2. UNCHANGED <<stored, wrote>> /\ vb.phase = "none" /\ vb'.phase = "loaded"
    BY <2>1 DEF LoadIndex
  <2>3. wrote.kind = "saved" => FilesHold
    BY <2>2 DEF SaveInv
  <2>4. wrote.kind = "saved" => FilesHold'
    BY <2>2, <2>3 DEF FilesHold
  <2>5. /\ vb'.nd = stored["data"].count /\ vb'.at = stored["data"].at
        /\ vb'.graph = stored["graph"].graph /\ vb'.start = stored["graph"].start
    BY <2>1 DEF LoadIndex
  <2>6. stored["labels"] # Missing /\ stored["medoids"] # Missing =>
          /\ vb'.lines = stored["labels"].lines /\ vb'.starts = stored["medoids"].starts
          /\ stored["universal"] # Missing => vb'.universal
    BY <2>1 DEF LoadIndex
  <2>7. SavedIndexLoads'
    BY <2>2, <2>3, <2>5, <2>6 DEF SavedIndexLoads, FilesHold, Missing
  <2> QED
    BY <2>2, <2>4, <2>7 DEF SaveInv
<1>8. CASE UNCHANGED buildVars
  <2>1. vb' = vb /\ stored' = stored /\ wrote' = wrote
    BY <1>8 DEF buildVars
  <2> QED
    <3>1. Writes' = Writes
      BY <2>1, WritesStay
    <3>2. \A n : Written(n) => Written(n)'
      BY <2>1, <3>1 DEF Written
    <3>3. SavedIndexLoads'
      BY <2>1 DEF SavedIndexLoads, SaveInv
    <3>4. FilesHold => FilesHold'
      BY <2>1 DEF FilesHold
    <3> QED
      BY <2>1, <3>1, <3>2, <3>3, <3>4 DEF SaveInv
<1> QED
  BY <1>1, <1>2, <1>3, <1>4, <1>5, <1>6, <1>7, <1>8, BuildNextCases

\* What a save that ended wrote is what the next load gives back, its labels with it, whatever an
\* earlier index left under the prefix.
THEOREM SavedIndexLoadsHolds == BuildSpec => []SavedIndexLoads
<1>1. BuildInit => SaveInv
  <2> SUFFICES ASSUME BuildInit PROVE SaveInv
    OBVIOUS
  <2>1. vb.phase = "none" /\ wrote.kind = "missing" /\ stored = [f \in FileNames |-> Missing]
    BY DEF BuildInit, NoIndex, Missing
  <2>2. SavedIndexLoads
    BY <2>1 DEF SavedIndexLoads
  <2>3. stored = [f \in FileNames |-> stored[f]]
    BY <2>1
  <2> QED
    BY <2>1, <2>2, <2>3, LinkInit DEF SaveInv
<1>2. BuildInit => WitnessInv
  BY LinkInit DEF WitnessInv, BuildInit, PruneKeepsWitness, Resting
<1>3. WitnessInv /\ [BuildNext]_buildVars => WitnessInv'
  BY WitnessNext
<1>4. WitnessInv' /\ SaveInv /\ [BuildNext]_buildVars => SaveInv'
  BY SaveNext DEF WitnessInv
<1>5. SaveInv => SavedIndexLoads
  BY DEF SaveInv
<1> QED
  BY <1>1, <1>2, <1>3, <1>4, <1>5, PTL DEF BuildSpec
=============================================================================

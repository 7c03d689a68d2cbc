----------------------------- MODULE VamanaIndex -----------------------------
(***************************************************************************)
(* The incremental Vamana index (vamana_index_t with dynamic_index and     *)
(* tags): slots, tags, the delete set and the graph, under threads that    *)
(* insert, delete, consolidate and search at the same time.                *)
(*                                                                         *)
(* A step is what runs under one hold of the locks that guard its data:    *)
(* tag_lock_ and delete_lock_ for the slot tables, locks_[n] for the       *)
(* adjacency list of n.  update_lock_ is held across steps: shared by an   *)
(* insert and a search from the first step to the last, exclusively by a   *)
(* consolidation when conc_consolidate_ is off.  Distances only decide     *)
(* which candidates survive a prune, so a prune is a choice; the candidate *)
(* queue is at least as long as the index, so nothing is evicted from it.  *)
(***************************************************************************)
EXTENDS Integers, Sequences, SequencesExt, FiniteSets

CONSTANTS
    MaxPoints,      \* max_points_
    VTags,          \* the tags callers use (all nonzero)
    VThreads,       \* threads that call the index
    MaxDegree,      \* indexing_range_
    MaxInserts,     \* bound on the insert_point calls that reserve a slot
    MaxSaves,       \* bound on the saves
    Zero,           \* the tag 0, which save_tags writes for a slot without a tag
    Blank           \* the contents of a vector slot never written

ASSUME VamanaAssumption ==
    /\ MaxPoints \in Nat \ {0} /\ MaxDegree \in Nat \ {0}
    /\ MaxInserts \in Nat /\ MaxSaves \in Nat
    /\ Zero \notin VTags /\ Blank \notin VTags /\ Zero # Blank

Locs == 0..(MaxPoints - 1)
Frozen == MaxPoints
Nodes == Locs \cup {Frozen}
NoLoc == -1
Slack == (13 * MaxDegree) \div 10

VARIABLES
    conc,       \* conc_consolidate_
    nd,         \* nd_
    emptySlots, \* empty_slots_.values_vector_, popped at the back
    deleteSet,  \* *delete_set_
    tagLoc,     \* tag_to_location_ (NoLoc: absent)
    locTag,     \* location_to_tag_ (Blank: absent)
    compacted,  \* data_compacted_
    vec,        \* data_store_: whose vector a location holds
    graph,      \* graph_store_
    call,       \* what each thread is doing
    conso,      \* the running consolidation
    files,      \* the last save: tags and vectors by location, graph; or empty
    inserts, saves,
    damaged     \* history: a save met a layout with holes that data_compacted_ calls compact

vvars == <<conc, nd, emptySlots, deleteSet, tagLoc, locTag, compacted, vec, graph,
           call, conso, files, inserts, saves, damaged>>
slots == <<nd, emptySlots, deleteSet, tagLoc, locTag, compacted>>
bounds == <<inserts, saves, damaged>>

Empties == ToSet(emptySlots)
Tagged(l) == locTag[l] # Blank
TaggedLocs == {l \in Locs : Tagged(l)}
Live == {tag \in VTags \cup {Zero} : tagLoc[tag] # NoLoc}

\* call[t]: the frontier holds scored candidates not yet expanded, the pool the expanded
\* ones; links is the pruned list of an insert, copy the neighbours taken for a reverse prune.
Idle == [pc |-> "idle", loc |-> NoLoc, tag |-> Blank, frontier |-> {}, pool |-> {}, links |-> {},
         des |-> NoLoc, copy |-> {}]

\* conso.old is old_delete_set; todo the nodes process_delete has not reached; each node in
\* work keeps the set it expands and the deleted neighbours it still has to read.
NoConso == [pc |-> "idle", by |-> Blank, old |-> {}, todo |-> {}, work |-> {}]

NoFiles == [points |-> -1, tag |-> <<>>, vec |-> <<>>, graph |-> <<>>]

\* A built index with its frozen start point, no user points, after enable_delete, which
\* fills the empty slots in ascending order.
VInit ==
    /\ conc \in BOOLEAN
    /\ nd = 0 /\ deleteSet = {} /\ compacted = TRUE
    /\ emptySlots = [i \in 1..MaxPoints |-> i - 1]
    /\ tagLoc = [tag \in VTags \cup {Zero} |-> NoLoc]
    /\ locTag = [l \in Locs |-> Blank]
    /\ vec = [n \in Nodes |-> IF n = Frozen THEN Zero ELSE Blank]
    /\ graph = [n \in Nodes |-> {}]
    /\ call = [t \in VThreads |-> Idle]
    /\ conso = NoConso /\ files = NoFiles
    /\ inserts = 0 /\ saves = 0 /\ damaged = FALSE

-----------------------------------------------------------------------------
(* Locks held across steps *)

ExclusiveUpdate == ~conc /\ conso.pc # "idle"
NoReaders_ButSearches == \A t \in VThreads : call[t].pc \in {"idle", "search"}
NoReaders == \A t \in VThreads : call[t].pc = "idle"
Quiet == NoReaders /\ conso.pc = "idle"

\* reserve_location: the consecutive slot before enable_delete filled empty_slots_, else the
\* most recently freed one.
Reservable == nd < MaxPoints
Reserved == IF compacted /\ emptySlots = <<>> THEN nd ELSE Last(emptySlots)
EmptyAfterReserve == IF compacted /\ emptySlots = <<>> THEN emptySlots ELSE Front(emptySlots)
DeletesAfterReserve == deleteSet \ {Reserved}

\* insert_point up to the release of tag_lock_: a slot, then both tag tables.  A full index
\* and a tag already present return -1, the slot given back.
InsertReserve(t, tag) ==
    /\ call[t].pc = "idle" /\ ~ExclusiveUpdate
    /\ inserts < MaxInserts
    /\ Reservable
    /\ tagLoc[tag] = NoLoc
    /\ nd' = nd + 1
    /\ emptySlots' = EmptyAfterReserve
    /\ deleteSet' = DeletesAfterReserve
    /\ tagLoc' = [tagLoc EXCEPT ![tag] = Reserved]
    /\ locTag' = [locTag EXCEPT ![Reserved] = tag]
    /\ call' = [call EXCEPT ![t] = [Idle EXCEPT !.pc = "write", !.loc = Reserved,
                                                !.tag = tag]]
    /\ inserts' = inserts + 1
    /\ UNCHANGED <<conc, compacted, vec, graph, conso, files, saves, damaged>>

\* The duplicate tag: release_location puts the slot back, at the end of the vector.
InsertDuplicate(t, tag) ==
    /\ call[t].pc = "idle" /\ ~ExclusiveUpdate
    /\ Reservable /\ tagLoc[tag] # NoLoc
    /\ emptySlots' = Append(EmptyAfterReserve, Reserved)
    /\ deleteSet' = DeletesAfterReserve
    /\ UNCHANGED <<conc, nd, tagLoc, locTag, compacted, vec, graph, call, conso, files, bounds>>

\* data_store_->set_vector, outside every lock but update_lock_, then get_init_ids.
InsertWrite(t) ==
    /\ call[t].pc = "write"
    /\ vec' = [vec EXCEPT ![call[t].loc] = call[t].tag]
    /\ call' = [call EXCEPT ![t].pc = "expand", ![t].tag = Blank,
                            ![t].frontier = {<<Frozen, vec[Frozen]>>}]
    /\ UNCHANGED <<conc, slots, graph, conso, files, bounds>>

\* search_with_tags: shared update_lock_, the start points scored.
SearchStart(t) ==
    /\ call[t].pc = "idle" /\ ~ExclusiveUpdate
    /\ call' = [call EXCEPT ![t] = [Idle EXCEPT !.pc = "search",
                                                !.frontier = {<<Frozen, vec[Frozen]>>}]]
    /\ UNCHANGED <<conc, slots, vec, graph, conso, files, bounds>>

\* One round of iterate_to_fixed_point: the closest unexpanded candidate is expanded, its
\* list read under its lock, the neighbours not seen before scored.
Seen(t) == {c[1] : c \in call[t].frontier \cup call[t].pool}
Expand(t) ==
    /\ call[t].pc \in {"expand", "search"}
    /\ \E c \in call[t].frontier :
         call' = [call EXCEPT
           ![t].pool = @ \cup {c},
           ![t].frontier = (@ \ {c}) \cup {<<n, vec[n]>> : n \in graph[c[1]] \ Seen(t)}]
    /\ UNCHANGED <<conc, slots, vec, graph, conso, files, bounds>>

\* prune_neighbors over a pool: occlude_list always keeps the closest, so at least one and at
\* most MaxDegree candidates other than the node itself.
Pruned(pool, n) == {S \in SUBSET (pool \ {n}) : Cardinality(S) \in 1..MaxDegree}

\* The pool of an insert is pruned and becomes its list: under concurrent consolidation only
\* links whose location has a tag are kept, which drops the frozen point too.
KeptLinks(S) == IF conc THEN {n \in S : n \in Locs /\ Tagged(n)} ELSE S
InsertLink(t) ==
    /\ call[t].pc = "expand" /\ call[t].frontier = {}
    /\ \E S \in Pruned(Seen(t), call[t].loc) :
         /\ graph' = [graph EXCEPT ![call[t].loc] = KeptLinks(S)]
         /\ call' = [call EXCEPT ![t].pc = "inter", ![t].links = S, ![t].pool = {}]
    /\ UNCHANGED <<conc, slots, vec, conso, files, bounds>>

\* inter_insert for one neighbour, under its lock: the reverse edge is there, is added, or
\* the list is full and its copy is to be pruned outside the lock.
InterInsert(t) ==
    /\ call[t].pc = "inter"
    /\ \E des \in call[t].links :
         LET n == call[t].loc
             full == n \notin graph[des] /\ Cardinality(graph[des]) >= Slack
         IN /\ graph' = IF full THEN graph ELSE [graph EXCEPT ![des] = @ \cup {n}]
            /\ call' = [call EXCEPT ![t].links = @ \ {des},
                                    ![t].pc = IF full THEN "prune" ELSE @,
                                    ![t].des = IF full THEN des ELSE NoLoc,
                                    ![t].copy = IF full THEN graph[des] \cup {n} ELSE {}]
    /\ UNCHANGED <<conc, slots, vec, conso, files, bounds>>

\* The pruned copy replaces the neighbour's list: what others added in between is lost.
InterPrune(t) ==
    /\ call[t].pc = "prune"
    /\ \E S \in Pruned(call[t].copy, call[t].des) :
         graph' = [graph EXCEPT ![call[t].des] = S]
    /\ call' = [call EXCEPT ![t].pc = "inter", ![t].des = NoLoc, ![t].copy = {}]
    /\ UNCHANGED <<conc, slots, vec, conso, files, bounds>>

InsertReturn(t) ==
    /\ call[t].pc = "inter" /\ call[t].links = {}
    /\ call' = [call EXCEPT ![t] = Idle]
    /\ UNCHANGED <<conc, slots, vec, graph, conso, files, bounds>>

\* The end of search_with_tags, under tag_lock_: candidates without a tag are skipped; the
\* rest are reported with the distance computed when they were scored.
Results(t) == {<<locTag[c[1]], c[2]>> : c \in {d \in call[t].pool : d[1] \in Locs /\ Tagged(d[1])}}
SearchReturn(t) ==
    /\ call[t].pc = "search" /\ call[t].frontier = {}
    /\ call' = [call EXCEPT ![t] = Idle]
    /\ UNCHANGED <<conc, slots, vec, graph, conso, files, bounds>>

\* lazy_delete of one tag, or of several: unknown tags are reported and skipped.
LazyDelete(S) ==
    /\ ~ExclusiveUpdate
    /\ LET gone == S \cap Live IN
         /\ deleteSet' = deleteSet \cup {tagLoc[tag] : tag \in gone}
         /\ locTag' = [l \in Locs |-> IF locTag[l] \in gone THEN Blank ELSE locTag[l]]
         /\ tagLoc' = [tag \in DOMAIN tagLoc |-> IF tag \in gone THEN NoLoc ELSE tagLoc[tag]]
    /\ compacted' = FALSE
    /\ UNCHANGED <<conc, nd, emptySlots, vec, graph, call, conso, files, bounds>>

-----------------------------------------------------------------------------
(* consolidate_deletes *)

\* The counts consolidate_deletes checks under shared locks before it starts.
CountsAgree ==
    /\ Len(emptySlots) + nd = MaxPoints
    /\ Cardinality(TaggedLocs) + Cardinality(deleteSet) = nd

\* The checks pass, consolidate_lock_ is free (else LOCK_FAIL) and, unless consolidation is
\* concurrent, update_lock_ is taken exclusively: the delete set is swapped out.
ConsolidateStart(t) ==
    /\ call[t].pc = "idle" /\ conso.pc = "idle"
    /\ CountsAgree
    /\ conc \/ NoReaders
    /\ conso' = [NoConso EXCEPT !.pc = "process", !.by = t, !.old = deleteSet, !.todo = Nodes]
    /\ deleteSet' = {}
    /\ call' = [call EXCEPT ![t].pc = "consolidate"]
    /\ UNCHANGED <<conc, nd, emptySlots, tagLoc, locTag, compacted, vec, graph, files, bounds>>

\* One turn of the parallel loop, or of the loop over frozen points after it: deleted and
\* empty locations are skipped; process_delete copies the list under its lock.
ProcessRead(n) ==
    /\ conso.pc = "process" /\ n \in conso.todo
    /\ n = Frozen => conso.todo = {Frozen} /\ conso.work = {}
    /\ conso' = [conso EXCEPT
         !.todo = @ \ {n},
         !.work = IF n \in conso.old \cup Empties \/ graph[n] \cap conso.old = {} THEN @
                  ELSE @ \cup {[loc |-> n, ngh |-> graph[n] \cap conso.old,
                                set |-> graph[n] \ conso.old]}]
    /\ UNCHANGED <<conc, slots, vec, graph, call, files, bounds>>

ProcessExpand_KeepsDeleted(w, d) ==
    /\ d \in w.ngh
    /\ conso' = [conso EXCEPT !.work = (@ \ {w}) \cup
         {[w EXCEPT !.ngh = @ \ {d}, !.set = @ \cup (graph[d] \ {w.loc})]}]
    /\ UNCHANGED <<conc, slots, vec, graph, call, files, bounds>>

\* process_delete takes in the list of one deleted neighbour, under that neighbour's lock.
ProcessExpand(w, d) ==
    /\ d \in w.ngh
    /\ conso' = [conso EXCEPT !.work = (@ \ {w}) \cup
         {[w EXCEPT !.ngh = @ \ {d}, !.set = @ \cup (graph[d] \ (conso.old \cup {w.loc}))]}]
    /\ UNCHANGED <<conc, slots, vec, graph, call, files, bounds>>

\* The expanded set, pruned when it exceeds the range, replaces the node's list.
ProcessWrite(w) ==
    /\ w.ngh = {}
    /\ \E S \in (IF Cardinality(w.set) <= MaxDegree THEN {w.set} ELSE Pruned(w.set, w.loc)) :
         graph' = [graph EXCEPT ![w.loc] = S]
    /\ conso' = [conso EXCEPT !.work = @ \ {w}]
    /\ UNCHANGED <<conc, slots, vec, call, files, bounds>>

\* release_locations under tag_lock_, in the hash set's order, and every lock released.
NdAfterRelease_Leaks == nd

NdAfterRelease == nd - Cardinality(conso.old)
Released(order) == emptySlots \o order
ConsolidateEnd ==
    /\ conso.pc = "process" /\ conso.todo = {} /\ conso.work = {}
    /\ \E order \in SetToSeqs(conso.old) : emptySlots' = Released(order)
    /\ nd' = NdAfterRelease
    /\ call' = [call EXCEPT ![conso.by] = Idle]
    /\ conso' = NoConso
    /\ UNCHANGED <<conc, deleteSet, tagLoc, locTag, compacted, vec, graph, files, bounds>>

-----------------------------------------------------------------------------
(* save and load *)

\* compact_data: tagged locations move down in order; an edge to a location without a tag is
\* dropped, every other edge is renamed; the slots behind become empty.
NewLoc(l) == IF l = Frozen THEN Frozen ELSE Cardinality({m \in TaggedLocs : m < l})
OldLoc(l) == IF l = Frozen THEN Frozen ELSE CHOOSE m \in TaggedLocs : NewLoc(m) = l
MovedVec(n) == vec[OldLoc(n)]
Renamed(n) == {NewLoc(m) : m \in {k \in graph[n] : k = Frozen \/ Tagged(k)}}
Occupied == IF compacted THEN 0..(nd - 1) ELSE 0..(Cardinality(TaggedLocs) - 1)
Compact ==
    IF compacted
    THEN [tag |-> locTag, vec |-> vec, graph |-> graph, empty |-> emptySlots]
    ELSE [tag |-> [l \in Locs |-> IF l \in Occupied THEN locTag[OldLoc(l)] ELSE Blank],
          vec |-> [n \in Nodes |-> IF n = Frozen \/ n \in Occupied THEN MovedVec(n)
                                   ELSE vec[n]],
          graph |-> [n \in Nodes |-> IF n = Frozen \/ n \in Occupied THEN Renamed(OldLoc(n))
                                     ELSE {}],
          empty |-> [i \in 1..(MaxPoints - nd) |-> nd + i - 1]]

\* The layout data_compacted_ stands for, though it is TRUE from the start and the first insert
\* takes the last slot.  What a save of such an index leaves, in memory and in its files, has
\* lost points, and the properties are about the others.
Contiguous == TaggedLocs = 0..(nd - 1)

\* The frozen point moves to nd_ for the files and back to the end afterwards.  A round trip
\* clears the vector at nd_ and leaves its edges on the frozen point: harmless while nothing
\* lives there, as in a contiguous layout.
Moved(c) ==
    IF nd = MaxPoints THEN c
    ELSE [c EXCEPT !.vec[nd] = Blank,
                   !.graph = [n \in Nodes |-> {IF m = nd THEN Frozen ELSE m : m \in c.graph[n]}]]

\* save with compact_before_save, all four locks held: it throws while deletes are not
\* consolidated.  The files hold locations below nd_ and the start point; save_tags writes 0
\* where there is no tag.
Save ==
    /\ saves < MaxSaves /\ Quiet
    /\ compacted \/ deleteSet = {}
    /\ LET c == Moved(Compact)
           occupied == 0..(nd - 1) IN
         /\ files' = [points |-> nd,
                      tag |-> [l \in occupied |-> IF c.tag[l] = Blank THEN Zero ELSE c.tag[l]],
                      vec |-> [l \in occupied |-> c.vec[l]],
                      graph |-> [n \in occupied \cup {Frozen} |-> c.graph[n]]]
         /\ locTag' = c.tag /\ vec' = c.vec /\ graph' = c.graph /\ emptySlots' = c.empty
         /\ tagLoc' = [tag \in DOMAIN tagLoc |->
                         IF \E l \in Locs : c.tag[l] = tag
                         THEN CHOOSE l \in Locs : c.tag[l] = tag ELSE NoLoc]
    /\ compacted' = TRUE
    /\ saves' = saves + 1
    /\ damaged' = (damaged \/ (compacted /\ ~Contiguous))
    /\ UNCHANGED <<conc, nd, deleteSet, call, conso, inserts>>

\* load into a fresh index (a restart): tags by location, slots behind nd_ empty in
\* ascending order, the frozen point moved back to the end.
Load ==
    /\ Quiet /\ files.points \in 0..(MaxPoints - 1)
    /\ nd' = files.points
    /\ LET occupied == 0..(files.points - 1) IN
         /\ locTag' = [l \in Locs |-> IF l \in occupied THEN files.tag[l] ELSE Blank]
         /\ tagLoc' = [tag \in DOMAIN tagLoc |->
                         IF \E l \in occupied : files.tag[l] = tag
                         THEN CHOOSE l \in occupied : files.tag[l] = tag /\
                                \A m \in occupied : files.tag[m] = tag => m <= l
                         ELSE NoLoc]
         /\ vec' = [n \in Nodes |-> IF n = Frozen THEN Zero
                                    ELSE IF n \in occupied THEN files.vec[n] ELSE Blank]
         /\ graph' = [n \in Nodes |-> IF n = Frozen \/ n \in occupied THEN files.graph[n] ELSE {}]
    /\ emptySlots' = [i \in 1..(MaxPoints - files.points) |-> files.points + i - 1]
    /\ deleteSet' = {} /\ compacted' = TRUE
    /\ files' = NoFiles
    /\ UNCHANGED <<conc, call, conso, bounds>>

VNext ==
    \/ \E t \in VThreads :
         \/ \E tag \in VTags : InsertReserve(t, tag) \/ InsertDuplicate(t, tag)
         \/ InsertWrite(t) \/ InsertLink(t) \/ InterInsert(t) \/ InterPrune(t) \/ InsertReturn(t)
         \/ SearchStart(t) \/ SearchReturn(t) \/ Expand(t)
         \/ ConsolidateStart(t)
    \/ \E S \in SUBSET VTags : S # {} /\ LazyDelete(S)
    \/ \E n \in Nodes : ProcessRead(n)
    \/ \E w \in conso.work : \/ \E d \in w.ngh : ProcessExpand(w, d)
                             \/ ProcessWrite(w)
    \/ ConsolidateEnd
    \/ Save \/ Load

VSpec == VInit /\ [][VNext]_vvars

-----------------------------------------------------------------------------
(* Properties *)

\* Without concurrent consolidation, no point that was linked and not the start point has an
\* edge to an empty slot: consolidate_deletes repairs every list that leads to a deleted
\* location before release_locations gives it back, whatever the inserts around it did.
Unlinked == {call[t].loc : t \in {u \in VThreads : call[u].pc \in {"write", "expand"}}}
NoEdgeToEmptySlot ==
    ~conc /\ ~damaged => \A n \in Nodes \ (Empties \cup Unlinked) : graph[n] \cap Empties = {}

\* Without concurrent consolidation, search_with_tags reports each tag with the distance of
\* that tag's own vector: a location is not reused between the scoring and the look-up of
\* its tag.
SearchScoresItsTag ==
    \A t \in VThreads :
      ~conc /\ ~damaged /\ call[t].pc = "search" /\ call[t].frontier = {} =>
         \A r \in Results(t) : r[1] = r[2]

VectorOk(tag) ==
    \/ tagLoc[tag] = NoLoc
    \/ vec[tagLoc[tag]] = tag
    \/ \E t \in VThreads : call[t].pc = "write" /\ call[t].tag = tag

\* vamana_index.h:221: "If conc_consolidates_ is set in the ctor, then this call can be
\* invoked alongside inserts and lazy deletes": then too a tag keeps its vector.
InsertsSurviveConsolidation == ~damaged => \A tag \in VTags : VectorOk(tag)

\* vamana_index.h:87, "Saves graph, data, metadata and associated tags": the files of a save
\* hold every live tag.
SavesAssociatedTags ==
    [][files' # files /\ files' # NoFiles => Live \subseteq {files'.tag[l] : l \in DOMAIN files'.tag}]_vvars

\* The index implements the store of tags: a delete takes effect at once, its slot returns
\* only with a consolidation, and an insert of a new tag is turned away only when live and
\* deleted points fill the index, whatever was deleted, consolidated, saved and loaded before.
Store == INSTANCE TagStore WITH
    Tags <- VTags, Capacity <- MaxPoints, refuses <- ~Reservable,
    live <- Live, pending <- Cardinality(deleteSet) + Cardinality(conso.old)
ImplementsStore == Store!StoreInit /\ [][damaged' \/ Store!StoreStep]_(Store!storeVars)

=============================================================================

--------------------------- MODULE DiskIndexBuild ---------------------------
(***************************************************************************)
(* build_disk_index and the load of what it leaves                         *)
(* (src/index/disk_index_utils.cc, src/pq/partition.cc,                    *)
(* src/search/pq_flash_index.cc).  Builds run one after another at one     *)
(* prefix; each writes, renames and removes its files in place, one step   *)
(* at a time, may throw, and may be killed.  A load happens between builds. *)
(* PQ training is external: a pivots file is known by its shape.           *)
(***************************************************************************)
EXTENDS DiskLayout, ShardMerge

CONSTANTS
  BaseSets,     \* id -> [points, dimension, lines: the labels of the points]
  BuildParams,  \* parameters of a build: metric, budgets, labels, observer, PQ, degree
  Graphs,       \* n -> [graph, medoid] Vamana may build over n points
  Closest(_, _),\* n, parts -> how k-means may place n points, two shards each
  Orders(_),    \* n -> shuffles of n ids
  MaxTraining,  \* points a training sample aims at
  Samples(_),   \* n -> samples of more than MaxTraining points
  MaxPqChunks,  \* chunks the loader supports
  MaxGraphDegree, \* degree of a disk index the loader supports
  CacheShare,   \* one point in CacheShare may be cached
  CacheRequest, \* nodes a search asks to cache
  MaxParts,     \* bound: shards of a partition
  MaxDiskBuilds,\* bound: builds begun
  MaxKills      \* bound: builds killed

ASSUME CacheAssumption == CacheShare \in Nat \ {0} /\ CacheRequest \in Nat

VARIABLES
  disk,    \* file name -> content
  shards,  \* the shard files of the build under way
  build,   \* the build under way
  made,    \* what the last build promised, when it returned 0
  opened,  \* the last load's index, or that it refused
  diskBuilds, kills

diskVars == <<disk, shards, build, made, opened, diskBuilds, kills>>

Names == {"prepped_base", "max_base_norm", "label_formatted", "labels_map", "augmented_data",
          "augmented_labels", "dummy_map", "disk_pq_pivots", "disk_pq_compressed", "pq_pivots",
          "rotation", "pq_compressed", "mem_index", "mem_data", "mem.indexlabels_to_medoids_",
          "mem.indexlabels_", "mem.indexuniversal_label_", "mem.index_labels_to_medoids",
          "mem.index_labels", "mem.index_universal_label", "temp_centroids", "medoids", "centroids",
          "disk_index", "labels_to_medoids", "disk_labels", "disk_universal_label", "sample"}

Gone == [kind |-> "gone"]
Half == [kind |-> "half"]
NoBuild == [step |-> "none"]
NotMade == [kind |-> "nothing"]
Unopened == [kind |-> "unopened"]
RefusedLoad == [kind |-> "refused"]
Of(kind_, content) == [kind |-> kind_] @@ content

DiskInit ==
  /\ disk = [f \in Names |-> Gone] /\ shards = <<>>
  /\ build = NoBuild /\ made = NotMade /\ opened = Unopened
  /\ diskBuilds = 0 /\ kills = 0

Written(f, name, content) == [f EXCEPT ![name] = content]
RemovedFiles(f, names) == [k \in Names |-> IF k \in names THEN Gone ELSE f[k]]
\* copy_file opens both streams and copies what the source has: nothing, when
\* the source is missing.
CopyFile(f, from, to) == [f EXCEPT ![to] = IF f[from] = Gone THEN [kind |-> "empty"] ELSE f[from]]

Pq == INSTANCE DiskLayout WITH CoordBytes <- 1

\* estimate_ram_usage, in proportion.
RamUsage(points, dimension, degree) == points * (dimension + degree)

At(step) == build.step = step
Advance(step) == build' = [build EXCEPT !.step = step]
Rest == UNCHANGED <<made, opened, diskBuilds, kills>>
\* The exception or the error code reaches the caller; the files stay.
Throw == build' = NoBuild /\ UNCHANGED <<disk, shards>> /\ Rest

BeginDiskBuild(base, q) ==
  /\ build = NoBuild /\ diskBuilds < MaxDiskBuilds
  /\ build' = [step |-> "preprocess", q |-> q, base |-> base,
               n |-> BaseSets[base].points, dim |-> BaseSets[base].dimension,
               lines |-> <<>>, host |-> [i \in 1 .. BaseSets[base].points |-> i - 1],
               parts |-> 0, closest |-> <<>>]
  /\ made' = NotMade /\ opened' = Unopened /\ shards' = <<>> /\ diskBuilds' = diskBuilds + 1
  /\ UNCHANGED <<disk, kills>>

\* Inner product adds a dimension; both write the temporary base.
Preprocess ==
  /\ At("preprocess")
  /\ LET ip == build.q.metric = "ip"
         temp == [kind |-> "data"]
     IN /\ disk' = CASE ip -> Written(Written(disk, "prepped_base", temp), "max_base_norm", temp)
                     [] build.q.metric = "cosine" -> Written(disk, "prepped_base", temp)
                     [] OTHER -> disk
        /\ build' = [build EXCEPT !.step = "budget", !.dim = IF ip THEN @ + 1 ELSE @]
  /\ UNCHANGED shards /\ Rest

\* A budget that is not positive returns -1: after the preprocessing.
CheckBudget ==
  /\ At("budget")
  /\ IF build.q.ram <= 0 \/ build.q.budget <= 0 THEN Throw
     ELSE Advance("labels") /\ UNCHANGED <<disk, shards>> /\ Rest

PrepareLabels ==
  /\ At("labels")
  /\ IF ~build.q.filters THEN Advance("observe") /\ UNCHANGED disk
     ELSE LET lines == ConvertLabels(BaseSets[build.base].lines, build.q.universal)
              dense == BreakupDensePoints(lines, build.q.threshold)
              labelled == Written(Written(disk, "label_formatted", Of("labels", [lines |-> lines])),
                                  "labels_map", [kind |-> "map"])
          IN IF build.q.threshold = 0
             THEN build' = [build EXCEPT !.step = "observe", !.lines = lines] /\ disk' = labelled
             ELSE /\ build' = [build EXCEPT !.step = "observe", !.lines = dense.labels,
                                            !.n = Len(dense.labels), !.host = @ \o dense.dummy_of]
                  /\ disk' = [f \in Names |->
                       CASE f = "augmented_labels" -> Of("labels", [lines |-> dense.labels])
                         [] f = "augmented_data" -> [kind |-> "data"]
                         [] f = "dummy_map" /\ dense.dummy_of # <<>> -> Of("map", [of |-> dense.dummy_of])
                         [] OTHER -> labelled[f]]
  /\ UNCHANGED shards /\ Rest

OneShot == RamUsage(build.n, build.dim, build.q.r) < build.q.budget

\* An observer needs global ids, so a one-shot build.
CheckObserver ==
  /\ At("observe")
  /\ IF build.q.observer /\ ~OneShot THEN Throw
     ELSE /\ Advance(IF build.q.disk_pq > 0 THEN "disk_pivots" ELSE "pivots")
          /\ UNCHANGED <<disk, shards>> /\ Rest

(***************************************************************************)
(* Product quantization.                                                   *)
(***************************************************************************)
\* generate_pq_pivots keeps a file of the same dimension, whatever it was
\* trained on; generate_opq_pivots always writes, and its rotation too.
TrainPivots(f, name, chunks, opq) ==
  LET kept == ~opq /\ f[name].kind = "pivots" /\ f[name].dim = build.dim
      new == Of("pivots", [dim |-> build.dim, chunks |-> chunks, trained_on |-> build.base, opq |-> opq])
  IN IF kept \/ chunks > build.dim THEN f
     ELSE IF opq THEN Written(Written(f, name, new), "rotation", Of("rotation", [dim |-> build.dim]))
     ELSE Written(f, name, new)

\* generate_pq_data_from_pivots
Encodes(f, name, chunks, opq) ==
  /\ f[name].kind = "pivots" /\ f[name].dim = build.dim /\ f[name].chunks = chunks
  /\ opq => f["rotation"].kind = "rotation" /\ f["rotation"].dim = build.dim

Codes(f, name, chunks, opq) ==
  Of("codes", [n |-> build.n, chunks |-> chunks, pivots |-> f[name], rotated |-> opq])

DiskPqChunks == Min({build.q.disk_pq, build.dim})
\* Derived from the search budget, unless QD overrides it.
NumPqChunks ==
  IF build.q.qd \in 1 .. MaxPqChunks THEN build.q.qd
  ELSE Min({Max({1, build.q.ram \div build.n}), build.dim, MaxPqChunks})

TrainDiskPq ==
  /\ At("disk_pivots")
  /\ disk' = TrainPivots(disk, "disk_pq_pivots", DiskPqChunks, FALSE)
  /\ Advance("disk_codes") /\ UNCHANGED shards /\ Rest

EncodeDiskPq ==
  /\ At("disk_codes")
  /\ IF ~Encodes(disk, "disk_pq_pivots", DiskPqChunks, FALSE) THEN Throw
     ELSE /\ disk' = Written(disk, "disk_pq_compressed", Codes(disk, "disk_pq_pivots", DiskPqChunks, FALSE))
          /\ Advance("pivots") /\ UNCHANGED shards /\ Rest

TrainPq ==
  /\ At("pivots")
  /\ disk' = TrainPivots(disk, "pq_pivots", NumPqChunks, build.q.opq)
  /\ Advance("codes") /\ UNCHANGED shards /\ Rest

EncodePq ==
  /\ At("codes")
  /\ IF ~Encodes(disk, "pq_pivots", NumPqChunks, build.q.opq) THEN Throw
     ELSE /\ disk' = Written(disk, "pq_compressed", Codes(disk, "pq_pivots", NumPqChunks, build.q.opq))
          /\ Advance("vamana") /\ UNCHANGED shards /\ Rest

(***************************************************************************)
(* build_merged_vamana_index                                               *)
(***************************************************************************)
\* What Vamana may build over n points with a degree bound (VamanaIndex.tla).
VamanaGraphs(n, degree) == {v \in Graphs[n] : \A i \in DOMAIN v.graph : Len(v.graph[i]) <= degree}

VamanaFile(graph, width, medoid) ==
  Of("vamana", [npts |-> Len(graph), width |-> width, medoid |-> medoid, frozen |-> 0, graph |-> graph])

\* vamana_index_t::save writes its label files under names of its own.
SaveLabels(f) ==
  IF ~build.q.filters THEN f
  ELSE [k \in Names |->
    CASE k = "mem.indexlabels_to_medoids_" ->
           Of("medoid_map", [of |-> LabelCandidates(build.lines, build.q.universal # {})])
      [] k = "mem.indexlabels_" -> Of("labels", [lines |-> build.lines])
      [] k = "mem.indexuniversal_label_" /\ build.q.universal # {} -> [kind |-> "universal"]
      [] OTHER -> f[k]]

\* Mutant of OneShotClean: the medoids of an earlier sharded build stay.
OneShotClean_KeepMedoids(f) ==
  RemovedFiles(IF build.q.filters THEN CopyFile(f, "mem.index_labels_to_medoids", "labels_to_medoids") ELSE f,
               IF build.q.filters THEN {"mem.index_labels_to_medoids"} ELSE {})

OneShotClean(f) ==
  RemovedFiles(IF build.q.filters THEN CopyFile(f, "mem.index_labels_to_medoids", "labels_to_medoids") ELSE f,
               {"medoids", "centroids"}
                 \cup (IF build.q.filters THEN {"mem.index_labels_to_medoids"} ELSE {}))

BuildOneShot ==
  /\ At("vamana") /\ OneShot /\ ~(build.q.stats /\ build.q.filters)
  /\ \E v \in VamanaGraphs(build.n, build.q.r) :
       disk' = SaveLabels([disk EXCEPT
                 !["mem_index"] = VamanaFile(v.graph, Max({Len(v.graph[i]) : i \in DOMAIN v.graph}), v.medoid),
                 !["mem_data"] = [kind |-> "data"]])
  /\ Advance("one_shot_clean") /\ UNCHANGED shards /\ Rest

CleanOneShot ==
  /\ At("one_shot_clean") /\ disk' = OneShotClean(disk)
  /\ Advance("layout") /\ UNCHANGED shards /\ Rest

\* Build statistics need one shot and no filters.
RefuseVamana ==
  /\ At("vamana") /\ build.q.stats /\ (build.q.filters \/ ~OneShot) /\ Throw

\* The points of a sample: each with probability MaxTraining / n, all of them
\* when that exceeds 1.
TestSample(n) == IF n <= MaxTraining THEN {0 .. n - 1} ELSE Samples(n)
\* Sizes over the sample, divided by the rate: by the rate itself, above 1 too.
EstimatedSizes(closest, sample, parts, n) ==
  {(Cardinality({p \in sample : s \in closest[p]}) * n) \div MaxTraining : s \in 0 .. parts - 1}

\* partition_with_ram_budget: three parts, then two more until the largest
\* estimate fits.
Partition(parts) ==
  /\ \/ At("vamana") /\ ~OneShot /\ ~build.q.stats /\ parts = 3
     \/ At("partition") /\ parts = build.parts
  /\ \E closest \in Closest(build.n, parts), sample \in TestSample(build.n) :
     LET sizes == EstimatedSizes(closest, sample, parts, build.n)
         fits == RamUsage(Max(sizes), build.dim, (2 * build.q.r) \div 3) <= build.q.budget
     IN IF fits
        THEN /\ build' = [build EXCEPT !.step = "shards", !.parts = parts, !.closest = closest]
             /\ disk' = [disk EXCEPT !["temp_centroids"] = Gone,
                                     !["centroids"] = Of("centroids", [count |-> parts, dim |-> build.dim])]
        ELSE /\ parts + 2 <= MaxParts
             /\ build' = [build EXCEPT !.step = "partition", !.parts = parts + 2]
             /\ UNCHANGED disk
  /\ UNCHANGED shards /\ Rest

\* One shard: its rows of the base, its graph, its label files.
BuildShard ==
  /\ At("shards") /\ Len(shards) < build.parts
  /\ LET ids == ShardIds(build.closest, Len(shards))
         rows == RetrieveShardData([n \in 0 .. build.n - 1 |-> build.host[n + 1]], ids)
     IN IF ids = <<>> THEN Throw
        ELSE \E v \in VamanaGraphs(Len(rows), (2 * build.q.r) \div 3) :
               /\ shards' = Append(shards,
                    [ids |-> ids, rows |-> rows, graph |-> v.graph, medoid |-> v.medoid,
                     labels |-> IF build.q.filters THEN ExtractShardLabels(build.lines, ids) ELSE <<>>])
               /\ disk' = IF Len(shards) = 0 /\ build.q.filters /\ build.q.universal # {}
                          THEN Written(disk, "mem.index_universal_label", [kind |-> "empty"]) ELSE disk
               /\ UNCHANGED build /\ Rest

\* merge_shards opens the shards' labels-to-medoids files under names nothing
\* writes, so the combined file has no line.
MergeShards ==
  /\ At("shards") /\ Len(shards) = build.parts
  /\ \E order \in Orders(build.n), lists \in {MergedLists(shards)} :
       LET graph == [i \in DOMAIN lists |-> Cut(lists[i], order, build.q.r)]
           medoids == RenamedMedoids(shards)
           merged == [disk EXCEPT !["medoids"] = Of("medoids", [ids |-> medoids]),
                                  !["mem_index"] = VamanaFile(graph, build.q.r, Last(medoids))]
       IN disk' = IF build.q.filters THEN Written(merged, "labels_to_medoids", [kind |-> "empty"])
                  ELSE merged
  /\ Advance("clean_shards") /\ UNCHANGED shards /\ Rest

CleanShards ==
  /\ At("clean_shards") /\ shards' = <<>> /\ Advance("layout")
  /\ UNCHANGED disk /\ Rest

(***************************************************************************)
(* The disk file and the end of a build.                                   *)
(***************************************************************************)
\* A base row is known by its point and base; a disk-PQ code is another value.
RowOf(n, code) == BaseSets[build.base].first + build.host[n + 1] + (IF code THEN 100 ELSE 0)

LayoutInput(code) ==
  disk["mem_index"] @@
  [dimension |-> IF code THEN DiskPqChunks ELSE build.dim,
   coords |-> [n \in 0 .. build.n - 1 |-> RowOf(n, code)]]
Numbered(m) == [m EXCEPT !.graph = [n \in 0 .. m.npts - 1 |-> m.graph[n + 1]]]

MakeLayout ==
  /\ At("layout")
  /\ LET code == build.q.disk_pq > 0
         reorder == IF code /\ build.q.reorder THEN build.dim ELSE 0
         m == Numbered(LayoutInput(code))
         laid == IF code THEN Pq!CreateDiskLayout(m, reorder) ELSE CreateDiskLayout(m, 0)
     IN IF reorder > 0 /\ ReorderThrows(build.n, SectorLen \div (reorder * FloatBytes))
        THEN /\ disk' = Written(disk, "disk_index", Half) /\ build' = NoBuild /\ UNCHANGED shards /\ Rest
        ELSE /\ disk' = Written(disk, "disk_index", Of("layout", [layout |-> laid, code |-> code]))
             /\ Advance("finish") /\ UNCHANGED shards /\ Rest

\* The warm-up sample, the labels' copies, and the temporary files' removal.
FinishBuild ==
  /\ At("finish")
  /\ LET filters == build.q.filters
         labelled == IF filters
                     THEN CopyFile(disk, IF build.q.threshold = 0 THEN "label_formatted"
                                         ELSE "augmented_labels", "disk_labels")
                     ELSE disk
         named == IF filters /\ build.q.universal # {}
                  THEN CopyFile(labelled, "mem.index_universal_label", "disk_universal_label")
                  ELSE labelled
         temps == {"mem_index", "mem_data"}
                    \cup (IF filters THEN {"mem.index_labels", "augmented_data", "augmented_labels"} ELSE {})
                    \cup (IF filters /\ build.q.threshold = 0 THEN {"label_formatted"} ELSE {})
                    \cup (IF filters /\ build.q.universal # {} THEN {"mem.index_universal_label"} ELSE {})
                    \cup (IF build.q.metric = "l2" THEN {} ELSE {"prepped_base"})
                    \cup (IF build.q.disk_pq > 0 THEN {"disk_pq_compressed"} ELSE {})
     IN disk' = Written(RemovedFiles(named, temps), "sample", [kind |-> "data"])
  /\ made' = Of("index", [q |-> build.q, n |-> build.n, dim |-> build.dim, lines |-> build.lines,
               host |-> build.host, graph |-> disk["mem_index"].graph,
               rows |-> [n \in 0 .. build.n - 1 |-> RowOf(n, build.q.disk_pq > 0)]])
  /\ build' = NoBuild /\ UNCHANGED <<shards, opened, diskBuilds, kills>>

\* What a step may leave half written when the process is killed.
Writing ==
  CASE At("preprocess") /\ build.q.metric # "l2" -> {"prepped_base"}
    [] At("labels") /\ build.q.filters -> {"label_formatted"}
    [] At("disk_pivots") -> {"disk_pq_pivots"} [] At("disk_codes") -> {"disk_pq_compressed"}
    [] At("pivots") -> {"pq_pivots"}           [] At("codes") -> {"pq_compressed"}
    [] At("vamana") -> {"mem_index"}           [] At("shards") -> {"medoids"}
    [] At("layout") -> {"disk_index"}          [] OTHER -> {}

Kill ==
  /\ build # NoBuild /\ kills < MaxKills /\ kills' = kills + 1
  /\ \E half \in SUBSET Writing : disk' = [f \in Names |-> IF f \in half THEN Half ELSE disk[f]]
  /\ build' = NoBuild /\ shards' = <<>> /\ UNCHANGED <<made, opened, diskBuilds>>

(***************************************************************************)
(* pq_flash_index_t::load                                                  *)
(***************************************************************************)
LoadedDegree(f) ==
  IF f["disk_pq_pivots"] # Gone THEN Pq!MaxDegree(f["disk_index"].layout) ELSE MaxDegree(f["disk_index"].layout)

DiskFileAccepted(f, dim) ==
  LET code == f["disk_pq_pivots"].kind # "gone"
      d == f["disk_index"].layout
      dims == IF code THEN f["disk_pq_pivots"].chunks ELSE dim
  IN /\ code => f["disk_pq_pivots"].kind = "pivots"
     /\ f["disk_index"].kind = "layout"
     /\ d.point_count = f["pq_compressed"].n /\ d.dimension = dims /\ d.medoid < d.point_count
     /\ d.max_node_len > dims * (IF code THEN 1 ELSE CoordBytes) + IdBytes
     /\ LoadedDegree(f) <= MaxGraphDegree
     /\ d.reorder_dimension # 0 => code /\ d.reorder_dimension = dim

MedoidsAccepted(f, dim) ==
  f["medoids"] # Gone =>
    /\ f["medoids"].kind = "medoids" /\ f["medoids"].ids # <<>>
    /\ f["centroids"] # Gone => /\ f["centroids"].count = Len(f["medoids"].ids)
                                /\ f["centroids"].dim = dim

LoadAccepted(f) ==
  /\ f["pq_pivots"].kind = "pivots" /\ f["pq_compressed"].kind = "codes"
  /\ f["pq_compressed"].chunks \in 1 .. MaxPqChunks
  /\ f["pq_pivots"].chunks = f["pq_compressed"].chunks
  /\ f["rotation"] # Gone => f["rotation"].dim = f["pq_pivots"].dim
  /\ DiskFileAccepted(f, f["pq_pivots"].dim)
  /\ MedoidsAccepted(f, f["pq_pivots"].dim)

\* Pivots of a disk-PQ build beside a file of plain rows: the loader takes the
\* rows' bytes for codes and reads the neighbours at the wrong place.
StaleDiskPq(f) == (f["disk_pq_pivots"] # Gone) # f["disk_index"].code

Opened(f) ==
  LET d == f["disk_index"].layout
      code == f["disk_pq_pivots"] # Gone
      medoids == IF f["medoids"] = Gone THEN <<d.medoid>> ELSE f["medoids"].ids
      graph == [n \in 0 .. d.point_count - 1 |-> IF StaleDiskPq(f) THEN <<>> ELSE ReadNode(d, n).neighbors]
  IN Of("index", [n |-> f["pq_compressed"].n, codes |-> f["pq_compressed"], pivots |-> f["pq_pivots"],
      rotated |-> f["rotation"] # Gone, code |-> code, medoids |-> medoids, graph |-> graph,
      rows |-> [n \in 0 .. d.point_count - 1 |-> IF StaleDiskPq(f) THEN 0 ELSE ReadNode(d, n).coords],
      degree |-> LoadedDegree(f),
      cache |-> CacheBfsLevels(graph, medoids, CacheTarget(CacheRequest, d.point_count, CacheShare))])

LoadIndex ==
  /\ build = NoBuild /\ opened = Unopened /\ diskBuilds > 0
  /\ opened' = IF LoadAccepted(disk) THEN Opened(disk) ELSE RefusedLoad
  /\ UNCHANGED <<disk, shards, build, made, diskBuilds, kills>>

DiskNext ==
  \/ \E base \in DOMAIN BaseSets, q \in BuildParams : BeginDiskBuild(base, q)
  \/ Preprocess \/ CheckBudget \/ PrepareLabels \/ CheckObserver
  \/ TrainDiskPq \/ EncodeDiskPq \/ TrainPq \/ EncodePq
  \/ BuildOneShot \/ CleanOneShot \/ RefuseVamana
  \/ \E parts \in 3 .. MaxParts : Partition(parts)
  \/ BuildShard \/ MergeShards \/ CleanShards \/ MakeLayout \/ FinishBuild
  \/ Kill \/ LoadIndex

(***************************************************************************)
(* Properties.                                                             *)
(***************************************************************************)
\* No file of an earlier build that the loader would apply to this one.
NoForeignPq ==
  /\ disk["rotation"] # Gone => made.q.opq
  /\ disk["disk_pq_pivots"] # Gone => made.q.disk_pq > 0

\* What a build that returned 0 leaves can be loaded, and gives back the graph
\* it built, the rows it wrote, and codes made with the pivots that are loaded.
\* Not so a build asked for a degree above MAX_GRAPH_DEGREE: the facade and
\* build_disk_index take it and only load refuses what they made.
CompletedDiskBuildLoads ==
  made.kind = "index" /\ opened # Unopened /\ NoForeignPq /\ made.q.r <= MaxGraphDegree =>
    /\ opened.kind = "index" /\ opened.n = made.n
    /\ \A n \in 0 .. made.n - 1 : opened.graph[n] = made.graph[n + 1] /\ opened.rows[n] = made.rows[n]
    /\ \A n \in 0 .. made.n - 1 : Len(opened.graph[n]) <= opened.degree
    /\ opened.codes.pivots = opened.pivots /\ opened.codes.rotated = opened.rotated

\* A node's merged list holds its neighbours in every shard that has it, under
\* their global ids, each once, and nothing else; only the cut to the degree
\* may drop one.
MergedListsAreUnions ==
  At("clean_shards") =>
    \A n \in 0 .. build.n - 1 :
      LET list == disk["mem_index"].graph[n + 1]
          all == UNION {{sh.ids[k + 1] : k \in ToSet(sh.graph[CHOOSE j \in DOMAIN sh.ids : sh.ids[j] = n])} :
                          sh \in {s \in ToSet(shards) : n \in ToSet(s.ids)}}
      IN /\ IsInjective(list) /\ ToSet(list) \subseteq all
         /\ Len(list) = Min({build.q.r, Cardinality(all)})

\* A filtered build that returned 0 leaves the start node of every label and
\* the universal label beside its index.
LabelsReachIndex ==
  made.kind = "index" /\ made.q.filters =>
    /\ disk["labels_to_medoids"].kind = "medoid_map"
    /\ made.q.universal # {} => disk["disk_universal_label"].kind = "universal"
=============================================================================

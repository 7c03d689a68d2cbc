-------------------------- MODULE IoOptimizedIndex --------------------------
(***************************************************************************)
(* The IO-optimized artifacts on disk: build, rebind to another sidecar,   *)
(* Cell adjacency build, global graph Cells, and the load a search runs    *)
(* (src/index/io_optimized_index.cc, bin/build_io_optimized_index.cc).     *)
(* A command reads its inputs when it starts and then writes, removes and  *)
(* renames files one step at a time; a load reads files one step at a      *)
(* time beside it.  Nothing is synced: a crash may tear what was written   *)
(* since the machine started.                                              *)
(***************************************************************************)
EXTENDS IoArtifactFormat

CONSTANTS
  Bases,          \* id -> [file: a disk layout, graph and coords: what was laid out]
  Sidecars,       \* id -> Community-Polar sidecar
  RcniRows,       \* rows of the low-RCNI trim file
  BuildRequests,  \* [layout, encoding, hints, trim]
  LoadRequests,   \* [path, sidecar, only, paged, cache, adj]
  CellTarget,     \* target size of a global graph Cell
  CellSamples,    \* sampled nodes per Cell of the Cell adjacency
  CellDegree,     \* neighbours kept per Cell
  Replacements,   \* <<path, content>>: a Base or sidecar another tool may write
  InitialFiles,   \* what the directory may hold at first
  MaxJobs,        \* bound: commands begun
  MaxRebuilds,    \* bound: Base or sidecar replaced by another tool
  MaxCrashes      \* bound: crashes

VARIABLES
  files,     \* path -> content
  job,       \* the command under way: its remaining file operations
  last,      \* the command that ended well, until anything else happens
  view,      \* the load under way or done
  unsynced,  \* paths written since the machine started
  jobs, rebuilds, crashes

ioVars == <<files, job, last, view, unsynced, jobs, rebuilds, crashes>>

Temps == {"topology.tmp", "vectors.tmp", "raw.tmp", "topology2.tmp", "cell_adj.tmp", "cells.tmp"}
Artifacts == {"topology", "vectors", "topology2", "cell_adj", "cells"}
Inputs == {"disk", "disk_pq", "sidecar", "sidecar2"}
Absent == [kind |-> "absent"]
TornFile == [kind |-> "torn"]
Resting == [name |-> "idle", steps |-> <<>>, temps |-> {}]
Nothing == [name |-> "none"]
NoView == [stage |-> "none"]

Put(path, content) == [do |-> "write", path |-> path, content |-> content]
Unlink(paths) == [do |-> "remove", paths |-> paths]
Move(from, to) == [do |-> "rename", path |-> from, to |-> to]

\* publish_file: remove the destination, then rename.
PublishFile(from, to) == <<Unlink({to}), Move(from, to)>>

IoInit ==
  /\ files \in {[p \in Inputs \cup Artifacts \cup Temps |->
                   IF p \in DOMAIN f THEN f[p] ELSE Absent] : f \in InitialFiles}
  /\ job = Resting /\ last = Nothing /\ view = NoView /\ unsynced = {}
  /\ jobs = 0 /\ rebuilds = 0 /\ crashes = 0

DiskOf(content) == Bases[content.id].file
SideOf(content) == Sidecars[content.id]

\* load_community_polar_index and validate_community_polar_artifacts
SidecarFits(content, disk) == content.kind = "sidecar" /\ SideOf(content).base = disk

(***************************************************************************)
(* build                                                                   *)
(***************************************************************************)
BuildAccepted(q) ==
  LET d == DiskOf(files["disk"])
      side == SideOf(files["sidecar"])
  IN /\ files["disk_pq"].kind = "absent"
     /\ q.trim => q.layout # "ORIGINAL_ID"
     /\ files["disk"].kind = "base" /\ BaseSupported(d)
     /\ VectorBytes(d, q.layout) <= PageBytes
     /\ q.layout # "ORIGINAL_ID" =>
          /\ SidecarFits(files["sidecar"], files["disk"])
          /\ side.point_count = d.point_count /\ side.dimension = d.dimension
          /\ side.cells # <<>> /\ PacketsPermute(d, side)
          /\ q.trim => RcniComplete(RcniRows, d.point_count)

BuildTemps == {"vectors.tmp", "topology.tmp", "raw.tmp"}

\* The file operations of a build whose data are good, and of one that throws
\* while it places the vectors.
BuildSteps(topology) ==
  <<Unlink(BuildTemps), Put("raw.tmp", TornFile), Put("vectors.tmp", topology.vectors),
    Unlink({"raw.tmp"}), Put("topology.tmp", topology)>>
    \o PublishFile("vectors.tmp", "vectors") \o PublishFile("topology.tmp", "topology")
ThrownSteps ==
  <<Unlink(BuildTemps), Put("raw.tmp", TornFile), Put("vectors.tmp", TornFile), Unlink(BuildTemps)>>

Begin(name, q, steps, temps) ==
  /\ job.name = "idle" /\ jobs < MaxJobs /\ jobs' = jobs + 1
  /\ job' = [name |-> name, q |-> q, steps |-> steps, temps |-> temps]
  /\ last' = Nothing
  /\ UNCHANGED <<files, view, unsynced, rebuilds, crashes>>

Build(q) ==
  /\ job.name = "idle" /\ jobs < MaxJobs /\ BuildAccepted(q)
  /\ LET d == DiskOf(files["disk"])
         cell == q.layout # "ORIGINAL_ID"
         side == IF cell THEN SideOf(files["sidecar"]) ELSE Nothing
         sound == EndpointsInRange(d) /\ (q.layout = "CELL_U8_4K" => Convertible(d))
     IN IF ~sound THEN Begin("thrown", q, ThrownSteps, BuildTemps)
        ELSE \E adj \in {AdjacencyOf(d, side, IF q.trim THEN RcniRows ELSE <<>>)} :
             \E v \in {PlaceVectors(d, side, q.layout, adj)} :
               IF ~v.ok THEN Begin("thrown", q, ThrownSteps, BuildTemps)
               ELSE Begin("build", q,
                      BuildSteps(TopologyFile(d, files["disk"],
                                   IF cell THEN files["sidecar"] ELSE Absent, side, q, adj, v)),
                      BuildTemps)

(***************************************************************************)
(* rebind_io_topology_community_polar                                      *)
(***************************************************************************)
\* Mutant of SameStructure: only the shape of the sidecars is compared.
SameStructure_Shape(a, b) ==
  a.point_count = b.point_count /\ a.dimension = b.dimension /\ a.base = b.base
    /\ Len(a.cells) = Len(b.cells)

\* Everything but the PQ codes, radii and block errors.
SameStructure(a, b) ==
  DOMAIN a = DOMAIN b /\ \A f \in DOMAIN a \ {"payload"} : a[f] = b[f]

Rebind ==
  LET source == files["topology"]
  IN /\ source.kind = "topology" /\ source.body.ranges # <<>>
     /\ source.sidecar = files["sidecar"]
     /\ files["sidecar"].kind = "sidecar" /\ files["sidecar2"].kind = "sidecar"
     /\ SameStructure(SideOf(files["sidecar"]), SideOf(files["sidecar2"]))
     /\ Begin("rebind", Nothing,
              <<Unlink({"topology2.tmp"}),
                Put("topology2.tmp", [source EXCEPT !.sidecar = files["sidecar2"]])>>
                \o PublishFile("topology2.tmp", "topology2"), {"topology2.tmp"})

(***************************************************************************)
(* Cell adjacency and global graph Cells.                                  *)
(***************************************************************************)
TopologyLoads(t, disk) ==
  HeaderAccepted(t, FALSE, 0) /\ t.base = disk /\ t.body = t.checksum /\ BodyAccepted(t)

\* The adjacency is read from the topology; nothing is cleaned on failure.
BuildCellAdjacency ==
  LET t == files["topology"]
      side == SideOf(files["sidecar"])
  IN /\ TopologyLoads(t, files["disk"])
     /\ SidecarFits(files["sidecar"], files["disk"]) /\ t.sidecar = files["sidecar"]
     /\ \E lists \in {[n \in 0 .. t.point_count - 1 |-> Neighbors(t, n)]} :
          Begin("cell_adj", Nothing,
            <<Put("cell_adj.tmp", CellAdjacencyFile(DiskOf(files["disk"]), files["sidecar"], side,
                                                    lists, CellSamples, CellDegree))>>
              \o PublishFile("cell_adj.tmp", "cell_adj"), {})

\* The topology is mapped and read without its checksums: a torn one is
\* refused or yields an assignment that means nothing.
BuildGlobalCells ==
  LET t == files["topology"]
      Cells == [kind |-> "cells", base |-> t.base, target |-> CellTarget,
                lists |-> [n \in 0 .. t.point_count - 1 |-> Neighbors(t, n)],
                cells |-> GlobalCells([n \in 0 .. t.point_count - 1 |-> Neighbors(t, n)],
                                      t.point_count, CellTarget)]
  IN /\ t.kind \in {"topology", "torn"}
     /\ t.kind = "topology" => t.encoding = "RAW_U32"
     /\ Begin("global", Nothing,
              <<Put("cells.tmp", IF t.kind = "topology" THEN Cells ELSE TornFile),
                Move("cells.tmp", "cells")>>, {})

(***************************************************************************)
(* Steps of a command.                                                     *)
(***************************************************************************)
Applied(s) ==
  CASE s.do = "write" -> [files EXCEPT ![s.path] = s.content]
    [] s.do = "remove" -> [p \in DOMAIN files |-> IF p \in s.paths THEN Absent ELSE files[p]]
    [] s.do = "rename" -> [files EXCEPT ![s.to] = files[s.path], ![s.path] = Absent]

\* A load that is under way has been overtaken when a file it reads changes.
Overtake(changed) ==
  view' = IF view.stage = "none" \/ view.stage = "ready" THEN view
          ELSE [view EXCEPT !.overtaken = @ \/ \E p \in {view.r.path, "vectors"} : changed[p] # files[p]]

Step ==
  /\ job.name # "idle" /\ job.steps # <<>>
  /\ files' = Applied(Head(job.steps))
  /\ Overtake(files')
  /\ unsynced' = {p \in unsynced \cup {Head(job.steps)[f] : f \in DOMAIN Head(job.steps) \cap {"path", "to"}} :
                    files'[p].kind # "absent"}
  /\ IF Tail(job.steps) # <<>>
     THEN job' = [job EXCEPT !.steps = Tail(@)] /\ UNCHANGED last
     ELSE job' = Resting /\ last' = [name |-> job.name, q |-> job.q]
  /\ UNCHANGED <<jobs, rebuilds, crashes>>

\* A write that fails leaves its temporary torn; a rename that fails leaves
\* the destination removed.  Errors of remove are ignored by the code.
StepFails ==
  /\ job.name # "idle" /\ Head(job.steps).do # "remove"
  /\ LET s == Head(job.steps)
         torn == IF s.do = "write" THEN [files EXCEPT ![s.path] = TornFile] ELSE files
     IN files' = [p \in DOMAIN files |-> IF p \in job.temps THEN Absent ELSE torn[p]]
  /\ job' = Resting
  /\ unsynced' = {p \in unsynced : files'[p].kind # "absent"}
  /\ UNCHANGED <<last, view, jobs, rebuilds, crashes>>

\* Another tool replaces the Base, with a sidecar for it, or a sidecar.
Rebuilt(path, content) ==
  /\ job.name = "idle" /\ rebuilds < MaxRebuilds /\ files[path] # content
  /\ files' = [files EXCEPT ![path] = content]
  /\ Overtake(files')
  /\ rebuilds' = rebuilds + 1 /\ last' = Nothing
  /\ UNCHANGED <<job, unsynced, jobs, crashes>>

CrashIo ==
  /\ crashes < MaxCrashes /\ crashes' = crashes + 1
  /\ \E lost \in SUBSET unsynced :
       files' = [p \in DOMAIN files |-> IF p \in lost THEN TornFile ELSE files[p]]
  /\ job' = Resting /\ last' = Nothing /\ view' = NoView /\ unsynced' = {}
  /\ UNCHANGED <<jobs, rebuilds>>

(***************************************************************************)
(* load, and what a search opens after it.                                 *)
(***************************************************************************)
LoadHeader(r) ==
  /\ view.stage = "none"
  /\ HeaderAccepted(files[r.path], r.paged, r.cache)
  /\ view' = [stage |-> "header", r |-> r, t |-> files[r.path], overtaken |-> FALSE]
  /\ UNCHANGED <<files, job, last, unsynced, jobs, rebuilds, crashes>>

Refuse == view' = NoView

\* The checksums of the header against the sections: read with the header,
\* or by opening the path again when the adjacency stays on disk.
SectionsRead(t, again) == again.kind = "topology" /\ again.body = t.checksum

LoadSections ==
  /\ view.stage = "header"
  /\ LET again == IF view.r.paged THEN files[view.r.path] ELSE view.t
     IN IF SectionsRead(view.t, again)
        THEN view' = [view EXCEPT !.stage = "sections", !.t = [view.t EXCEPT !.body = again.body]]
        ELSE Refuse
  /\ UNCHANGED <<files, job, last, unsynced, jobs, rebuilds, crashes>>

\* Mutant of FingerprintsMatch: the vector artifact is matched by size.
FingerprintsMatch_BySize(t, r) ==
  /\ files["disk"] = t.base
  /\ r.only \/ (files["vectors"].kind = "vectors" /\ Len(files["vectors"].pages) = Len(t.vectors.pages))

FingerprintsMatch(t, r) == files["disk"] = t.base /\ (r.only \/ files["vectors"] = t.vectors)

LoadFingerprints ==
  /\ view.stage = "sections"
  /\ IF FingerprintsMatch(view.t, view.r)
     THEN view' = [view EXCEPT !.stage = "matched"] ELSE Refuse
  /\ UNCHANGED <<files, job, last, unsynced, jobs, rebuilds, crashes>>

\* The directories are checked; a paged index opens the path once more, for
\* the adjacency it will read page by page.
LoadBody ==
  /\ view.stage = "matched"
  /\ IF BodyAccepted(view.t) /\ files[view.r.path].kind # "absent"
     THEN view' = [view EXCEPT !.stage = "loaded"]
                    @@ [fd |-> IF view.r.paged THEN files[view.r.path] ELSE view.t]
     ELSE Refuse
  /\ UNCHANGED <<files, job, last, unsynced, jobs, rebuilds, crashes>>

\* The reader opens the vectors; the sidecar is loaded and must be the one
\* the topology is bound to; the Cell adjacency is loaded where configured.
OpenForSearch ==
  /\ view.stage = "loaded"
  /\ LET side == files[view.r.sidecar]
         cell == view.t.layout # "ORIGINAL_ID"
     IN IF /\ cell => SidecarFits(side, files["disk"]) /\ view.t.sidecar = side
           /\ view.r.adj => cell /\ CellAdjacencyAccepted(files["cell_adj"],
                                      SideOf(side).point_count, Len(SideOf(side).cells), side)
        THEN view' = [view EXCEPT !.stage = "ready"]
                       @@ [vectors |-> files["vectors"], side |-> side,
                           adj |-> IF view.r.adj THEN files["cell_adj"] ELSE Absent]
        ELSE Refuse
  /\ UNCHANGED <<files, job, last, unsynced, jobs, rebuilds, crashes>>

CloseIndex ==
  /\ view.stage \in {"loaded", "ready"} /\ Refuse
  /\ UNCHANGED <<files, job, last, unsynced, jobs, rebuilds, crashes>>

IoNext ==
  \/ \E q \in BuildRequests : Build(q)
  \/ Rebind
  \/ BuildCellAdjacency
  \/ BuildGlobalCells
  \/ Step
  \/ StepFails
  \/ \E x \in Replacements : Rebuilt(x[1], x[2])
  \/ CrashIo
  \/ \E r \in LoadRequests : LoadHeader(r)
  \/ LoadSections
  \/ LoadFingerprints
  \/ LoadBody
  \/ OpenForSearch
  \/ CloseIndex

(***************************************************************************)
(* Properties.                                                             *)
(***************************************************************************)
\* neighbors() of the loaded index: a paged one cuts the bytes of the file it
\* opened last by the offsets it read first.
ViewNeighbors(n) ==
  IF view.r.paged THEN RawNeighbors(view.t.body.offsets, view.fd.body.adjacency, n)
  ELSE Neighbors(view.t, n)

\* The lower half of a community, and a list without its lowest neighbour.
Score(n) == RcniOf(RcniRows, n)
Lower(side, n) ==
  LET mates == {m \in DOMAIN side.node_to_community : side.node_to_community[m] = side.node_to_community[n]}
  IN Cardinality({m \in mates : Before(<<Score(m), m>>, <<Score(n), n>>)}) < Cardinality(mates) \div 2
WithoutLowest(list, kept) ==
  \E i \in DOMAIN list :
    /\ kept = RemoveAt(list, i)
    /\ \A j \in DOMAIN list : ~Before(<<Score(list[j]), list[j]>>, <<Score(list[i]), list[i]>>)

\* A search that loaded an index reads the Base's graph and vectors from it:
\* the neighbours of each node as laid out, less the least important one for
\* the lower half of a community when trimmed, and at each node's location
\* its coordinates.  Torn files, the files of two builds and those of another
\* Base never get through.  A load that a publication overtook is excepted
\* altogether: what it opened after its checks may be another build's.
LoadedIndexDescribesBase ==
  (view.stage = "ready" /\ ~view.overtaken) =>
    LET base == Bases[view.t.base.id]
        side == SideOf(view.t.sidecar)
    IN \A n \in 0 .. view.t.point_count - 1 :
         /\ \/ ViewNeighbors(n) = base.graph[n]
            \/ view.t.layout # "ORIGINAL_ID" /\ Lower(side, n) /\ WithoutLowest(base.graph[n], ViewNeighbors(n))
         /\ ~view.r.only => VectorAt(view.vectors.pages, view.t.body.directory[n]).coords = base.coords[n]

\* What build wrote, load accepts: once a build has ended and nothing else
\* happened its artifacts load, but for u8 vectors that share a page at odd
\* offsets and for PForDelta lists longer than a permutation byte can number.
CompletedBuildLoads ==
  last.name = "build" =>
    LET t == files["topology"]
        odd == t.layout = "CELL_U8_4K" /\ t.dimension % CoordBytes # 0
        long == t.encoding = "PFOR_DELTA" /\ t.max_degree > PositionLimit
    IN /\ HeaderAccepted(t, FALSE, 0) /\ t.body = t.checksum
       /\ files["disk"] = t.base /\ files["vectors"] = t.vectors
       /\ BodyAccepted(t) \/ odd \/ long

\* A Cell search takes a Cell's pages for its sidecar's Cell: the pages of the
\* topology's ranges hold exactly the vectors of the nodes the sidecar puts in
\* that Cell, for a rebound topology as for a built one.
CellPagesHoldTheirCell ==
  (view.stage = "ready" /\ view.t.layout # "ORIGINAL_ID") =>
    \A n \in 0 .. view.t.point_count - 1 :
      LET range == view.t.body.ranges[SideOf(view.side).node_to_cell[n] + 1]
      IN view.t.body.directory[n].page \in range.first_page .. range.first_page + range.page_count - 1

=============================================================================

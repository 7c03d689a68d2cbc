----------------------------- MODULE SearchCurve -----------------------------
(***************************************************************************)
(* One search program: the facade routes a call (power_ann.cc), the driver *)
(* loads the index and measures the points of a curve one after the other  *)
(* (execute_search_curve in diskann_search.cc), each with its own list     *)
(* size, threads or cache pages, and saves what each point found.          *)
(*                                                                         *)
(* The queries of a point run on its threads over one page cache; a query  *)
(* is the sequence of the pages it reads.  A crash ends the program        *)
(* between two steps and leaves the files; the next call finds them.       *)
(***************************************************************************)
EXTENDS SearchOptions, FiniteSetsExt, SequencesExt, TLC

CONSTANTS
  Calls,         \* the calls that are measured
  Supported,     \* combinations of switches the program is used with
  Switches,      \* the switches turned on or off around them, two at a time
  Call(_, _),    \* the single search with a combination of switches and a list size
  TriedSizes,    \* the list sizes of these searches
  MaxCalls,      \* bound: calls made one after the other
  Reads,         \* the query artifact: for each query the pages it reads
  TruthQueries,  \* queries the ground truth covers
  TruthDepth,    \* the neighbors it has of each
  CellRanges,    \* Cell -> [first, count, nodes], of the loaded vector file
  VectorFile,    \* the loaded vector file: [pages, layout, sidecar, hints, place], place: node -> its page
  Sidecar,       \* the loaded sidecar: [id, nodes, width, gateways, prominent]
  LoadedIndex,   \* the loaded index: [chunks, degree, resident]
  CellBound,     \* most nodes of a merged Cell
  NodeDegree,    \* node -> length of its list
  NodeKey,       \* node -> its mixed hash
  RcniRows       \* rows of <prefix>.rcni.csv, <<node, importance>>

VARIABLES
  job,     \* the call in progress
  act,     \* where its program is; "refused" by the index, "ended" otherwise
  point,   \* index of the point being measured
  pool,    \* the page cache: [pages, capacity, hits, misses], latest page last
  team,    \* the loop over the queries: [todo, hands]
  before,  \* the counters when the measured loop began
  results, \* one record for each point measured
  files,   \* name -> its content
  calls    \* calls made

curveVars == <<job, act, point, pool, team, before, results, files, calls>>

(* What a call asks for: o its switches, and k, beam, the ranges of its        *)
(* queries and of its warmup in the query artifact (query_limit 0: all that    *)
(* are left), inputs (validate_config finds its files and its cache state),    *)
(* truth (a ground truth is given), saves (a result path is), outputs (the     *)
(* telemetry paths given).  A call with tried set is of interest for its       *)
(* options only: it stops once loaded.                                         *)
NoJob == [o |-> {}, sizes |-> <<1>>, k |-> 1, beam |-> 1, inputs |-> TRUE, truth |-> TRUE, saves |-> TRUE,
          tried |-> FALSE, threads |-> <<>>, pages |-> <<>>, outputs |-> {}, observe |-> FALSE,
          l_aware_max |-> 0, cell_min |-> 0, lru_pages |-> 0, cores |-> 1,
          query_offset |-> 0, query_limit |-> 0, warmup_query_offset |-> 0, warmup_query_count |-> 0,
          mode |-> "random", budget |-> 0, chunks |-> 1, limit |-> 1, run |-> 0]
CallRecords ==
  [o : SUBSET STRING, sizes : Seq(Nat), k : Nat, beam : Nat, inputs : BOOLEAN, truth : BOOLEAN, saves : BOOLEAN,
   tried : BOOLEAN, threads : Seq(Nat), pages : Seq(Nat), outputs : SUBSET STRING, observe : BOOLEAN,
   l_aware_max : Nat, cell_min : Nat, lru_pages : Nat, cores : Nat,
   query_offset : Nat, query_limit : Nat, warmup_query_offset : Nat, warmup_query_count : Nat,
   mode : STRING, budget : Nat, chunks : Nat, limit : Nat, run : Nat]
NoPool == [pages |-> <<>>, capacity |-> 0, hits |-> 0, misses |-> 0]
NoTeam == [todo |-> <<>>, hands |-> <<>>]

(* Every combination two switches away from a supported one is tried.         *)
Changes == {{x, y} : x, y \in Switches}
Tried == {Call((o \ change) \cup (change \ o), L) : o \in Supported, change \in Changes, L \in TriedSizes}

ASSUME CallAssumption == Calls \cup Tried \subseteq CallRecords

-----------------------------------------------------------------------------
(* search_diskann_index_impl: what the facade makes of a call.                *)

IsCurve(a) == Len(a.sizes) > 1 \/ a.threads # <<>> \/ a.pages # <<>>
IoSearch(a) == "topology_vector" \in a.o
HybridSearch(a) == {"powerann", "hybrid"} \subseteq a.o

CallAccepted(a) ==
  /\ a.sizes # <<>>
  /\ a.threads # <<>> \/ a.pages # <<>> => Len(a.sizes) = 1
  /\ a.threads = <<>> \/ a.pages = <<>>
  /\ FacadeAccepts(a.o)
  /\ IF HybridSearch(a)
     THEN /\ {"oracle", "cell_value"} \cap a.outputs # {} => "cell_expansion" \in a.o
          /\ "gateway_value" \in a.outputs => "community_skip" \in a.o
          /\ {"oracle", "gateway_value"} \cap a.outputs # {} => ~IsCurve(a)
          /\ IsCurve(a) /\ {"oracle", "gateway_value"} \cap a.outputs = {} => IoSearch(a)
     ELSE /\ {"oracle", "cell_value", "gateway_value"} \cap a.outputs = {}
          /\ ~(IsCurve(a) /\ IoSearch(a))

(* A cache curve of a search without the hierarchy goes out as a curve of its  *)
(* one list size: its capacities are not passed on.                            *)
Routed(a) ==
  LET observe == HybridSearch(a) /\ {"oracle", "gateway_value"} \cap a.outputs # {}
      hybrid == IF HybridSearch(a) THEN HybridSwitches \cap a.o ELSE {}
      io == IF IoSearch(a) /\ ~observe THEN a.o \ HybridSwitches ELSE {}
  IN [a EXCEPT !.o = hybrid \cup io, !.observe = observe,
               !.pages = IF HybridSearch(a) THEN @ ELSE <<>>]

-----------------------------------------------------------------------------
(* execute_search_curve, up to its loop.                                      *)

Alike(sizes, bound) == \A i, j \in DOMAIN sizes : sizes[i] <= bound <=> sizes[j] <= bound

PointCount(a) ==
  IF a.threads # <<>> THEN Len(a.threads) ELSE IF a.pages # <<>> THEN Len(a.pages) ELSE Len(a.sizes)

(* validate_config, of every point. *)
ValidPoint(a, L) == a.inputs /\ 0 < a.k /\ a.k <= L /\ a.beam > 0

CurveAccepted(a) ==
  /\ IsInjective(a.sizes) /\ IsInjective(a.threads) /\ IsInjective(a.pages)
  /\ \A i \in DOMAIN a.threads : a.threads[i] > 0
  /\ \A i \in DOMAIN a.pages : a.pages[i] > 0
  /\ a.pages # <<>> => {"topology_vector", "lru"} \subseteq a.o
  /\ \A i \in DOMAIN a.sizes : ValidPoint(a, a.sizes[i])
  /\ PointCount(a) > 1 => a.outputs = {} /\ "online" \notin a.o
  /\ a.warmup_query_count # 0 => "online" \notin a.o
  /\ Needs(a.o, "resident_u8", {"resident_path"})
  /\ "l_aware" \in a.o => Alike(a.sizes, a.l_aware_max)
  /\ {"hybrid", "cell_expansion"} \subseteq a.o =>
       "community_skip" \in a.o \/ Alike(a.sizes, a.cell_min - 1)

(* The physical Cells of the adaptive run: disjoint pages of the vector file,  *)
(* among them that of every node.  The pairs it may merge: every Cell with the *)
(* one after the next, when both together stay bounded.                        *)
RangePages(range) == range.first .. range.first + range.count - 1
AdaptationPairs ==
  LET cells == Len(CellRanges)
      stride == IF cells > 2 THEN 2 ELSE 1
  IN {<<x, x + stride>> : x \in {y \in 1 .. cells - stride :
                                   CellRanges[y].nodes + CellRanges[y + stride].nodes <= CellBound}}
AdaptationReady ==
  /\ Len(CellRanges) >= 2
  /\ \A x, y \in DOMAIN CellRanges :
       x # y => RangePages(CellRanges[x]) \cap RangePages(CellRanges[y]) = {}
  /\ \A x \in DOMAIN CellRanges : RangePages(CellRanges[x]) \subseteq 0 .. VectorFile.pages - 1
  /\ \A n \in DOMAIN VectorFile.place : \E x \in DOMAIN CellRanges : VectorFile.place[n] \in RangePages(CellRanges[x])
  /\ AdaptationPairs # {}

(* The nodes of the MemGraph: the first ones of an order.  Of the Communities  *)
(* come their hubs first, then the ends of their gateways, then the others.    *)
Better(a, b) == a[1] < b[1] \/ (a[1] = b[1] /\ a[2] < b[2])
FirstOf(keys, budget) == {k[2] : k \in {x \in keys : Cardinality({y \in keys : Better(y, x)}) < budget}}
RcniCovers(rows) ==
  /\ \A i \in DOMAIN rows : rows[i][1] \in DOMAIN NodeDegree
  /\ \A i, j \in DOMAIN rows : i # j => rows[i][1] # rows[j][1]
  /\ Len(rows) = Cardinality(DOMAIN NodeDegree)
Prominence(n) ==
  LET places == {i \in DOMAIN Sidecar.prominent : Sidecar.prominent[i] = n}
  IN IF places = {} THEN Len(Sidecar.prominent) + 1 ELSE Min(places)
MemgraphNodes(mode, budget) ==
  CASE mode = "random" -> FirstOf({<<NodeKey[n], n>> : n \in DOMAIN NodeKey}, budget)
    [] mode = "community" -> FirstOf({<<Prominence(n), n>> : n \in DOMAIN NodeDegree}, budget)
    [] mode = "degree" -> FirstOf({<<-NodeDegree[n], n>> : n \in DOMAIN NodeDegree}, budget)
    [] mode = "rcni" -> FirstOf({<<-RcniRows[i][2], RcniRows[i][1]>> : i \in DOMAIN RcniRows}, budget)
MemgraphReady(a, p) ==
  /\ a.budget <= Cardinality(DOMAIN NodeDegree)
  /\ a.mode = "community" => "hybrid" \in p
  /\ a.mode = "rcni" => RcniCovers(RcniRows)
  /\ Cardinality(MemgraphNodes(a.mode, a.budget)) = a.budget

LoadThreads(a) == IF a.threads # <<>> THEN Max(ToSet(a.threads)) ELSE a.cores

(* The sidecar is that of the index, and the Cells of a batched search are its;*)
(* so are the hints of a prefetching one, which are compared last.             *)
SidecarFits(p) ==
  /\ Sidecar.nodes = Cardinality(DOMAIN NodeDegree)
  /\ {"batch_search", "pq_traversal"} \cap p # {} => VectorFile.sidecar = Sidecar.id
  /\ "forced_tree" \in p => Sidecar.width = LoadedIndex.chunks
HintsFit(p) == "gateway_prefetch" \in p => VectorFile.hints = Sidecar.gateways /\ VectorFile.sidecar = Sidecar.id

(* configure_pq_score_chunks, configure_graph_neighbor_score_limit: a proper   *)
(* part of what the index has; configure_resident_u8_refinement: its points.   *)
PartsFit(a, p) ==
  /\ "score_chunks" \in p => 0 < a.chunks /\ a.chunks < LoadedIndex.chunks
  /\ "score_limit" \in p => 0 < a.limit /\ a.limit < LoadedIndex.degree
ResidentFits(p) == "resident_u8" \in p => LoadedIndex.resident = Cardinality(DOMAIN NodeDegree)

(* The steps of loading and configuring, in order, and how each fails: by the  *)
(* rules of the index (RuleSteps) or by what its files hold.                   *)
StepFails(i, a, p) ==
  \/ i = 1 /\ "topology_vector" \in p /\ ExpectedLayout(p) # VectorFile.layout
  \/ i = 2 /\ ~LoadAccepts(p)
  \/ i = 3 /\ ~ResidentFits(p)
  \/ i = 4 /\ ~RefinementConfigures(p)
  \/ i = 5 /\ ~PartsFit(a, p)
  \/ i = 6 /\ "hybrid" \in p /\ ~PolarRules(p)
  \/ i = 7 /\ "hybrid" \in p /\ ~SidecarFits(p)
  \/ i = 8 /\ "hybrid" \in p /\ ~HierarchyConfigures(p)
  \/ i = 9 /\ "hybrid" \in p /\ ~HintsFit(p)
  \/ i = 10 /\ "online" \in p /\ ~AdaptationReady
  \/ i = 11 /\ "memgraph" \in p /\ ~MemgraphReady(a, p)
  \/ i = 12 /\ a.query_offset > Len(Reads)
LoadSteps == 1 .. 12
RuleSteps == {2, 4, 6, 8}
Loaded(a, p) ==
  LET failed == {i \in LoadSteps : StepFails(i, a, p)}
  IN IF failed = {} THEN "loaded" ELSE IF Min(failed) \in RuleSteps THEN "refused" ELSE "ended"

-----------------------------------------------------------------------------
(* The points.                                                                *)

MeasuredQueries(a) ==
  LET left == Len(Reads) - a.query_offset
  IN [i \in 1 .. (IF a.query_limit = 0 THEN left ELSE Min({left, a.query_limit})) |-> a.query_offset + i]
WarmupQueries(a) == [i \in 1 .. a.warmup_query_count |-> a.warmup_query_offset + i]

SizeAt(a, i) == IF a.threads # <<>> \/ a.pages # <<>> THEN a.sizes[1] ELSE a.sizes[i]
ThreadsAt(a, i) == IF a.threads # <<>> THEN a.threads[i] ELSE LoadThreads(a)

\* Mutant: the pages of the point before are left in the cache.
FreshPool_Kept(a, i, p, z) ==
  IF "lru" \notin p THEN NoPool
  ELSE [z EXCEPT !.capacity = IF a.pages # <<>> THEN a.pages[i] ELSE a.lru_pages]
FreshPool(a, i, p, z) ==
  IF "lru" \notin p THEN NoPool
  ELSE IF a.pages # <<>> THEN [NoPool EXCEPT !.capacity = a.pages[i]]
  ELSE [NoPool EXCEPT !.capacity = a.lru_pages]

(* One read through the cache, with the oldest page for a victim.              *)
ReadPage(z, page) ==
  IF Contains(z.pages, page)
  THEN [z EXCEPT !.hits = @ + 1, !.pages = Append(Remove(@, page), page)]
  ELSE [z EXCEPT !.misses = @ + 1,
                 !.pages = Append(IF Len(@) < z.capacity THEN @ ELSE Tail(@), page)]

(* The omp loop: static parts under the forced tree, the next query otherwise. *)
Share(n, threads, t) ==
  LET base == n \div threads
      more == n % threads
      len == base + (IF t <= more THEN 1 ELSE 0)
      first == (t - 1) * base + (IF t - 1 < more THEN t - 1 ELSE more)
  IN [i \in 1 .. len |-> first + i]
NewTeam(a, p, i, queries) ==
  LET threads == ThreadsAt(a, i)
      static == "forced_tree" \in p
  IN [todo |-> IF static THEN [t \in 1 .. threads |->
                                 [j \in DOMAIN Share(Len(queries), threads, t) |->
                                    queries[Share(Len(queries), threads, t)[j]]]]
               ELSE <<queries>>,
      hands |-> [t \in 1 .. threads |-> <<>>]]
QueueFor(t) == IF Len(team.todo) = 1 THEN 1 ELSE t
Joined == /\ \A i \in DOMAIN team.todo : team.todo[i] = <<>>
          /\ \A t \in DOMAIN team.hands : team.hands[t] = <<>>

CurveInit ==
  /\ job = NoJob /\ act = "idle" /\ point = 0 /\ pool = NoPool /\ team = NoTeam
  /\ before = [hits |-> 0, misses |-> 0] /\ results = <<>> /\ calls = 0
  /\ files = << >>

Stop(why) == act' = why /\ UNCHANGED <<point, pool, team, before, results, files, calls>>

(* A call: refused by the facade, or handed to the driver.                    *)
MakeCall(a) ==
  /\ calls' = calls + 1
  /\ act' = IF CallAccepted(a) THEN "driver" ELSE "ended"
  /\ job' = IF CallAccepted(a) THEN [Routed(a) EXCEPT !.run = calls + 1] ELSE NoJob
  /\ point' = 0 /\ results' = <<>> /\ pool' = NoPool /\ team' = NoTeam
  /\ UNCHANGED <<before, files>>

TryOptions == \E a \in Tried : MakeCall(a)

Refuse == act = "driver" /\ ~CurveAccepted(job) /\ Stop("ended") /\ UNCHANGED job

(* The policy is settled and the index loaded.                                 *)
Load ==
  /\ act = "driver" /\ CurveAccepted(job)
  /\ Stop(Loaded(job, Policy(job)))
  /\ UNCHANGED job

BeginPoint ==
  /\ act = "loaded" /\ ~job.tried /\ point < PointCount(job)
  /\ LET p == Policy(job)
     IN /\ pool' = FreshPool(job, point + 1, p, pool)
        /\ IF job.warmup_query_offset + job.warmup_query_count <= Len(Reads)
           THEN act' = "warm" /\ team' = NewTeam(job, p, point + 1, WarmupQueries(job))
           ELSE act' = "ended" /\ UNCHANGED team
  /\ point' = point + 1
  /\ UNCHANGED <<job, before, results, files, calls>>

(* A thread takes its next query, or reads the next page of the one it has.   *)
TakeQuery(t) ==
  /\ act \in {"warm", "measure"} /\ team.hands[t] = <<>> /\ team.todo[QueueFor(t)] # <<>>
  /\ team' = [team EXCEPT !.hands[t] = Reads[Head(team.todo[QueueFor(t)])],
                          !.todo[QueueFor(t)] = Tail(@)]
  /\ UNCHANGED <<job, act, point, pool, before, results, files, calls>>
TakePage(t) ==
  /\ act \in {"warm", "measure"} /\ team.hands[t] # <<>>
  /\ team' = [team EXCEPT !.hands[t] = Tail(@)]
  /\ pool' = IF pool.capacity = 0 THEN pool ELSE ReadPage(pool, Head(team.hands[t]))
  /\ UNCHANGED <<job, act, point, before, results, files, calls>>

(* The warmup has joined: the cache is emptied if asked for, its counters are  *)
(* noted and the measured loop begins.                                        *)
BeginMeasure ==
  /\ act = "warm" /\ Joined
  /\ LET z == IF "reset_lru" \in Policy(job) /\ pool.capacity # 0
              THEN [NoPool EXCEPT !.capacity = pool.capacity] ELSE pool
     IN pool' = z /\ before' = [hits |-> z.hits, misses |-> z.misses]
  /\ team' = NewTeam(job, Policy(job), point, MeasuredQueries(job))
  /\ act' = "measure"
  /\ UNCHANGED <<job, point, results, files, calls>>

(* The measured loop has joined, and with it the publications of an adaptive   *)
(* run (drain_background).  A ground truth that does not cover the queries is  *)
(* noticed only now; without a query_limit it has to end with them.           *)
Measured(z, b) == [hits |-> z.hits - b.hits, misses |-> z.misses - b.misses]
Result == [L |-> SizeAt(job, point), threads |-> Len(team.hands), capacity |-> pool.capacity,
           io |-> Measured(pool, before), policy |-> Policy(job)]
Recalled(a) ==
  LET left == TruthQueries - a.query_offset
      queries == Len(MeasuredQueries(a))
  IN a.truth => queries <= left /\ (a.query_limit = 0 => queries = left) /\ a.k <= TruthDepth
FinishPoint ==
  /\ act = "measure" /\ Joined
  /\ act' = IF Recalled(job) THEN "visits" ELSE "ended"
  /\ UNCHANGED <<job, point, pool, team, before, results, files, calls>>

-----------------------------------------------------------------------------
(* The files.  An opened file is torn until it is closed.                     *)

Torn == [run |-> 0, point |-> 0]
Content == [run |-> job.run, point |-> point]
IdsFile == <<"ids", SizeAt(job, point)>>
DistsFile == <<"dists", SizeAt(job, point)>>
Temporary(name) == <<"tmp", name>>

Put(name, content) ==
  [n \in DOMAIN files \cup {name} |-> IF n = name THEN content ELSE files[n]]
Write(name) ==
  files' = Put(name, IF name \in DOMAIN files /\ files[name] = Torn THEN Content ELSE Torn)
Written(name) == name \in DOMAIN files /\ files[name] = Content

(* One file written in place, if it is asked for; then the program goes on.    *)
Saves(from, wanted, name, to) ==
  /\ act = from
  /\ IF wanted /\ ~Written(name) THEN Write(name) /\ UNCHANGED act ELSE act' = to /\ UNCHANGED files
  /\ UNCHANGED <<job, point, pool, team, before, results, calls>>

SaveVisits == Saves("visits", "node_visit" \in job.outputs, <<"visits", 0>>, "ids")
SaveIds == Saves("ids", job.saves, IdsFile, "dists")
SaveDists == Saves("dists", job.saves, DistsFile, "telemetry")

(* save_cell_oracle and its siblings: written aside, the old file removed,     *)
(* renamed.                                                                   *)
TelemetryOutputs == <<"oracle", "cell_value", "gateway_value", "base_trace">>
Pending ==
  {i \in DOMAIN TelemetryOutputs :
     TelemetryOutputs[i] \in job.outputs /\ ~Written(<<"final", TelemetryOutputs[i]>>)}
Drop(name) == [n \in DOMAIN files \ {name} |-> files[n]]
\* Mutant: the telemetry is written in place.
Publish_InPlace(x) == Write(<<"final", x>>)
Publish(x) ==
  IF ~Written(Temporary(x)) THEN Write(Temporary(x))
  ELSE IF <<"final", x>> \in DOMAIN files THEN files' = Drop(<<"final", x>>)
  ELSE files' = [n \in (DOMAIN files \ {Temporary(x)}) \cup {<<"final", x>>} |->
                   IF n = <<"final", x>> THEN files[Temporary(x)] ELSE files[n]]
SaveTelemetry ==
  /\ act = "telemetry"
  /\ IF Pending = {} THEN act' = "loaded" /\ results' = Append(results, Result) /\ UNCHANGED files
     ELSE Publish(TelemetryOutputs[Min(Pending)]) /\ UNCHANGED <<act, results>>
  /\ UNCHANGED <<job, point, pool, team, before, calls>>

Finish ==
  /\ act = "loaded" /\ (job.tried \/ point = PointCount(job))
  /\ Stop("finished") /\ UNCHANGED job

Return ==
  /\ act \in {"finished", "ended", "refused"}
  /\ act' = "idle" /\ job' = NoJob /\ results' = <<>> /\ pool' = NoPool /\ team' = NoTeam /\ point' = 0
  /\ before' = [hits |-> 0, misses |-> 0]
  /\ UNCHANGED <<files, calls>>

(* The process ends, or an output that cannot be written ends the program.     *)
Crash ==
  /\ act \notin {"idle", "finished", "ended", "refused"} /\ ~job.tried
  /\ Stop("ended") /\ UNCHANGED job

CurveNext ==
  \/ act = "idle" /\ calls < MaxCalls /\ \E a \in Calls : MakeCall(a)
  \/ act = "idle" /\ calls = 0 /\ TryOptions
  \/ Refuse \/ Load \/ BeginPoint
  \/ \E t \in DOMAIN team.hands : TakeQuery(t)
  \/ \E t \in DOMAIN team.hands : TakePage(t)
  \/ BeginMeasure \/ FinishPoint \/ SaveVisits \/ SaveIds \/ SaveDists \/ SaveTelemetry \/ Finish \/ Return \/ Crash

CurveSpec == CurveInit /\ [][CurveNext]_curveVars

-----------------------------------------------------------------------------
(* A single search below the smallest list of the Cells gives them up, and    *)
(* with the Communities left its other switches may no longer go together:     *)
(* handoff, terminal convergence and hierarchical routing all ask for them.    *)
GateRefuses(a) ==
  GatesCells(a) /\ "community_skip" \in a.o /\ {"handoff", "terminal", "hierarchical"} \cap a.o # {}

(* What the facade let through the index does not refuse, but for six          *)
(* combinations the facade does not look at: refinement by leaves without the  *)
(* cache, a prefetch limit without a prefetch, prefetching next to an L-aware  *)
(* search, which gives the cache up, several Cells added for a neighbor        *)
(* without an adjacency file, a page budget above the scratch space, and what  *)
(* the gate of the Cells leaves behind.                                       *)
LateRefusal(a) ==
  \/ "leaf_refine" \in a.o /\ "lru" \notin a.o
  \/ "topology_vector" \in a.o /\ "gateway_limit" \notin a.o
  \/ /\ "l_aware" \in a.o /\ a.sizes[1] <= a.l_aware_max /\ "refine" \notin a.o
     /\ Prefetches \cap a.o # {}
  \/ {"adj", "adj_wide"} \subseteq a.o /\ "adjacency" \notin a.o
  \/ {"ranked", "ranked_over"} \subseteq a.o
  \/ GateRefuses(a)
AcceptedOptionsLoad == act = "refused" => LateRefusal(job)

(* Every point of a curve is measured as it would be alone: the search with    *)
(* its list size alone loads and the same switches take effect, on the point's *)
(* own threads and pages, and its counters are those of its own queries on a   *)
(* cache nobody warmed but its own warmup.  Two searches cannot be run alone,  *)
(* because only a single search has its Cells gated: the one whose switches    *)
(* the gate pulls apart, and without the Communities the one whose MemGraph is *)
(* chosen by the hierarchy the gate has switched off.                         *)
Alone(a, L) == [a EXCEPT !.sizes = <<L>>, !.threads = <<>>, !.pages = <<>>]
GateLosesOrder(a) ==
  GatesCells(a) /\ "community_skip" \notin a.o /\ "memgraph" \in a.o /\ a.mode = "community"
LoadsAlone(a) == GateRefuses(a) \/ GateLosesOrder(a) \/ Loaded(a, Policy(a)) = "loaded"
SetUpAlone(i) ==
  LET r == results[i]
  IN /\ LoadsAlone(Alone(job, r.L))
     /\ Behaviour(r.policy, r.L, job.cell_min) = Behaviour(Policy(Alone(job, r.L)), r.L, job.cell_min)
     /\ job.threads # <<>> => r.threads = job.threads[i]
     /\ job.pages # <<>> /\ "lru" \in r.policy => r.capacity = job.pages[i]
Touched(queries) == UNION {ToSet(Reads[queries[i]]) : i \in DOMAIN queries}
CountsAlone(i) ==
  LET r == results[i]
      cold == job.warmup_query_count = 0 \/ "reset_lru" \in r.policy
      reads == FoldSeq(LAMBDA x, n : n + Len(Reads[x]), 0, MeasuredQueries(job))
  IN r.capacity # 0 => /\ r.io.hits + r.io.misses = reads
                       /\ cold => r.io.misses >= Cardinality(Touched(MeasuredQueries(job)))
PointsAsAlone == \A i \in DOMAIN results : SetUpAlone(i) /\ CountsAlone(i)

(* A telemetry file is absent or whole, whatever crashes; a run that finished  *)
(* and saves left each list size the two files of the last point that had it.  *)
LastOfSize(i) == \A j \in DOMAIN results : j > i => results[j].L # results[i].L
SavedFilesAreWhole ==
  /\ \A n \in DOMAIN files : n[1] = "final" => files[n] # Torn
  /\ act = "finished" /\ job.saves =>
       \A i \in DOMAIN results :
         LastOfSize(i) => \A kind \in {"ids", "dists"} : files[<<kind, results[i].L>>] = [run |-> job.run, point |-> i]
=============================================================================

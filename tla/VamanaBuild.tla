----------------------------- MODULE VamanaBuild -----------------------------
(***************************************************************************)
(* The static Vamana index of src/src/index/vamana_index.cc: the checks of *)
(* a build, the parallel link of the graph with RobustPrune, the final     *)
(* cleanup and the observers; searches, plain, by label and over the       *)
(* optimized layout; save and load of its files.                           *)
(*                                                                         *)
(* A worker's step is what it does under one hold of locks_[n], or between *)
(* two of them.  A point is a tuple of integers, a distance a squared one. *)
(* alpha is 1.2 to the power c.alpha, so that its rounds are powers too.   *)
(* Labels are numbers, 0 the universal one.  Distances are exact ones:     *)
(* builds over quantized vectors (pq_dist_build) are not modelled.         *)
(***************************************************************************)
EXTENDS Rcni

CONSTANTS
  BuildCases,   \* what an index may be constructed and built with
  LinkThreads,  \* the threads of the parallel loops
  ChunkNodes,   \* schedule(dynamic, 2048)
  Lookups       \* the searches a caller may ask

\* The rows of a data file have one dimension; the parameters are unsigned.
ASSUME BuildAssumption ==
  /\ ChunkNodes \in Nat \ {0}
  /\ \A c \in BuildCases :
       /\ c.points \in Seq(Seq(Int)) /\ \A i \in DOMAIN c.points : Len(c.points[i]) = Len(c.points[1])
       /\ {c.load, c.max, c.frozen, c.r, c.maxc, c.alpha} \subseteq Nat

VARIABLES
  vb,      \* the index: its construction c, phase and state
  crew,    \* what each thread of link is doing
  counts,  \* the RCNI aggregator that observes the build
  stored,  \* the files of the saved index
  wrote    \* what the last save that ended held, or Torn after a crash
buildVars == <<vb, crew, counts, stored, wrote>>

NoIndex == [phase |-> "none"]
Resting == [pc |-> "rest", todo |-> <<>>]
Missing == [kind |-> "missing"]
HalfWritten == [kind |-> "half"]
Torn == [kind |-> "torn"]
FileNames == {"medoids", "universal", "labels", "graph", "data"}

Count(c) == Len(c.points)
Filtered(c) == c.lines # <<>>
Capacity(c) == c.max + c.frozen
Set(v) == {v[i] : i \in DOMAIN v}

Squares(a, b) == Total([i \in DOMAIN a |-> (a[i] - b[i]) * (a[i] - b[i])])
Distance(c, a, b) == IF c.metric = "ip" THEN -Total([i \in DOMAIN a |-> a[i] * b[i]]) ELSE Squares(a, b)
Between(a, b) == Distance(vb.c, vb.at[a], vb.at[b])

-----------------------------------------------------------------------------
(* Construction, checks and the entry point *)

\* set_post_link_graph_observer refuses an index of another metric.
NewIndex(c) ==
  /\ vb.phase = "none"
  /\ c.observer => c.metric = "l2"
  /\ vb' = [phase |-> "made", c |-> c, observer |-> c.observer]
  /\ counts' = Prepared(IF c.rcni THEN c.max ELSE 0)
  /\ UNCHANGED <<crew, stored, wrote>>

\* calculate_medoid: the slot nearest to the mean of the whole data store, unused slots included.
Medoid(at) ==
  LET n == Cardinality(DOMAIN at)
      sum == [d \in DOMAIN at[0] |-> Total([i \in 1 .. n |-> at[i - 1][d]])]
      far(i) == Squares([d \in DOMAIN sum |-> n * at[i][d]], sum)
  IN CHOOSE i \in DOMAIN at : \A j \in DOMAIN at : far(i) < far(j) \/ (far(i) = far(j) /\ i <= j)

\* populate_data copies the whole file into zeroed slots.
Populated(c) ==
  [n \in 0 .. Capacity(c) - 1 |-> IF n < Count(c) THEN c.points[n + 1] ELSE [d \in DOMAIN c.points[1] |-> 0]]

\* generate_frozen_point copies the entry point to the slot behind max_points_.
WithFrozen(c, at) == IF c.frozen = 0 THEN at ELSE [at EXCEPT ![c.max] = at[Medoid(at)]]

\* build and build_with_data_populated throw, the observer reset by the guard.
BuildAllowed(c) ==
  /\ c.load > 0 /\ Count(c) <= c.max /\ c.load <= Count(c)
  /\ c.tags # Nobody => c.tags = c.load
  /\ c.frozen <= 1
RefuseBuild ==
  /\ vb.phase = "made" /\ ~BuildAllowed(vb.c)
  /\ vb' = [vb EXCEPT !.phase = "failed", !.observer = FALSE]
  /\ UNCHANGED <<crew, counts, stored, wrote>>

\* build_filtered_index: each label's start is drawn from its points, the universal ones among
\* them; 25 draws and the counts of earlier picks only decide which.
LabelNames(lines) == UNION Set(lines)
LabelPoints(c, x) == {i - 1 : i \in {j \in 1 .. c.load : x \in c.lines[j] \/ 0 \in c.lines[j]}}
LabelStarts(c) ==
  {f \in [LabelNames(c.lines) -> 0 .. c.load - 1] : \A x \in DOMAIN f : f[x] \in LabelPoints(c, x)}

StartBuild ==
  /\ vb.phase = "made" /\ BuildAllowed(vb.c)
  /\ \E at \in {WithFrozen(vb.c, Populated(vb.c))}, starts \in LabelStarts(vb.c) :
       vb' = [phase |-> "link", c |-> vb.c, observer |-> vb.observer,
              at |-> at, nd |-> vb.c.load, cursor |-> 0, starts |-> starts, filtered |-> Filtered(vb.c),
              lines |-> [n \in 0 .. Capacity(vb.c) - 1 |-> IF n < Len(vb.c.lines) THEN vb.c.lines[n + 1] ELSE {}],
              universal |-> vb.c.universal, graph |-> [n \in 0 .. Capacity(vb.c) - 1 |-> <<>>],
              start |-> IF vb.c.frozen = 1 THEN vb.c.max ELSE Medoid(at),
              seen |-> Missing, answer |-> Missing, packed |-> FALSE, pruned |-> {}]
  /\ UNCHANGED <<crew, counts, stored, wrote>>

-----------------------------------------------------------------------------
(* iterate_to_fixed_point: the queue holds [id, d, x], x for expanded, and is ordered by   *)
(* distance and id; seen are the nodes inserted into the pool; allowed those the filter    *)
(* passes.                                                                                 *)

Closer(a, b) == a.d < b.d \/ (a.d = b.d /\ a.id < b.id)
Nearest(S, cap) == {e \in S : Cardinality({f \in S : Closer(f, e)}) < cap}
ByDistance(S) == Ordered(S, Closer)

Scored(n, target) == [id |-> n, d |-> Distance(vb.c, target, vb.at[n]), x |-> FALSE]

\* detect_common_filters
CommonFilters_BuildOnly(n, labels, searching) ==
  vb.lines[n] \cap labels # {} \/ ~searching
CommonFilters(n, labels, searching) ==
  \/ vb.lines[n] \cap labels # {}
  \/ vb.universal /\ (0 \in vb.lines[n] \/ (~searching /\ 0 \in labels))

Passing(labels, searching) == {n \in DOMAIN vb.at : CommonFilters(n, labels, searching)}

Opening(ids, cap, target, allowed) ==
  [queue |-> Nearest({Scored(n, target) : n \in ids \cap allowed}, cap), seen |-> ids \cap allowed, pool |-> {}]

Fixed(s) == \A e \in s.queue : e.x

ExpandClosest(s, cap, target, allowed) ==
  LET e == CHOOSE e \in s.queue : ~e.x /\ \A f \in s.queue : (f.x \/ f = e \/ Closer(e, f))
      fresh == (Set(vb.graph[e.id]) \cap allowed) \ s.seen
  IN [queue |-> Nearest((s.queue \ {e}) \cup {[e EXCEPT !.x = TRUE]} \cup {Scored(n, target) : n \in fresh}, cap),
      seen |-> s.seen \cup fresh,
      pool |-> s.pool \cup {[id |-> e.id, d |-> e.d]}]

\* A node enters the queue once, so there are no more rounds than points.
Walk(s, cap, target, allowed) ==
  FoldOver(LAMBDA u, i : IF Fixed(u) THEN u ELSE ExpandClosest(u, cap, target, allowed), s,
           [i \in 1 .. Cardinality(DOMAIN vb.at) |-> i])

-----------------------------------------------------------------------------
(* RobustPrune.  facts[t] are <<djk, j>> for the kept j that candidate t was measured      *)
(* against, or <<round, j>> under inner product; the largest factor is the least djk.      *)

Occluded(c, d, facts, k) ==
  \E f \in facts : IF c.metric = "ip" THEN f[1] >= k ELSE (f[1] = 0 \/ 5 ^ k * d > 6 ^ k * f[1])

\* In a filtered index only a candidate whose labels the kept one has may be occluded.
MayOcclude_AnyLabel(kept, victim) == TRUE
MayOcclude(kept, victim) ==
  vb.filtered =>
    /\ Len(vb.c.lines) >= kept /\ Len(vb.c.lines) >= victim
    /\ vb.lines[victim] \subseteq vb.lines[kept]

Measure(c, kept, victim, k) ==
  LET djk == Between(kept.id, victim.id)
  IN IF c.metric # "ip" THEN {<<djk, kept.id>>}
     ELSE IF -djk * 5 ^ k > -victim.d * 6 ^ k THEN {<<k, kept.id>>} ELSE {}

\* One candidate of one round of occlude_list.
Consider(c, p, location, degree, rounds, s, k, i) ==
  IF Len(s.kept) >= degree \/ i \in s.taken \/ Occluded(c, p[i].d, s.facts[i], k) THEN s
  ELSE [taken |-> s.taken \cup {i},
        kept |-> IF p[i].id = location THEN s.kept ELSE Append(s.kept, p[i].id),
        facts |-> [t \in DOMAIN p |->
          IF t <= i \/ t \in s.taken \/ Occluded(c, p[t].d, s.facts[t], rounds) \/ ~MayOcclude(p[i].id, p[t].id)
          THEN s.facts[t] ELSE s.facts[t] \cup Measure(c, p[i], p[t], k)]]

\* One round, over the candidates from the nearest.
OccludeRound(c, p, location, degree, rounds, s, k) ==
  FoldOver(LAMBDA u, i : Consider(c, p, location, degree, rounds, u, k, i), s, [i \in DOMAIN p |-> i])

OccludeList(c, p, location, degree, rounds) ==
  FoldOver(LAMBDA u, k : OccludeRound(c, p, location, degree, rounds, u, k - 1),
           [taken |-> {}, kept |-> <<>>, facts |-> [t \in DOMAIN p |-> {}]],
           [k \in 1 .. rounds + 1 |-> k])

\* The events of a prune: victims occluded beyond alpha by their strongest witness.
PruneEvents(c, p, location, list, facts) ==
  LET witness(t) == CHOOSE f \in facts[t] : \A g \in facts[t] : f[1] < g[1] \/ (f[1] = g[1] /\ f[2] <= g[2])
      others(t) == {<<Between(p[t].id, n), n>> : n \in Set(list) \ {witness(t)[2]}}
  IN {[source |-> location, witness |-> witness(t)[2], victim |-> p[t].id, sd |-> p[t].d, wd |-> witness(t)[1],
       alt |-> IF others(t) = {} THEN <<>>
               ELSE CHOOSE a \in others(t) : \A b \in others(t) : a[1] < b[1] \/ (a[1] = b[1] /\ a[2] <= b[2])] :
        t \in {u \in DOMAIN p : /\ facts[u] # {} /\ Occluded(c, p[u].d, facts[u], c.alpha)
                                /\ p[u].id \notin Set(list)}}

\* prune_neighbors: the candidates, truncated, pruned and, if asked, filled up again.
PruneNeighbors(location, pool, degree, maxc, rounds) ==
  IF pool = {} THEN [list |-> <<>>, events |-> {}]
  ELSE LET c == vb.c
           p == SubSeq(ByDistance(pool), 1, Min({maxc, Cardinality(pool)}))
           s == OccludeList(c, p, location, degree, rounds)
           rest == SelectSeq([i \in DOMAIN p |-> p[i].id], LAMBDA n : n \notin Set(s.kept) /\ n # location)
           list == IF c.saturate /\ rounds > 0
                   THEN s.kept \o SubSeq(rest, 1, Min({Len(rest), degree - Len(s.kept)})) ELSE s.kept
       IN [list |-> list, events |-> IF c.rcni THEN PruneEvents(c, p, location, list, s.facts) ELSE {}]

\* The copy of a list that is too long, measured from its node.
Remeasured(location, ids) == {[id |-> n, d |-> Between(location, n)] : n \in ids \ {location}}
Repruned(location, ids) ==
  PruneNeighbors(location, Remeasured(location, ids), vb.c.r, vb.c.maxc, vb.c.alpha).list

-----------------------------------------------------------------------------
(* link *)

VisitOrder == [i \in 1 .. vb.nd |-> i - 1] \o IF vb.c.frozen = 1 THEN <<vb.c.max>> ELSE <<>>
SlackRange == (13 * vb.c.r) \div 10

TakeChunk(t) ==
  /\ vb.phase = "link" /\ crew[t] = Resting /\ vb.cursor < Len(VisitOrder)
  /\ crew' = [crew EXCEPT ![t].todo = SubSeq(VisitOrder, vb.cursor + 1,
                                             Min({vb.cursor + ChunkNodes, Len(VisitOrder)}))]
  /\ vb' = [vb EXCEPT !.cursor = @ + ChunkNodes]
  /\ UNCHANGED <<counts, stored, wrote>>

\* search_for_point_and_prune: with labels, a search among the nodes that share one first.
BeginNode(t) ==
  /\ crew[t].pc = "rest" /\ crew[t].todo # <<>>
  /\ LET n == Head(crew[t].todo)
         labels == vb.lines[n]
     IN crew' = [crew EXCEPT ![t] =
          [pc |-> IF vb.filtered THEN "filtered" ELSE "open",
           todo |-> Tail(crew[t].todo), node |-> n, found |-> {},
           s |-> IF vb.filtered
                 THEN Opening({vb.starts[x] : x \in labels}, vb.c.lf, vb.at[n], Passing(labels, FALSE))
                 ELSE Opening({vb.start}, vb.c.l, vb.at[n], DOMAIN vb.at)]]
  /\ UNCHANGED <<vb, counts, stored, wrote>>

ExpandNode(t) ==
  /\ crew[t].pc \in {"filtered", "open"} /\ ~Fixed(crew[t].s)
  /\ LET open == crew[t].pc = "open"
     IN crew' = [crew EXCEPT ![t].s =
          ExpandClosest(@, IF open THEN vb.c.l ELSE vb.c.lf, vb.at[crew[t].node],
                        IF open THEN DOMAIN vb.at ELSE Passing(vb.lines[crew[t].node], FALSE))]
  /\ UNCHANGED <<vb, counts, stored, wrote>>

EndFiltered(t) ==
  /\ crew[t].pc = "filtered" /\ Fixed(crew[t].s)
  /\ crew' = [crew EXCEPT ![t].pc = "open", ![t].found = crew[t].s.pool,
                          ![t].s = Opening({vb.start}, vb.c.l, vb.at[crew[t].node], DOMAIN vb.at)]
  /\ UNCHANGED <<vb, counts, stored, wrote>>

\* The pool, without the node itself, is pruned and replaces the node's list.
LinkNode(t) ==
  /\ crew[t].pc = "open" /\ Fixed(crew[t].s)
  /\ LET n == crew[t].node
         pool == {e \in crew[t].s.pool \cup crew[t].found : e.id # n}
     IN /\ vb.c.rcni /\ pool # {} => ObserveAllowed(counts, n)
        /\ \E out \in {PruneNeighbors(n, pool, vb.c.r, vb.c.maxc, vb.c.alpha)} :
             /\ vb' = [vb EXCEPT !.graph[n] = out.list, !.pruned = @ \cup out.events]
             /\ crew' = [crew EXCEPT ![t] = [pc |-> "inter", todo |-> @.todo, node |-> n, links |-> out.list,
                                             pool |-> pool, list |-> out.list, events |-> out.events]]
             /\ counts' = IF vb.c.rcni /\ pool # {} THEN ObserveSource(counts, n, out.events, vb.c.alpha)
                          ELSE counts
  /\ UNCHANGED <<stored, wrote>>

\* inter_insert for one link, under its lock.
Inter(t) ==
  /\ crew[t].pc = "inter" /\ crew[t].links # <<>>
  /\ LET n == crew[t].node
         des == Head(crew[t].links)
         there == n \in Set(vb.graph[des])
         full == Len(vb.graph[des]) >= SlackRange
     IN /\ vb' = IF there \/ full THEN vb ELSE [vb EXCEPT !.graph[des] = Append(@, n)]
        /\ crew' = IF ~there /\ full
                   THEN [crew EXCEPT ![t].pc = "prune", ![t].pool = Set(vb.graph[des]) \cup {n}, ![t].list = <<>>]
                   ELSE [crew EXCEPT ![t].links = Tail(@), ![t].pool = {}, ![t].list = <<>>]
  /\ UNCHANGED <<counts, stored, wrote>>

\* The pruned copy replaces the list, whatever others added to it meanwhile.
Reprune(t) ==
  /\ crew[t].pc = "prune"
  /\ LET des == Head(crew[t].links)
     IN vb' = [vb EXCEPT !.graph[des] = Repruned(des, crew[t].pool)]
  /\ crew' = [crew EXCEPT ![t].pc = "inter", ![t].links = Tail(@), ![t].pool = {}]
  /\ UNCHANGED <<counts, stored, wrote>>

EndNode(t) ==
  /\ crew[t].pc = "inter" /\ crew[t].links = <<>>
  /\ crew' = [crew EXCEPT ![t] = [pc |-> "rest", todo |-> crew[t].todo]]
  /\ UNCHANGED <<vb, counts, stored, wrote>>

\* The final cleanup of lists over the range, then the observer of the finished graph, which
\* insists on an entry point among the loaded points.
Cleaned == [n \in DOMAIN vb.graph |-> IF Len(vb.graph[n]) > vb.c.r THEN Repruned(n, Set(vb.graph[n]))
                                      ELSE vb.graph[n]]
Observable == vb.c.metric = "l2" /\ ~vb.filtered /\ vb.start < vb.nd
FinishLink ==
  /\ vb.phase = "link" /\ vb.cursor >= Len(VisitOrder)
  /\ \A t \in LinkThreads : crew[t] = Resting
  /\ vb' = [vb EXCEPT !.graph = Cleaned, !.observer = FALSE,
                      !.phase = IF vb.observer /\ ~Observable THEN "failed" ELSE "built",
                      !.seen = IF vb.observer /\ Observable
                               THEN [count |-> vb.nd, entry |-> vb.start, graph |-> Cleaned] ELSE Missing]
  /\ UNCHANGED <<crew, counts, stored, wrote>>

\* power_ann.cc: the importance of the nodes and the candidate Hubs of a built index.
RankNodes ==
  /\ vb.phase = "built" /\ vb.c.rcni /\ ~vb.packed
  /\ \E importance \in {ComputeImportance(counts)} :
       vb' = [vb EXCEPT !.phase = "answered",
                        !.answer = [importance |-> importance,
                                    hubs |-> SelectCandidateHubs(importance, vb.c.mode, vb.c.value)]]
  /\ UNCHANGED <<crew, counts, stored, wrote>>

-----------------------------------------------------------------------------
(* Searches of a built index.  Its lists no longer change, so one is a single step. *)

Answers(queue, k) ==
  LET best == ByDistance({e \in queue : e.id < vb.c.max})
  IN [i \in 1 .. Min({k, Len(best)}) |-> best[i].id]

Answer(ask, ids) == vb' = [vb EXCEPT !.phase = "answered", !.answer = [ask |-> ask, ids |-> ids]]

\* search: K at most L, start points omitted from the answer.
Search(ask) ==
  /\ vb.phase = "built" /\ ~vb.packed /\ ask.kind = "plain" /\ ask.k <= ask.l
  /\ Answer(ask, Answers(Walk(Opening({vb.start}, ask.l, ask.query, DOMAIN vb.at), ask.l, ask.query,
                              DOMAIN vb.at).queue, ask.k))
  /\ UNCHANGED <<crew, counts, stored, wrote>>

\* get_converted_label: a label the map does not know is the universal one, if there is one.
Converted(label) == IF label \in DOMAIN vb.starts THEN label ELSE 0

\* search_with_filters: from the start point and the label's own, through nodes that pass.
SearchWithFilters(ask) ==
  /\ vb.phase = "built" /\ ~vb.packed /\ ask.kind = "label" /\ ask.k <= ask.l
  /\ ask.label \in DOMAIN vb.starts \/ vb.universal
  /\ Converted(ask.label) \in DOMAIN vb.starts
  /\ LET label == Converted(ask.label)
         allowed == Passing({label}, TRUE)
     IN Answer(ask, Answers(Walk(Opening({vb.start, vb.starts[label]}, ask.l, ask.query, allowed), ask.l,
                                 ask.query, allowed).queue, ask.k))
  /\ UNCHANGED <<crew, counts, stored, wrote>>

\* optimize_index_layout moves vectors and lists into one block and clears the graph store.
OptimizeLayout ==
  /\ vb.phase = "built" /\ ~vb.packed
  /\ vb' = [vb EXCEPT !.packed = TRUE]
  /\ UNCHANGED <<crew, counts, stored, wrote>>

\* search_with_optimized_layout starts from the entry point's neighbours and random points, L
\* in all; it returns the first K of its queue, and it needs L points to find.
SearchOptimized(ask) ==
  /\ vb.phase = "built" /\ vb.packed /\ ask.kind = "plain" /\ ask.k <= ask.l /\ ask.l <= vb.nd
  /\ LET links == vb.graph[vb.start]
         near == Set(SubSeq(links, 1, Min({Len(links), ask.l})))
     IN \E more \in SUBSET (0 .. vb.nd - 1 \ near) :
          /\ Cardinality(near \cup more) = ask.l
          /\ Answer(ask, Answers(Walk(Opening(near \cup more, ask.l, ask.query, DOMAIN vb.at), ask.l,
                                      ask.query, DOMAIN vb.at).queue, ask.k))
  /\ UNCHANGED <<crew, counts, stored, wrote>>

-----------------------------------------------------------------------------
(* save and load of an index without frozen point *)

Loaded(f) == [n \in 0 .. vb.nd - 1 |-> f[n]]

\* The files save writes, in order, with what each holds.
Writes_NoUniversal ==
  (IF ~vb.filtered THEN <<>> ELSE
     <<<<"medoids", [kind |-> "medoids", starts |-> vb.starts]>>,
       <<"labels", [kind |-> "labels", lines |-> Loaded(vb.lines)]>>>>)
  \o <<<<"graph", [kind |-> "graph", count |-> vb.nd, start |-> vb.start, graph |-> Loaded(vb.graph)]>>,
       <<"data", [kind |-> "data", count |-> vb.nd, at |-> Loaded(vb.at)]>>>>

Writes ==
  (IF ~vb.filtered THEN <<>> ELSE
     <<<<"medoids", [kind |-> "medoids", starts |-> vb.starts]>>>>
     \o (IF vb.universal THEN <<<<"universal", [kind |-> "universal"]>>>> ELSE <<>>)
     \o <<<<"labels", [kind |-> "labels", lines |-> Loaded(vb.lines)]>>>>)
  \o <<<<"graph", [kind |-> "graph", count |-> vb.nd, start |-> vb.start, graph |-> Loaded(vb.graph)]>>,
       <<"data", [kind |-> "data", count |-> vb.nd, at |-> Loaded(vb.at)]>>>>

BeginSave ==
  /\ vb.phase = "built" /\ vb.c.save /\ ~vb.packed /\ vb.c.frozen = 0
  /\ vb' = [vb EXCEPT !.phase = "saving", !.cursor = 1]
  /\ UNCHANGED <<crew, counts, stored, wrote>>

WriteFile ==
  /\ vb.phase = "saving" /\ vb.cursor <= Len(Writes)
  /\ stored' = [stored EXCEPT ![Writes[vb.cursor][1]] = Writes[vb.cursor][2]]
  /\ vb' = [vb EXCEPT !.cursor = @ + 1]
  /\ UNCHANGED <<crew, counts, wrote>>

EndSave ==
  /\ vb.phase = "saving" /\ vb.cursor > Len(Writes)
  /\ wrote' = [kind |-> "saved", count |-> vb.nd, start |-> vb.start, graph |-> Loaded(vb.graph),
               at |-> Loaded(vb.at), filtered |-> vb.filtered, starts |-> vb.starts, lines |-> Loaded(vb.lines), universal |-> vb.universal]
  /\ vb' = NoIndex
  /\ UNCHANGED <<crew, counts, stored>>

\* The process dies with one file half written: its header is there, its points are not.
KillSave ==
  /\ vb.phase = "saving" /\ vb.cursor <= Len(Writes)
  /\ stored' = [stored EXCEPT ![Writes[vb.cursor][1]] = HalfWritten]
  /\ wrote' = Torn
  /\ vb' = NoIndex
  /\ UNCHANGED <<crew, counts>>

\* load refuses data of another dimension or count than the graph's; a half-written graph
\* has no points.  Label files are read when they are there.
LoadAllowed(c) ==
  /\ stored["data"].kind = "data" /\ stored["graph"].kind = "graph"
  /\ DOMAIN stored["data"].at[0] = DOMAIN c.points[1]
  /\ stored["data"].count = stored["graph"].count /\ stored["data"].count <= c.max
  /\ \A f \in {"medoids", "universal", "labels"} : stored[f] # HalfWritten

LoadIndex(c) ==
  /\ vb.phase = "none" /\ c.save /\ LoadAllowed(c)
  /\ LET labelled == stored["labels"] # Missing
     IN vb' = [phase |-> "loaded", c |-> c, nd |-> stored["data"].count, at |-> stored["data"].at,
               graph |-> stored["graph"].graph, start |-> stored["graph"].start, filtered |-> Filtered(c),
               lines |-> IF labelled THEN stored["labels"].lines ELSE <<>>,
               starts |-> IF labelled /\ stored["medoids"] # Missing THEN stored["medoids"].starts ELSE <<>>,
               universal |-> labelled /\ stored["universal"] # Missing]
  /\ UNCHANGED <<crew, counts, stored, wrote>>

DropIndex ==
  /\ vb.phase \in {"built", "answered", "failed", "loaded"}
  /\ vb' = NoIndex
  /\ counts' = Prepared(0)
  /\ UNCHANGED <<crew, stored, wrote>>

BuildInit ==
  /\ vb = NoIndex /\ crew = [t \in LinkThreads |-> Resting] /\ counts = Prepared(0)
  /\ stored = [f \in FileNames |-> Missing] /\ wrote = Missing

BuildNext ==
  \/ \E c \in BuildCases : NewIndex(c)
  \/ RefuseBuild \/ StartBuild
  \/ \E t \in LinkThreads : \/ TakeChunk(t) \/ BeginNode(t) \/ ExpandNode(t) \/ EndFiltered(t) \/ LinkNode(t)
                            \/ Inter(t) \/ Reprune(t) \/ EndNode(t)
  \/ FinishLink \/ RankNodes
  \/ \E ask \in Lookups : Search(ask) \/ SearchWithFilters(ask) \/ SearchOptimized(ask)
  \/ OptimizeLayout
  \/ BeginSave \/ WriteFile \/ EndSave \/ KillSave
  \/ \E c \in BuildCases : LoadIndex(c)
  \/ DropIndex

BuildSpec == BuildInit /\ [][BuildNext]_buildVars

-----------------------------------------------------------------------------
(* Properties *)

\* RobustPrune: when a list is not full, whatever candidate it left out has a kept witness that
\* is closer to it than the node by more than alpha, and, in a filtered index, that carries all
\* its labels: no label loses its way to a point.
WitnessFor(e, list) ==
  \E w \in Set(list) :
    /\ vb.filtered => vb.lines[e.id] \subseteq vb.lines[w]
    /\ \/ Between(w, e.id) = 0
       \/ 5 ^ vb.c.alpha * e.d > 6 ^ vb.c.alpha * Between(w, e.id)
PruneKeepsWitness ==
  \A t \in LinkThreads :
    crew[t].pc = "inter" /\ crew[t].pool # {} /\ vb.c.metric = "l2" /\ ~vb.c.saturate
      /\ Len(crew[t].list) < vb.c.r =>
        \A e \in Nearest(crew[t].pool, vb.c.maxc) : e.id \in Set(crew[t].list) \/ WitnessFor(e, crew[t].list)

\* The importance of power_ann counts every prune of the build once, to its witness, whichever
\* thread saw it and in whichever shard it ended; and the Hubs are its highest, with one less of
\* which the wanted mass would not be reached.
RankingCountsEveryPrune ==
  vb.phase = "answered" /\ "importance" \in DOMAIN vb.answer =>
    LET importance == vb.answer.importance
        hubs == vb.answer.hubs
        mass(s) == Total([i \in DOMAIN s |-> importance[s[i]].normalized])
    IN /\ \A n \in DOMAIN importance :
            importance[n].events = Cardinality({e \in vb.pruned : e.witness = n})
       /\ \A h \in Set(hubs), n \in DOMAIN importance \ Set(hubs) :
            importance[h].normalized >= importance[n].normalized
       /\ vb.c.mode = "mass" /\ hubs # <<>> =>
            mass(Front(hubs)) * One < vb.c.value * mass(Ranked(importance))

\* A search with room for every point answers with the K nearest of those it can reach, in
\* order and none twice; a search by label reaches, and so answers with, only points that carry
\* the label or the universal one.
Reach(S, allowed) ==
  FoldOver(LAMBDA R, i : R \cup (UNION {Set(vb.graph[n]) : n \in R} \cap allowed), S,
           [i \in 1 .. Cardinality(DOMAIN vb.at) |-> i])
Carrying(label) == {n \in DOMAIN vb.at : vb.lines[n] \cap {label, 0} # {}}
Reachable(ask) ==
  IF ask.kind = "plain" THEN Reach({vb.start}, DOMAIN vb.at)
  ELSE LET allowed == Carrying(Converted(ask.label))
       IN Reach({vb.start, vb.starts[Converted(ask.label)]} \cap allowed, allowed)
AnswersExactOverReach ==
  vb.phase = "answered" /\ "ask" \in DOMAIN vb.answer /\ vb.answer.ask.l >= vb.nd + vb.c.frozen /\ ~vb.packed =>
    \E found \in {{Scored(n, vb.answer.ask.query) : n \in {m \in Reachable(vb.answer.ask) : m < vb.c.max}}} :
      /\ Set(vb.answer.ids) = {e.id : e \in Nearest(found, vb.answer.ask.k)}
      /\ \A i, j \in DOMAIN vb.answer.ids :
           i < j => Closer(Scored(vb.answer.ids[i], vb.answer.ask.query), Scored(vb.answer.ids[j], vb.answer.ask.query))

\* save and load: what a save that ended wrote is what the next load gives back, the labels with
\* it, also when an earlier index left its files under the same prefix.
SavedIndexLoads ==
  vb.phase = "loaded" /\ wrote.kind = "saved" =>
    /\ vb.nd = wrote.count /\ vb.at = wrote.at /\ vb.graph = wrote.graph /\ vb.start = wrote.start
    /\ wrote.filtered => vb.lines = wrote.lines /\ vb.starts = wrote.starts /\ (wrote.universal => vb.universal)
=============================================================================

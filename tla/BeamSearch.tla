------------------------------ MODULE BeamSearch ------------------------------
(***************************************************************************)
(* cached_beam_search of src/src/search/pq_flash_index.cc: the query loop  *)
(* of one thread over the base graph, with the Community-Polar hierarchy   *)
(* on its side.  The loop is cut at the places where control may leave it; *)
(* one action is one part of an iteration.  The hierarchy's query state s  *)
(* is thread local and outlives the query; q holds the locals of one call. *)
(*                                                                         *)
(* Modes: "graph" has no hierarchy, "hybrid" inserts its candidates,       *)
(* "observe" only scores them, "forced" ends in the terminal Cell tree.    *)
(* A PQ distance is the distance to the decoded coordinate of a node.      *)
(* Page reads, their cache and the prefetches are QueryPageIo's; here a    *)
(* page is read when it is asked for.  The terminal distance scale is one. *)
(***************************************************************************)
EXTENDS CommunityPolarSearch

CONSTANTS
  Adjacency,       \* node -> sequence of out-neighbours
  PqAt,            \* node -> decoded PQ coordinate
  NodePage,        \* node -> page of its vector
  CachedNodes,     \* the nodes whose neighbourhood is resident
  Medoids,         \* sequence of [node, at]
  CellNeighbors,   \* Cell -> sequence of Cells; <<>> when there is no such index
  MemgraphDegree, MemgraphScores,   \* 16 and 64 in the code
  Requests,        \* the queries: [mode, c, query, L, k, beam]
  MaxQueries, IoLimit

VARIABLES q, s, phase, done
vars == <<q, s, phase, done>>

Hybrid == q.mode # "graph"
InsertsMacro == q.mode \in {"hybrid", "forced"}
PqDist(n) == Dist(q.query, PqAt[n])
ExactDist(n) == Dist(q.query, NodeAt[n])

(* The refinement and page budgets of a call, by its search list size. *)
RefineBudget(c, L) ==
  IF L < c.refine_min_l THEN 0
  ELSE IF c.l_aware_budget THEN Lower(c.refine, c.budget_base + CeilDiv(L, c.budget_divisor))
  ELSE c.refine

RankedPageBudget(c, L) ==
  IF ~c.ranked \/ L > c.ranked_max_l THEN 0
  ELSE Lower(c.ranked_max, c.ranked_base + CeilDiv(L, c.ranked_divisor)
             + (IF c.ranked_start # 0 /\ L > c.ranked_start
                THEN CeilDiv(L - c.ranked_start, c.ranked_growth) ELSE 0))

(* What the configure functions of pq_flash_index_t accept together. *)
ValidSearchOptions(mode, c) ==
  /\ c.interleaved => mode = "forced" /\ c.batch /\ c.pq_traversal /\ c.interleave_hops > 0
  /\ c.preserve => mode = "forced" /\ c.batch /\ c.pq_traversal /\ ~c.interleaved
  /\ c.stitch_l # 0 => c.preserve
  /\ c.ranked => c.preserve /\ ~c.leaf_refine /\ c.ranked_max > 0 /\ c.ranked_base <= c.ranked_max
  /\ c.adj # 0 => mode = "forced" /\ c.adj_shortlist >= c.adj /\ c.adj_expansion > 0
  /\ c.l_aware_budget => c.pq_traversal /\ c.budget_base > 0 /\ c.budget_base <= c.refine
  /\ c.memgraph # 0 => c.memgraph_entries \in 1 .. c.memgraph

-----------------------------------------------------------------------------
(* neighbor_priority_queue_t: entries [d, id, x] in order, cur the number of   *)
(* entries before the cursor.                                                  *)

Before(a, b) == LexLess(<<a.d, a.id>>, <<b.d, b.id>>)

RECURSIVE Locate(_, _, _, _)
Locate(data, e, lo, hi) ==
  LET mid == (lo + hi) \div 2
  IN IF lo >= hi THEN lo
     ELSE IF Before(e, data[mid + 1]) THEN Locate(data, e, lo, mid)
     ELSE IF data[mid + 1].id = e.id THEN None
     ELSE Locate(data, e, mid + 1, hi)

QueueInsert(z, cap, n, d) ==
  LET e == [d |-> d, id |-> n, x |-> FALSE]
      lo == Locate(z.data, e, 0, Len(z.data))
  IN IF (Len(z.data) = cap /\ Before(Last(z.data), e)) \/ lo = None THEN z
     ELSE [data |-> Take(InsertAt(z.data, lo + 1, e), cap), cur |-> Lower(z.cur, lo)]

(* insert_or_update: the old entry goes, its place in the cursor's count too. *)
QueueUpdate(z, cap, n, d) ==
  LET old == {i \in DOMAIN z.data : z.data[i].id = n}
      at == Min(old)
  IN QueueInsert(IF old = {} THEN z
                 ELSE [data |-> RemoveAt(z.data, at), cur |-> IF at - 1 < z.cur THEN z.cur - 1 ELSE z.cur],
                 cap, n, d)

HasUnexpanded(z) == z.cur < Len(z.data)
CloseNearest(z) ==
  LET data == [z.data EXCEPT ![z.cur + 1].x = TRUE]
      open == {i \in z.cur + 1 .. Len(data) : ~data[i].x}
  IN [data |-> data, cur |-> IF open = {} THEN Len(data) ELSE Min(open) - 1]
Worst(z) == Last(z.data).d
IsFull == Len(q.queue.data) = q.L

-----------------------------------------------------------------------------
(* The entry of a query. *)

(* configure_memgraph's nearest-neighbour lists and the best-first walk of the  *)
(* entry, from at most four anchors, over positions in the list of nodes.       *)
MemgraphEdges(nodes, i) ==
  Last2(Take(InOrder({<<Dist(PqAt[nodes[i]], PqAt[nodes[j]]), nodes[j], j>> : j \in DOMAIN nodes \ {i}}),
             Lower(MemgraphDegree, Len(nodes) - 1)))

MemgraphWalk(nodes, budget, anchors) ==
  LET Pop(t, any) ==
        LET i == Least({<<PqDist(nodes[j]), j>> : j \in t.open})[2]
            fresh == ToSet(Take(SelectSeq(MemgraphEdges(nodes, i), LAMBDA j : j \notin t.scored),
                                budget - Cardinality(t.scored)))
        IN IF t.open = {} \/ Cardinality(t.scored) >= budget THEN t
           ELSE [scored |-> t.scored \cup fresh, open |-> (t.open \ {i}) \cup fresh]
  IN Fold(Pop, [scored |-> anchors, open |-> anchors], nodes).scored

MemgraphEntries(nodes, entries) ==
  LET size == Len(nodes)
      anchors == {(a * size) \div Lower(4, size) + 1 : a \in 0 .. Lower(4, size) - 1}
      scored == MemgraphWalk(nodes, Lower(size, Upper(MemgraphScores, 32 * entries)), anchors)
  IN Take(InOrder({<<PqDist(nodes[i]), nodes[i]>> : i \in scored}), entries)

Idle == [mode |-> "none", result |-> <<>>]

(* enable_hybrid_graph_hooks *)
GraphHooks ==
  CASE q.mode = "graph" -> FALSE
    [] q.mode = "forced" -> q.c.community_skip \/ q.c.frontier_cells # 0
    [] OTHER -> ~q.c.defer \/ q.c.community_skip \/ q.c.handoff \/ q.c.frontier_cells # 0

(* The call up to its loop: begin_query on the thread's query state, the        *)
(* medoid, the memgraph.                                                        *)
Start(r) ==
  /\ phase = "idle" /\ done < MaxQueries
  /\ \E forest \in {IF r.mode # "graph" /\ r.c.hierarchical THEN BuildCellHierarchy(r.c)
                     ELSE [nodes |-> <<>>, roots |-> [k \in Communities |-> None]]} :
     LET medoid == Medoids[Least({<<Dist(r.query, Medoids[i].at), i>> : i \in DOMAIN Medoids})[2]].node
     IN /\ s' = IF r.mode = "graph" THEN s ELSE BeginQuery(r.c, forest, r.query, r.L >= r.c.min_l, s)
        /\ q' = [mode |-> r.mode, c |-> r.c, query |-> r.query, L |-> r.L, k |-> r.k, beam |-> r.beam,
                 forest |-> forest,
                 queue |-> QueueInsert([data |-> <<>>, cur |-> 0], r.L, medoid, Dist(r.query, PqAt[medoid])),
                 visited |-> {medoid}, entry |-> {medoid}, full |-> <<>>, terminal |-> <<>>, exact |-> <<>>,
                 selected |-> <<>>, loaded |-> <<>>, started |-> FALSE, complete |-> FALSE,
                 pending |-> FALSE, only |-> FALSE, ready |-> FALSE, hops |-> 0, target |-> 0,
                 cell_hop |-> 0, ios |-> 0, frontier |-> <<>>, cell_nodes |-> <<>>, useful |-> <<>>,
                 width |-> IF r.c.dynamic # 0 THEN Lower(r.c.dynamic, r.beam) ELSE r.beam,
                 oracle |-> <<>>, result |-> <<>>]
  /\ phase' = "memgraph"
  /\ UNCHANGED done

EnterMemgraph ==
  /\ phase = "memgraph"
  /\ LET nodes == IF q.c.memgraph = 0 THEN <<>> ELSE ImportantMemgraphNodes(q.c.memgraph)
         found == IF nodes = <<>> THEN <<>> ELSE MemgraphEntries(nodes, q.c.memgraph_entries)
         fresh == SelectSeq(found, LAMBDA f : f[2] \notin q.visited)
     IN q' = [q EXCEPT !.queue = Fold(LAMBDA z, f : QueueInsert(z, q.L, f[2], f[1]), @, fresh),
                       !.visited = @ \cup ToSet(Last2(fresh)), !.entry = @ \cup ToSet(Last2(fresh))]
  /\ phase' = "top"
  /\ UNCHANGED <<s, done>>

-----------------------------------------------------------------------------
(* Scoring a batch of the hierarchy. *)

UnexpandedMacro(z, t) ==
  Cardinality({i \in DOMAIN z.data : ~z.data[i].x /\ OriginOf(t, z.data[i].id) # "base"})

(* The threshold of Cell work: a part of the queue counts if provisional. *)
CellThreshold ==
  IF q.queue.data = <<>> \/ (~q.c.provisional /\ ~IsFull) THEN Inf ELSE Worst(q.queue)

(* The insertion loop of score_macro_batch over the sorted candidates. *)
InsertMacro(t, origin, cap, threshold, f) ==
  LET z == t.queue
      competitive == Len(z.data) < q.L \/ ~LexLess(<<Worst(z), Last(z.data).id>>, f)
      margin == origin # "cell" \/ threshold = Inf \/ 2 * f[1] <= threshold * q.c.candidate_ratio
  IN IF t.inserted >= cap THEN t
     ELSE IF ~competitive THEN [t EXCEPT !.visited = @ \cup {f[2]}]
     ELSE IF ~margin \/ ~GraphGuardAllowsMacro(q.c, q.L, t.macro) \/ f[2] \in t.visited THEN t
     ELSE [queue |-> QueueInsert(z, q.L, f[2], f[1]), visited |-> t.visited \cup {f[2]},
           inserted |-> t.inserted + 1, macro |-> t.macro + 1,
           s |-> MarkMacroInserted(t.s, f[2], origin)]

(* score_macro_batch: nodes already visited are dropped; a Cell batch must pass *)
(* its evidence, its bound and the yield of its nodes before it inserts any.    *)
ScoreMacroBatch(b, origin) ==
  LET unseen == SelectSeq(b.nodes, LAMBDA n : n \notin q.visited)
      isCell == origin = "cell"
      threshold == IF IsFull \/ (isCell /\ q.c.provisional /\ q.queue.data # <<>>)
                   THEN Worst(q.queue) ELSE Inf
      scored == SortSeq([i \in DOMAIN unseen |-> <<PqDist(unseen[i]), unseen[i]>>], LexLess)
      counted == IF isCell THEN b.s ELSE RecordGatewayScores(q.c, Len(unseen), b.s)
      landed == IF isCell THEN counted
                ELSE Fold(LAMBDA t, f : ObserveGatewayLanding(q.c, f[2], f[1], t), counted, scored)
      good == Len(SelectSeq(scored, LAMBDA f : f[1] <= threshold))
      refused == isCell /\ threshold < Inf /\ (b.evidence = Inf \/ 2 * b.evidence > threshold * q.c.evidence_ratio)
      bounded == isCell /\ IsFull /\ b.bound >= Worst(q.queue)
      poor == isCell /\ \/ good < q.c.min_competitive
                        \/ 2 * good < q.c.min_fraction * Len(scored)
                        \/ threshold < Inf /\ 2 * scored[1][1] > threshold * q.c.candidate_ratio
      cap == IF isCell THEN Lower(b.cap, CeilDiv(good * q.c.insert_fraction, 2)) ELSE q.c.direct_cap
      out == Fold(LAMBDA t, f : InsertMacro(t, origin, cap, threshold, f),
                      [queue |-> q.queue, visited |-> q.visited, inserted |-> 0,
                       macro |-> UnexpandedMacro(q.queue, landed), s |-> landed], scored)
  IN IF unseen = <<>> \/ refused \/ bounded THEN [q |-> q, s |-> b.s]
     ELSE IF poor \/ ~InsertsMacro THEN [q |-> q, s |-> landed]
     ELSE [q |-> [q EXCEPT !.queue = out.queue, !.visited = out.visited], s |-> out.s]

(* score_terminal_cell_batch *)
ScoreTerminalCell(t, nodes) ==
  LET cell == NodeCell[nodes[1]]
  IN IF nodes = <<>> THEN t
     ELSE [t EXCEPT !.terminal = @ \o [i \in DOMAIN nodes |-> <<PqDist(nodes[i]), nodes[i]>>],
                    !.selected = IF (t.c.batch \/ t.c.adj # 0) /\ ~Contains(@, cell)
                                 THEN Append(@, cell) ELSE @]

(* rank_terminal_cells_for_exact_batch: Cells by their share of the best L. *)
RankTerminalCells(t) ==
  LET window == Take(SortSeq(t.terminal, LexLess), t.L)
      mine(x) == {i \in DOMAIN window : NodeCell[window[i][2]] = x}
      best(x) == IF mine(x) = {} THEN Inf ELSE Min({window[i][1] : i \in mine(x)})
  IN IF (~t.c.batch /\ ~(t.c.adj # 0 /\ t.c.leaf_refine)) \/ Len(t.selected) <= 1 \/ t.terminal = <<>>
     THEN t
     ELSE [t EXCEPT !.selected =
             Last2(InOrder({<<-Cardinality(mine(x)), best(x), x>> : x \in ToSet(t.selected)}))]

(* The support of neighbour Cells that score_cell_adj_candidates collects: a    *)
(* walk along the Cell adjacency, its expansions divided over the source Cells, *)
(* or without that index the edges of the source Cells' nodes.                  *)
AdjacentWalk(t, source, expansions, start) ==
  LET Visit(w, any) ==
        LET near == CellNeighbors[w.cell]
            found == {i \in DOMAIN near : ~Contains(t.selected, near[i])}
            ranks(x) == {i \in found : near[i] = x}
                        \cup (IF x \in DOMAIN w.support THEN {w.support[x]} ELSE {})
            expanded == w.expanded \cup {w.cell}
            next == {<<Dist(t.query, CellAt[near[i]]), i, near[i]>> :
                       i \in {i \in found : near[i] \notin expanded}}
        IN IF w.cell = None THEN w
           ELSE [support |-> [x \in DOMAIN w.support \cup {near[i] : i \in found} |-> Min(ranks(x))],
                 expanded |-> expanded, cell |-> IF next = {} THEN None ELSE Least(next)[3]]
  IN Fold(Visit, [start EXCEPT !.cell = source], [i \in 1 .. expansions |-> i])

AdjacentSupport(t) ==
  LET n == Lower(t.c.adj_expansion, Len(t.selected))
      share(i) == t.c.adj_expansion \div n + (IF i <= t.c.adj_expansion % n THEN 1 ELSE 0)
      into(x) == {<<m, i>> \in UNION {{m} \X DOMAIN Adjacency[m] : m \in Nodes} :
                    NodeCell[m] \in ToSet(Take(t.selected, n)) /\ NodeCell[Adjacency[m][i]] = x}
  IN IF CellNeighbors # <<>>
     THEN Fold(LAMBDA w, i : AdjacentWalk(t, t.selected[i], share(i), w),
                   [support |-> <<>>, expanded |-> {}, cell |-> None], [i \in 1 .. n |-> i]).support
     ELSE [x \in {x \in Cells \ ToSet(t.selected) : into(x) # {}} |-> -Cardinality(into(x))]

(* score_cell_adj_candidates: the best supported Cells, of those the nearest;   *)
(* they are scored and selected.                                                *)
ScoreAdjacentCells(t) ==
  LET support == AdjacentSupport(t)
      short == Last2(Take(InOrder({<<support[x], x>> : x \in DOMAIN support}), t.c.adj_shortlist))
      chosen == Last2(Take(InOrder({<<Dist(t.query, CellAt[x]), support[x], x>> : x \in ToSet(short)}),
                           t.c.adj))
      nodes(x) == SortSet({n \in Nodes : NodeCell[n] = x},
                               LAMBDA m, n : LexLess(<<NodeBlock[m], m>>, <<NodeBlock[n], n>>))
  IN IF t.c.adj = 0 \/ t.selected = <<>> \/ t.L < t.c.adj_min_l \/ t.L > t.c.adj_max_l THEN t
     ELSE Fold(LAMBDA u, x : ScoreTerminalCell(u, nodes(x)), t, chosen)

-----------------------------------------------------------------------------
(* The loop. *)

Goto(p) == phase' = p

(* schedule_interleaved_cell: the Cell of most queue entries not loaded yet. *)
InterleavedCell ==
  LET entries(x) == {i \in DOMAIN q.queue.data : NodeCell[q.queue.data[i].id] = x}
      open == {x \in Cells \ ToSet(q.loaded) : entries(x) # {}}
  IN IF open = {} THEN None
     ELSE Least({<<-Cardinality(entries(x)), Min({q.queue.data[i].d : i \in entries(x)}), x>> : x \in open})[3]

(* The head of an iteration: the I/O limit, then the end of the terminal         *)
(* refinement unless another Cell batch is interleaved.                          *)
TopCheck ==
  /\ phase = "top"
  /\ LET refined == Hybrid /\ q.started /\ ~q.pending /\ q.hops >= q.target
         left == q.c.interleaved /\ Len(q.loaded) < q.c.max_cells
         due == q.hops - q.cell_hop >= q.c.interleave_hops \/ ~HasUnexpanded(q.queue)
     IN \/ q.ios >= IoLimit /\ Goto("merge") /\ UNCHANGED q
        \/ /\ q.ios < IoLimit /\ refined /\ (~left \/ (due /\ InterleavedCell = None))
           /\ q' = [q EXCEPT !.complete = TRUE] /\ Goto("merge")
        \/ /\ q.ios < IoLimit /\ refined /\ left /\ due /\ InterleavedCell # None
           /\ q' = [q EXCEPT !.selected = <<InterleavedCell>>, !.pending = TRUE, !.only = TRUE]
           /\ Goto("community")
        \/ /\ q.ios < IoLimit /\ (~refined \/ (left /\ ~due))
           /\ Goto(IF Hybrid THEN "community" ELSE "exhausted") /\ UNCHANGED q
  /\ UNCHANGED <<s, done>>

CommunityStep ==
  /\ phase = "community"
  /\ \/ ~HasCommunityWork(q.c, s) /\ UNCHANGED <<q, s>>
     \/ /\ HasCommunityWork(q.c, s)
        /\ \E b \in {ExpandNextCommunity(q.c, s)} :
             \/ b.nodes = <<>> /\ s' = b.s /\ UNCHANGED q
             \/ /\ b.nodes # <<>>
                /\ \E out \in {ScoreMacroBatch(b, "gateway")} : q' = out.q /\ s' = out.s
  /\ Goto(IF InsertsMacro THEN "terminal" ELSE "cell")
  /\ UNCHANGED done

(* All Cell work there is, which the Block budget bounds. *)
DrainCells(t, state) ==
  LET Scored(u, b) == [q |-> ScoreTerminalCell(u.q, b.nodes), s |-> b.s]
      Drain(u, any) == IF ~HasCellWork(t.c, u.s, Inf) THEN u
                       ELSE Scored(u, ExpandNextCell(t.c, t.L, Inf, u.s))
  IN Fold(Drain, [q |-> t, s |-> state], [i \in 1 .. t.c.block_budget |-> i])

(* The terminal candidates that enter the queue when refinement starts. *)
StartRefinement(t, state) ==
  LET sorted == SortSeq(t.terminal, LexLess)
      Admit(u, f) == IF f[2] \in u.q.visited THEN u
                     ELSE [q |-> [u.q EXCEPT !.visited = @ \cup {f[2]},
                                             !.queue = QueueInsert(@, t.L, f[2], f[1])],
                           s |-> MarkMacroInserted(u.s, f[2], "cell")]
      hops == TerminalRefineHops(t.c, t.L)
      out == Fold(Admit, [q |-> [t EXCEPT !.terminal = sorted], s |-> state], Take(sorted, t.L))
  IN [q |-> [out.q EXCEPT !.started = TRUE, !.pending = t.c.batch,
                          !.only = t.c.batch /\ hops = 0, !.target = t.hops + hops],
      s |-> out.s]

(* The terminal convergence step: route, load and score whole Cells, and the    *)
(* Cells next to them.                                                          *)
TerminalCells ==
  LET guided == IF ~q.c.graph_guided THEN s
                ELSE Fold(LAMBDA t, e : ObserveSourceCell(q.c, e.id, e.d, t), s, q.queue.data)
      Ranked(d) == [d EXCEPT !.q = RankTerminalCells(ScoreAdjacentCells(RankTerminalCells(@)))]
  IN Ranked(DrainCells(q, PrepareTerminal(q.c, q.forest, q.L, guided)))

TerminalDue ==
  /\ q.c.terminal /\ ~q.started
  /\ q.hops >= TerminalApproachHops(q.c, q.L) \/ ~HasUnexpanded(q.queue)

TerminalStep ==
  /\ phase = "terminal"
  /\ \/ ~TerminalDue /\ UNCHANGED <<q, s>> /\ Goto("cell")
     \/ /\ TerminalDue
        /\ \E out \in {TerminalCells} :
             LET enough == Len(out.q.terminal) >= q.k
                 atOnce == TerminalRefineHops(q.c, q.L) = 0 /\ ~q.c.batch
             IN \/ ~enough /\ q' = out.q /\ s' = out.s /\ Goto("cell")
                \/ /\ enough /\ atOnce
                   /\ q' = [out.q EXCEPT !.complete = TRUE] /\ s' = out.s /\ Goto("merge")
                \/ /\ enough /\ ~atOnce
                   /\ \E begun \in {StartRefinement(out.q, out.s)} : q' = begun.q /\ s' = begun.s
                   /\ Goto("cell")
  /\ UNCHANGED done

(* Cell expansion outside terminal convergence, once the expanded prefix of the *)
(* queue reaches the activation marker.  An observe-only query opens its oracle *)
(* at the first Cell.                                                            *)
CellStep ==
  /\ phase = "cell"
  /\ LET open == {i \in DOMAIN q.queue.data : ~q.queue.data[i].x}
         marker == IF open = {} THEN Len(q.queue.data) ELSE Min(open) - 1
         ready == q.ready \/ (~q.c.terminal /\ q.c.cell_expansion /\ marker >= q.c.marker)
         go == ~q.c.terminal /\ ready /\ HasCellWork(q.c, s, CellThreshold)
         opened == IF InsertsMacro THEN s ELSE BeginCellOracle(q.c, CellThreshold, q.visited, s)
         Noted(b) == IF InsertsMacro THEN b ELSE [b EXCEPT !.s = RecordCellOracleSelection(b.block, @)]
     IN \/ ~go /\ q' = [q EXCEPT !.ready = ready] /\ UNCHANGED s
        \/ /\ go
           /\ \E out \in {ScoreMacroBatch(Noted(ExpandNextCell(q.c, q.L, CellThreshold, opened)), "cell")} :
                q' = [out.q EXCEPT !.ready = ready] /\ s' = out.s
  /\ Goto("exhausted")
  /\ UNCHANGED done

(* No candidate is left: the hierarchy may still have work. *)
\* Mutant: asked without the threshold that the Cell step will use.
LateWork_AnyThreshold ==
  /\ q.mode \in {"hybrid", "observe"} /\ ~q.started
  /\ HasCommunityWork(q.c, s) \/ HasCellWork(q.c, s, Inf)
LateWork ==
  /\ q.mode \in {"hybrid", "observe"} /\ ~q.started
  /\ HasCommunityWork(q.c, s) \/ HasCellWork(q.c, s, CellThreshold)

Exhausted ==
  /\ phase = "exhausted"
  /\ LET over == ~HasUnexpanded(q.queue) /\ ~q.pending
     IN \/ ~over /\ UNCHANGED q /\ Goto("pick")
        \/ over /\ LateWork /\ UNCHANGED q /\ Goto("top")
        \/ over /\ ~LateWork /\ q' = [q EXCEPT !.complete = Hybrid /\ q.started] /\ Goto("merge")
  /\ UNCHANGED <<s, done>>

PagesOf(nodes) == {NodePage[n] : n \in nodes}
CellNodes(x) == SortSet({n \in Nodes : NodeCell[n] = x},
                             LAMBDA m, n : LexLess(<<NodeBlock[m], m>>, <<NodeBlock[n], n>>))

(* Ranked Cell-page refinement: pages of the best terminal candidates, then the *)
(* rest of their Cells' pages, then of the selected Cells, within the budget.   *)
RankedPages ==
  LET ranked == SelectSeq(SortSeq(q.terminal, LexLess), LAMBDA f : Contains(q.selected, NodeCell[f[2]]))
      cellPages(x) == SortSet(PagesOf(ToSet(CellNodes(x))), <)
      wanted == [i \in DOMAIN ranked |-> NodePage[ranked[i][2]]]
                \o FlattenSeq([i \in DOMAIN ranked |-> cellPages(NodeCell[ranked[i][2]])])
                \o FlattenSeq([i \in DOMAIN q.selected |-> cellPages(q.selected[i])])
  IN Take(Fold(LAMBDA t, p : IF Contains(t, p) THEN t ELSE Append(t, p), <<>>, wanted),
          IF ranked = <<>> THEN RankedPageBudget(q.c, q.L) ELSE Upper(1, RankedPageBudget(q.c, q.L)))

(* The Cells of this round's exact batch: [cells, nodes, pages]. *)
CellBatch ==
  LET open == SelectSeq(q.selected, LAMBDA x : ~Contains(q.loaded, x))
      whole == IF q.c.interleaved THEN Take(open, 1) ELSE Take(open, q.c.max_cells - Len(q.loaded))
      pages == ToSet(RankedPages)
      onPages(x) == SelectSeq(CellNodes(x), LAMBDA n : NodePage[n] \in pages)
  IN IF ~(Hybrid /\ q.c.batch /\ q.started /\ Len(q.loaded) < q.c.max_cells)
     THEN [cells |-> <<>>, nodes |-> <<>>, pages |-> {}]
     ELSE IF q.c.ranked
     THEN [cells |-> SelectSeq(q.selected, LAMBDA x : onPages(x) # <<>>),
           nodes |-> FlattenSeq([i \in DOMAIN q.selected |-> onPages(q.selected[i])]), pages |-> pages]
     ELSE [cells |-> whole, nodes |-> FlattenSeq([i \in DOMAIN whole |-> CellNodes(whole[i])]),
           pages |-> PagesOf({n \in Nodes : NodeCell[n] \in ToSet(whole)})]

ApproachRound == Hybrid /\ q.c.community_skip /\ q.c.pq_approach_hops # 0 /\ q.hops < q.c.pq_approach_hops

(* The beam: nearest unexpanded candidates until the round's capacity. *)
PickBeam(active, start) ==
  LET PickOne(t, any) ==
        LET e == t.queue.data[t.queue.cur + 1]
            cached == e.id \in CachedNodes
            misses == q.c.batch /\ ~q.c.pq_traversal /\ q.started /\ ~cached
        IN IF \/ ~HasUnexpanded(t.queue)
              \/ (IF active THEN Cardinality(t.pages) ELSE Len(t.frontier)) >= q.width
              \/ t.seen >= (IF active THEN q.beam + q.c.max_cells ELSE q.width)
           THEN t
           ELSE [queue |-> CloseNearest(t.queue), seen |-> t.seen + 1,
                 cached |-> IF cached THEN Append(t.cached, e.id) ELSE t.cached,
                 frontier |-> IF cached THEN t.frontier ELSE Append(t.frontier, <<e.d, e.id>>),
                 pages |-> IF misses THEN t.pages \cup {NodePage[e.id]} ELSE t.pages]
  IN Fold(PickOne, start, q.queue.data)

(* Selection of a round; frontier holds what will be expanded, the resident     *)
(* neighbourhoods first, each with the distance it will be recorded with.       *)
Picked(batch, only) ==
  LET start == [queue |-> q.queue, seen |-> 0, cached |-> <<>>, frontier |-> <<>>, pages |-> batch.pages]
  IN IF only THEN start ELSE PickBeam(q.c.batch /\ q.pending /\ batch.pages # {}, start)

Pick ==
  /\ phase = "pick"
  /\ \E batch \in {CellBatch} :
       LET pending == q.pending /\ batch.pages # {}
           byPq == q.c.pq_traversal \/ ApproachRound
       IN \E picked \in {Picked(batch, q.only /\ pending)} :
            q' = [q EXCEPT
               !.queue = picked.queue, !.loaded = @ \o batch.cells, !.cell_nodes = batch.nodes,
               !.pending = pending, !.only = q.only /\ pending,
               !.hops = IF picked.frontier # <<>> THEN @ + 1 ELSE @,
               !.ios = @ + Cardinality(picked.pages \cup
                                       (IF byPq THEN {} ELSE PagesOf(ToSet(Last2(picked.frontier))))),
               !.useful = [i \in DOMAIN picked.frontier |-> picked.frontier[i][1]],
               !.frontier = [i \in DOMAIN picked.cached |-> <<ExactDist(picked.cached[i]), picked.cached[i]>>]
                            \o [i \in DOMAIN picked.frontier |->
                                  <<IF byPq THEN picked.frontier[i][1] ELSE ExactDist(picked.frontier[i][2]),
                                    picked.frontier[i][2]>>]]
  /\ Goto("exact")
  /\ UNCHANGED <<s, done>>

(* The exact Cell batch: unless the graph is preserved, its nodes are written    *)
(* into the queue, with PQ distances when stitching.                             *)
StitchesGraph == q.c.stitch_l # 0 /\ q.L >= q.c.stitch_l
ExactCells ==
  /\ phase = "exact"
  /\ LET writes == ~q.c.preserve \/ StitchesGraph
         Write(t, n) ==
           [queue |-> QueueUpdate(t.queue, q.L, n, IF StitchesGraph THEN PqDist(n) ELSE ExactDist(n)),
            visited |-> t.visited \cup {n},
            s |-> IF n \in t.visited THEN t.s ELSE MarkMacroInserted(t.s, n, "cell")]
         out == Fold(Write, [queue |-> q.queue, visited |-> q.visited, s |-> s], q.cell_nodes)
         read == [q EXCEPT !.exact = @ \o [i \in DOMAIN q.cell_nodes |-> <<ExactDist(q.cell_nodes[i]), q.cell_nodes[i]>>],
                           !.pending = FALSE, !.only = FALSE, !.cell_hop = q.hops]
     IN \/ q.cell_nodes = <<>> /\ UNCHANGED <<q, s>>
        \/ q.cell_nodes # <<>> /\ ~writes /\ q' = read /\ UNCHANGED s
        \/ /\ q.cell_nodes # <<>> /\ writes
           /\ q' = [read EXCEPT !.queue = out.queue, !.visited = out.visited] /\ s' = out.s
  /\ Goto("expand")
  /\ UNCHANGED done

(* record_base_expansion *)
RecordBaseExpansion(node, t) ==
  IF ~GraphHooks \/ (q.mode = "forced" /\ ~q.c.community_skip) THEN t
  ELSE ObserveBaseExpansion(q.c, node, IF q.mode = "observe" THEN ObserveCellOracleExpansion(node, t) ELSE t)

(* record_base_candidates, of the neighbours not visited when it is called *)
RecordBaseCandidates(node, neighbors, visited, t) ==
  LET threshold == IF IsFull THEN Worst(q.queue) ELSE Inf
  IN IF ~Hybrid \/ q.mode = "forced" \/ q.c.source_cell_batching \/ ~AcceptsCellEvidence(q.c, t) THEN t
     ELSE ObserveBaseCandidates(q.c, node,
            {f \in {<<PqDist(n), n>> : n \in ToSet(neighbors)} : f[2] \notin visited /\ f[1] <= threshold}, t)

(* One neighbourhood: the node is a result, its neighbours are visited.  With   *)
(* filtering the neighbours are marked visited before the evidence is recorded. *)
Expand ==
  /\ phase = "expand" /\ q.frontier # <<>>
  /\ LET node == q.frontier[1][2]
         reach == IF q.c.score_limit = 0 THEN Adjacency[node] ELSE Take(Adjacency[node], q.c.score_limit)
         fresh == Fold(LAMBDA t, n : IF n \in q.visited \/ Contains(t, n) THEN t ELSE Append(t, n), <<>>, reach)
         again == SelectSeq(reach, LAMBDA n : n \in q.visited)
         hooked == RecordBaseExpansion(node, s)
         sourced == IF GraphHooks THEN ObserveSourceCell(q.c, node, q.frontier[1][1], hooked) ELSE hooked
         recorded == IF q.c.filter_visited
                     THEN RecordBaseCandidates(node, fresh, q.visited \cup ToSet(reach), sourced)
                     ELSE RecordBaseCandidates(node, reach, q.visited, sourced)
     IN /\ s' = IF GraphHooks /\ q.mode # "forced"
                THEN Fold(LAMBDA t, n : MarkBaseReached(t, n), recorded, again) ELSE recorded
        /\ q' = [q EXCEPT !.full = Append(@, q.frontier[1]), !.frontier = Tail(@),
                          !.visited = @ \cup ToSet(reach),
                          !.queue = Fold(LAMBDA z, n : QueueInsert(z, q.L, n, PqDist(n)), @, fresh)]
  /\ UNCHANGED <<phase, done>>

(* The end of a round: the dynamic width grows while few reads are wasted. *)
AdaptWidth ==
  /\ phase = "expand" /\ q.frontier = <<>>
  /\ LET radius == IF q.queue.data = <<>> THEN Inf ELSE Worst(q.queue)
         wasted == Len(SelectSeq(q.useful, LAMBDA d : d > radius))
         grows == /\ q.c.dynamic # 0 /\ q.useful # <<>>
                  /\ q.hops >= q.c.dynamic_marker /\ q.width < q.beam
                  /\ 2 * wasted <= q.c.waste * Len(q.useful)
     IN q' = [q EXCEPT !.width = IF grows THEN @ + 1 ELSE @, !.useful = <<>>, !.cell_nodes = <<>>]
  /\ Goto("top")
  /\ UNCHANGED <<s, done>>

-----------------------------------------------------------------------------
(* The end of a query. *)

Sorted(results) == SortSeq(results, LexLess)
Ids(results) == ToSet(Last2(results))
AddNew(results, f) == IF f[2] \in Ids(results) THEN results ELSE Append(results, f)

(* An exact result takes the place of the first entry of its node. *)
Replace(results, f) ==
  LET old == {i \in DOMAIN results : results[i][2] = f[2]}
  IN IF old = {} THEN Append(results, f) ELSE [results EXCEPT ![Min(old)] = f]

DefersExactMerge == q.c.batch /\ q.c.pq_traversal /\ RefineBudget(q.c, q.L) # 0 /\ ~q.c.leaf_refine /\ ~q.c.reorder

(* The oracle's counts, terminal candidates, exact Cell results, and the cut to  *)
(* the top k when no later stage needs more.                                      *)
Merge ==
  /\ phase = "merge"
  /\ LET added == IF ~(InsertsMacro /\ q.complete /\ ~q.c.batch) THEN q.full
                  ELSE IF q.c.decoded
                  THEN q.full \o SelectSeq(q.terminal, LAMBDA f : f[2] \notin Ids(q.full))
                  ELSE Fold(AddNew, q.full, q.terminal)
         exactOnly == /\ q.mode = "forced" /\ q.c.batch /\ q.c.pq_traversal
                      /\ RefineBudget(q.c, q.L) = 0 /\ ~q.c.leaf_refine /\ ~q.c.reorder /\ ~q.c.ranked
         merged == IF exactOnly THEN q.exact
                   ELSE IF DefersExactMerge THEN added
                   ELSE Fold(Replace, added, q.exact)
         cut == /\ RefineBudget(q.c, q.L) = 0 /\ ~q.c.leaf_refine /\ ~q.c.reorder
                /\ q.c.decoded \/ q.complete
         oracle == IF Hybrid /\ ~InsertsMacro /\ s.oracle.active THEN <<FinishCellOracle(s)>> ELSE <<>>
     IN q' = [q EXCEPT !.full = IF cut THEN Take(Sorted(merged), q.k) ELSE Sorted(merged),
                       !.oracle = oracle]
  /\ Goto("refine")
  /\ UNCHANGED <<s, done>>

(* The nodes a leaf refinement reads: the terminal Cells, and beyond them up to  *)
(* the budget of graph results, or the Cells that own most of these.              *)
LeafRefineNodes ==
  LET leaf == Ids(q.terminal)
      beyond == Take(Fold(AddNew, <<>>, SelectSeq(q.full, LAMBDA f : f[2] \notin leaf)), RefineBudget(q.c, q.L))
      owned(x) == {i \in DOMAIN beyond : NodeCell[beyond[i][2]] = x}
      owners == InOrder({<<-Cardinality(owned(x)), Min({beyond[i][1] : i \in owned(x)}), x>> :
                           x \in {x \in Cells : Cardinality(owned(x)) >= Upper(1, q.c.stitch_support)}})
      promoted == ToSet(Last2(Take(owners, q.c.stitch_cells)))
  IN IF q.c.stitch_promote /\ RefineBudget(q.c, q.L) # 0
     THEN leaf \cup {n \in Nodes : NodeCell[n] \in promoted} \cup Ids(beyond)
     ELSE leaf \cup Ids(beyond)

Refine ==
  /\ phase = "refine"
  /\ LET budget == RefineBudget(q.c, q.L)
         refines == q.c.pq_traversal /\ (budget # 0 \/ q.c.leaf_refine)
         Exact(f) == <<ExactDist(f[2]), f[2]>>
         first == Take(q.full, budget)
         refined == IF ~refines THEN q.full
                    ELSE IF q.c.leaf_refine
                    THEN Sorted(Fold(Replace, q.full, InOrder({<<ExactDist(n), n>> : n \in LeafRefineNodes})))
                    ELSE Sorted([i \in DOMAIN first |-> Exact(first[i])])
         merged == IF DefersExactMerge THEN Sorted(Fold(Replace, refined, q.exact)) ELSE refined
         top == Take(merged, 3 * q.k)
         final == IF q.c.reorder THEN Sorted([i \in DOMAIN top |-> Exact(top[i])]) ELSE merged
     IN \/ /\ refines /\ ~q.c.leaf_refine /\ budget < q.k
           /\ UNCHANGED q /\ Goto("idle") /\ done' = done + 1
        \/ /\ ~(refines /\ ~q.c.leaf_refine /\ budget < q.k)
           /\ q' = [q EXCEPT !.full = final] /\ Goto("output") /\ UNCHANGED done
  /\ UNCHANGED s

Output ==
  /\ phase = "output"
  /\ q' = [q EXCEPT !.result = IF Len(q.full) < q.k THEN <<>> ELSE Last2(Take(q.full, q.k))]
  /\ Goto("idle")
  /\ done' = done + 1
  /\ UNCHANGED s

Step ==
  \/ EnterMemgraph \/ TopCheck \/ CommunityStep \/ TerminalStep \/ CellStep \/ Exhausted
  \/ Pick \/ ExactCells \/ Expand \/ AdaptWidth \/ Merge \/ Refine \/ Output
Next == Step \/ \E r \in Requests : Start(r)

Init == q = Idle /\ s = EmptyQueryState /\ phase = "idle" /\ done = 0

(* A thread that runs a query keeps running it.  In every phase of a query some   *)
(* Step is enabled (the runs check for deadlock) and leads on to another phase,   *)
(* Expand after the last node of its frontier: so this is fairness of Step.       *)
Phases == {"memgraph", "top", "community", "terminal", "cell", "exhausted", "pick", "exact", "expand",
           "merge", "refine", "output", "idle"}
Onward == phase # "idle" /\ \E p \in Phases \ {phase} : phase' = p
Spec == Init /\ [][Next]_vars /\ WF_phase(Onward)

-----------------------------------------------------------------------------
(* Properties. *)

(* A query starts as on a new thread: whatever the previous queries of the       *)
(* thread left in the query state, begin_query, which clears only the entries    *)
(* on the touched lists, yields the state it would yield from an empty one.      *)
QueryStartsFresh ==
  phase = "memgraph" /\ Hybrid =>
    s = BeginQuery(q.c, q.forest, q.query, q.L >= q.c.min_l, EmptyQueryState)

(* Exact hierarchical routing is a search with bounds, not a heuristic: when      *)
(* begin_query routes, the Cells it admits are as near as the nearest Cells of    *)
(* the admitted Communities.                                                      *)
ExactRoutingFindsNearest ==
  (phase = "memgraph" /\ Hybrid /\ q.c.hierarchical /\ q.c.exact_routing
   /\ ~q.c.defer /\ ~q.c.route_profile /\ s.runtime) =>
    LET near == Last2(Take(InOrder({<<RoutingScore(s, k), k>> : k \in Communities}),
                           q.c.routing_communities))
        wanted == Take(InOrder({<<Dist(q.query, CellAt[x]), x>> :
                                  x \in UNION {CellsOf(k) : k \in ToSet(near)}}), q.c.routing_cells)
    IN [i \in DOMAIN s.routed |-> Dist(q.query, CellAt[s.routed[i]])]
       = [i \in DOMAIN wanted |-> wanted[i][1]]

Searching == phase # "idle" /\ q.mode # "none"

(* The graph guard: outside terminal convergence the hierarchy never holds more   *)
(* of the queue's unexpanded entries than the guard leaves to it, although each   *)
(* batch counts them only once, when it starts.                                   *)
GraphGuardHolds ==
  (Searching /\ Hybrid /\ ~q.c.terminal /\ UnexpandedMacro(q.queue, s) > 0) =>
    UnexpandedMacro(q.queue, s) <= q.L - Lower(q.L, CeilDiv(q.c.guard * q.L, 2))

(* Every query ends: the loop never keeps turning on hierarchy work it does not    *)
(* do.  One does: Cells that wait for more expanded entries than the queue ever    *)
(* gets (cell_activation_marker is not compared with the list size) are work       *)
(* that is left and never done.                                                    *)
StallsOnMarker ==
  /\ Searching /\ q.c.cell_expansion /\ ~q.c.terminal /\ ~q.ready
  /\ ~HasUnexpanded(q.queue) /\ Len(q.queue.data) < q.c.marker
  /\ HasCellWork(q.c, s, CellThreshold) /\ ~HasCommunityWork(q.c, s)
QueryEnds == phase # "idle" ~> (phase = "idle" \/ []StallsOnMarker)
===============================================================================

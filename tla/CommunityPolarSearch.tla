------------------------ MODULE CommunityPolarSearch ------------------------
(***************************************************************************)
(* The query side of the Community-Polar hierarchy                         *)
(* (src/src/search/community_polar_search.cc): the validated search        *)
(* configuration, the Cell hierarchy, and the operations a beam search     *)
(* calls on its query state.  One query state is reused by every query of  *)
(* a thread, so what begin_query must erase is kept explicitly: the Cell   *)
(* and Block scratch arrays and the lists of the entries touched in them.  *)
(*                                                                         *)
(* Geometry is one-dimensional: a node, Cell centroid, Community pole or   *)
(* query is an integer, a squared distance the square of a difference.     *)
(* Ratios are numbers of halves.  Orders on tuples are lexicographic, as   *)
(* std::tie and std::make_tuple are.                                       *)
(***************************************************************************)
EXTENDS Integers, FiniteSets, SequencesExt, FiniteSetsExt, TLC

CONSTANTS
  NodeCell,        \* node -> Cell
  NodeBlock,       \* node -> Block
  BlockCell,       \* Block -> Cell
  CellCommunity,   \* Cell -> Community
  GraphOnly,       \* the Communities without Cell expansion
  Superedges,      \* Community -> sequence of [target, gateways], gateways a
                   \* sequence of <<source node, target node>>
  Hubs,            \* Community -> navigation hub
  Entry,           \* the entry point of the base graph
  NodeAt, CellAt, CommunityAt, CommunityRadius,   \* coordinates
  RouteProfile     \* the terminal route profile: sequence of [at, cells]

Nodes == DOMAIN NodeCell
Blocks == DOMAIN BlockCell
Cells == DOMAIN CellCommunity
Communities == DOMAIN CommunityAt
Inf == 100000
None == 9999

-----------------------------------------------------------------------------
(* Tuples and orders. *)

LexLess(s, t) == \E i \in DOMAIN s : s[i] < t[i] /\ \A j \in 1 .. i - 1 : s[j] = t[j]
(* FoldLeft with each partial result evaluated once. *)
Fold(Op(_, _), base, seq) ==
  LET f[i \in 0 .. Len(seq)] ==
        IF i = 0 THEN base ELSE CHOOSE r \in {Op(t, seq[i]) : t \in {f[i - 1]}} : TRUE
  IN f[Len(seq)]
SortSet(S, Less(_, _)) == SortSeq(FoldSet(LAMBDA x, t : Append(t, x), <<>>, S), Less)
InOrder(S) == SortSet(S, LexLess)
Least(S) == CHOOSE x \in S : \A y \in S : x = y \/ LexLess(x, y)
Last2(s) == [i \in DOMAIN s |-> Last(s[i])]       \* the ids of sorted tuples
Take(s, n) == SubSeq(s, 1, Min({n, Len(s)}))
Lower(a, b) == IF a < b THEN a ELSE b
Upper(a, b) == IF a > b THEN a ELSE b
Abs(a) == IF a < 0 THEN -a ELSE a
Dist(a, b) == (a - b) * (a - b)
CeilDiv(a, b) == (a + b - 1) \div b

BlocksOf(cell) == {b \in Blocks : BlockCell[b] = cell}
NodesOf(blocks) == {n \in Nodes : NodeBlock[n] \in blocks}
CellsOf(community) == {c \in Cells : CellCommunity[c] = community}

-----------------------------------------------------------------------------
(* The configuration. *)

(* validate_community_polar_search_config, by the groups of its checks. *)
ValidOperators(c) ==
  IF ~c.hybrid
  THEN ~c.community_skip /\ ~c.hub_clique /\ ~c.cell_expansion
  ELSE /\ c.community_skip \/ c.cell_expansion
       /\ c.community_skip => /\ c.community_budget > 0
                              /\ c.gateway_budget > 0
                              /\ c.gateway_batch_cap > 0
       /\ c.hub_clique => c.community_skip
       /\ c.pq_approach_hops # 0 => c.community_skip
       /\ c.cell_expansion => /\ c.block_budget > 0
                              /\ c.support > 0
                              /\ c.insert_cap > 0
                              /\ c.min_competitive > 0

ValidRouting(c) ==
  LET budgets == c.routing_cells > 0 /\ c.routing_cells <= c.block_budget
  IN /\ c.centroid_routing => c.cell_expansion /\ c.whole_cell /\ c.routing_communities > 0 /\ budgets
     /\ c.handoff => c.community_skip /\ c.cell_expansion /\ c.whole_cell /\ budgets
     /\ c.terminal => c.cell_expansion /\ c.whole_cell /\ c.centroid_routing
     /\ c.hierarchical => /\ c.centroid_routing
                          /\ c.branching >= 2 /\ c.leaf_size > 0 /\ c.probe_budget > 0
                          /\ c.probe_budget >= CeilDiv(c.routing_cells, c.leaf_size)
     /\ c.graph_guided => c.hierarchical

ValidTerminal(c) ==
  /\ c.l_aware_approach =>
       c.terminal /\ c.approach_hops > 0 /\ c.approach_divisor > 0 /\ c.approach_base <= c.approach_hops
  /\ (c.low_l_max = 0) <=> (c.low_l_hops = 0)
  /\ c.l_aware_forest =>
       c.terminal /\ c.forest_base > 0 /\ c.forest_divisor > 0 /\ c.forest_base <= c.routing_cells
  /\ (c.low_forest_max = 0) <=> (c.low_forest_extra = 0)
  /\ c.low_forest_extra # 0 => c.l_aware_forest
  /\ (c.high_forest_min = 0) <=> (c.high_forest_cap = 0)
  /\ c.high_forest_cap # 0 => c.l_aware_forest /\ c.high_forest_cap <= c.routing_cells
  /\ c.high_forest_divisor # 0 => c.high_forest_min # 0
  /\ c.l_aware_refine => c.terminal /\ c.refine_divisor > 0 /\ c.refine_base <= c.refine_hops
  /\ c.stitch_promote => c.terminal /\ c.stitch_cells > 0 /\ c.stitch_support > 0
  /\ c.route_profile => c.terminal
  /\ c.global_forest => c.terminal /\ c.hierarchical /\ c.defer

ValidConfig(c) == ValidOperators(c) /\ (c.hybrid => ValidRouting(c) /\ ValidTerminal(c))

(* terminal_approach_hops: base plus one hop per started divisor of L. *)
TerminalApproachHops(c, L) ==
  IF ~c.l_aware_approach THEN c.approach_hops
  ELSE LET scaled == IF L = 0 THEN 0 ELSE 1 + (L - 1) \div c.approach_divisor
           base == IF scaled >= c.approach_hops - c.approach_base
                   THEN c.approach_hops ELSE c.approach_base + scaled
           extra == IF c.low_l_max # 0 /\ L <= c.low_l_max THEN c.low_l_hops ELSE 0
       IN Lower(c.approach_hops, base + extra)

(* terminal_cell_budget: grown for a small L, capped for a large one. *)
TerminalCellBudget(c, L) ==
  IF ~c.l_aware_forest THEN c.routing_cells
  ELSE LET scaled == IF L = 0 THEN 0 ELSE 1 + (L - 1) \div c.forest_divisor
           grown == Upper(c.forest_base, scaled)
                    + (IF c.low_forest_max # 0 /\ L <= c.low_forest_max THEN c.low_forest_extra ELSE 0)
           cut == IF c.high_forest_divisor = 0 THEN 0
                  ELSE (L - c.high_forest_min) \div c.high_forest_divisor
           cap == IF cut >= c.high_forest_cap THEN 1 ELSE c.high_forest_cap - cut
       IN Lower(c.routing_cells,
                IF c.high_forest_min # 0 /\ L >= c.high_forest_min THEN Lower(grown, cap) ELSE grown)

TerminalRefineHops(c, L) ==
  IF ~c.l_aware_refine THEN c.refine_hops
  ELSE Lower(c.refine_hops,
             c.refine_base + L \div c.refine_divisor
             + (IF c.low_l_max # 0 /\ L <= c.low_l_max THEN c.low_l_hops ELSE 0))

(* graph_guard_allows_macro: the guarded share of L is kept for base edges. *)
\* Mutant: one insertion too many.
GraphGuardAllowsMacro_AtMost(c, L, unexpandedMacro) ==
  L # 0 /\ unexpandedMacro <= L - Lower(L, CeilDiv(c.guard * L, 2))
GraphGuardAllowsMacro(c, L, unexpandedMacro) ==
  L # 0 /\ unexpandedMacro < L - Lower(L, CeilDiv(c.guard * L, 2))

-----------------------------------------------------------------------------
(* The Cell hierarchy: a forest with one tree for each Community.  A node is  *)
(* [at, radius, leaf, children]; children are Cells of a leaf, node numbers   *)
(* of an inner node.                                                          *)

Weight(c) == Cardinality({n \in Nodes : NodeCell[n] = c})
Center(cells) ==
  FoldSet(LAMBDA c, sum : sum + Weight(c) * CellAt[c], 0, cells)
  \div FoldSet(LAMBDA c, sum : sum + Weight(c), 0, cells)
Nearest(c, at) == Dist(CellAt[c], at)

RECURSIVE ContiguousParts(_, _)
ContiguousParts(cells, k) ==
  IF k = 0 THEN <<>>
  ELSE LET n == CeilDiv(Len(cells), k)
       IN <<SubSeq(cells, 1, n)>> \o ContiguousParts(SubSeq(cells, n + 1, Len(cells)), k - 1)

(* Farthest-first seeds after the Cell nearest to the centre. *)
Seeds(cells, first, k) ==
  LET Grow(seeds, i) ==
        LET gap(c) == Min({Dist(CellAt[c], CellAt[x]) : x \in ToSet(seeds)})
        IN Append(seeds, Least({<<-gap(c), c>> : c \in cells \ ToSet(seeds)})[2])
  IN Fold(Grow, <<first>>, [i \in 1 .. k - 1 |-> i])

(* One capacity-bounded assignment round: seeds first, then the Cells with   *)
(* the largest advantage of their best cluster over the second, each to the   *)
(* nearest cluster that has room.                                             *)
AssignRound(cells, seeds, centers) ==
  LET k == Len(seeds)
      room == [j \in 1 .. k |-> Cardinality(cells) \div k
                                + (IF j <= Cardinality(cells) % k THEN 1 ELSE 0)]
      gaps(c) == InOrder({<<Nearest(c, centers[j]), j>> : j \in 1 .. k})
      order == InOrder({<<gaps(c)[1][1] - gaps(c)[2][1], c>> : c \in cells \ ToSet(seeds)})
      Place(parts, a) ==
        LET j == Least({<<Nearest(a[2], centers[i]), i>> :
                          i \in {i \in 1 .. k : Cardinality(parts[i]) < room[i]}})[2]
        IN [parts EXCEPT ![j] = @ \cup {a[2]}]
  IN Fold(Place, [j \in 1 .. k |-> {seeds[j]}], order)

BalancedParts(cells, k) ==
  LET first == Least({<<Nearest(c, Center(cells)), c>> : c \in cells})[2]
      start == Seeds(cells, first, k)
      Round(state, i) ==
        LET parts == AssignRound(cells, state.seeds, state.centers)
            centers == [j \in 1 .. k |-> Center(parts[j])]
        IN [parts |-> parts, centers |-> centers,
            seeds |-> [j \in 1 .. k |-> Least({<<Nearest(c, centers[j]), c>> : c \in parts[j]})[2]]]
      last == Fold(Round, [parts |-> <<>>, seeds |-> start,
                               centers |-> [j \in 1 .. k |-> CellAt[start[j]]]], <<1, 2, 3, 4>>)
  IN [j \in 1 .. k |-> SortSet(last.parts[j], <)]

(* append_node: the nodes of the tree over cells, its root first, numbered   *)
(* from base + 1.                                                             *)
RECURSIVE AppendNode(_, _, _)
AppendNode(c, cells, base) ==
  LET at == Center(ToSet(cells))
      node(leaf, children) == [at |-> at, leaf |-> leaf, children |-> children,
                               radius |-> Max({Abs(CellAt[x] - at) : x \in ToSet(cells)})]
      k == Lower(c.branching, Len(cells))
      parts == IF c.preserve_leaf_order THEN ContiguousParts(cells, k)
               ELSE BalancedParts(ToSet(cells), k)
      Grow(state, part) ==
        LET sub == AppendNode(c, part, base + 1 + Len(state.nodes))
        IN [nodes |-> state.nodes \o sub, roots |-> state.roots \cup {base + 2 + Len(state.nodes)}]
      grown == Fold(Grow, [nodes |-> <<>>, roots |-> {}], parts)
  IN IF Len(cells) <= c.leaf_size THEN <<node(TRUE, ToSet(cells))>>
     ELSE <<node(FALSE, grown.roots)>> \o grown.nodes

(* build_cell_hierarchy and the roots; an empty Community has no tree. *)
BuildCellHierarchy(c) ==
  LET Plant(forest, k) ==
        IF CellsOf(k) = {} THEN forest
        ELSE [nodes |-> forest.nodes
                        \o AppendNode(c, SortSet(CellsOf(k), <), Len(forest.nodes)),
              roots |-> [forest.roots EXCEPT ![k] = Len(forest.nodes) + 1]]
  IN Fold(Plant, [nodes |-> <<>>, roots |-> [k \in Communities |-> None]],
              SortSet(Communities, <))

RECURSIVE CellsUnder(_, _)
CellsUnder(forest, n) ==
  IF forest.nodes[n].leaf THEN forest.nodes[n].children
  ELSE UNION {CellsUnder(forest, m) : m \in forest.nodes[n].children}

-----------------------------------------------------------------------------
(* The query state. *)

CellDefault == [created |-> FALSE, support |-> 0, best |-> Inf, rank |-> None]
BlockDefault == [support |-> 0, best |-> Inf, loaded |-> FALSE]

EmptyQueryState ==
  [query |-> None, runtime |-> FALSE,
   reachable |-> {}, expanded |-> {}, community_support |-> <<>>,
   cells |-> <<>>, blocks |-> <<>>, touched_cells |-> {}, touched_blocks |-> {},
   base_sources |-> {}, evidence_sources |-> {}, origins |-> <<>>,
   supported |-> <<>>, routed |-> <<>>, next_routed |-> 0, hints |-> <<>>, hint_path |-> {},
   route_communities |-> {}, expansions |-> 0, gateway_scores |-> 0, cell_blocks |-> 0,
   terminal_budget |-> 0, leaves_probed |-> 0,
   oracle |-> [active |-> FALSE, blocks |-> {}, cells |-> {}, previsited |-> {},
               hits |-> <<>>, selected |-> None]]

(* reset_cell_scratch: arrays of another size are assigned anew, arrays of   *)
(* the right size are cleared at the touched entries only.                    *)
ResetCellScratch(s) ==
  [cells |-> [c \in Cells |-> IF DOMAIN s.cells # Cells \/ c \in s.touched_cells
                              THEN CellDefault ELSE s.cells[c]],
   blocks |-> [b \in Blocks |-> IF DOMAIN s.blocks # Blocks \/ b \in s.touched_blocks
                                THEN BlockDefault ELSE s.blocks[b]]]

\* Mutant: the Blocks a query wrote are not listed.
Touch_Cells(s, cells, blocks) == [s EXCEPT !.touched_cells = @ \cup cells]
Touch(s, cells, blocks) == [s EXCEPT !.touched_cells = @ \cup cells, !.touched_blocks = @ \cup blocks]

Raised(rows, support) == [i \in DOMAIN rows |-> [rows[i] EXCEPT !.support = Upper(@, support)]]
Given(rows, support) == [i \in DOMAIN rows |-> [rows[i] EXCEPT !.support = support]]
AtQuery(rows) == [i \in DOMAIN rows |-> [rows[i] EXCEPT !.best = 0]]

(* Cells appended to the routed list, each created with its rank; they and    *)
(* their Blocks take the rows the routing path writes for them.               *)
AdmitCells(s, order, cells, blocks) ==
  LET admitted == ToSet(order)
      rank(c) == Max({i \in DOMAIN order : order[i] = c}) - 1
      under == UNION {BlocksOf(c) : c \in admitted}
  IN [Touch(s, admitted, under) EXCEPT
        !.cells = [c \in Cells |-> IF c \in admitted
                                   THEN [cells[c] EXCEPT !.created = TRUE, !.rank = rank(c)]
                                   ELSE s.cells[c]],
        !.blocks = [b \in Blocks |-> IF b \in under THEN blocks[b] ELSE s.blocks[b]]]

(* The best-first walk of route_hierarchical_cells: every node of the forest   *)
(* leaves the frontier at most once.                                          *)
ProbeForest(c, forest, score, budget, probes, start) ==
  LET ranked(cells) == InOrder({<<score.cell[x], x>> : x \in cells})
      Pop(at, i) ==
        LET top == Least({<<score.node[n], n>> : n \in at.frontier})
            node == forest.nodes[top[2]]
            ends == /\ at.probed >= probes
                    /\ Cardinality(at.routed) >= budget
                    /\ ~c.exact_routing \/ top[1] > Last(ranked(at.routed))[1]
        IN IF at.frontier = {} \/ ends THEN at
           ELSE IF node.leaf
           THEN [frontier |-> at.frontier \ {top[2]}, probed |-> at.probed + 1,
                 routed |-> ToSet(Last2(Take(ranked(at.routed \cup node.children), budget)))]
           ELSE [at EXCEPT !.frontier = (@ \ {top[2]}) \cup node.children]
      out == Fold(Pop, start, forest.nodes)
  IN [order |-> Last2(ranked(out.routed)), probed |-> out.probed]

(* The score of a node that no hint names: with exact routing a lower bound on  *)
(* the distance to every Cell under it.                                         *)
\* Mutant: the distance of the centre is no bound.
NodeScore_Center(c, query, node) == Dist(query, node.at)
NodeScore(c, query, node) ==
  IF c.exact_routing THEN Dist(Upper(0, Abs(query - node.at) - node.radius), 0) ELSE Dist(query, node.at)

RouteHierarchicalCells(c, forest, communities, s) ==
  LET budget == IF s.terminal_budget = 0 THEN c.routing_cells ELSE s.terminal_budget
      probes == IF c.l_aware_forest THEN Lower(c.probe_budget, budget) ELSE c.probe_budget
      hints == IF c.graph_guided
               THEN Last2(InOrder({<<-s.cells[h[2]].support, h[1], h[2]>> : h \in ToSet(s.hints)}))
               ELSE Last2(s.hints)
      hinted == Take(hints, budget)
      path == IF c.graph_guided
              THEN s.hint_path \cup
                   {n \in DOMAIN forest.nodes : CellsUnder(forest, n) \cap ToSet(hinted) # {}}
              ELSE s.hint_path
      score == [node |-> [n \in DOMAIN forest.nodes |-> IF n \in path THEN -Inf
                                                     ELSE NodeScore(c, s.query, forest.nodes[n])],
                cell |-> [x \in Cells |->
                           IF x \in ToSet(hinted)
                           THEN Min({i \in DOMAIN hinted : hinted[i] = x}) - 1 - Len(hinted)
                           ELSE Dist(s.query, CellAt[x])]]
      out == ProbeForest(c, forest, score, budget, probes,
               [frontier |-> {forest.roots[k] : k \in communities} \ {None},
                routed |-> {}, probed |-> s.leaves_probed])
  IN [AdmitCells(s, out.order, Raised(s.cells, c.support), AtQuery(Given(s.blocks, c.support))) EXCEPT
        !.routed = s.routed \o out.order, !.hint_path = path, !.leaves_probed = out.probed]

(* begin_query's terminal route profile: the bucket nearest to the query. *)
RouteByProfile(c, forest, s) ==
  LET bucket == Least({<<Dist(s.query, RouteProfile[i].at), i>> : i \in DOMAIN RouteProfile})[2]
      cells == SelectSeq(RouteProfile[bucket].cells, LAMBDA x : x # None)
      hinted == [Touch(s, ToSet(cells), {}) EXCEPT
                   !.hints = [i \in DOMAIN cells |-> <<i - 1, cells[i]>>],
                   !.cells = [x \in Cells |-> IF x \in ToSet(cells)
                                              THEN [s.cells[x] EXCEPT !.support = Upper(@, c.support)]
                                              ELSE s.cells[x]],
                   !.route_communities = {CellCommunity[x] : x \in ToSet(cells)}]
  IN IF c.hierarchical
     THEN IF c.defer THEN hinted
          ELSE RouteHierarchicalCells(c, forest, hinted.route_communities, hinted)
     ELSE [AdmitCells(hinted, cells, Given(hinted.cells, c.support), Given(hinted.blocks, c.support)) EXCEPT
              !.routed = cells]

(* begin_query's centroid routing over the nearest Communities. *)
RouteByCentroids(c, forest, s) ==
  LET near == ToSet(Last2(Take(InOrder({<<Dist(s.query, CommunityAt[k]), k>> : k \in Communities}),
                               c.routing_communities)))
      cells == Last2(Take(InOrder({<<Dist(s.query, CellAt[x]), x>> :
                                     x \in UNION {CellsOf(k) : k \in near}}), c.routing_cells))
  IN IF c.hierarchical THEN RouteHierarchicalCells(c, forest, near, s)
     ELSE [AdmitCells(s, cells, AtQuery(Given(s.cells, c.support)), AtQuery(Given(s.blocks, c.support))) EXCEPT
              !.routed = cells]

KeepsCommunities(c) == c.community_skip \/ c.handoff \/ ~c.defer \/ c.frontier_cells # 0

BeginQuery(c, forest, query, runtime, s) ==
  LET enabled == c.cell_expansion /\ runtime
      reset == ResetCellScratch(s)
      begun == [EmptyQueryState EXCEPT
                  !.runtime = enabled,
                  !.query = IF enabled \/ c.community_skip THEN query ELSE None,
                  !.cells = IF enabled THEN reset.cells ELSE <<>>,
                  !.blocks = IF enabled THEN reset.blocks ELSE <<>>,
                  !.community_support = IF KeepsCommunities(c) THEN [k \in Communities |-> 0] ELSE <<>>,
                  !.reachable = IF c.handoff THEN {CellCommunity[NodeCell[Entry]]} ELSE {}]
  IN IF enabled /\ c.route_profile THEN RouteByProfile(c, forest, begun)
     ELSE IF enabled /\ c.centroid_routing /\ ~c.defer THEN RouteByCentroids(c, forest, begun)
     ELSE begun

-----------------------------------------------------------------------------
(* Evidence from the base graph. *)

MarkMacroInserted(s, node, origin) == [s EXCEPT !.origins = (node :> origin) @@ @]
MarkBaseReached(s, node) == [s EXCEPT !.origins = [n \in DOMAIN @ \ {node} |-> @[n]]]
OriginOf(s, node) == IF node \in DOMAIN s.origins THEN s.origins[node] ELSE "base"

AcceptsCellEvidence(c, s) == s.runtime /\ s.cell_blocks < c.block_budget

(* observe_base_expansion: each source once; a Community is reachable once a   *)
(* node of it is expanded.                                                     *)
ObserveBaseExpansion(c, node, s) ==
  LET k == CellCommunity[NodeCell[node]]
      seen == [s EXCEPT !.base_sources = @ \cup {node}, !.reachable = @ \cup {k}]
  IN IF ~KeepsCommunities(c) \/ node \in s.base_sources THEN s
     ELSE IF ~AcceptsCellEvidence(c, s) \/ k \in GraphOnly THEN seen
     ELSE [seen EXCEPT !.community_support[k] = @ + 1]

(* Support and best distance written for one Cell and one Block. *)
Evidence(s, cell, block, d) ==
  [Touch(s, {cell}, {block}) EXCEPT
     !.cells[cell].best = Lower(@, d),
     !.blocks[block].best = Lower(@, d)]

SupportBlock(s, block, count) ==
  [s EXCEPT !.supported = IF s.blocks[block].support = 0 THEN Append(@, block) ELSE @,
            !.blocks[block].support = count]

(* observe_source_cell: the expanded node itself is the evidence. *)
ObserveSourceCell(c, node, d, s) ==
  LET cell == NodeCell[node]
      block == NodeBlock[node]
      hints == IF ~c.graph_guided THEN s.hints
               ELSE IF \E i \in DOMAIN s.hints : s.hints[i][2] = cell
               THEN [i \in DOMAIN s.hints |->
                       IF s.hints[i][2] = cell THEN <<Lower(s.hints[i][1], d), cell>> ELSE s.hints[i]]
               ELSE Append(s.hints, <<d, cell>>)
      seen == [s EXCEPT !.evidence_sources = @ \cup {node}, !.hints = hints]
      noted(r) == IF ~r.created THEN [r EXCEPT !.created = TRUE, !.support = c.support]
                  ELSE IF c.terminal /\ c.graph_guided THEN [r EXCEPT !.support = @ + 1]
                  ELSE r
  IN IF \/ c.defer /\ c.terminal /\ c.frontier_cells = 0 /\ ~c.graph_guided
        \/ ~c.source_cell_batching \/ ~AcceptsCellEvidence(c, s) \/ node \in s.evidence_sources
     THEN s
     ELSE IF CellCommunity[cell] \in GraphOnly THEN seen
     ELSE SupportBlock([Evidence(seen, cell, block, d) EXCEPT !.cells[cell] = noted(@)], block, c.support)

(* observe_base_candidates: each Cell and Block of the source and of its        *)
(* admitted neighbours gains one vote for this source.  found is a set of       *)
(* <<distance, node>>.                                                          *)
ObserveBaseCandidates(c, node, found, s) ==
  LET usable == {f \in found : CellCommunity[NodeCell[f[2]]] \notin GraphOnly}
      scored == FoldSet(LAMBDA f, t : Evidence(t, NodeCell[f[2]], NodeBlock[f[2]], f[1]),
                        [s EXCEPT !.evidence_sources = @ \cup {node}], usable)
      members == {node} \cup {f[2] : f \in usable}
      cells == {NodeCell[n] : n \in members}
      blocks == {NodeBlock[n] : n \in members}
      voted == [Touch(scored, cells, blocks) EXCEPT
                  !.cells = [x \in Cells |->
                    IF x \in cells
                    THEN [scored.cells[x] EXCEPT !.support = @ + 1,
                            !.created = @ \/ scored.cells[x].support + 1 = c.support]
                    ELSE scored.cells[x]]]
  IN IF ~AcceptsCellEvidence(c, s) \/ node \in s.evidence_sources THEN s
     ELSE IF CellCommunity[NodeCell[node]] \in GraphOnly
     THEN [s EXCEPT !.evidence_sources = @ \cup {node}]
     ELSE Fold(LAMBDA t, b : SupportBlock(t, b, t.blocks[b].support + 1),
                   voted, SortSet(blocks, <))

-----------------------------------------------------------------------------
(* Community expansion. *)

RoutingScore(s, k) == Dist(s.query, CommunityAt[k])
CommunityLowerBound(s, k) ==
  LET gap == Upper(0, Abs(s.query - CommunityAt[k]) - CommunityRadius[k]) IN gap * gap

HasCommunityWork(c, s) ==
  /\ c.community_skip
  /\ s.expansions < c.community_budget
  /\ s.gateway_scores < c.gateway_budget
  /\ s.reachable \ s.expanded # {}

(* expand_next_community: the nearest reachable Community, its edges in order   *)
(* of the routing score of their target, cut when the batch is full.  The       *)
(* result is [s, nodes]; a batch without nodes is no batch.                     *)
ExpandNextCommunity(c, s) ==
  LET source == Least({<<RoutingScore(s, k), k>> : k \in s.reachable \ s.expanded})[2]
      remaining == Lower(c.gateway_budget - s.gateway_scores, c.gateway_batch_cap)
      edges == IF c.hub_clique
               THEN [e \in {<<RoutingScore(s, k), k, 0>> : k \in Communities \ {source}} |-> <<Hubs[e[2]]>>]
               ELSE [e \in {<<RoutingScore(s, Superedges[source][i].target),
                              Superedges[source][i].target, i>> : i \in DOMAIN Superedges[source]} |->
                       [g \in DOMAIN Superedges[source][e[3]].gateways |->
                          Superedges[source][e[3]].gateways[g][2]]]
      Walk(t, e) ==
        IF Len(t.nodes) = remaining THEN t
        ELSE [nodes |-> Take(t.nodes \o edges[e], remaining),
              reached |-> t.reached \cup {e[2]},
              bound |-> Lower(t.bound, CommunityLowerBound(s, e[2]))]
      out == Fold(Walk, [nodes |-> <<>>, reached |-> {}, bound |-> Inf], InOrder(DOMAIN edges))
  IN [s |-> [s EXCEPT !.expanded = @ \cup {source}, !.expansions = @ + 1,
                      !.reachable = @ \cup out.reached],
      nodes |-> out.nodes, bound |-> out.bound]

RecordGatewayScores(c, count, s) ==
  [s EXCEPT !.gateway_scores = Lower(c.gateway_budget, @ + count)]

(* observe_gateway_landing_candidate: the nearest Cell of the landing           *)
(* Community that is not a candidate yet joins the routed list.                 *)
ObserveGatewayLanding(c, node, d, s) ==
  LET fresh == {x \in CellsOf(CellCommunity[NodeCell[node]]) : ~s.cells[x].created}
      cell == Least({<<Dist(s.query, CellAt[x]), x>> : x \in fresh})[2]
      rank == Len(s.routed)
  IN IF ~c.handoff \/ ~s.runtime \/ Len(s.routed) >= c.routing_cells \/ fresh = {} THEN s
     ELSE [Touch(s, {cell}, BlocksOf(cell)) EXCEPT
             !.routed = Append(@, cell),
             !.cells[cell] = [created |-> TRUE, support |-> c.support, best |-> d, rank |-> rank],
             !.blocks = [b \in Blocks |->
                           IF b \in BlocksOf(cell) THEN [@[b] EXCEPT !.support = c.support, !.best = d]
                           ELSE @[b]]]

-----------------------------------------------------------------------------
(* Cell expansion. *)

(* prepare_terminal_convergence: the best supported frontier Cells, then the    *)
(* routed ones, within the terminal budget.                                     *)
PrepareTerminal(c, forest, L, s) ==
  LET budget == TerminalCellBudget(c, L)
      ready == {BlockCell[b] : b \in ToSet(s.supported)}
      frontier == Last2(InOrder({<<-s.cells[x].support, s.cells[x].best, x>> :
                                   x \in {x \in ready : s.cells[x].created /\ s.cells[x].best < Inf}}))
      roots == {k \in Communities : forest.roots[k] # None}
      kept == IF s.route_communities # {} \/ ~c.community_skip \/ c.global_forest
              THEN s.route_communities ELSE roots \cap s.reachable
      asked == [s EXCEPT !.terminal_budget = budget, !.route_communities = IF c.defer THEN kept ELSE @]
      routed == IF c.defer
                THEN RouteHierarchicalCells(c, forest,
                       IF c.global_forest \/ kept = {} THEN roots ELSE kept, asked)
                ELSE asked
      first == Take(frontier, Lower(c.frontier_cells, budget))
      order == Fold(LAMBDA t, x : IF Len(t) >= budget \/ Contains(t, x) THEN t ELSE Append(t, x),
                        first, routed.routed)
  IN [AdmitCells(routed, order, Raised(routed.cells, c.support), Raised(routed.blocks, c.support)) EXCEPT
        !.routed = order, !.next_routed = 0]

HasDirectCellWork(s) ==
  \E b \in ToSet(s.supported) : ~s.blocks[b].loaded /\ s.cells[BlockCell[b]].created

(* is_mature_cell_block; the evidence ratio is a number of halves. *)
IsMatureCellBlock(c, s, b, threshold) ==
  /\ ~s.blocks[b].loaded
  /\ s.blocks[b].support >= c.support
  /\ s.cells[BlockCell[b]].created
  /\ s.blocks[b].best < Inf
  /\ threshold = Inf \/ 2 * s.blocks[b].best <= threshold * c.evidence_ratio

ScansRouted(c) == c.whole_cell /\ (c.centroid_routing \/ c.handoff)
RoutedPending(s) ==
  {i \in s.next_routed + 1 .. Len(s.routed) :
     BlocksOf(s.routed[i]) # {} /\ ~s.blocks[Min(BlocksOf(s.routed[i]))].loaded}

HasCellWork(c, s, threshold) ==
  /\ s.runtime /\ s.cell_blocks < c.block_budget
  /\ ~(c.require_full /\ threshold = Inf)
  /\ \/ ScansRouted(c) /\ RoutedPending(s) # {}
     \/ /\ ~(ScansRouted(c) /\ c.terminal)
        /\ HasDirectCellWork(s)
        /\ \E b \in ToSet(s.supported) : IsMatureCellBlock(c, s, b, threshold)

(* block_lower_bound_squared on a line: the distance to the radial shell of the *)
(* Block around the pole of its Community.                                      *)
BlockLowerBound(s, b) ==
  LET pole == CommunityAt[CellCommunity[BlockCell[b]]]
      radii == {Abs(NodeAt[n] - pole) : n \in NodesOf({b})}
      r == Abs(s.query - pole)
      radial == IF r < Min(radii) THEN Min(radii) - r ELSE Upper(0, r - Max(radii))
  IN radial * radial

(* expand_next_cell's choice: the next routed Cell; without one, the best       *)
(* mature Block, or the whole Cell of the best one.                             *)
CellLowerBound(c, s, x) == IF c.defer THEN 0 ELSE Min({BlockLowerBound(s, b) : b \in BlocksOf(x)})

SelectCell(c, s, mature, pending) ==
  LET best == Least({<<s.cells[x].rank, -s.cells[x].support, s.cells[x].best, CellLowerBound(c, s, x), x>> :
                       x \in {BlockCell[b] : b \in mature}})
      first(x) == s.supported[Min({i \in DOMAIN s.supported :
                                     s.supported[i] \in mature /\ BlockCell[s.supported[i]] = x})]
  IN IF pending # {} THEN Min(BlocksOf(s.routed[Min(pending)]))
     ELSE IF c.whole_cell THEN first(best[5])
     ELSE Least({<<-s.blocks[b].support, -s.cells[BlockCell[b]].support,
                   BlockLowerBound(s, b), s.blocks[b].best, b>> : b \in mature})[5]

(* The batch of the selected Block: [s, nodes, block, cap, bound, evidence].    *)
LoadBatch(c, L, s, pending, block) ==
  LET cell == BlockCell[block]
      load == IF c.whole_cell THEN BlocksOf(cell) ELSE {block}
      nodes == SortSet(NodesOf(load), LAMBDA m, n : LexLess(<<NodeBlock[m], m>>, <<NodeBlock[n], n>>))
  IN [s |-> [Touch(s, {}, load) EXCEPT
               !.cell_blocks = @ + 1,
               !.next_routed = IF pending # {} THEN Min(pending)
                               ELSE IF ScansRouted(c) THEN Len(s.routed) ELSE @,
               !.blocks = [b \in Blocks |-> IF b \in load THEN [@[b] EXCEPT !.loaded = TRUE] ELSE @[b]]],
      nodes |-> nodes, block |-> block,
      cap |-> Min({Len(nodes), c.insert_cap, L}),
      bound |-> IF c.whole_cell THEN CellLowerBound(c, s, cell) ELSE BlockLowerBound(s, block),
      evidence |-> IF c.whole_cell THEN s.cells[cell].best ELSE s.blocks[block].best]

ExpandNextCell(c, L, threshold, s) ==
  LET pending == IF ScansRouted(c) THEN RoutedPending(s) ELSE {}
      mature == {b \in ToSet(s.supported) : IsMatureCellBlock(c, s, b, threshold)}
  IN LoadBatch(c, L, s, pending, SelectCell(c, s, mature, pending))

-----------------------------------------------------------------------------
(* The oracle of an observe-only query: which Blocks the rest of the search     *)
(* would have used, were the hierarchy enabled.                                 *)

(* begin_cell_oracle and record_cell_oracle_previsited *)
BeginCellOracle(c, threshold, previsited, s) ==
  IF s.oracle.active \/ ~s.runtime THEN s
  ELSE LET direct == HasDirectCellWork(s)
           mature == {b \in ToSet(s.supported) : IsMatureCellBlock(c, s, b, threshold)}
           byCommunity == {b \in Blocks : /\ CellCommunity[BlockCell[b]] \notin GraphOnly
                                          /\ s.community_support[CellCommunity[BlockCell[b]]] >= c.support}
       IN [s EXCEPT !.oracle = [active |-> TRUE, selected |-> None, previsited |-> previsited,
             blocks |-> IF direct THEN mature ELSE byCommunity,
             cells |-> IF direct THEN {BlockCell[b] : b \in mature} ELSE {},
             hits |-> [b \in Blocks |-> 0]]]

RecordCellOracleSelection(block, s) ==
  IF s.oracle.active THEN [s EXCEPT !.oracle.selected = block] ELSE s

ObserveCellOracleExpansion(node, s) ==
  IF ~s.oracle.active \/ node \in s.oracle.previsited THEN s
  ELSE [s EXCEPT !.oracle.hits[NodeBlock[node]] = @ + 1]

(* finish_cell_oracle: the counts it publishes, each over the recorded hits. *)
FinishCellOracle(s) ==
  LET hits == s.oracle.hits
      cellHits == [x \in Cells |-> FoldSet(LAMBDA b, sum : sum + hits[b], 0, BlocksOf(x))]
      bestOf(h, S) == IF \A x \in S : h[x] = 0 THEN None ELSE Least({<<-h[x], x>> : x \in S})[2]
      top(h, S, n) == FoldSeq(LAMBDA x, sum : sum + h[x[2]], 0, Take(InOrder({<<-h[x], x>> : x \in S}), n))
      ranked(Key(_)) == FoldSeq(LAMBDA x, sum : sum + cellHits[Last(x)], 0,
                                Take(InOrder({Key(x) : x \in s.oracle.cells}), 4))
  IN [future |-> FoldSet(LAMBDA b, sum : sum + hits[b], 0, Blocks),
      distinct_cells |-> Cardinality({x \in Cells : cellHits[x] # 0}),
      distinct_blocks |-> Cardinality({b \in Blocks : hits[b] # 0}),
      selected |-> IF s.oracle.selected = None THEN 0 ELSE hits[s.oracle.selected],
      best_global |-> bestOf(hits, Blocks),
      best_eligible |-> bestOf(hits, s.oracle.blocks),
      best_cell |-> bestOf(cellHits, s.oracle.cells),
      top_blocks |-> [n \in {1, 2, 4} |-> top(hits, Blocks, n)],
      top_cells |-> [n \in {1, 2, 4} |-> top(cellHits, Cells, n)],
      top_eligible |-> top(cellHits, s.oracle.cells, 4),
      top_support |-> ranked(LAMBDA x : <<-s.cells[x].support, s.cells[x].best, x>>),
      top_evidence |-> ranked(LAMBDA x : <<s.cells[x].best, x>>)]

-----------------------------------------------------------------------------
(* important_memgraph_nodes: hubs, gateway targets, gateway sources, then the   *)
(* first node ids, without repetition, up to the budget.                        *)
ImportantMemgraphNodes(budget) ==
  LET edges == FlattenSeq([k \in 1 .. Cardinality(Communities) |->
                             Superedges[SortSet(Communities, <)[k]]])
      gateways == FlattenSeq([i \in DOMAIN edges |-> edges[i].gateways])
      wanted == [k \in 1 .. Cardinality(Communities) |-> Hubs[SortSet(Communities, <)[k]]]
                \o [i \in DOMAIN gateways |-> gateways[i][2]]
                \o [i \in DOMAIN gateways |-> gateways[i][1]]
                \o SortSet(Nodes, <)
  IN Take(Fold(LAMBDA t, n : IF Contains(t, n) THEN t ELSE Append(t, n), <<>>, wanted), budget)
=============================================================================

------------------------------ MODULE MC_Search ------------------------------
(***************************************************************************)
(* Eight nodes on a line in four Cells and two Communities, and one        *)
(* request for each way the program is configured to search.  Two queries  *)
(* run one after the other on one thread.                                  *)
(***************************************************************************)
EXTENDS BeamSearch

Eight(a) == [n \in 0 .. 7 |-> a[n + 1]]
MCNodeCell == Eight(<<0, 0, 1, 0, 2, 2, 3, 3>>)
MCNodeBlock == Eight(<<0, 1, 2, 0, 3, 3, 4, 4>>)
MCBlockCell == [b \in 0 .. 4 |-> <<0, 0, 1, 2, 3>>[b + 1]]
MCCellCommunity == [x \in 0 .. 3 |-> x \div 2]
MCNodeAt == Eight(<<1, 0, 7, 2, 14, 10, 15, 20>>)
MCPqAt == Eight(<<0, 1, 4, 3, 5, 6, 16, 19>>)
MCAdjacency == Eight(<<<<1, 2>>, <<0, 3>>, <<3, 4>>, <<2, 1>>, <<5, 3, 6>>, <<4, 2>>, <<7, 5>>, <<6>>>>)
MCNodePage == Eight(<<0, 0, 1, 1, 1, 2, 2, 3>>)
MCCellAt == [x \in 0 .. 3 |-> <<1, 7, 12, 17>>[x + 1]]
MCCommunityAt == [k \in 0 .. 1 |-> <<2, 14>>[k + 1]]
MCCommunityRadius == [k \in 0 .. 1 |-> <<5, 6>>[k + 1]]
MCHubs == [k \in 0 .. 1 |-> <<2, 5>>[k + 1]]
MCSuperedges == [k \in 0 .. 1 |->
  <<<<[target |-> 1, gateways |-> <<<<2, 4>>, <<3, 4>>, <<3, 6>>>>]>>,
    <<>>>>[k + 1]]
MCMedoids == <<[node |-> 0, at |-> 1], [node |-> 5, at |-> 8]>>
MCCellNeighbors == [x \in 0 .. 3 |-> <<<<1>>, <<2, 0>>, <<3, 1>>, <<2>>>>[x + 1]]
MCRouteProfile == <<[at |-> 2, cells |-> <<1, None>>], [at |-> 9, cells |-> <<3, 2>>]>>

Base == [hybrid |-> TRUE, community_skip |-> FALSE, hub_clique |-> FALSE, community_budget |-> 0,
  gateway_budget |-> 0, gateway_batch_cap |-> 0, direct_cap |-> 0, pq_approach_hops |-> 0,
  cell_expansion |-> FALSE, block_budget |-> 0, support |-> 1, insert_cap |-> 2, min_competitive |-> 1,
  min_fraction |-> 0, candidate_ratio |-> 2, evidence_ratio |-> 2, insert_fraction |-> 2,
  source_cell_batching |-> FALSE, require_full |-> FALSE, provisional |-> FALSE, marker |-> 0, min_l |-> 1,
  centroid_routing |-> FALSE, whole_cell |-> FALSE, routing_communities |-> 1, routing_cells |-> 1,
  handoff |-> FALSE, terminal |-> FALSE, hierarchical |-> FALSE, branching |-> 2, leaf_size |-> 1,
  probe_budget |-> 1, graph_guided |-> FALSE, exact_routing |-> FALSE, preserve_leaf_order |-> FALSE,
  defer |-> FALSE, l_aware_approach |-> FALSE, approach_hops |-> 1, approach_divisor |-> 2,
  approach_base |-> 0, low_l_max |-> 0, low_l_hops |-> 0, l_aware_forest |-> FALSE, forest_base |-> 1,
  forest_divisor |-> 2, low_forest_max |-> 0, low_forest_extra |-> 0, high_forest_min |-> 0,
  high_forest_cap |-> 0, high_forest_divisor |-> 0, l_aware_refine |-> FALSE, refine_hops |-> 0,
  refine_base |-> 0, refine_divisor |-> 2, stitch_promote |-> FALSE, stitch_cells |-> 1,
  stitch_support |-> 1, route_profile |-> FALSE, global_forest |-> FALSE, guard |-> 0,
  frontier_cells |-> 0, batch |-> FALSE, preserve |-> FALSE, stitch_l |-> 0, interleaved |-> FALSE,
  interleave_hops |-> 1, max_cells |-> 2, pq_traversal |-> FALSE, filter_visited |-> FALSE,
  leaf_refine |-> FALSE, adj |-> 0, adj_shortlist |-> 2, adj_expansion |-> 2, adj_min_l |-> 1,
  adj_max_l |-> 9, refine |-> 0, refine_min_l |-> 0, l_aware_budget |-> FALSE, budget_base |-> 1,
  budget_divisor |-> 2, ranked |-> FALSE, ranked_base |-> 1, ranked_divisor |-> 4, ranked_start |-> 0,
  ranked_growth |-> 1, ranked_max |-> 2, ranked_max_l |-> 3, decoded |-> FALSE, reorder |-> FALSE,
  dynamic |-> 0, dynamic_marker |-> 1, waste |-> 1, score_limit |-> 0, memgraph |-> 0, memgraph_entries |-> 1]

Skip == [Base EXCEPT !.community_skip = TRUE, !.community_budget = 2, !.gateway_budget = 3,
                     !.gateway_batch_cap = 2, !.direct_cap = 1, !.guard = 1]
Evidence1 == [Skip EXCEPT !.cell_expansion = TRUE, !.block_budget = 2]
Sources == [Base EXCEPT !.cell_expansion = TRUE, !.block_budget = 2, !.source_cell_batching = TRUE,
                        !.whole_cell = TRUE, !.provisional = TRUE, !.evidence_ratio = 2, !.guard = 1]
Blockwise == [Sources EXCEPT !.whole_cell = FALSE, !.block_budget = 3, !.min_l = 3, !.min_fraction = 1]
Flat == [Sources EXCEPT !.centroid_routing = TRUE, !.routing_communities = 2, !.routing_cells = 3, !.block_budget = 3]
Tree == [Flat EXCEPT !.hierarchical = TRUE, !.exact_routing = TRUE, !.probe_budget = 1, !.routing_cells = 1]
Landing == [Skip EXCEPT !.cell_expansion = TRUE, !.block_budget = 2, !.whole_cell = TRUE, !.handoff = TRUE,
                        !.routing_cells = 1, !.hub_clique = TRUE, !.source_cell_batching = TRUE]
Terminal == [Tree EXCEPT !.terminal = TRUE, !.routing_cells = 2, !.probe_budget = 2, !.exact_routing = FALSE, !.guard = 0]
Deferred == [Terminal EXCEPT !.defer = TRUE, !.global_forest = TRUE, !.graph_guided = TRUE,
                             !.refine_hops = 1, !.l_aware_forest = TRUE, !.frontier_cells = 1]
Profiled == [Terminal EXCEPT !.route_profile = TRUE, !.hierarchical = FALSE, !.l_aware_approach = TRUE,
                             !.decoded = TRUE]
Forced == [Deferred EXCEPT !.graph_guided = FALSE, !.batch = TRUE, !.pq_traversal = TRUE, !.preserve = TRUE]
Interleaved == [Forced EXCEPT !.preserve = FALSE, !.interleaved = TRUE, !.refine_hops = 0, !.max_cells = 3]
Ranked == [Forced EXCEPT !.ranked = TRUE, !.refine = 3]
Leaf == [Forced EXCEPT !.batch = FALSE, !.preserve = FALSE, !.leaf_refine = TRUE, !.adj = 1,
                       !.refine = 1, !.stitch_promote = TRUE]
Observed == [Evidence1 EXCEPT !.community_skip = FALSE, !.pq_approach_hops = 0]
Wide == [Base EXCEPT !.dynamic = 1, !.memgraph = 5, !.memgraph_entries = 2, !.filter_visited = TRUE,
                     !.reorder = TRUE]
Narrow == [Base EXCEPT !.score_limit = 1, !.pq_traversal = TRUE, !.refine = 2, !.l_aware_budget = TRUE]
Approach == [Skip EXCEPT !.pq_approach_hops = 1]
\* Cells wait for two expanded entries, or for more than any queue here holds.
Marked == [Sources EXCEPT !.marker = 2]
Unreached == [Evidence1 EXCEPT !.marker = 5]

Ways ==
  {<<"graph", Wide>>, <<"graph", Narrow>>, <<"hybrid", Approach>>, <<"hybrid", Evidence1>>,
   <<"hybrid", Sources>>, <<"hybrid", Blockwise>>, <<"hybrid", Flat>>, <<"hybrid", Tree>>,
   <<"hybrid", Landing>>, <<"hybrid", Terminal>>, <<"hybrid", Deferred>>, <<"hybrid", Profiled>>,
   <<"hybrid", Marked>>, <<"hybrid", Unreached>>, <<"hybrid", [Flat EXCEPT !.marker = 5]>>,
   <<"forced", Forced>>, <<"forced", Interleaved>>, <<"forced", Ranked>>, <<"forced", Leaf>>,
   <<"observe", Observed>>, <<"observe", Sources>>}

(* Search list size, query coordinate, beam width and number of answers. *)
Ask(ways, shapes) ==
  {[mode |-> x[1], c |-> x[2], L |-> v[1], query |-> v[2], beam |-> v[3], k |-> v[4]] : x \in ways, v \in shapes}

MCRequests == Ask(Ways, {<<4, 2, 2, 3>>, <<4, 9, 1, 3>>, <<2, 7, 2, 2>>, <<1, 7, 1, 1>>,
                         <<4, 5, 1, 1>>, <<3, 4, 2, 2>>, <<4, 6, 1, 2>>})

ASSUME RequestsAreValid ==
  \A r \in Requests : (r.mode # "graph" => ValidConfig(r.c)) /\ ValidSearchOptions(r.mode, r.c)
=============================================================================

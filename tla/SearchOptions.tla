---------------------------- MODULE SearchOptions ----------------------------
(***************************************************************************)
(* What a search may be asked for.  power_ann.cc refuses the combinations  *)
(* of switches the facade does not support, diskann_search.cc rewrites     *)
(* those it was given into the policy of the run, and pq_flash_index.cc    *)
(* refuses once more what it cannot run.                                   *)
(*                                                                         *)
(* A combination is the set of the switches that are on.  A count that is  *)
(* only compared with zero, with one or with its bounds is a switch too,   *)
(* on when the count is inside them: "refine" is a positive number of      *)
(* refinement candidates, "ranked_pages" a page budget the facade takes,   *)
(* "ranked_over" one above MAX_N_SECTOR_READS, "adj_wide" more than one    *)
(* Cell added for each neighbor.  A path that is only tested for being     *)
(* empty is a switch as well ("adjacency", "io_paths", "polar_path",       *)
(* "resident_path").  Values no combination of switches can make legal are *)
(* left out: a scale that is not a positive number, scores of other than 8 *)
(* or 16 bits, a refine_min_l of zero.                                     *)
(***************************************************************************)
EXTENDS Integers, FiniteSets, Sequences

Needs(o, a, S) == a \in o => S \subseteq o
NeedsOne(o, a, S) == a \in o => S \cap o # {}
Bars(o, a, S) == a \in o => S \cap o = {}

Prefetches == {"node_prefetch", "cell_prefetch", "gateway_prefetch"}
Layouts == {"cell_layout", "chunk_layout", "weighted_reorder"}

HybridSwitches ==
  {"hybrid", "community_skip", "pq_approach", "cell_expansion", "handoff", "terminal", "hierarchical",
   "persisted", "l_aware_approach", "stitch_promote", "centroid_routing", "whole_cell", "defer",
   "fast_distance", "source_batching", "cell_value", "gateway_value"}

-----------------------------------------------------------------------------
(* search_diskann_index_impl: the rules of the facade, grouped by what they    *)
(* are about; whichever is broken first, the call is refused.                  *)

TopologyRules(o) ==
  /\ Needs(o, "paged_topology", {"topology_vector", "topology_cache"})
  /\ Needs(o, "topology_cache", {"paged_topology"})
  /\ Needs(o, "pq_approach", {"topology_vector"})

CellPageRules(o) ==
  /\ Needs(o, "cell_layout", {"topology_vector"})
  /\ Needs(o, "cell_u8", {"topology_vector", "cell_layout", "pq_traversal"})
  /\ NeedsOne(o, "cell_u8", {"l_aware", "forced_tree"})
  /\ "cell_u8" \in o => Needs(o, "leaf_refine", {"forced_tree"})
  /\ Needs(o, "page_batch", {"topology_vector", "cell_layout", "lru"})

\* Mutant: batches of Cells without batches of their pages.
CellBatchRules_NoPageBatch(o) ==
  /\ Needs(o, "batch_search", {"powerann", "hybrid", "cell_expansion", "cell_layout", "lru"})
  /\ Needs(o, "preserve", {"batch_search", "pq_traversal", "forced_tree"})
  /\ Bars(o, "preserve", {"interleaved"})
  /\ Needs(o, "ranked", {"batch_search", "preserve", "pq_traversal", "forced_tree", "ranked_pages"})
CellBatchRules(o) ==
  /\ Needs(o, "batch_search", {"powerann", "hybrid", "cell_expansion", "cell_layout", "page_batch", "lru"})
  /\ "batch_search" \in o => \/ {"community_skip", "forced_tree"} \cap o # {}
                             \/ {"terminal", "hierarchical"} \subseteq o
  /\ Needs(o, "interleaved", {"batch_search", "pq_traversal", "forced_tree", "interleave_hops"})
  /\ Needs(o, "preserve", {"batch_search", "pq_traversal", "forced_tree"})
  /\ Bars(o, "preserve", {"interleaved"})
  /\ Needs(o, "stitch_l", {"preserve"})
  /\ Needs(o, "ranked", {"batch_search", "preserve", "pq_traversal", "forced_tree", "ranked_pages"})
  /\ Bars(o, "ranked", {"leaf_refine"})

RefinementRules(o) ==
  /\ Needs(o, "pq_traversal", {"topology_vector", "cell_layout"})
  /\ Needs(o, "adj", {"forced_tree", "pq_traversal", "adj_budget"})
  /\ Needs(o, "refine", {"pq_traversal"})
  /\ Needs(o, "refine_min_l", {"refine"})
  /\ Needs(o, "prefetch_hop", {"refine"})
  /\ Bars(o, "prefetch_hop", {"io_uring"})
  /\ Needs(o, "l_aware_budget", {"pq_traversal", "refine", "budget"})
  /\ Needs(o, "leaf_refine", {"forced_tree"})
  /\ Bars(o, "leaf_refine", {"prefetch_hop"})
  /\ Needs(o, "stitch_promote", {"leaf_refine", "refine"})
  /\ Needs(o, "resident_u8", {"forced_tree", "compressed", "refine"})
  /\ Bars(o, "resident_u8", {"prefetch_hop", "leaf_refine"})
  /\ Needs(o, "resident_traversal", {"resident_u8"})

CodeRules(o) ==
  /\ {"dense", "filter", "decoded", "l_aware"} \cap o # {} => "pq_traversal" \in o
  /\ Needs(o, "filter", {"dense"})
  /\ "decoded" \in o => Needs(o, "hybrid", {"forced_tree"})
  /\ Bars(o, "decoded", {"memgraph"})
  /\ Needs(o, "decoded", {"dense", "filter"})
  /\ Needs(o, "scaled", {"forced_tree"})
  /\ Bars(o, "scaled", {"compressed"})
  /\ Needs(o, "compressed", {"pq_traversal"})
  /\ NeedsOne(o, "compressed", {"l_aware", "forced_tree"})
  /\ Bars(o, "compressed", {"decoded"})
  /\ Needs(o, "score_chunks", {"compressed", "forced_tree"})
  /\ Needs(o, "score_bits", {"compressed", "forced_tree"})
  /\ Bars(o, "score_chunks", {"score_bits"})
  /\ Needs(o, "score_limit", {"compressed", "forced_tree"})

PolicyRules(o) ==
  /\ Needs(o, "l_aware", {"l_aware_max"})
  /\ Bars(o, "l_aware", {"memgraph"})
  /\ Needs(o, "l_aware_approach", {"forced_tree"})
  /\ Needs(o, "forced_tree", {"powerann", "hybrid", "cell_expansion", "terminal", "hierarchical",
                              "persisted", "pq_traversal"})
  /\ Bars(o, "forced_tree", {"l_aware", "handoff", "memgraph"})
  /\ Bars(o, "pq_traversal", {"online"})
  /\ Needs(o, "online", {"powerann", "topology_vector", "cell_layout", "lru"})
  /\ Bars(o, "online", Prefetches \cup {"page_batch", "io_uring"})

DeviceRules(o) ==
  /\ Needs(o, "chunk_layout", {"topology_vector"})
  /\ Bars(o, "chunk_layout", {"cell_layout", "weighted_reorder"})
  /\ Needs(o, "weighted_reorder", {"topology_vector"})
  /\ Bars(o, "weighted_reorder", {"cell_layout"})
  /\ Needs(o, "lru", {"topology_vector", "lru_pages"})
  /\ Needs(o, "lru_pages", {"lru"})
  /\ Needs(o, "reset_lru", {"lru"})
  /\ Needs(o, "io_uring", {"topology_vector", "queue_depth"})
  /\ Prefetches \cap o # {} => {"io_uring", "lru"} \subseteq o
  /\ NeedsOne(o, "cell_prefetch", Layouts)
  /\ Needs(o, "gateway_prefetch", {"powerann", "community_skip", "cell_expansion", "handoff", "gateway_limit"})
  /\ NeedsOne(o, "gateway_prefetch", Layouts)
  /\ Needs(o, "memgraph", {"topology_vector", "memgraph_nodes", "memgraph_entries"})
  /\ Needs(o, "memgraph_nodes", {"memgraph"})
  /\ Needs(o, "dynamic_width", {"io_uring", "width"})

PathRules(o) ==
  /\ Needs(o, "hybrid", {"powerann"})
  /\ Needs(o, "topology_vector", {"powerann"})
  /\ Needs(o, "io_paths", {"topology_vector"})
  /\ Needs(o, "polar_path", {"powerann", "hybrid"})

(* validate_community_polar_search_config, which the facade asks of the given  *)
(* switches and community_polar_search_t::load of those the run ends up with.  *)
PolarRules(o) ==
  /\ "hybrid" \in o <=> {"community_skip", "cell_expansion"} \cap o # {}
  /\ "hybrid" \in o =>
       /\ Needs(o, "pq_approach", {"community_skip"})
       /\ Needs(o, "centroid_routing", {"cell_expansion", "whole_cell"})
       /\ Needs(o, "handoff", {"community_skip", "cell_expansion", "whole_cell"})
       /\ Needs(o, "terminal", {"cell_expansion", "whole_cell", "centroid_routing"})
       /\ Needs(o, "l_aware_approach", {"terminal"})
       /\ Needs(o, "stitch_promote", {"terminal"})
       /\ Needs(o, "hierarchical", {"centroid_routing"})
       /\ Needs(o, "persisted", {"hierarchical"})

(* The rules that do not depend on the lists and outputs asked for.            *)
FacadeAccepts(o) ==
  TopologyRules(o) /\ CellPageRules(o) /\ CellBatchRules(o) /\ RefinementRules(o) /\ CodeRules(o)
    /\ PolicyRules(o) /\ DeviceRules(o) /\ PathRules(o) /\ PolarRules(o)

-----------------------------------------------------------------------------
(* execute_search_curve: the switches a run ends up with.                     *)

(* Below the L-aware threshold a search walks the topology alone; unless it    *)
(* refines candidates it does so without the cache.                            *)
LAwarePolicy(o) ==
  ((o \cup {"dense", "filter"} \cup (IF "compressed" \in o THEN {} ELSE {"decoded"}))
     \ {"batch_search"})
     \ (HybridSwitches
        \cup (IF "compressed" \in o THEN {"decoded"} ELSE {})
        \cup (IF "refine" \in o THEN {} ELSE {"prefetch_hop", "page_batch", "lru", "lru_pages"}))

ForcedTreePolicy(o) ==
  (o \cup {"dense", "filter"}
     \cup (IF "compressed" \in o THEN {} ELSE {"decoded"})
     \cup (IF "hybrid" \in o THEN {"fast_distance", "source_batching", "defer"} ELSE {}))
    \ (IF "compressed" \in o THEN {"decoded"} ELSE {})

Telemetry(o, outputs) ==
  IF "hybrid" \notin o THEN o
  ELSE o \cup ({"cell_value", "gateway_value"} \cap outputs)

(* The Cells of a single search below their smallest list: switched off under  *)
(* the Communities, and without them the whole hierarchy is.                   *)
CellGate(o) ==
  IF "community_skip" \in o THEN o \ {"cell_expansion", "whole_cell", "centroid_routing"}
  ELSE o \ HybridSwitches

(* a is the call: its switches a.o, its list sizes a.sizes, its outputs, and  *)
(* the thresholds of the two policies.                                        *)
LAwareSwitches(a) ==
  IF ~a.observe /\ "l_aware" \in a.o /\ a.sizes[1] <= a.l_aware_max THEN LAwarePolicy(a.o) ELSE a.o
Rewritten(a) ==
  IF ~a.observe /\ "forced_tree" \in LAwareSwitches(a) THEN ForcedTreePolicy(LAwareSwitches(a)) ELSE LAwareSwitches(a)
Ungated(a) ==
  LET seen == Telemetry(Rewritten(a), a.outputs)
  IN IF ~a.observe /\ {"hybrid", "pq_traversal"} \subseteq seen
     THEN seen \cup {"fast_distance", "source_batching"} ELSE seen
GatesCells(a) ==
  /\ Len(a.sizes) = 1 /\ ~a.observe /\ a.sizes[1] < a.cell_min
  /\ {"hybrid", "cell_expansion"} \subseteq Ungated(a)
Policy(a) == IF GatesCells(a) THEN CellGate(Ungated(a)) ELSE Ungated(a)

(* What a query with list size L does under the policy p: begin_query enables  *)
(* the Cells at run time by L; without them the Communities remain.            *)
Behaviour(p, L, cellMin) ==
  LET cells == {"hybrid", "cell_expansion"} \subseteq p /\ L >= cellMin
  IN (p \ HybridSwitches)
       \cup (IF cells THEN HybridSwitches \cap p
             ELSE IF {"hybrid", "community_skip"} \subseteq p THEN {"community_skip", "pq_approach"} \cap p
             ELSE {})

ExpectedLayout(p) ==
  CASE "cell_u8" \in p -> "cell_u8"
    [] "cell_u8" \notin p /\ "chunk_layout" \in p -> "chunk_layout"
    [] {"cell_u8", "chunk_layout"} \cap p = {} /\ "weighted_reorder" \in p -> "weighted_reorder"
    [] {"cell_u8", "chunk_layout", "weighted_reorder"} \cap p = {} ->
         IF "cell_layout" \in p THEN "cell_layout" ELSE "original"

-----------------------------------------------------------------------------
(* pq_flash_index_t::load and the configure functions.                        *)

LoadAccepts(p) ==
  /\ Needs(p, "scaled", {"decoded"})
  /\ Needs(p, "lru", {"topology_vector"})
  /\ Needs(p, "page_batch", {"lru"})
  /\ Needs(p, "batch_search", {"lru", "page_batch"})
  /\ Needs(p, "pq_traversal", {"topology_vector"})
  /\ Needs(p, "refine", {"pq_traversal"})
  /\ Needs(p, "prefetch_hop", {"refine"})
  /\ Needs(p, "leaf_refine", {"pq_traversal", "lru"})
  /\ Bars(p, "leaf_refine", {"prefetch_hop"})
  /\ Prefetches \cap p # {} => "lru" \in p
  /\ Needs(p, "topology_vector", {"gateway_limit"})
  /\ Needs(p, "dynamic_width", {"width"})

(* configure_l_aware_refinement and configure_cell_pq_refine_min_l.            *)
RefinementConfigures(p) ==
  /\ Needs(p, "l_aware_budget", {"pq_traversal", "refine", "budget"})
  /\ Needs(p, "refine_min_l", {"refine"})

(* configure_cell_adj_correction to configure_ranked_cell_page_refinement, of a*)
(* search with the hierarchy.                                                  *)
HierarchyConfigures(p) ==
  /\ Needs(p, "adj", {"forced_tree", "topology_vector", "adj_budget"})
  /\ {"adj", "adj_wide"} \subseteq p => "adjacency" \in p
  /\ Needs(p, "interleaved", {"forced_tree", "batch_search", "pq_traversal", "interleave_hops"})
  /\ Needs(p, "preserve", {"forced_tree", "batch_search", "pq_traversal"})
  /\ Bars(p, "preserve", {"interleaved"})
  /\ Needs(p, "stitch_l", {"preserve"})
  /\ Needs(p, "ranked", {"forced_tree", "batch_search", "preserve", "pq_traversal", "ranked_pages"})
  /\ Bars(p, "ranked", {"leaf_refine", "ranked_over"})

ConfigureAccepts(p) == RefinementConfigures(p) /\ ("hybrid" \in p => HierarchyConfigures(p))
=============================================================================

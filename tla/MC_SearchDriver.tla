--------------------------- MODULE MC_SearchDriver ---------------------------
(***************************************************************************)
(* One thread's searches (MC_Search) or the search program around them:    *)
(* every combination within two switches of the supported ones is asked    *)
(* for, and a few calls with curves are measured on three queries.         *)
(***************************************************************************)
EXTENDS MC_Search, SearchCurve

VARIABLE part

Defaults == {"gateway_limit", "queue_depth", "width", "budget", "l_aware_max", "interleave_hops",
             "ranked_pages", "adj_budget", "memgraph_entries", "resident_path"}
Plain == Defaults \cup {"powerann"}
Communities1 == Plain \cup {"hybrid", "community_skip"}
Cells1 == Plain \cup {"hybrid", "cell_expansion", "whole_cell", "centroid_routing"}
Both1 == Communities1 \cup Cells1
Vectors == {"topology_vector", "cell_layout", "lru", "lru_pages"}
Paged == Vectors \cup Both1 \cup {"page_batch", "reset_lru"}
Batched == Paged \cup {"batch_search", "terminal", "hierarchical", "persisted"}
LAware == Vectors \cup Both1 \cup {"pq_traversal", "l_aware", "refine", "cell_u8", "page_batch"}
LAwareBare == (LAware \ {"refine", "cell_u8"}) \cup {"compressed"}
ForcedTree == (Batched \ {"community_skip"}) \cup
  {"forced_tree", "pq_traversal", "compressed", "preserve", "refine", "l_aware_budget"}
ForcedRanked == ForcedTree \cup {"ranked", "stitch_l", "resident_u8", "score_bits"}
ForcedLeaf == (ForcedTree \ {"compressed", "preserve", "batch_search"}) \cup
  {"leaf_refine", "stitch_promote", "adj", "scaled"}
Ringed == Vectors \cup Both1 \cup {"handoff", "io_uring", "dynamic_width"} \cup Prefetches
Adapting == Vectors \cup Communities1 \cup {"online"}
Chunked == (Ringed \ {"cell_layout"}) \cup {"chunk_layout", "paged_topology", "topology_cache"}
Remembered == Vectors \cup Communities1 \cup {"memgraph", "memgraph_nodes"}
RememberedCells == Vectors \cup Cells1 \cup {"memgraph", "memgraph_nodes"}

MCSupported == {Plain \ {"powerann"}, Communities1, Paged, Batched, LAware, LAwareBare, ForcedTree,
              ForcedRanked, ForcedLeaf, Ringed, Adapting, Chunked, Remembered}
MCSwitches == UNION MCSupported \cup {"interleaved", "filter", "dense", "decoded", "prefetch_hop",
  "refine_min_l", "weighted_reorder", "pq_approach", "l_aware_approach", "score_chunks", "score_limit",
  "resident_traversal", "ranked_over", "adj_wide", "adjacency", "io_paths", "polar_path"}
Search1(o, sizes) ==
  [NoJob EXCEPT !.o = o, !.sizes = sizes, !.l_aware_max = 2, !.cell_min = 3, !.lru_pages = 2, !.budget = 2,
                !.mode = "degree", !.cores = 1]
Measures(o, sizes) == [Search1(o, sizes) EXCEPT !.query_limit = 2]

\* The rules on the switches are those of the configuration they stand for.
WholeConfigValid(o) ==
  ValidConfig([Terminal EXCEPT
    !.hybrid = "hybrid" \in o, !.community_skip = "community_skip" \in o,
    !.community_budget = 2, !.gateway_budget = 2, !.gateway_batch_cap = 2,
    !.pq_approach_hops = IF "pq_approach" \in o THEN 1 ELSE 0,
    !.cell_expansion = "cell_expansion" \in o, !.whole_cell = "whole_cell" \in o,
    !.centroid_routing = "centroid_routing" \in o, !.handoff = "handoff" \in o,
    !.terminal = "terminal" \in o, !.hierarchical = "hierarchical" \in o,
    !.l_aware_approach = "l_aware_approach" \in o, !.stitch_promote = "stitch_promote" \in o])

MCCall(o, L) == [Search1(o, <<L>>) EXCEPT !.tried = TRUE]
MCTriedSizes == {2, 4}

ASSUME RulesAreThoseOfTheConfig ==
  \A a \in Tried : PolarRules(a.o) <=>
    WholeConfigValid(a.o) /\ ("hybrid" \in a.o => Needs(a.o, "persisted", {"hierarchical"}))

MCCalls ==
  {[Measures(o, x[1]) EXCEPT !.warmup_query_offset = 1, !.warmup_query_count = x[2]] :
            o \in {Paged, Paged \ {"reset_lru"}, Paged \ {"community_skip"}, ForcedTree, LAware, LAwareBare},
            x \in {<<<<1, 2>>, 0>>, <<<<1, 2>>, 2>>, <<<<2, 4>>, 0>>, <<<<3, 4>>, 2>>}}
    \cup {[Measures(o, <<4>>) EXCEPT !.threads = <<1, 2>>, !.warmup_query_offset = 2, !.warmup_query_count = 1] : o \in {Paged, Communities1, ForcedTree}}
    \cup {[Measures(x[1], <<x[2]>>) EXCEPT !.pages = <<1, 3>>, !.warmup_query_offset = 2, !.warmup_query_count = w] :
            x \in {<<Paged, 4>>, <<Paged \ {"reset_lru"}, 4>>, <<Plain, 4>>, <<LAwareBare, 2>>}, w \in {0, 1}}
    \cup {[Measures(x[1], <<4>>) EXCEPT !.outputs = x[2]] :
            x \in {<<Both1, {"oracle"}>>, <<Paged, {"cell_value", "base_trace"}>>, <<Both1, {"gateway_value"}>>}}
    \cup {[Measures(Paged, <<4>>) EXCEPT !.query_offset = 2], [Measures(Paged, <<4>>) EXCEPT !.query_limit = 0],
          [Measures(Paged, <<4>>) EXCEPT !.query_offset = 5],
          [Measures(Paged, <<4>>) EXCEPT !.warmup_query_offset = 3, !.warmup_query_count = 2],
          [Measures(Paged, <<4>>) EXCEPT !.k = 5], [Measures(Paged, <<4>>) EXCEPT !.k = 4],
          [Measures(Paged, <<4>>) EXCEPT !.saves = FALSE, !.outputs = {"node_visit"}, !.query_offset = 4, !.truth = FALSE],
          [Measures(Chunked \cup {"ranked_over"}, <<4>>) EXCEPT !.inputs = FALSE]}
    \cup {Measures(Paged \cup {"handoff"}, x) : x \in {<<1, 2>>, <<2, 4>>, <<2>>}}
    \cup {Measures(Batched, <<1, 4>>),
          [Measures(RememberedCells, <<1, 2>>) EXCEPT !.mode = "community", !.budget = 1]}
    \cup {[Search1(Remembered, <<4>>) EXCEPT !.mode = m, !.tried = TRUE] :
            m \in {"random", "community", "degree", "rcni"}}

MCReads == <<<<1, 2>>, <<2, 3>>, <<3, 1>>, <<1>>>>
MCCellRanges == <<[first |-> 0, count |-> 1, nodes |-> 3], [first |-> 1, count |-> 2, nodes |-> 5],
                  [first |-> 3, count |-> 1, nodes |-> 1]>>
MCNodeDegree == [n \in 0 .. 3 |-> <<2, 3, 2, 1>>[n + 1]]
MCNodeKey == [n \in 0 .. 3 |-> <<7, 5, 9, 5>>[n + 1]]
MCVectorFile == [pages |-> 4, layout |-> "cell_layout", sidecar |-> 7, hints |-> 2, place |-> [n \in 0 .. 3 |-> n]]
MCSidecar == [id |-> 7, nodes |-> 4, width |-> 2, gateways |-> 2, prominent |-> <<2, 0, 2, 3>>]
MCLoadedIndex == [chunks |-> 2, degree |-> 3, resident |-> 4]
MCRcniRows == <<<<2, 4>>, <<0, 1>>, <<3, 4>>, <<1, 9>>>>

BeamVars == <<q, s, phase, done>>
DriverInit ==
  \/ part = "beam" /\ Init /\ CurveInit
  \/ part = "curve" /\ CurveInit /\ q = Idle /\ s = EmptyQueryState /\ phase = "off" /\ done = 0
Rests == IF part = "beam" THEN phase = "idle" /\ done = MaxQueries ELSE act = "idle" /\ calls = MaxCalls
DriverNext ==
  /\ part' = part
  /\ \/ part = "beam" /\ Next /\ UNCHANGED curveVars
     \/ part = "curve" /\ CurveNext /\ UNCHANGED BeamVars
     \/ Rests /\ UNCHANGED <<BeamVars, curveVars>>
DriverSpec == DriverInit /\ [][DriverNext]_<<q, s, phase, done, curveVars, part>> /\ WF_phase(Onward)
=============================================================================

------------------------ MODULE CommunityPolarBuild ------------------------
(***************************************************************************)
(* build_community_polar_index and finalize, then the two repacks, as the  *)
(* stages they run through: the partition graph, KaMinPar's partition, the *)
(* community records, the workers that scan the cross-community edges for  *)
(* gateways, the cells, the hierarchy, the packets and the validation that *)
(* guards the sidecar (src/index/community_polar_index.cc).                *)
(***************************************************************************)
EXTENDS CommunityPolarIndex

CONSTANTS
  Inputs,           \* records [graph, position, rcni, from_disk, max_degree]: a Base index with
                    \* the rows <<node, importance>> of its RCNI file
  Configs,          \* build configurations
  Selections,       \* gateway selection files: rows [pair, node, rank]
  Profiles,         \* convergence cell profiles: rows [node, community, cell, order]
  RepackConfigs,    \* configurations an adjacent repack may be asked for
  LocalityCells,    \* node orders of PQ-locality profiles, cut into cells
  Workers           \* partition_threads

VARIABLES stage, input, config, selection, profile, projection, pairs, partition, scanned,
          internal, shortlist, crossing, index, source

buildVars == <<stage, input, config, selection, profile, projection, pairs, partition, scanned,
               internal, shortlist, crossing, index, source>>

WorkerIds == 0 .. Workers - 1
Full == NodeCount   \* projection degree of FULL_RECIPROCAL_VAMANA: no bound

(***************************************************************************)
(* The input files.                                                        *)
(***************************************************************************)
\* disk_post_link_graph_view_t: a record's degree and neighbours are checked
\* while a Base index is read back from its file.
DiskGraphRefused(in) ==
  in.from_disk /\ \E n \in Nodes :
    \/ Len(in.graph[n]) \notin 1 .. in.max_degree
    \/ ~ ToSet(in.graph[n]) \subseteq Nodes

\* Of rows that name nodes: one is out of range, repeated, or missing.
CoverageRefused(named) == Len(named) # NodeCount \/ ToSet(named) # Nodes

\* read_rcni_importance_csv and importance_by_node.
RcniRefused(rows) == CoverageRefused([i \in DOMAIN rows |-> rows[i][1]])
Importance(rows) ==
  [n \in Nodes |-> rows[CHOOSE i \in DOMAIN rows : rows[i][1] = n][2]]

\* The rows of a superedge, by rank and node.
RankedRows(rows, p) ==
  Ordered({r \in ToSet(rows) : r.pair = p}, LAMBDA a, b :
            a.rank < b.rank \/ (a.rank = b.rank /\ a.node < b.node))

\* load_gateway_selection: too many rows, ranks that do not count from 0, or
\* one node at two adjacent ranks.
SelectionRowsRefused(rows, count) ==
  \E p \in {r.pair : r \in ToSet(rows)} :
    LET ranked == RankedRows(rows, p)
    IN  \/ Len(ranked) > count
        \/ \E i \in DOMAIN ranked :
             ranked[i].rank # i - 1 \/ (i > 1 /\ ranked[i - 1].node = ranked[i].node)

GatewaySelection(rows) ==
  [p \in {r.pair : r \in ToSet(rows)} |->
     [i \in DOMAIN RankedRows(rows, p) |-> RankedRows(rows, p)[i].node]]

\* load_convergence_cell_profile, for the partitions that have one.
ProfileRefused(rows) == CoverageRefused([i \in DOMAIN rows |-> rows[i].node])
Assignments(rows) ==
  [n \in Nodes |-> LET r == CHOOSE r \in ToSet(rows) : r.node = n
                   IN  [community |-> r.community, cell |-> r.cell, order |-> r.order]]

\* A PQ-locality profile: offsets that cover nonempty cells, every node owned
\* once, the target size of the configuration.
LocalityRefused(cells, cfg) ==
  \/ cells.target # cfg.cell_target
  \/ \E c \in DOMAIN cells.nodes : cells.nodes[c] = <<>>
  \/ CoverageRefused(FlattenSeq(cells.nodes))

(***************************************************************************)
(* The partition graph.                                                    *)
(***************************************************************************)
\* An edge to the node itself, or one listed twice.
BadEdges(graph, n) ==
  \/ n \in ToSet(graph[n])
  \/ Cardinality(ToSet(graph[n])) # Len(graph[n])

\* The bounded projection also refuses a node without neighbours.
ProjectionRefused(graph, degree) ==
  \E n \in Nodes : BadEdges(graph, n) \/ (degree # Full /\ graph[n] = <<>>)

\* projected_neighbors: the degree nearest, ties to the smaller id.
Projected(in, degree, n) ==
  LET distance(m) == (in.position[n] - in.position[m]) * (in.position[n] - in.position[m])
      ranked == Ordered(ToSet(in.graph[n]), LAMBDA a, b :
                  distance(a) < distance(b) \/ (distance(a) = distance(b) /\ a < b))
  IN  {ranked[i] : i \in 1 .. Min({degree, Len(ranked)})}

\* Bounded path: each row emits a pair unless the other row, the smaller
\* node's, emits it; a pair both rows hold weighs 2.
BoundedPairs(row) ==
  {[by |-> n, pair |-> {n, t}, weight |-> IF n \in row[t] THEN 2 ELSE 1] :
     <<n, t>> \in {e \in Nodes \X Nodes :
                     /\ e[2] \in row[e[1]]
                     /\ e[1] < e[2] \/ e[1] \notin row[e[2]]}}

\* Full path: the undirected keys of all edges, sorted and counted.
CountedPairs(row) ==
  LET keys == {e \in Nodes \X Nodes : e[2] \in row[e[1]]}
  IN  {[by |-> Min(pair), pair |-> pair,
        weight |-> Cardinality({e \in keys : {e[1], e[2]} = pair})] :
         pair \in {{e[1], e[2]} : e \in keys}}

(***************************************************************************)
(* Gateways.                                                               *)
(***************************************************************************)
BetterGateway(in, a, b) ==
  \/ in.importance[a.target] > in.importance[b.target]
  \/ in.importance[a.target] = in.importance[b.target] /\ a.target < b.target

\* Mutant of Consider: a full list takes no further candidate.
Consider_FullIsClosed(in, bound, list, candidate) ==
  LET position == Cardinality({i \in DOMAIN list : BetterGateway(in, list[i], candidate)}) + 1
      grown == InsertAt(list, position, candidate)
  IN  IF position <= Len(list) /\ list[position].target = candidate.target
      THEN [list EXCEPT ![position].source = Min({@, candidate.source})]
      ELSE IF Len(list) = bound THEN list ELSE grown

\* consider_gateway: a sorted list of at most gateway_shortlist targets,
\* each with its smallest source.
Consider(in, bound, list, candidate) ==
  LET position == Cardinality({i \in DOMAIN list : BetterGateway(in, list[i], candidate)}) + 1
      grown == InsertAt(list, position, candidate)
  IN  IF Len(list) = bound /\ BetterGateway(in, list[Len(list)], candidate) THEN list
      ELSE IF position <= Len(list) /\ list[position].target = candidate.target
           THEN [list EXCEPT ![position].source = Min({@, candidate.source})]
           ELSE SubSeq(grown, 1, Min({bound, Len(grown)}))

\* The candidates of select_gateways: each target once, with its smallest
\* source, best first.
Candidates(in, arcs) ==
  LET targets == {a.target : a \in arcs}
      candidate(t) == [source |-> Min({a.source : a \in {b \in arcs : b.target = t}}),
                       target |-> t]
  IN  Ordered({candidate(t) : t \in targets}, LAMBDA a, b : BetterGateway(in, a, b))

\* 1 - the largest dot product with a chosen direction; 0 without one.
Separation(in, part, c, candidate, chosen) ==
  LET d == Direction(in, part, c, candidate.target)
      dots == {d * Direction(in, part, c, g.target) :
                 g \in {h \in ToSet(chosen) : Direction(in, part, c, h.target) # 0}}
  IN  IF d = 0 \/ dots = {} THEN 0 ELSE 1 - Max(dots)

RECURSIVE Fill(_, _, _, _, _, _)
Fill(in, part, c, pool, chosen, count) ==
  LET free == ToSet(pool) \ ToSet(chosen)
      apart(g) == Separation(in, part, c, g, chosen)
      best == CHOOSE g \in free : \A h \in free \ {g} :
                apart(g) > apart(h) \/ (apart(g) = apart(h) /\ BetterGateway(in, g, h))
  IN  IF Len(chosen) >= count THEN chosen
      ELSE Fill(in, part, c, pool, Append(chosen, best), count)

\* select_gateways into community c: the profiled targets, or else the best
\* candidate, then the ones that point most away from those chosen.
SelectGateways(in, cfg, part, c, arcs, profiled) ==
  LET candidates == Candidates(in, arcs)
      named == [i \in DOMAIN profiled |->
                  CHOOSE g \in ToSet(candidates) : g.target = profiled[i]]
      first == IF named = <<>> THEN <<candidates[1]>> ELSE named
      pool == SubSeq(candidates, 1, Min({cfg.gateway_shortlist, Len(candidates)}))
  IN  Fill(in, part, c, pool, first, Min({cfg.gateway_count, Len(candidates)}))

\* The arcs of the graph from one community to another.
CrossArcs(in, part, s, t) ==
  {a \in [source : NodesOf(part, s), target : NodesOf(part, t)] :
     a.target \in ToSet(in.graph[a.source])}

Pairs == {p \in Communities \X Communities : p[1] # p[2]}

\* A selection names a target outside its superedge, or one target twice.
SelectionRefused(in, part, chosen) ==
  \E p \in DOMAIN chosen :
    LET targets == {a.target : a \in CrossArcs(in, part, p[1], p[2])}
    IN  /\ targets # {}
        /\ \/ ~ ToSet(chosen[p]) \subseteq targets
           \/ Cardinality(ToSet(chosen[p])) # Len(chosen[p])

(***************************************************************************)
(* The stages.                                                             *)
(***************************************************************************)
NoRows == [n \in Nodes |-> {}]
NoPartition == [n \in Nodes |-> Unset]
NoLists == [w \in WorkerIds |-> [p \in Pairs |-> <<>>]]
NoCrossing == [w \in WorkerIds |-> [p \in Pairs |-> 0]]
NoInternal == [w \in WorkerIds |-> [c \in Communities |-> 0]]

UsesProfile(cfg) == cfg.cell_partition \in {"CONVERGENCE_COACCESS", "GLOBAL_GEOMETRIC"}

BuildInit ==
  /\ stage = "inputs"
  /\ input \in {[importance |-> <<>>] @@ in : in \in Inputs}
  /\ config \in Configs
  /\ selection \in Selections
  /\ profile \in IF UsesProfile(config) THEN Profiles ELSE {<<>>}
  /\ projection = NoRows /\ pairs = {}
  /\ partition = NoPartition
  /\ scanned = [w \in WorkerIds |-> w]
  /\ internal = NoInternal /\ shortlist = NoLists /\ crossing = NoCrossing
  /\ index = EmptyIndex /\ source = EmptyIndex

graphVars == <<projection, pairs>>
scanVars == <<scanned, internal, shortlist, crossing>>
inputVars == <<input, config, selection, profile>>

Fail == stage' = "failed"

\* The configuration and the input files, read and checked before anything
\* is built.
LoadInputs ==
  /\ stage = "inputs"
  /\ IF \/ config.gateway_shortlist < config.gateway_count
        \/ CommunityCount > NodeCount
        \/ DiskGraphRefused(input)
        \/ RcniRefused(input.rcni)
        \/ SelectionRowsRefused(selection, config.gateway_count)
        \/ UsesProfile(config) /\ ProfileRefused(profile)
     THEN Fail /\ UNCHANGED <<input, selection, profile>>
     ELSE /\ stage' = "start"
          /\ input' = [input EXCEPT !.importance = Importance(input.rcni)]
          /\ selection' = GatewaySelection(selection)
          /\ profile' = IF UsesProfile(config) THEN Assignments(profile) ELSE <<>>
  /\ UNCHANGED <<config, graphVars, partition, scanVars, index, source>>

\* build_partition_graph, whose exceptions end the build.
BuildPartitionGraph ==
  /\ stage = "start"
  /\ IF ProjectionRefused(input.graph, config.projection)
     THEN Fail /\ UNCHANGED graphVars
     ELSE /\ stage' = "graph"
          /\ projection' = [n \in Nodes |-> Projected(input, config.projection, n)]
          /\ pairs' = IF config.projection = Full THEN CountedPairs(projection')
                      ELSE BoundedPairs(projection')
  /\ UNCHANGED <<inputVars, partition, scanVars, index, source>>

\* canonicalize_partition: communities renumbered by their smallest node.
Canonical(raw) ==
  LET minimum(b) == Min({n \in Nodes : raw[n] = b})
      order == Ordered(Communities, LAMBDA a, b : minimum(a) < minimum(b))
  IN  [n \in Nodes |-> (CHOOSE i \in 1 .. CommunityCount : order[i] = raw[n]) - 1]

\* compute_partition: any blocks; an empty one is refused.
Partition ==
  /\ stage = "graph"
  /\ \E raw \in [Nodes -> Communities] :
       IF {raw[n] : n \in Nodes} # Communities
       THEN Fail /\ UNCHANGED partition
       ELSE stage' = "partitioned" /\ partition' = Canonical(raw)
  /\ UNCHANGED <<inputVars, graphVars, scanVars, index, source>>

\* The navigation hub: the most important node, the smaller id on a tie.
Hub(in, members) ==
  CHOOSE h \in members : \A n \in members \ {h} :
    \/ in.importance[h] > in.importance[n]
    \/ in.importance[h] = in.importance[n] /\ h < n

BuildCommunities ==
  /\ stage = "partitioned"
  /\ stage' = "scan"
  /\ index' = [index EXCEPT
       !.node_to_community = partition,
       !.communities = [i \in 1 .. CommunityCount |->
          LET members == NodesOf(partition, i - 1)
          IN  [node_count |-> Cardinality(members), minimum |-> Min(members),
               hub |-> Hub(input, members), sector_begin |-> 0, sector_count |-> 0,
               cell_begin |-> 0, cell_count |-> 0, graph_only |-> FALSE,
               internal |-> 0, outgoing |-> 0, incoming |-> 0]]]
  /\ UNCHANGED <<inputVars, graphVars, partition, scanVars, source>>

\* A worker scans its next node: every thread_count-th, into its own lists.
ScanNode(w) ==
  /\ stage = "scan" /\ selection = <<>>
  /\ scanned[w] < NodeCount
  /\ LET n == scanned[w]
         pairOf(t) == <<partition[n], partition[t]>>
         outside == SelectSeq(input.graph[n], LAMBDA t : partition[t] # partition[n])
         add(lists, t) == [lists EXCEPT ![pairOf(t)] =
                             Consider(input, config.gateway_shortlist, @,
                                      [source |-> n, target |-> t])]
     IN  /\ internal' = [internal EXCEPT ![w][partition[n]] =
                            @ + Len(input.graph[n]) - Len(outside)]
         /\ crossing' = [crossing EXCEPT ![w] = [p \in Pairs |->
                            @[p] + Cardinality({i \in DOMAIN outside : pairOf(outside[i]) = p})]]
         /\ shortlist' = [shortlist EXCEPT ![w] = FoldLeft(add, @, outside)]
  /\ scanned' = [scanned EXCEPT ![w] = @ + Workers]
  /\ UNCHANGED <<stage, inputVars, graphVars, partition, index, source>>

\* The community pairs by source, then target.
PairOrder ==
  Ordered(Pairs, LAMBDA p, q : p[1] < q[1] \/ (p[1] = q[1] /\ p[2] < q[2]))

\* One superedge, with its gateways and the counts of its two communities.
AppendEdge(ix, s, t, cross, gateways) ==
  [ix EXCEPT
     !.edges = Append(@, [source |-> s, target |-> t, cross |-> cross,
                          gateway_begin |-> Len(ix.gateways), gateway_count |-> Len(gateways)]),
     !.gateways = @ \o [g \in DOMAIN gateways |->
                           [source |-> gateways[g].source, target |-> gateways[g].target,
                            packet |-> 0]],
     !.communities[s + 1].outgoing = @ + cross,
     !.communities[t + 1].incoming = @ + cross]

\* The workers' lists of a pair, merged in worker order.
MergedList(p) ==
  FoldLeft(LAMBDA list, w : FoldLeft(LAMBDA l, g : Consider(input, config.gateway_shortlist, l, g),
                                     list, shortlist[w][p]),
           <<>>, [i \in 1 .. Workers |-> i - 1])

MergeShortlists ==
  /\ stage = "scan" /\ selection = <<>>
  /\ \A w \in WorkerIds : scanned[w] >= NodeCount
  /\ stage' = "gateways"
  /\ LET cross(p) == MapThenSumSet(LAMBDA w : crossing[w][p], WorkerIds)
         edge(ix, p) ==
           IF cross(p) = 0 THEN ix
           ELSE AppendEdge(ix, p[1], p[2], cross(p),
                  SelectGateways(input, config, partition, p[2], ToSet(MergedList(p)), <<>>))
         counted == [index EXCEPT !.communities = [i \in 1 .. CommunityCount |->
                       [@[i] EXCEPT !.internal =
                          MapThenSumSet(LAMBDA w : internal[w][i - 1], WorkerIds)]]]
     IN  index' = FoldLeft(edge, counted, PairOrder)
  /\ UNCHANGED <<inputVars, graphVars, partition, scanVars, source>>

\* Arcs between two communities, counted edge by edge.
ArcCount(s, t) ==
  MapThenSumSet(LAMBDA n : Len(SelectSeq(input.graph[n], LAMBDA m : partition[m] = t)),
                NodesOf(partition, s))

\* The complete-arc path of a gateway selection file.
SelectFromArcs ==
  /\ stage = "scan" /\ selection # <<>>
  /\ IF SelectionRefused(input, partition, selection)
     THEN Fail /\ UNCHANGED index
     ELSE LET named(p) == IF p \in DOMAIN selection THEN selection[p] ELSE <<>>
              edge(ix, p) ==
                IF ArcCount(p[1], p[2]) = 0 THEN ix
                ELSE AppendEdge(ix, p[1], p[2], ArcCount(p[1], p[2]),
                       SelectGateways(input, config, partition, p[2],
                                      CrossArcs(input, partition, p[1], p[2]), named(p)))
              counted == [index EXCEPT !.communities = [i \in 1 .. CommunityCount |->
                            [@[i] EXCEPT !.internal = ArcCount(i - 1, i - 1)]]]
          IN  stage' = "gateways" /\ index' = FoldLeft(edge, counted, PairOrder)
  /\ UNCHANGED <<inputVars, graphVars, partition, scanVars, source>>

\* The cell builder the configuration names; a refused profile ends the build.
BuildCells ==
  /\ stage = "gateways"
  /\ \/ /\ config.cell_partition = "GRAPH_LOCAL"
        /\ stage' = "cells" /\ index' = BuildGraphLocalCells(input, config, index)
     \/ /\ config.cell_partition = "GLOBAL_GRAPH_LOCAL"
        /\ stage' = "cells" /\ index' = BuildGlobalGraphLocalCells(input, config, index)
     \/ /\ config.cell_partition = "POLAR_RADIAL"
        /\ stage' = "cells" /\ index' = BuildCommunityPolarCells(input, config, index)
     \/ /\ config.cell_partition = "CONVERGENCE_COACCESS"
        /\ IF ConvergenceRefused(profile, config, index)
           THEN Fail /\ UNCHANGED index
           ELSE stage' = "cells" /\ index' = BuildConvergenceCoaccessCells(profile, config, index)
     \/ /\ config.cell_partition = "GLOBAL_GEOMETRIC"
        /\ IF GeometricRefused(profile, config)
           THEN Fail /\ UNCHANGED index
           ELSE stage' = "cells" /\ index' = BuildGlobalGeometricCells(profile, config, index)
  /\ UNCHANGED <<inputVars, graphVars, partition, scanVars, source>>

\* The end of build_community_polar_index: the hierarchy if asked for, the
\* coverage check (a logic_error) and the gateways' packets.
FinishBuild ==
  /\ stage = "cells"
  /\ LET tree == IF config.hierarchy THEN BuildContiguousCellHierarchy(config, index) ELSE index
     IN  /\ index' = RelinkGateways(tree)
         /\ stage' = IF /\ Len(tree.packets) = NodeCount
                        /\ \A n \in Nodes : tree.node_to_cell[n] # Unset
                        /\ \A n \in Nodes : tree.node_to_packet[n] # Unset
                     THEN "built" ELSE "uncovered"
  /\ UNCHANGED <<inputVars, graphVars, partition, scanVars, source>>

\* finalize_community_polar_index: what validation refuses is not written.
Finalize ==
  /\ stage = "built"
  /\ stage' = IF Valid(config, index) THEN "written" ELSE "refused"
  /\ UNCHANGED <<inputVars, graphVars, partition, scanVars, index, source>>

\* Repacking the sidecar's adjacent graph-local cells under another
\* configuration; the packets keep their places.
RepackAdjacent ==
  /\ stage = "written" /\ config.cell_partition = "GRAPH_LOCAL"
  /\ \E new \in RepackConfigs :
       /\ config' = new
       /\ source' = index
       /\ IF AdjacentRefused(index, new)
          THEN Fail /\ UNCHANGED index
          ELSE /\ index' = RelinkGateways(RepackAdjacentGraphLocalCells(index, new))
               /\ stage' = IF Valid(new, index') THEN "repacked" ELSE "refused"
  /\ UNCHANGED <<input, selection, profile, graphVars, partition, scanVars>>

\* Repacking along a PQ-locality profile, whose cells are checked against
\* the capacity one by one.
RepackPqLocality ==
  /\ stage = "written"
  /\ \E cells \in LocalityCells :
       /\ config' = [config EXCEPT !.cell_partition = "GLOBAL_GEOMETRIC"]
       /\ source' = index
       /\ IF LocalityRefused(cells, config) \/ TooLarge(cells.nodes, config.cell_target)
          THEN Fail /\ UNCHANGED index
          ELSE /\ index' = RepackPqLocalityCells(index, config', cells.nodes)
               /\ stage' = IF Valid(config', index') THEN "repacked" ELSE "refused"
  /\ UNCHANGED <<input, selection, profile, graphVars, partition, scanVars>>

Terminal == {"failed", "uncovered", "refused", "repacked"}

BuildStep ==
  \/ LoadInputs \/ BuildPartitionGraph \/ Partition \/ BuildCommunities
  \/ \E w \in WorkerIds : ScanNode(w)
  \/ MergeShortlists \/ SelectFromArcs
  \/ BuildCells \/ FinishBuild \/ Finalize
  \/ RepackAdjacent \/ RepackPqLocality

BuildSpec == BuildInit /\ [][BuildStep]_buildVars

(***************************************************************************)
(* Properties.                                                             *)
(***************************************************************************)
\* "A target absent from a worker's top-k cannot be in the global top-k, so
\* this produces the same Gateway candidates as the full sort": the gateways
\* the bounded per-worker lists lead to are those of the complete arcs, the
\* smallest source of each target included.
GatewaysAsFullSort ==
  stage = "gateways" /\ selection = <<>> =>
    \A e \in DOMAIN index.edges :
      LET edge == index.edges[e]
          chosen == SelectGateways(input, config, partition, edge.target,
                      CrossArcs(input, partition, edge.source, edge.target), <<>>)
      IN  /\ edge.gateway_count = Len(chosen)
          /\ \A g \in 1 .. Len(chosen) :
               LET gateway == index.gateways[edge.gateway_begin + g]
               IN  gateway.source = chosen[g].source /\ gateway.target = chosen[g].target

\* Equal radii in one sector may make a radial bin larger than a cell.
RadiiTie ==
  /\ config.cell_partition = "POLAR_RADIAL"
  /\ \E m, n \in Nodes : /\ m # n /\ partition[m] = partition[n]
                         /\ Radius(input, partition, partition[m], m)
                              = Radius(input, partition, partition[n], n)

\* Blocks are copied as they are, so they must fit the repack's block size.
BlocksShrink ==
  source # EmptyIndex /\ \E b \in DOMAIN source.blocks : source.blocks[b].count > config.block_target

\* What the builders and the repacks make, validate_loaded_index accepts: the
\* ranges tile, every node has one owner, gateways point at their packets and
\* the hierarchy covers every cell once.  The two exceptions, which the code
\* does meet, end in a refusal and never in a written sidecar.
BuiltIndexIsValid ==
  /\ stage # "uncovered"
  /\ stage = "refused" => RadiiTie \/ BlocksShrink
=============================================================================

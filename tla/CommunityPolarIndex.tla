------------------------ MODULE CommunityPolarIndex ------------------------
(***************************************************************************)
(* The in-memory Community-Polar hierarchy: what it holds, how the cell    *)
(* builders lay nodes out in cells, blocks and packets, and what           *)
(* validate_loaded_index demands of it (src/index/community_polar_index.cc).*)
(*                                                                         *)
(* Vectors have one dimension, so a node is an integer position, a pole    *)
(* the mean of its community and a unit direction a sign.  Radii are kept  *)
(* times the size of their community, which orders them as the code's.     *)
(* The ids of the code are 0-based; entry i of a vector is element i + 1   *)
(* of a sequence here.                                                     *)
(***************************************************************************)
EXTENDS Integers, FiniteSets, Sequences, SequencesExt, FiniteSetsExt

CONSTANTS
  NodeCount,        \* points of the Base graph
  CommunityCount    \* config.community_count

ASSUME SizesAssumption ==
  NodeCount \in Nat \ {0} /\ CommunityCount \in 1 .. NodeCount

Nodes == 0 .. NodeCount - 1
Communities == 0 .. CommunityCount - 1
Unset == -1         \* numeric_limits<uint32_t>::max() of the directories
PoleSector == -1    \* k_pole_sector_id

Abs(x) == IF x < 0 THEN -x ELSE x
CeilDiv(a, b) == (a + b - 1) \div b

\* The elements of S, sorted by the strict total order Less.
Ordered(S, Less(_, _)) ==
  [i \in 1 .. Cardinality(S) |->
     CHOOSE x \in S : Cardinality({y \in S : Less(y, x)}) = i - 1]

NodesOf(partition, c) == {n \in Nodes : partition[n] = c}

(***************************************************************************)
(* Poles, radii and directions.                                            *)
(***************************************************************************)
PoleSum(input, partition, c) ==
  MapThenSumSet(LAMBDA n : input.position[n], NodesOf(partition, c))

\* compute_radius, times the size of the community.
Radius(input, partition, c, n) ==
  Abs(Cardinality(NodesOf(partition, c)) * input.position[n] - PoleSum(input, partition, c))

\* compute_unit_direction: 0 when the node sits on the pole.
Direction(input, partition, c, n) ==
  LET offset == Cardinality(NodesOf(partition, c)) * input.position[n]
                  - PoleSum(input, partition, c)
  IN  IF offset > 0 THEN 1 ELSE IF offset < 0 THEN -1 ELSE 0

(***************************************************************************)
(* The index under construction.                                           *)
(***************************************************************************)
EmptyIndex ==
  [communities |-> <<>>, edges |-> <<>>, gateways |-> <<>>, sectors |-> <<>>, cells |-> <<>>,
   blocks |-> <<>>, packets |-> <<>>, centroids |-> 0,
   node_to_community |-> [n \in Nodes |-> Unset], node_to_cell |-> [n \in Nodes |-> Unset],
   node_to_packet |-> [n \in Nodes |-> Unset],
   tree |-> <<>>, roots |-> <<>>]

\* The block loop shared by append_cell_blocks and append_graph_local_cell:
\* a cell's nodes in order, block_target_size to a block, one packet each.
AppendCell(index, config, community, sector, nodes) ==
  LET id == Len(index.cells)
      first == Len(index.packets)
      size == config.block_target
      count == CeilDiv(Len(nodes), size)
      blocks == [b \in 1 .. count |->
                   [cell |-> id, begin |-> first + (b - 1) * size,
                    count |-> Min({size, Len(nodes) - (b - 1) * size})]]
      at(n) == first + (CHOOSE i \in 1 .. Len(nodes) : nodes[i] = n) - 1
  IN  [index EXCEPT
         !.cells = Append(@, [community |-> community, sector |-> sector, count |-> Len(nodes),
                              capacity |-> config.cell_target, block_begin |-> Len(index.blocks),
                              block_count |-> count]),
         !.blocks = @ \o blocks,
         !.packets = @ \o nodes,
         !.node_to_cell = [n \in Nodes |-> IF n \in ToSet(nodes) THEN id ELSE @[n]],
         !.node_to_packet = [n \in Nodes |-> IF n \in ToSet(nodes) THEN at(n) ELSE @[n]]]

\* append_graph_local_cell: a cell of the pole sector, with its centroid.
AppendGraphLocalCell(index, config, community, nodes) ==
  IF nodes = <<>> THEN index
  ELSE [AppendCell(index, config, community, PoleSector, nodes) EXCEPT !.centroids = @ + 1]

\* The sector that ends a community whose cells start at cell_begin.
CloseSector(index, community, count, sector, cell_begin) ==
  [index EXCEPT !.sectors = Append(@, [community |-> community, sector |-> sector,
                                       count |-> count, cell_begin |-> cell_begin,
                                       cell_count |-> Len(index.cells) - cell_begin])]

\* A community's cell and sector ranges once its last cell is in place.
CloseCommunity(before, index, c, graph_only) ==
  [index EXCEPT !.communities[c + 1] =
     [@ EXCEPT !.sector_begin = Len(before.sectors),
               !.sector_count = Len(index.sectors) - Len(before.sectors),
               !.cell_begin = Len(before.cells),
               !.cell_count = Len(index.cells) - Len(before.cells),
               !.graph_only = graph_only]]

\* Cells that all belong to community 0 (the global partitions): the other
\* communities get empty ranges at the end.
CloseGlobal(index) ==
  LET closed == CloseSector(index, 0, NodeCount, PoleSector, 0)
  IN  [closed EXCEPT !.communities = [i \in 1 .. CommunityCount |->
         [@[i] EXCEPT !.sector_begin = IF i = 1 THEN 0 ELSE 1,
                      !.sector_count = IF i = 1 THEN 1 ELSE 0,
                      !.cell_begin = IF i = 1 THEN 0 ELSE Len(index.cells),
                      !.cell_count = IF i = 1 THEN Len(index.cells) ELSE 0]]]

\* Cells one after the other, each a sequence of nodes, for one community.
AppendCells(index, config, community, cells) ==
  FoldLeft(LAMBDA ix, nodes : AppendGraphLocalCell(ix, config, community, nodes), index, cells)

(***************************************************************************)
(* Graph-local cells: greedy growth from seeds by degree.                  *)
(***************************************************************************)
\* Undirected neighbours of n inside its community.
LocalAdjacency(input, partition, n) ==
  {m \in NodesOf(partition, partition[n]) :
     m \in ToSet(input.graph[n]) \/ n \in ToSet(input.graph[m])}

\* The frontier's best node: most edges into the cluster, then degree, then
\* the smaller id.  The queue's stale entries are skipped, so only the
\* current affinities count.
Best(input, partition, cluster, free) ==
  LET affinity(n) == Cardinality(LocalAdjacency(input, partition, n) \cap cluster)
      degree(n) == Cardinality(LocalAdjacency(input, partition, n))
      better(a, b) == \/ affinity(a) > affinity(b)
                      \/ affinity(a) = affinity(b) /\ degree(a) > degree(b)
                      \/ affinity(a) = affinity(b) /\ degree(a) = degree(b) /\ a < b
      frontier == {n \in free : affinity(n) > 0}
  IN  {n \in frontier : \A m \in frontier \ {n} : better(n, m)}

RECURSIVE Grow(_, _, _, _, _)
Grow(input, partition, target, cluster, free) ==
  LET best == Best(input, partition, ToSet(cluster), free)
  IN  IF Len(cluster) >= target \/ best = {} THEN cluster
      ELSE LET n == CHOOSE b \in best : TRUE
           IN  Grow(input, partition, target, Append(cluster, n), free \ {n})

\* The clusters of a community, from the unassigned seed of highest degree.
RECURSIVE Clusters(_, _, _, _)
Clusters(input, partition, target, free) ==
  IF free = {} THEN <<>>
  ELSE LET degree(n) == Cardinality(LocalAdjacency(input, partition, n))
           seed == CHOOSE s \in free : \A n \in free \ {s} :
                     degree(s) > degree(n) \/ (degree(s) = degree(n) /\ s < n)
           cluster == Grow(input, partition, target, <<seed>>, free \ {seed})
       IN  <<cluster>> \o Clusters(input, partition, target, free \ ToSet(cluster))

BuildGraphLocalCells(input, config, index) ==
  LET part == index.node_to_community
      community(ix, c) ==
        LET cells == AppendCells(ix, config, c,
                       Clusters(input, part, config.cell_target, NodesOf(part, c)))
            closed == CloseSector(cells, c, Cardinality(NodesOf(part, c)), PoleSector,
                                  Len(ix.cells))
        IN  CloseCommunity(ix, closed, c, FALSE)
  IN  FoldLeft(community, index, [i \in 1 .. CommunityCount |-> i - 1])

(***************************************************************************)
(* Global graph-local cells: breadth first from the smallest unseen node;  *)
(* the frontier a full cell leaves behind is unseen again.                 *)
(***************************************************************************)
\* New frontier entries of a node, once each, skipping assigned and queued.
Queue(input, n, skip) == SelectSeq(input.graph[n], LAMBDA m : m \notin skip)

RECURSIVE Breadth(_, _, _, _, _)
Breadth(input, target, cluster, frontier, assigned) ==
  IF Len(cluster) >= target \/ frontier = <<>> THEN cluster
  ELSE LET n == Head(frontier)
           rest == Tail(frontier)
           seen == assigned \cup {n} \cup ToSet(rest)
       IN  Breadth(input, target, Append(cluster, n), rest \o Queue(input, n, seen),
                   assigned \cup {n})

RECURSIVE GlobalClusters(_, _, _)
GlobalClusters(input, target, assigned) ==
  IF assigned = Nodes THEN <<>>
  ELSE LET seed == Min(Nodes \ assigned)
           cluster == Breadth(input, target, <<seed>>,
                              Queue(input, seed, assigned \cup {seed}), assigned \cup {seed})
       IN  <<cluster>> \o GlobalClusters(input, target, assigned \cup ToSet(cluster))

BuildGlobalGraphLocalCells(input, config, index) ==
  CloseGlobal(AppendCells(index, config, 0, GlobalClusters(input, config.cell_target, {})))

(***************************************************************************)
(* Profiled cells.  An assignment gives a node its community, its cell     *)
(* (tree node) and its order in the cell.                                  *)
(***************************************************************************)
\* The nodes of a profiled cell by (order, node).
InOrder(profile, members) ==
  Ordered(members, LAMBDA a, b : \/ profile[a].order < profile[b].order
                                 \/ profile[a].order = profile[b].order /\ a < b)

\* The profiled cells among some nodes, by the cell id of the profile.
ProfiledCells(profile, members) ==
  LET ids == Ordered({profile[n].cell : n \in members}, LAMBDA a, b : a < b)
  IN  [i \in 1 .. Len(ids) |-> InOrder(profile, {n \in members : profile[n].cell = ids[i]})]

TooLarge(cells, target) == \E i \in 1 .. Len(cells) : Len(cells[i]) > target

\* build_convergence_coaccess_cells throws: a node profiled in another
\* community, a cell over the target size, or an order used twice.
ConvergenceRefused(profile, config, index) ==
  \/ \E n \in Nodes : profile[n].community # index.node_to_community[n]
  \/ \E c \in Communities :
       TooLarge(ProfiledCells(profile, NodesOf(index.node_to_community, c)), config.cell_target)
  \/ \E m, n \in Nodes :
       m # n /\ profile[m] = profile[n]

BuildConvergenceCoaccessCells(profile, config, index) ==
  LET part == index.node_to_community
      community(ix, c) ==
        LET cells == AppendCells(ix, config, c, ProfiledCells(profile, NodesOf(part, c)))
            closed == CloseSector(cells, c, Cardinality(NodesOf(part, c)), PoleSector,
                                  Len(ix.cells))
        IN  CloseCommunity(ix, closed, c, FALSE)
  IN  FoldLeft(community, index, [i \in 1 .. CommunityCount |-> i - 1])

\* build_global_geometric_cells throws only for a cell over the target size.
GeometricRefused(profile, config) ==
  TooLarge(ProfiledCells(profile, Nodes), config.cell_target)

BuildGlobalGeometricCells(profile, config, index) ==
  CloseGlobal(AppendCells(index, config, 0, ProfiledCells(profile, Nodes)))

(***************************************************************************)
(* Polar cells: sectors by direction, then radial quantiles.               *)
(***************************************************************************)
\* compute_radial_quantile_boundaries over the radii in ascending order.
Boundaries(sorted, bins) ==
  LET base == Len(sorted) \div bins
      remainder == Len(sorted) % bins
  IN  [b \in 1 .. bins - 1 |-> sorted[base * b + CeilDiv(remainder * b, bins)]]

\* find_polar_radial_bin: the first boundary not below the radius.
RadialBin(radius, boundaries) ==
  Cardinality({b \in DOMAIN boundaries : boundaries[b] < radius})

\* append_cell_blocks: at least ceil(n / target) bins, empty ones skipped;
\* equal radii share a bin whatever its size.
RadialCells(radius, members, target) ==
  LET less(a, b) == radius[a] < radius[b] \/ (radius[a] = radius[b] /\ a < b)
      sorted == Ordered(members, less)
      bins == CeilDiv(Len(sorted), target)
      boundaries == Boundaries([i \in 1 .. Len(sorted) |-> radius[sorted[i]]], bins)
      bin(b) == SelectSeq(sorted, LAMBDA n : RadialBin(radius[n], boundaries) = b)
  IN  SelectSeq([b \in 1 .. bins |-> bin(b - 1)], LAMBDA nodes : nodes # <<>>)

\* append_sector, of the nodes given by their radii.
AppendSector(index, config, community, sector, radius, members) ==
  IF members = {} THEN index
  ELSE LET cells == FoldLeft(LAMBDA ix, nodes : AppendCell(ix, config, community, sector, nodes),
                             index, RadialCells(radius, members, config.cell_target))
       IN  CloseSector(cells, community, Cardinality(members), sector, Len(index.cells))

\* build_community_polar_cells: a community with too few nodes off its pole
\* is graph-only; otherwise its sectors follow the trained axes (nodes with
\* one direction share a sector: axis gives it) and its pole nodes come last.
BuildCommunityPolarCells(input, config, index) ==
  LET part == index.node_to_community
      radii(c) == [n \in NodesOf(part, c) |-> Radius(input, part, c, n)]
      off(c) == {n \in NodesOf(part, c) : Direction(input, part, c, n) # 0}
      inSector(c, s) == {n \in off(c) : config.axis[Direction(input, part, c, n)] = s}
      fallback(ix, c) == AppendSector(ix, config, c, PoleSector, radii(c), NodesOf(part, c))
      sectors(ix, c) ==
        FoldLeft(LAMBDA x, s : AppendSector(x, config, c, s, radii(c), inSector(c, s)),
                 [ix EXCEPT !.centroids = @ + config.directions],
                 [s \in 1 .. config.directions |-> s - 1])
      polar(ix, c) ==
        AppendSector(sectors(ix, c), config, c, PoleSector,
                     [n \in NodesOf(part, c) |-> 0], NodesOf(part, c) \ off(c))
      graph_only(c) == Cardinality(off(c)) < config.directions
      community(ix, c) ==
        CloseCommunity(ix, IF graph_only(c) THEN fallback(ix, c) ELSE polar(ix, c), c,
                       graph_only(c))
  IN  FoldLeft(community, index, [i \in 1 .. CommunityCount |-> i - 1])

(***************************************************************************)
(* The contiguous cell hierarchy: cells begin .. end - 1 below one node,   *)
(* split evenly until a node has few enough cells.  Nodes are numbered in  *)
(* preorder.                                                               *)
(***************************************************************************)
\* Mutant of SplitSizes: the shares are rounded down.
SplitSizes_Down(count, children) == [i \in 1 .. children |-> count \div children]

\* Cells in each of the children of a node.
SplitSizes(count, children) ==
  LET step(acc, i) == Append(acc, CeilDiv(count - FoldLeft(+, 0, acc), children - i + 1))
  IN  FoldLeft(step, <<>>, [i \in 1 .. children |-> i])

RECURSIVE AppendNode(_, _, _, _, _)
AppendNode(tree, config, cells, begin, end) ==
  LET id == Len(tree)
      count == end - begin
      descendants == FoldLeft(LAMBDA sum, i : sum + cells[i].count, 0,
                              [i \in 1 .. count |-> begin + i])
      leaf == count <= config.leaf_size
      sizes == SplitSizes(count, Min({config.branching, count}))
      step(acc, size) ==
        [tree |-> AppendNode(acc.tree, config, cells, acc.begin, acc.begin + size),
         begin |-> acc.begin + size, children |-> Append(acc.children, Len(acc.tree))]
      node(kids) == [children |-> kids, cells |-> leaf, descendants |-> descendants]
      inner == FoldLeft(step, [tree |-> Append(tree, node(<<>>)), begin |-> begin,
                               children |-> <<>>], sizes)
  IN  IF leaf THEN Append(tree, node([i \in 1 .. count |-> begin + i - 1]))
      ELSE [inner.tree EXCEPT ![id + 1].children = inner.children]

BuildContiguousCellHierarchy(config, index) ==
  LET community(ix, i) ==
        LET c == ix.communities[i]
        IN  IF c.cell_count = 0 THEN [ix EXCEPT !.roots = Append(@, Unset)]
            ELSE [ix EXCEPT !.roots = Append(@, Len(ix.tree)),
                            !.tree = AppendNode(@, config, ix.cells, c.cell_begin,
                                                c.cell_begin + c.cell_count)]
  IN  FoldLeft(community, [index EXCEPT !.tree = <<>>, !.roots = <<>>],
               [i \in 1 .. CommunityCount |-> i])

(***************************************************************************)
(* validate_loaded_index, one definition per loop.  Sizes of vectors that  *)
(* are functions or whole sequences here hold by their type.               *)
(***************************************************************************)
Global(config) == config.cell_partition \in {"GLOBAL_GEOMETRIC", "GLOBAL_GRAPH_LOCAL"}

\* Ranges begin .. begin + count - 1 that follow one another from 0 to size.
Tile(ranges, size) ==
  /\ \A i \in DOMAIN ranges :
       ranges[i][1] = IF i = 1 THEN 0 ELSE ranges[i - 1][1] + ranges[i - 1][2]
  /\ size = IF ranges = <<>> THEN 0 ELSE ranges[Len(ranges)][1] + ranges[Len(ranges)][2]

\* The range a position falls in.
Holder(ranges, position) ==
  CHOOSE i \in DOMAIN ranges :
    position \in ranges[i][1] .. ranges[i][1] + ranges[i][2] - 1

SectorRanges(index) ==
  [i \in DOMAIN index.communities |->
     <<index.communities[i].sector_begin, index.communities[i].sector_count>>]
CellRanges(records) == [i \in DOMAIN records |-> <<records[i].cell_begin, records[i].cell_count>>]
BlockRanges(index) ==
  [i \in DOMAIN index.cells |-> <<index.cells[i].block_begin, index.cells[i].block_count>>]
PacketRanges(index) == [i \in DOMAIN index.blocks |-> <<index.blocks[i].begin, index.blocks[i].count>>]

ValidCommunities(index) ==
  LET part == index.node_to_community
  IN  /\ Len(index.communities) = CommunityCount
      /\ \A n \in Nodes : /\ part[n] \in Communities
                           /\ index.node_to_cell[n] \in 0 .. Len(index.cells) - 1
      /\ \A c \in Communities :
           LET record == index.communities[c + 1]
           IN  /\ NodesOf(part, c) # {}
               /\ record.node_count = Cardinality(NodesOf(part, c))
               /\ record.minimum = Min(NodesOf(part, c))
               /\ record.hub \in NodesOf(part, c)
      /\ Tile(SectorRanges(index), Len(index.sectors))
      /\ Tile(CellRanges(index.communities), Len(index.cells))

\* The directed community edges, by source and then target, each with at
\* least one gateway from its source to its target, no target twice.
ValidEdges(config, index) ==
  LET edges == index.edges
      gatewaysOf(e) == edges[e].gateway_begin + 1 .. edges[e].gateway_begin + edges[e].gateway_count
  IN  /\ \A e, f \in DOMAIN edges : e < f =>
           \/ edges[e].source < edges[f].source
           \/ edges[e].source = edges[f].source /\ edges[e].target < edges[f].target
      /\ \A e \in DOMAIN edges :
           /\ edges[e].source # edges[e].target
           /\ edges[e].cross > 0
           /\ edges[e].gateway_count \in 1 .. config.gateway_count
           /\ \A g \in gatewaysOf(e) :
                /\ index.node_to_community[index.gateways[g].source] = edges[e].source
                /\ index.node_to_community[index.gateways[g].target] = edges[e].target
                /\ index.gateways[g].packet = index.node_to_packet[index.gateways[g].target]
           /\ \A g, h \in gatewaysOf(e) :
                index.gateways[g].target = index.gateways[h].target => g = h
      /\ Tile([e \in DOMAIN edges |-> <<edges[e].gateway_begin, edges[e].gateway_count>>],
              Len(index.gateways))

ValidSectors(config, index) ==
  /\ \A s \in DOMAIN index.sectors :
       LET record == index.sectors[s]
       IN  /\ record.community = Holder(SectorRanges(index), s - 1) - 1
           /\ record.count > 0 /\ record.cell_count > 0
           /\ record.sector \in {PoleSector} \cup 0 .. config.directions - 1
           /\ record.count = MapThenSumSet(LAMBDA c : index.cells[c].count,
                               record.cell_begin + 1 .. record.cell_begin + record.cell_count)
  /\ Tile(CellRanges(index.sectors), Len(index.cells))
  /\ config.cell_partition # "POLAR_RADIAL" => index.centroids = Len(index.cells)

ValidCells(config, index) ==
  /\ \A c \in DOMAIN index.cells :
       LET record == index.cells[c]
           sector == index.sectors[Holder(CellRanges(index.sectors), c - 1)]
       IN  /\ record.community = Holder(CellRanges(index.communities), c - 1) - 1
           /\ record.community = sector.community
           /\ record.sector = sector.sector
           /\ record.capacity = config.cell_target
           /\ record.count \in 1 .. record.capacity
           /\ record.block_count > 0
           /\ record.count = MapThenSumSet(LAMBDA b : index.blocks[b].count,
                               record.block_begin + 1 .. record.block_begin + record.block_count)
  /\ Tile(BlockRanges(index), Len(index.blocks))

ValidBlocks(config, index) ==
  /\ \A b \in DOMAIN index.blocks :
       /\ index.blocks[b].cell = Holder(BlockRanges(index), b - 1) - 1
       /\ index.blocks[b].count \in 1 .. config.block_target
  /\ Tile(PacketRanges(index), NodeCount)

\* The packets: every node once, where the directories say, in its cell and
\* (unless cells are global) in its community.
ValidPackets(config, index) ==
  /\ Len(index.packets) = NodeCount
  /\ ToSet(index.packets) = Nodes
  /\ \A p \in 1 .. NodeCount :
       LET n == index.packets[p]
           cell == index.blocks[Holder(PacketRanges(index), p - 1)].cell
       IN  /\ index.node_to_packet[n] = p - 1
           /\ index.node_to_cell[n] = cell
           /\ ~ Global(config) => index.cells[cell + 1].community = index.node_to_community[n]

\* The cells below a hierarchy node, as a sequence: a cell met twice shows.
RECURSIVE CellsBelow(_, _)
CellsBelow(tree, id) ==
  IF tree[id + 1].cells THEN tree[id + 1].children
  ELSE FoldLeft(LAMBDA acc, child : acc \o CellsBelow(tree, child), <<>>, tree[id + 1].children)

\* validate_cell_hierarchy.  A child always has a larger id than its parent
\* in what the builder writes, so the walk below ends.
ValidHierarchy(config, index) ==
  LET tree == index.tree
      ids == 0 .. Len(tree) - 1
      parents(id) ==
        Cardinality({c \in Communities : index.roots[c + 1] = id})
          + Cardinality({p \in DOMAIN tree : ~ tree[p].cells /\ id \in ToSet(tree[p].children)})
      owners == {c \in Communities : index.communities[c + 1].cell_count > 0}
      below(c) == CellsBelow(tree, index.roots[c + 1])
  IN  \/ tree = <<>> /\ index.roots = <<>>
      \/ /\ tree # <<>>
         /\ config.cell_partition # "POLAR_RADIAL"
         /\ Len(index.roots) = CommunityCount
         /\ \A p \in DOMAIN tree :
              /\ tree[p].children # <<>>
              /\ ~ tree[p].cells => \A i \in DOMAIN tree[p].children :
                                      tree[p].children[i] \in p .. Len(tree) - 1
              /\ tree[p].descendants =
                   FoldLeft(LAMBDA sum, c : sum + index.cells[c + 1].count, 0,
                            CellsBelow(tree, p - 1))
         /\ \A id \in ids : parents(id) = 1
         /\ \A c \in Communities \ owners : index.roots[c + 1] = Unset
         /\ \A c \in owners :
              /\ index.roots[c + 1] \in ids
              /\ \A i \in DOMAIN below(c) : index.cells[below(c)[i] + 1].community = c
              /\ tree[index.roots[c + 1] + 1].descendants
                   \in {NodeCount, index.communities[c + 1].node_count}
         /\ \A cell \in 0 .. Len(index.cells) - 1 :
              MapThenSumSet(LAMBDA c : Cardinality({i \in DOMAIN below(c) : below(c)[i] = cell}),
                            owners) = 1

Valid(config, index) ==
  /\ ValidCommunities(index)
  /\ ValidEdges(config, index)
  /\ ValidSectors(config, index)
  /\ ValidCells(config, index)
  /\ ValidBlocks(config, index)
  /\ ValidHierarchy(config, index)
  /\ ValidPackets(config, index)

(***************************************************************************)
(* Repacking a finished index.                                             *)
(***************************************************************************)
\* How many of the cells from the first on one target-size cell can take:
\* cells of one sector while their nodes fit.
GroupLength(cells, target) ==
  LET fits(k) == /\ \A i \in 1 .. k : cells[i].sector = cells[1].sector
                 /\ FoldLeft(LAMBDA sum, i : sum + cells[i].count, 0, [i \in 1 .. k |-> i])
                      <= target
  IN  Max({k \in 0 .. Len(cells) : fits(k)})

RECURSIVE Groups(_, _)
Groups(cells, target) ==
  LET k == GroupLength(cells, target)
  IN  IF cells = <<>> \/ k = 0 THEN <<>>
      ELSE <<SubSeq(cells, 1, k)>> \o Groups(SubSeq(cells, k + 1, Len(cells)), target)

\* A source cell larger than the requested capacity stops the repack.
AdjacentRefused(source, config) ==
  \E i \in DOMAIN source.cells : source.cells[i].count > config.cell_target

\* One group: its blocks are copied with new ids, their packets stay.
AppendGroup(source, index, config, community, group) ==
  LET id == Len(index.cells)
      blockIds == FoldLeft(LAMBDA acc, cell : acc \o [i \in 1 .. cell.block_count |->
                                                       cell.block_begin + i], <<>>, group)
      blocks == [i \in DOMAIN blockIds |-> [source.blocks[blockIds[i]] EXCEPT !.cell = id]]
      moved == {source.packets[p + 1] : p \in UNION {blocks[i].begin .. blocks[i].begin
                                                      + blocks[i].count - 1 : i \in DOMAIN blocks}}
  IN  [index EXCEPT
         !.cells = Append(@, [community |-> community, sector |-> group[1].sector,
                              count |-> FoldLeft(LAMBDA sum, cell : sum + cell.count, 0, group),
                              capacity |-> config.cell_target,
                              block_begin |-> Len(index.blocks), block_count |-> Len(blocks)]),
         !.blocks = @ \o blocks,
         !.centroids = @ + 1,
         !.node_to_cell = [n \in Nodes |-> IF n \in moved THEN id ELSE @[n]]]

\* Sectors take the cells that follow the cursor and carry their ids.
AssignSectors(index) ==
  LET taken(cursor, sector) ==
        Max({k \in 0 .. Len(index.cells) - cursor : \A i \in cursor + 1 .. cursor + k :
               /\ index.cells[i].community = sector.community
               /\ index.cells[i].sector = sector.sector})
      step(acc, sector) ==
        Append(acc, [sector EXCEPT
          !.cell_begin = IF acc = <<>> THEN 0
                         ELSE acc[Len(acc)].cell_begin + acc[Len(acc)].cell_count,
          !.cell_count = taken(IF acc = <<>> THEN 0
                               ELSE acc[Len(acc)].cell_begin + acc[Len(acc)].cell_count, sector)])
  IN  [index EXCEPT !.sectors = FoldLeft(step, <<>>, @)]

RepackAdjacentGraphLocalCells(source, config) ==
  LET community(ix, i) ==
        LET c == source.communities[i]
            cells == SubSeq(source.cells, c.cell_begin + 1, c.cell_begin + c.cell_count)
            groups == FoldLeft(LAMBDA acc, g : AppendGroup(source, acc, config, i - 1, g), ix,
                               Groups(cells, config.cell_target))
        IN  [groups EXCEPT !.communities[i] =
               [@ EXCEPT !.cell_begin = Len(ix.cells),
                         !.cell_count = Len(groups.cells) - Len(ix.cells)]]
      emptied == [source EXCEPT !.cells = <<>>, !.blocks = <<>>, !.centroids = 0,
                                !.node_to_cell = [n \in Nodes |-> Unset]]
      packed == FoldLeft(community, emptied, [i \in 1 .. CommunityCount |-> i])
  IN  BuildContiguousCellHierarchy(config, AssignSectors(packed))

\* The gateways' packet records, looked up again in the directory.
RelinkGateways(index) ==
  [index EXCEPT !.gateways =
     [g \in DOMAIN @ |-> [@[g] EXCEPT !.packet = index.node_to_packet[index.gateways[g].target]]]]

\* repack_pq_locality_cells: new global cells from the profile's node order
\* (offsets cover the nodes, every node once: the loader's checks), packets
\* copied to their new places.
RepackPqLocalityCells(source, config, cells) ==
  LET emptied == [source EXCEPT !.sectors = <<>>, !.cells = <<>>, !.blocks = <<>>,
                                !.packets = <<>>, !.centroids = 0, !.tree = <<>>, !.roots = <<>>,
                                !.node_to_cell = [n \in Nodes |-> Unset],
                                !.node_to_packet = [n \in Nodes |-> Unset]]
  IN  BuildContiguousCellHierarchy(config,
        RelinkGateways(CloseGlobal(AppendCells(emptied, config, 0, cells))))
=============================================================================

-------------------------- MODULE IoArtifactFormat --------------------------
(***************************************************************************)
(* What the IO-optimized artifacts contain, and what a load accepts        *)
(* (src/index/io_optimized_index.cc): adjacency taken out of the Base      *)
(* records, vectors placed on pages in node or Cell order, a directory,    *)
(* Cell page ranges, prefetch hints, the PForDelta codec, the Cell         *)
(* adjacency and the global graph Cells.  A checksum or fingerprint is the *)
(* content it is computed from.  A sidecar is a record of the Community-   *)
(* Polar fields that are read here.                                        *)
(***************************************************************************)
EXTENDS DiskLayout

CONSTANTS
  PageBytes,      \* bytes of a vector page
  ChunkClasses,   \* ascending chunk sizes, multiples of PageBytes
  PositionLimit,  \* positions a PForDelta permutation byte can tell apart
  HintFanout,     \* neighbours a prefetch hint looks at per hop
  MaxU8           \* greatest coordinate a u8 vector holds

None == -1
Layouts == {"ORIGINAL_ID", "CELL_4K", "CELL_CHUNKS", "CELL_WEIGHTED_4K", "CELL_U8_4K"}
Before(a, b) == a[1] < b[1] \/ (a[1] = b[1] /\ a[2] < b[2])
Sorted(S, Less(_, _)) == SortSeq(FoldSet(LAMBDA x, t : Append(t, x), <<>>, S), Less)
NodesOf(d) == 0 .. d.point_count - 1
Dedup(s) == FoldLeft(LAMBDA t, x : IF Contains(t, x) THEN t ELSE Append(t, x), <<>>, s)

(***************************************************************************)
(* The Base graph and the low-RCNI trim.                                   *)
(***************************************************************************)
\* read_disk_layout_metadata
BaseSupported(d) ==
  /\ d.point_count > 0 /\ d.dimension > 0 /\ d.medoid < d.point_count
  /\ d.reorder_dimension = 0
  /\ d.max_node_len > d.dimension * CoordBytes + IdBytes

\* read_normalized_rcni: one row per node, in any order.
RcniComplete(rows, npts) ==
  /\ Len(rows) = npts
  /\ {rows[i][1] : i \in DOMAIN rows} = 0 .. npts - 1
RcniOf(rows, n) == LET i == CHOOSE j \in DOMAIN rows : rows[j][1] = n IN rows[i][2]

\* The lower half of each community, by score and then id.
LowHalf(side, score) ==
  LET Members(c) == {n \in DOMAIN side.node_to_community : side.node_to_community[n] = c}
      Rank(n, S) == Cardinality({m \in S : Before(<<score[m], m>>, <<score[n], n>>)})
  IN UNION {{n \in Members(c) : 2 * (Rank(n, Members(c)) + 1) <= Cardinality(Members(c))} :
            c \in {side.node_to_community[n] : n \in DOMAIN side.node_to_community}}

RemovedNeighbor(list, score) ==
  CHOOSE i \in DOMAIN list :
    /\ \A j \in DOMAIN list : ~Before(<<score[list[j]], list[j]>>, <<score[list[i]], list[i]>>)
    /\ \A j \in 1 .. i - 1 : list[j] # list[i]

Trimmed(list, score) ==
  IF list = <<>> THEN list ELSE RemoveAt(list, RemovedNeighbor(list, score))

\* append_record's part of the adjacency; rows is <<>> when nothing is trimmed.
AdjacencyOf(d, side, rows) ==
  LET score == [n \in {rows[i][1] : i \in DOMAIN rows} |-> RcniOf(rows, n)]
      low == IF rows = <<>> THEN {} ELSE LowHalf(side, score)
  IN [n \in NodesOf(d) |-> LET list == ReadNode(d, n).neighbors
                           IN IF n \in low THEN Trimmed(list, score) ELSE list]

EndpointsInRange(d) ==
  \A n \in NodesOf(d) : /\ Len(ReadNode(d, n).neighbors) <= MaxDegree(d)
                        /\ Range(ReadNode(d, n).neighbors) \subseteq NodesOf(d)

(***************************************************************************)
(* Vectors on pages.                                                       *)
(***************************************************************************)
VectorBytes(d, layout) == IF layout = "CELL_U8_4K" THEN d.dimension ELSE d.dimension * CoordBytes
PerPage(d, layout) == PageBytes \div VectorBytes(d, layout)

\* A u8 vector is the same coordinate in another form; only integral
\* coordinates up to MaxU8 convert.
Stored(d, layout, n) ==
  [form |-> IF layout = "CELL_U8_4K" THEN "u8" ELSE "float", coords |-> ReadNode(d, n).coords]
Convertible(d) == \A n \in NodesOf(d) : ReadNode(d, n).coords \in 0 .. MaxU8

\* Packet records number the nodes: a permutation, or the sidecar is refused.
PacketsPermute(d, side) ==
  /\ \A n \in NodesOf(d) : side.node_to_packet[n] \in NodesOf(d)
  /\ \A m, n \in NodesOf(d) : side.node_to_packet[m] = side.node_to_packet[n] => m = n
PacketOrder(d, side) ==
  [i \in 1 .. d.point_count |-> CHOOSE n \in NodesOf(d) : side.node_to_packet[n] = i - 1]

\* CELL_WEIGHTED_4K: the node most linked with the page before it comes next.
LinkScore(adj, context, n) ==
  LET Linked(a, b) == IF Contains(adj[a], b) THEN 1 ELSE 0
  IN FoldLeft(LAMBDA t, m : t + Linked(m, n) + Linked(n, m) + 2 * Linked(m, n) * Linked(n, m),
              0, context)

RECURSIVE Weigh(_, _, _, _)
Weigh(adj, per, ordered, remaining) ==
  IF remaining = {} THEN ordered
  ELSE LET context == SubSeq(ordered, Max({1, Len(ordered) - per + 1}), Len(ordered))
           best == CHOOSE n \in remaining : \A m \in remaining :
                     \/ LinkScore(adj, context, n) > LinkScore(adj, context, m)
                     \/ LinkScore(adj, context, n) = LinkScore(adj, context, m) /\ n <= m
       IN Weigh(adj, per, Append(ordered, best), remaining \ {best})

\* Runs of one Cell in the packet order, reordered run by run.
RECURSIVE WeighRuns(_, _, _, _)
WeighRuns(adj, per, side, order) ==
  IF order = <<>> THEN <<>>
  ELSE LET Same(i) == side.node_to_cell[order[i]] = side.node_to_cell[order[1]]
           n == CHOOSE k \in 1 .. Len(order) :
                  (\A i \in 1 .. k : Same(i)) /\ (k < Len(order) => ~Same(k + 1))
       IN Weigh(adj, per, <<>>, Range(SubSeq(order, 1, n)))
            \o WeighRuns(adj, per, side, SubSeq(order, n + 1, Len(order)))

PlacementOrder(d, side, layout, adj) ==
  IF layout = "CELL_WEIGHTED_4K"
  THEN WeighRuns(adj, PerPage(d, layout), side, PacketOrder(d, side))
  ELSE PacketOrder(d, side)

ChunkBytes(layout, bytes) ==
  IF layout # "CELL_CHUNKS" THEN PageBytes
  ELSE LET fits == {i \in DOMAIN ChunkClasses : bytes <= ChunkClasses[i]}
       IN ChunkClasses[IF fits = {} THEN Len(ChunkClasses) ELSE Min(fits)]

\* Append the nodes to pages that start at page first: locations and pages.
Lay(d, layout, nodes, first) ==
  LET per == PerPage(d, layout)
      At(i) == [page |-> first + (i - 1) \div per,
                offset |-> ((i - 1) % per) * VectorBytes(d, layout)]
      On(p) == {i \in DOMAIN nodes : At(i).page = p}
  IN [locations |-> [n \in Range(nodes) |-> At(CHOOSE i \in DOMAIN nodes : nodes[i] = n)],
      pages |-> [k \in 1 .. DivUp(Len(nodes), per) |->
                   [o \in {At(i).offset : i \in On(first + k - 1)} |->
                      Stored(d, layout, nodes[CHOOSE i \in On(first + k - 1) : At(i).offset = o])]]]

Padding == [o \in {} |-> 0]

\* Mutant of PagesOfCell: the chunk of a Cell is not padded to its size.
PagesOfCell_NoPadding(layout, useful, chunk) == useful

PagesOfCell(layout, useful, chunk) ==
  IF layout # "CELL_CHUNKS" THEN useful
  ELSE LET each == chunk \div PageBytes IN DivUp(useful, each) * each

\* The Cells in id order, each taking its run of the placement order.
RECURSIVE PlaceCells(_, _, _, _, _, _)
PlaceCells(d, side, layout, cell, order, v) ==
  IF cell > Len(side.cells) THEN [v EXCEPT !.ok = v.ok /\ order = <<>>]
  ELSE LET mine == {k \in 0 .. Len(order) :
                      \A i \in 1 .. k : side.node_to_cell[order[i]] = cell - 1}
           nodes == SubSeq(order, 1, Max(mine))
           laid == Lay(d, layout, nodes, Len(v.pages))
           chunk == ChunkBytes(layout, side.cells[cell].node_count * VectorBytes(d, layout))
           count == PagesOfCell(layout, Len(laid.pages), chunk)
           range == [first_page |-> Len(v.pages), page_count |-> count,
                     node_count |-> Len(nodes), chunk |-> chunk]
       IN PlaceCells(d, side, layout, cell + 1, SubSeq(order, Max(mine) + 1, Len(order)),
            [ok |-> v.ok /\ Len(nodes) = side.cells[cell].node_count /\ count > 0,
             locations |-> laid.locations @@ v.locations,
             pages |-> v.pages \o laid.pages \o [i \in 1 .. count - Len(laid.pages) |-> Padding],
             ranges |-> Append(v.ranges, range)])

PlaceVectors(d, side, layout, adj) ==
  IF layout = "ORIGINAL_ID"
  THEN LET laid == Lay(d, layout, [i \in 1 .. d.point_count |-> i - 1], 0)
       IN [ok |-> TRUE, locations |-> laid.locations, pages |-> laid.pages, ranges |-> <<>>]
  ELSE PlaceCells(d, side, layout, 1, PlacementOrder(d, side, layout, adj),
                  [ok |-> TRUE, locations |-> Padding, pages |-> <<>>, ranges |-> <<>>])

(***************************************************************************)
(* Prefetch hints.                                                         *)
(***************************************************************************)
First(list, k) == SubSeq(list, 1, Min({Len(list), k}))

\* The page most two-hop neighbours are on, other than the node's own.
PrefetchPage(adj, locations, n) ==
  LET Second == {<<i, j>> \in (1 .. HintFanout) \X (1 .. HintFanout) :
                   /\ i <= Len(adj[n]) /\ j <= Len(adj[adj[n][i]])}
      PageAt(p) == locations[adj[adj[n][p[1]]][p[2]]].page
      Away == {p \in Second : PageAt(p) # locations[n].page}
      Count(g) == Cardinality({p \in Away : PageAt(p) = g})
      Elsewhere == {PageAt(p) : p \in Away}
  IN IF Elsewhere = {} THEN None
     ELSE CHOOSE g \in Elsewhere : \A h \in Elsewhere : Count(g) > Count(h) \/ (Count(g) = Count(h) /\ g <= h)

\* Edges that leave a Cell, counted by the Cell they enter.
Transitions(adj, side, from) ==
  LET Out == UNION {{<<n, i>> : i \in DOMAIN adj[n]} : n \in {m \in DOMAIN adj : side.node_to_cell[m] = from}}
      To(e) == side.node_to_cell[adj[e[1]][e[2]]]
  IN [c \in {To(e) : e \in Out} \ {from} |-> Cardinality({e \in Out : To(e) = c})]

Successors(t) ==
  First(Sorted(DOMAIN t, LAMBDA a, b : Before(<<-t[a], a>>, <<-t[b], b>>)), 2)

GatewayHint(adj, side, locations, ranges, target) ==
  LET landing == side.node_to_cell[target]
      t == Transitions(adj, side, landing)
      next == Successors(t)
  IN [target |-> target, landing |-> landing, page |-> locations[target].page,
      first |-> ranges[landing + 1].first_page,
      successors |-> next, counts |-> [i \in DOMAIN next |-> t[next[i]]],
      first_pages |-> [i \in DOMAIN next |-> ranges[next[i] + 1].first_page],
      outgoing |-> FoldSet(LAMBDA c, s : s + t[c], 0, DOMAIN t)]

(***************************************************************************)
(* Adjacency sections.                                                     *)
(***************************************************************************)
\* compress_adjacency of one list: sorted targets and, in a byte each, the
\* positions they came from.
Compress(list) ==
  LET order == Sorted({<<list[i], (i - 1) % PositionLimit, i>> : i \in DOMAIN list},
                      LAMBDA a, b : Before(a, b) \/ (a[1] = b[1] /\ a[2] = b[2] /\ a[3] < b[3]))
  IN [sorted |-> [i \in DOMAIN order |-> order[i][1]],
      permutation |-> [i \in DOMAIN order |-> order[i][2]]]

Decodable(r) ==
  /\ \A i \in DOMAIN r.permutation : r.permutation[i] < Len(r.sorted)
  /\ \A i, j \in DOMAIN r.permutation : r.permutation[i] = r.permutation[j] => i = j
Decompress(r) ==
  [p \in 1 .. Len(r.sorted) |->
     LET at == {i \in DOMAIN r.permutation : r.permutation[i] = p - 1}
     IN IF at = {} THEN 0 ELSE r.sorted[Max(at)]]

Offsets(lists, n) == FoldFunctionOnSet(+, 0, [m \in DOMAIN lists |-> Len(lists[m])], 0 .. n - 1)
Flat(lists, npts) == FoldLeft(LAMBDA s, n : s \o lists[n], <<>>, [i \in 1 .. npts |-> i - 1])

\* The sections and header of a topology file.  Raw lists are cut out of one
\* flat sequence by the offsets.
Sections(adj, encoding, npts, v, prefetch, gateways) ==
  [offsets |-> [n \in 0 .. npts |-> Offsets(adj, n)],
   adjacency |-> IF encoding = "RAW_U32" THEN Flat(adj, npts)
                 ELSE [i \in 1 .. npts |-> Compress(adj[i - 1])],
   directory |-> v.locations, ranges |-> v.ranges, prefetch |-> prefetch, gateways |-> gateways]

Header(d, q, edges, v, body) ==
  [version |-> IF q.layout = "CELL_U8_4K" THEN 6 ELSE 5,
   point_count |-> d.point_count, dimension |-> d.dimension, max_degree |-> MaxDegree(d),
   encoding |-> q.encoding, layout |-> q.layout, edge_count |-> edges, page_count |-> Len(v.pages),
   vectors |-> [kind |-> "vectors", pages |-> v.pages], checksum |-> body]

TopologyFile(d, base, sidecar, side, q, adj, v) ==
  LET prefetch == [n \in NodesOf(d) |-> IF q.hints THEN PrefetchPage(adj, v.locations, n) ELSE None]
      gateways == IF q.hints /\ q.layout # "ORIGINAL_ID"
                  THEN [i \in DOMAIN side.gateways |->
                          GatewayHint(adj, side, v.locations, v.ranges, side.gateways[i])]
                  ELSE <<>>
      body == Sections(adj, q.encoding, d.point_count, v, prefetch, gateways)
  IN Header(d, q, Offsets(adj, d.point_count), v, body)
       @@ [kind |-> "topology", base |-> base, sidecar |-> sidecar, body |-> body]

(***************************************************************************)
(* What a load accepts.                                                    *)
(***************************************************************************)
HeaderAccepted(t, paged, cache_pages) ==
  /\ t.kind = "topology"
  /\ IF paged THEN cache_pages > 0 /\ t.encoding = "RAW_U32" ELSE cache_pages = 0
  /\ t.point_count > 0 /\ t.dimension > 0
  /\ t.layout = "CELL_U8_4K" => t.version = 6
  /\ (t.layout = "ORIGINAL_ID") = (t.body.ranges = <<>>)
  /\ t.body.gateways # <<>> => t.body.ranges # <<>> /\ t.sidecar.kind = "sidecar"

AdjacencyAccepted(t) ==
  /\ t.body.offsets[0] = 0
  /\ IF t.encoding = "RAW_U32"
     THEN /\ t.body.offsets[t.point_count] = t.edge_count
          /\ \A n \in 0 .. t.point_count - 1 :
               t.body.offsets[n + 1] - t.body.offsets[n] \in 0 .. t.max_degree
          /\ Range(t.body.adjacency) \subseteq 0 .. t.point_count - 1
     ELSE \A i \in DOMAIN t.body.adjacency :
            /\ Len(t.body.adjacency[i].sorted) <= t.max_degree
            /\ Decodable(t.body.adjacency[i])
            /\ Range(t.body.adjacency[i].sorted) \subseteq 0 .. t.point_count - 1

\* Offsets are checked for the alignment of a float in every layout.
DirectoryAccepted(t) ==
  LET bytes == IF t.layout = "CELL_U8_4K" THEN t.dimension ELSE t.dimension * CoordBytes
  IN \A n \in 0 .. t.point_count - 1 :
       /\ t.body.directory[n].page < t.page_count
       /\ t.body.directory[n].offset % CoordBytes = 0
       /\ t.body.directory[n].offset + bytes <= PageBytes

RangesAccepted(t) ==
  LET r == t.body.ranges
      End(i) == IF i = 0 THEN 0 ELSE r[i].first_page + r[i].page_count
  IN /\ \A i \in DOMAIN r :
          /\ r[i].first_page = End(i - 1) /\ r[i].page_count > 0 /\ r[i].node_count > 0
          /\ End(i) <= t.page_count
          /\ r[i].chunk \in Range(ChunkClasses)
          /\ IF t.layout = "CELL_CHUNKS" THEN r[i].page_count % (r[i].chunk \div PageBytes) = 0
             ELSE r[i].chunk = PageBytes
     /\ t.layout # "ORIGINAL_ID" =>
          /\ End(Len(r)) = t.page_count
          /\ FoldLeft(LAMBDA s, x : s + x.node_count, 0, r) = t.point_count

HintsAccepted(t) ==
  LET ranges == t.body.ranges
      GatewayOK(g) ==
        /\ g.target < t.point_count /\ g.landing < Len(ranges)
        /\ g.page = t.body.directory[g.target].page
        /\ g.first = ranges[g.landing + 1].first_page
        /\ g.page \in g.first .. g.first + ranges[g.landing + 1].page_count - 1
        /\ \A i \in DOMAIN g.successors :
             /\ g.successors[i] < Len(ranges) /\ g.counts[i] \in 1 .. g.outgoing
             /\ g.first_pages[i] = ranges[g.successors[i] + 1].first_page
  IN /\ \A n \in 0 .. t.point_count - 1 : t.body.prefetch[n] < t.page_count
     /\ \A i \in DOMAIN t.body.gateways : GatewayOK(t.body.gateways[i])

BodyAccepted(t) ==
  AdjacencyAccepted(t) /\ DirectoryAccepted(t) /\ RangesAccepted(t) /\ HintsAccepted(t)

\* neighbors(): cut from the adjacency of the file whose bytes are read, by
\* the offsets that were loaded.  Each read gets its bytes: a paged one, which
\* throws where the file ends within its page, is taken of files padded to it.
RawNeighbors(offsets, adjacency, n) == SubSeq(adjacency, offsets[n] + 1, offsets[n + 1])
Neighbors(t, n) ==
  IF t.encoding = "RAW_U32" THEN RawNeighbors(t.body.offsets, t.body.adjacency, n)
  ELSE Decompress(t.body.adjacency[n + 1])

\* A vector artifact's content at a location.
VectorAt(pages, at) ==
  IF at.page + 1 \in DOMAIN pages /\ at.offset \in DOMAIN pages[at.page + 1]
  THEN pages[at.page + 1][at.offset] ELSE [form |-> "none", coords |-> None]

(***************************************************************************)
(* Cell adjacency and global graph Cells.                                  *)
(***************************************************************************)
\* Nodes the Cell adjacency samples: evenly spaced ordinals over the blocks.
SampledNodes(d, side, cell, samples) ==
  LET order == PacketOrder(d, side)
      blocks == side.cells[cell].blocks
      count == side.cells[cell].node_count
      Ordinals == {(s * count) \div Min({samples, count}) : s \in 0 .. Min({samples, count}) - 1}
      Packet(o) ==
        LET Skipped(b) == FoldLeft(LAMBDA s, x : s + x.node_count, 0, SubSeq(blocks, 1, b - 1))
            b == CHOOSE k \in DOMAIN blocks : o \in Skipped(k) .. Skipped(k) + blocks[k].node_count - 1
        IN blocks[b].packet_begin + o - Skipped(b)
  IN {order[Packet(o) + 1] : o \in Ordinals}

\* Cells the sampled nodes link to, by support and then id.
Support(side, lists, nodes, cell) ==
  LET Edges == UNION {{<<n, i>> : i \in DOMAIN lists[n]} : n \in nodes}
      To(e) == side.node_to_cell[lists[e[1]][e[2]]]
  IN [c \in {To(e) : e \in Edges} \ {cell - 1} |-> Cardinality({e \in Edges : To(e) = c})]

CellAdjacencyList(s, degree) ==
  First(Sorted(DOMAIN s, LAMBDA a, b : Before(<<-s[a], a>>, <<-s[b], b>>)), degree)

CellAdjacencyFile(d, sidecar, side, lists, samples, degree) ==
  LET body == [c \in 1 .. Len(side.cells) |->
                 CellAdjacencyList(Support(side, lists, SampledNodes(d, side, c, samples), c), degree)]
  IN [kind |-> "cell_adj", point_count |-> d.point_count, sidecar |-> sidecar,
      degree |-> degree, samples |-> samples, body |-> body]

CellAdjacencyAccepted(f, point_count, cell_count, sidecar) ==
  /\ f.kind = "cell_adj" /\ f.point_count = point_count /\ Len(f.body) = cell_count
  /\ f.sidecar = sidecar
  /\ \A c \in 1 .. cell_count :
       /\ Len(f.body[c]) <= f.degree
       /\ Range(f.body[c]) \subseteq (0 .. cell_count - 1) \ {c - 1}
       /\ IsInjective(f.body[c])

\* Global graph Cells: from each unassigned seed, first come first served up
\* to the target; what is left on the frontier is free again.
RECURSIVE GrowCell(_, _, _, _, _)
GrowCell(lists, target, taken, members, frontier) ==
  IF Len(members) = target \/ Len(members) > Len(frontier) THEN members
  ELSE LET n == frontier[Len(members)]
           fresh == SelectSeq(lists[n], LAMBDA m : m \notin taken \cup {members[1]} \cup Range(frontier))
       IN GrowCell(lists, target, taken, Append(members, n), frontier \o Dedup(fresh))

GlobalCells(lists, npts, target) ==
  LET Grow[i \in 0 .. npts] ==
        IF i = 0 THEN <<>>
        ELSE LET taken == UNION {Range(Grow[i - 1][c]) : c \in DOMAIN Grow[i - 1]}
             IN IF i - 1 \in taken THEN Grow[i - 1]
                ELSE Append(Grow[i - 1], GrowCell(lists, target, taken, <<i - 1>>,
                       Dedup(SelectSeq(lists[i - 1], LAMBDA m : m \notin taken \cup {i - 1}))))
  IN Grow[npts]
=============================================================================

----------------------------- MODULE DiskLayout -----------------------------
(***************************************************************************)
(* The Base disk index file: how create_disk_layout packs node records     *)
(* into sectors after a metadata sector (src/index/disk_index_utils.cc),   *)
(* and how a reader finds a record again (src/search/pq_flash_index.cc).   *)
(* A sector holds records at byte offsets; a record is a node's            *)
(* coordinates and neighbours.  Node ids count from 0.                     *)
(***************************************************************************)
EXTENDS Integers, Sequences, SequencesExt, FiniteSetsExt

CONSTANTS
  SectorLen,   \* bytes of a sector
  CoordBytes,  \* bytes of a coordinate
  FloatBytes,  \* bytes of a float
  IdBytes      \* bytes of a node id or of a neighbour count

DivUp(a, b) == (a + b - 1) \div b

MaxNodeLen(width, dimension) == (width + 1) * IdBytes + dimension * CoordBytes

NSectors(npts, len) ==
  LET per == SectorLen \div len IN IF per > 0 THEN DivUp(npts, per) ELSE npts * DivUp(len, SectorLen)

\* A record keeps at most width neighbours of the Vamana file's list.
NodeRecord(coords, list, width) ==
  [coords |-> coords, neighbors |-> SubSeq(list, 1, Min({Len(list), width}))]

\* Several nodes per sector, written sector by sector.
PackedSectors(m, per, len) ==
  LET Written == {p \in (0 .. NSectors(m.npts, len) - 1) \X (0 .. per - 1) :
                    p[1] * per + p[2] < m.npts}
  IN [q \in {<<p[1] + 1, p[2] * len>> : p \in Written} |->
        LET n == (q[1] - 1) * per + q[2] \div len
        IN NodeRecord(m.coords[n], m.graph[n], m.width)]

\* A node longer than a sector starts a sector of its own.
SpreadSectors(m, len) ==
  LET each == DivUp(len, SectorLen)
  IN [q \in {<<1 + n * each, 0>> : n \in 0 .. m.npts - 1} |->
        LET n == (q[1] - 1) \div each IN NodeRecord(m.coords[n], m.graph[n], m.width)]

\* The reorder section reads min(per, npts) vectors for every sector, the
\* last one included, and throws when the file has no more.
ReorderThrows(npts, per) == DivUp(npts, per) * Min({per, npts}) > npts

\* create_disk_layout of a Vamana file m (npts, dimension, width, medoid,
\* frozen points, coordinates and graph) and the reorder data's dimension.
CreateDiskLayout(m, reorder) ==
  LET len == MaxNodeLen(m.width, m.dimension)
      per == SectorLen \div len
  IN [point_count |-> m.npts, dimension |-> m.dimension, medoid |-> m.medoid,
      max_node_len |-> len, nodes_per_sector |-> per,
      frozen |-> m.frozen, frozen_loc |-> IF m.frozen = 1 THEN m.medoid ELSE 0,
      reorder_dimension |-> reorder,
      sectors |-> 1 + NSectors(m.npts, len)
                    + (IF reorder = 0 THEN 0 ELSE DivUp(m.npts, SectorLen \div (reorder * FloatBytes))),
      slots |-> IF per > 0 THEN PackedSectors(m, per, len) ELSE SpreadSectors(m, len)]

(***************************************************************************)
(* Reading.                                                                *)
(***************************************************************************)
NodeSector(d, n) ==
  1 + (IF d.nodes_per_sector > 0 THEN n \div d.nodes_per_sector
       ELSE n * DivUp(d.max_node_len, SectorLen))

OffsetToNode(d, n) ==
  IF d.nodes_per_sector = 0 THEN 0 ELSE (n % d.nodes_per_sector) * d.max_node_len

\* What the reader takes for node n's record: zeros where none was written,
\* nothing past the end of the file.
ReadNode(d, n) ==
  LET place == <<NodeSector(d, n), OffsetToNode(d, n)>>
  IN IF place \in DOMAIN d.slots THEN d.slots[place] ELSE [coords |-> 0, neighbors |-> <<>>]

MaxDegree(d) == (d.max_node_len - d.dimension * CoordBytes) \div IdBytes - 1
=============================================================================

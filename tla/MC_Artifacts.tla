---------------------------- MODULE MC_Artifacts ----------------------------
(***************************************************************************)
(* The artifacts of an index, in three parts that share nothing.  io: four *)
(* Bases laid out by create_disk_layout (two nodes per sector, nodes over  *)
(* two sectors, u8 vectors that fill aligned slots, a bad endpoint) and    *)
(* sidecars of one structure, of another, and of another Base.  disk:      *)
(* builds of two data sets at one prefix, one-shot and sharded, plain,     *)
(* compressed and filtered.  pq: blocks trained, encoded and looked up.    *)
(***************************************************************************)
EXTENDS IoOptimizedIndex, DiskIndexBuild, ProductQuantizer

VARIABLE part  \* which artifacts this behaviour is about

Fn(s) == [n \in 0 .. Len(s) - 1 |-> s[n + 1]]
Laid(dimension, width, coords, graph) ==
  [file |-> CreateDiskLayout([npts |-> Len(coords), dimension |-> dimension, width |-> width,
                              medoid |-> 0, frozen |-> 0, coords |-> Fn(coords), graph |-> Fn(graph)], 0),
   coords |-> Fn(coords), graph |-> Fn(graph)]

MCBases ==
  [a |-> Laid(1, 3, <<3, 1, 4, 2, 5>>, <<<<1, 3, 4>>, <<0, 2>>, <<3, 1, 4>>, <<2>>, <<0, 3>>>>),
   b |-> Laid(2, 8, <<7, 6, 9, 8, 5>>, <<<<4, 1, 3, 2>>, <<2>>, <<0>>, <<4, 0>>, <<1>>>>),
   c |-> Laid(4, 2, <<1, 2, 3, 4>>, <<<<1>>, <<2, 0>>, <<3>>, <<0, 1>>>>),
   x |-> Laid(1, 2, <<1, 2>>, <<<<1>>, <<0, 2>>>>)]

Cell(begin, counts) ==
  [node_count |-> FoldLeft(LAMBDA s, k : s + k, 0, counts),
   blocks |-> [i \in DOMAIN counts |->
                 [packet_begin |-> begin + FoldLeft(LAMBDA s, k : s + k, 0, SubSeq(counts, 1, i - 1)),
                  node_count |-> counts[i]]]]
Side(base, dimension, community, cell, packet, cells, gateways, payload) ==
  [base |-> [kind |-> "base", id |-> base], point_count |-> Len(cell), dimension |-> dimension,
   node_to_community |-> Fn(community), node_to_cell |-> Fn(cell), node_to_packet |-> Fn(packet),
   cells |-> cells, gateways |-> gateways, payload |-> payload]

A == Side("a", 1, <<0, 0, 1, 1, 0>>, <<0, 2, 1, 1, 0>>, <<1, 4, 2, 3, 0>>,
          <<Cell(0, <<1, 1>>), Cell(2, <<2>>), Cell(4, <<1>>)>>, <<2, 4>>, 1)
MCSidecars ==
  [a1 |-> A, a2 |-> [A EXCEPT !.payload = 2],
   a3 |-> [A EXCEPT !.node_to_cell = Fn(<<0, 0, 1, 1, 2>>), !.node_to_packet = Fn(<<1, 0, 2, 3, 4>>)],
   b1 |-> Side("b", 2, <<0, 0, 1, 1, 1>>, <<0, 0, 0, 1, 1>>, <<2, 0, 1, 4, 3>>,
               <<Cell(0, <<2, 1>>), Cell(3, <<2>>)>>, <<3>>, 1),
   c1 |-> Side("c", 4, <<0, 0, 0, 0>>, <<0, 0, 0, 0>>, <<0, 1, 2, 3>>, <<Cell(0, <<4>>)>>, <<>>, 1),
   x1 |-> Side("x", 1, <<0, 0>>, <<0, 0>>, <<0, 1>>, <<Cell(0, <<2>>)>>, <<>>, 1)]

MCChunkClasses == <<16, 48, 96>>
MCRcniRows == <<<<0, 2>>, <<2, 1>>, <<1, 5>>, <<4, 1>>, <<3, 7>>>>

Ask(layout, encoding, hints, trim) ==
  [layout |-> layout, encoding |-> encoding, hints |-> hints, trim |-> trim]
MCBuildRequests ==
  {Ask("ORIGINAL_ID", "RAW_U32", TRUE, FALSE), Ask("CELL_4K", "PFOR_DELTA", TRUE, FALSE),
   Ask("CELL_CHUNKS", "RAW_U32", FALSE, TRUE), Ask("CELL_WEIGHTED_4K", "RAW_U32", TRUE, FALSE),
   Ask("CELL_U8_4K", "RAW_U32", FALSE, FALSE)}

Load(path, sidecar, only, paged, adj) ==
  [path |-> path, sidecar |-> sidecar, only |-> only, paged |-> paged,
   cache |-> IF paged THEN 1 ELSE 0, adj |-> adj]
MCLoadRequests ==
  {Load("topology", "sidecar", FALSE, FALSE, FALSE), Load("topology", "sidecar", FALSE, TRUE, FALSE),
   Load("topology", "sidecar", TRUE, FALSE, TRUE), Load("topology2", "sidecar2", FALSE, FALSE, FALSE)}

With(base, side, side2) ==
  [disk |-> [kind |-> "base", id |-> base], sidecar |-> [kind |-> "sidecar", id |-> side],
   sidecar2 |-> [kind |-> "sidecar", id |-> side2]]
MCInitialFiles ==
  {With("a", "a1", "a2"), With("a", "a1", "a3"), With("b", "b1", "a2"), With("c", "c1", "a2"),
   With("x", "x1", "a2"), [disk_pq |-> [kind |-> "pq"]] @@ With("a", "a1", "a2")}

MCReplacements ==
  {<<"disk", [kind |-> "base", id |-> "b"]>>, <<"sidecar", [kind |-> "sidecar", id |-> "a2"]>>}

MCBaseSets == [a |-> [points |-> 4, dimension |-> 2, lines |-> <<<<"x", "y", "z">>, <<"y">>, <<"x", "u">>, <<"z">>>>, first |-> 10],
               b |-> [points |-> 3, dimension |-> 4, lines |-> <<<<"x">>, <<"y", "x">>, <<"u">>>>, first |-> 20]]

Plain == [metric |-> "l2", ram |-> 8, budget |-> 100, filters |-> FALSE, universal |-> {}, threshold |-> 0,
          observer |-> FALSE, stats |-> FALSE, disk_pq |-> 0, reorder |-> FALSE, qd |-> 0, opq |-> FALSE, r |-> 2]
Sharded == [Plain EXCEPT !.budget = 17, !.r = 3]
\* More neighbors than load supports, in shards and in one piece.
TooWide == [Plain EXCEPT !.budget = 14, !.r = MaxGraphDegree + 1]
Labelled == [Plain EXCEPT !.filters = TRUE, !.universal = {"u"}]
MCBuildParams ==
  {Plain, Sharded, TooWide, [TooWide EXCEPT !.budget = 30], [Plain EXCEPT !.metric = "ip", !.qd = 1],
   [Sharded EXCEPT !.metric = "cosine", !.observer = TRUE],
   [Plain EXCEPT !.disk_pq = 2], [Plain EXCEPT !.disk_pq = 2, !.reorder = TRUE, !.qd = 4],
   [Plain EXCEPT !.ram = 0], Labelled, [Labelled EXCEPT !.threshold = 1],
   [Labelled EXCEPT !.budget = 24, !.r = 3, !.threshold = 2], [Labelled EXCEPT !.stats = TRUE],
   [Plain EXCEPT !.stats = TRUE, !.opq = TRUE]}

Ring(n) == [i \in 1 .. n |-> IF n = 1 THEN <<>> ELSE <<i % n>>]
Full(n) == [i \in 1 .. n |-> SelectSeq([k \in 1 .. n |-> k - 1], LAMBDA k : k # i - 1)]
MCGraphs == [n \in 1 .. 8 |->
  IF n <= 2 THEN {[graph |-> Ring(n), medoid |-> n - 1]}
  ELSE {[graph |-> Ring(n), medoid |-> n - 1],
        [graph |-> IF n = 3 THEN Full(n) ELSE [Ring(n) EXCEPT ![1] = SubSeq(Full(n)[1], 1, 2)], medoid |-> 0]}]
MCClosest(n, parts) ==
  IF parts = 3 THEN {[i \in 0 .. n - 1 |-> {i % 3, (i + 1) % 3}],
                     [i \in 0 .. n - 1 |-> IF i < 2 THEN {0, 1} ELSE {1, 2}],
                     [i \in 0 .. n - 1 |-> {0, 1}]}
  ELSE {[i \in 0 .. n - 1 |-> {i % parts, (i + 2) % parts}]}
MCOrders(n) == {[i \in 1 .. n |-> i - 1], [i \in 1 .. n |-> n - i]}
MCSamples(n) == {0 .. 3, {0, n - 1}}
\* Vectors in halves of the unit, with integral and other values, with
\* duplicates, and with more dimensions than one chunk holds.
Halves(s) == [i \in DOMAIN s |-> [d \in DOMAIN s[i] |-> s[i][d] * (Unit \div 2)]]
MCDatas ==
  {Halves(<<<<0, 0>>, <<2, 0>>, <<4, 2>>, <<0, 4>>>>), Halves(<<<<1, 0>>, <<2, 5>>, <<4, 2>>, <<6, 0>>>>),
   Halves(<<<<2, 0>>, <<2, 0>>, <<2, 0>>>>), Halves(<<<<0, 2, 4, 0>>, <<3, 2, 0, 4>>, <<0, 4, 2, 2>>>>)}
Turns(n) == {[d \in 1 .. n |-> d], [d \in 1 .. n |-> (d % n) + 1]}
PlainPq(data, chunks, mean) ==
  [data |-> data, chunks |-> chunks, mean |-> mean, opq |-> FALSE, trained |-> <<>>, saved |-> <<>>,
   metadata |-> 4, loader |-> "flash"]
MCPqCases ==
  {PlainPq(data, chunks, mean) : data \in {v \in MCDatas : Len(v[1]) = 2}, chunks \in {1, 2}, mean \in BOOLEAN}
  \cup {PlainPq(data, chunks, TRUE) : data \in {v \in MCDatas : Len(v[1]) = 4}, chunks \in {1, 3}}
  \cup {[PlainPq(data, Len(data[1]) \div 2, FALSE) EXCEPT !.opq = TRUE, !.trained = from, !.saved = to, !.loader = loader] :
           data \in {v \in MCDatas : Len(v[1]) = 4}, from \in Turns(4), to \in Turns(4), loader \in {"flash", "store"}}
  \cup {[PlainPq(data, 1, TRUE) EXCEPT !.metadata = 5] : data \in MCDatas}

IoRests == files = [p \in Inputs \cup Artifacts \cup Temps |-> Absent]
PqRests == pqCase = [chunks |-> 0] /\ pqStep = "none" /\ lloyds = Idle /\ trained = <<>>
           /\ pivots = NoPivots /\ codes = <<>>
IoQuiet == job = Resting /\ last = Nothing /\ view = NoView /\ unsynced = {}
           /\ jobs = 0 /\ rebuilds = 0 /\ crashes = 0

ArtifactsInit ==
  /\ DiskInit
  /\ \/ part = "io" /\ IoInit /\ PqRests
     \/ part = "disk" /\ IoRests /\ IoQuiet /\ PqRests
     \/ part = "pq" /\ IoRests /\ IoQuiet /\ PqInit

ArtifactsNext ==
  /\ UNCHANGED part
  /\ \/ part = "io" /\ IoNext /\ UNCHANGED diskVars /\ UNCHANGED pqVars
     \/ part = "disk" /\ DiskNext /\ UNCHANGED ioVars /\ UNCHANGED pqVars
     \/ part = "pq" /\ PqNext /\ UNCHANGED ioVars /\ UNCHANGED diskVars

ArtifactsSpec == ArtifactsInit /\ [][ArtifactsNext]_<<part, ioVars, diskVars, pqVars>>
=============================================================================

----------------------------- MODULE ShardMerge -----------------------------
(***************************************************************************)
(* The algorithms of a disk index build (src/index/disk_index_utils.cc,    *)
(* src/pq/partition.cc): integer labels, points of many labels split into  *)
(* dummies, the shards of a partition, the merge of the shards' graphs, and  *)
(* the breadth-first node cache of a search (src/search/pq_flash_index.cc).*)
(* Points and shards count from 0; a labels file is a sequence of lines.   *)
(***************************************************************************)
EXTENDS Integers, Sequences, FiniteSets, SequencesExt, FiniteSetsExt

LOCAL CeilDiv(a, b) == (a + b - 1) \div b

Ascending(S) == SortSeq(FoldSet(LAMBDA n, s : Append(s, n), <<>>, S), <)

(***************************************************************************)
(* Labels.                                                                 *)
(***************************************************************************)
\* convert_labels_string_to_int: a new label takes the map's size plus one;
\* the universal label, when there is one, is 0.
LabelMap(lines, universal) ==
  FoldLeft(LAMBDA seen, label :
             IF label \in DOMAIN seen THEN seen
             ELSE [x \in DOMAIN seen \cup {label} |->
                     IF x = label THEN Cardinality(DOMAIN seen) + 1 ELSE seen[x]],
           [x \in universal |-> 0], FlattenSeq(lines))

ConvertLabels(lines, universal) ==
  LET ids == LabelMap(lines, universal)
  IN [i \in DOMAIN lines |-> [j \in DOMAIN lines[i] |-> ids[lines[i][j]]]]

\* The labels of a line in groups of density; each group after the first
\* gets a dummy point of its own.
Groups(line, density) ==
  [g \in 1 .. CeilDiv(Len(line), density) |->
     SubSeq(line, (g - 1) * density + 1, Min({g * density, Len(line)}))]

BreakupDensePoints(lines, density) ==
  LET More(i) == Tail(Groups(lines[i], density))
  IN [labels |-> [i \in DOMAIN lines |-> Groups(lines[i], density)[1]]
                   \o FlattenSeq([i \in DOMAIN lines |-> More(i)]),
      dummy_of |-> FlattenSeq([i \in DOMAIN lines |-> [g \in DOMAIN More(i) |-> i - 1]])]

ExtractShardLabels(lines, ids) == [k \in DOMAIN ids |-> lines[ids[k] + 1]]

\* build_filtered_index draws the start node of a label among the points that
\* carry it or the universal label: the points it may draw.
LabelCandidates(lines, universal) ==
  LET labels == UNION {ToSet(lines[i]) : i \in DOMAIN lines}
      Carries(i, x) == x \in ToSet(lines[i]) \/ (universal /\ 0 \in ToSet(lines[i]))
  IN [x \in labels |-> {i - 1 : i \in {j \in DOMAIN lines : Carries(j, x)}}]

(***************************************************************************)
(* Shards.  closest[n] is the set of the KBase centres nearest to point n. *)
(***************************************************************************)
ShardIds(closest, shard) == Ascending({n \in DOMAIN closest : shard \in closest[n]})

\* retrieve_shard_data_from_ids streams the base once, so it finds the ids
\* only when they ascend.
RetrieveShardData(coords, ids) ==
  FoldLeft(LAMBDA rows, n :
             IF Len(rows) < Len(ids) /\ ids[Len(rows) + 1] = n THEN Append(rows, coords[n]) ELSE rows,
           <<>>, Ascending(DOMAIN coords))

(***************************************************************************)
(* merge_shards.  A shard is [ids, graph, medoid]: global ids of its rows, *)
(* local neighbour lists in row order, local medoid.                       *)
(***************************************************************************)
\* Mutant of NodeShards: shard by shard instead of node by node.
NodeShards_ByShard(shards) ==
  FlattenSeq([s \in DOMAIN shards |-> [k \in DOMAIN shards[s].ids |-> <<shards[s].ids[k], s>>]])

\* The (node, shard) pairs, by node and then by shard.
NodeShards(shards) ==
  LET nodes == Ascending(UNION {ToSet(shards[s].ids) : s \in DOMAIN shards})
      Of(n) == Ascending({s \in DOMAIN shards : n \in ToSet(shards[s].ids)})
  IN FlattenSeq([k \in DOMAIN nodes |-> [j \in DOMAIN Of(nodes[k]) |-> <<nodes[k], Of(nodes[k])[j]>>]])

AddNew(list, more) ==
  FoldLeft(LAMBDA l, n : IF n \in ToSet(l) THEN l ELSE Append(l, n), list, more)

\* One pair: write the previous node's list when the node changes, then read
\* the shard's next list and rename it.
MergeStep(shards, s, pair) ==
  LET flush == s.current < pair[1]
      from == shards[pair[2]]
      list == from.graph[s.cursor[pair[2]]]
      renamed == [j \in DOMAIN list |-> from.ids[list[j] + 1]]
  IN [current |-> IF flush THEN pair[1] ELSE s.current,
      written |-> IF flush THEN Append(s.written, s.list) ELSE s.written,
      list |-> AddNew(IF flush THEN <<>> ELSE s.list, renamed),
      cursor |-> [s.cursor EXCEPT ![pair[2]] = @ + 1]]

\* The lists as merged, before each is shuffled and cut to the degree.
MergedLists(shards) ==
  LET end == FoldLeft(LAMBDA s, pair : MergeStep(shards, s, pair),
                      [current |-> 0, written |-> <<>>, list |-> <<>>,
                       cursor |-> [s \in DOMAIN shards |-> 1]], NodeShards(shards))
  IN Append(end.written, end.list)

\* shuffle, then keep max_degree: order is the shuffle of all ids.
Cut(list, order, degree) ==
  SubSeq(SelectSeq(order, LAMBDA n : n \in ToSet(list)), 1, Min({Len(list), degree}))

RenamedMedoids(shards) == [s \in DOMAIN shards |-> shards[s].ids[shards[s].medoid + 1]]

(***************************************************************************)
(* cache_bfs_levels: whole levels from the medoids on, up to one point in  *)
(* share (ten in the code).                                                *)
(***************************************************************************)
CacheTarget(requested, points, share) ==
  Min({requested, Max({1, (2 * points + share) \div (2 * share)}), points})

SeedLevel(medoids, target) ==
  FoldLeft(LAMBDA level, m : IF Cardinality(level) < target THEN level \cup {m} ELSE level, {}, medoids)

ExpandLevel(graph, s, target) ==
  LET cached == s.cached \cup s.level
      expand == Ascending(s.level \ s.cached)
  IN FoldLeft(LAMBDA t, n : IF Cardinality(t.cached) + Cardinality(t.level) >= target \/ n \in cached
                            THEN t ELSE [t EXCEPT !.level = @ \cup {n}],
              [cached |-> cached, level |-> {}], FlattenSeq([k \in DOMAIN expand |-> graph[expand[k]]]))

CacheBfsLevels(graph, medoids, target) ==
  LET end == FoldLeft(LAMBDA s, i :
                        IF Cardinality(s.cached) + Cardinality(s.level) < target /\ s.level # {}
                        THEN ExpandLevel(graph, s, target) ELSE s,
                      [cached |-> {}, level |-> SeedLevel(medoids, target)],
                      [i \in 1 .. Cardinality(DOMAIN graph) + 1 |-> i])
  IN end.cached \cup end.level
=============================================================================

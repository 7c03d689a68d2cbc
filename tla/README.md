# SkipCell in TLA+

SkipCell is an SSD-resident approximate nearest-neighbour search: a Vamana graph on disk,
product-quantized vectors in memory, exact vectors in 4-KiB pages, and a hierarchy of Communities
and Cells ("community-polar") that decides which pages a query reads. Queries run on OpenMP threads,
read pages through one shared LRU page cache, and may adapt the page layout while they run. Beside
the disk search the repository holds `powerlaw_ann_t`, an in-memory HNSW index with a delta buffer,
and a chunk store.

This project models the program from the building of an index to the saving of a search's results,
checks the models with TLC on small instances, and proves with TLAPS, for every value of the constants,
the safety of the page cache and of the queries that read through it, of the adaptive runtime, of the chunk
store, and of the incremental Vamana index with its refinement. Paths below are relative to the repository.

## Inventory

| Component | State | Operations | Hard behaviour |
| --- | --- | --- | --- |
| LRU page cache, `src/io_lru_buffer_pool.cc` | `resident_`, `loading_`, `free_frames_`, `lru_`, pin counts, unused-prefetch count, admission credit; one mutex, one condition variable | `reserve`, `reserve_many`, `try_reserve_hit`, `publish(_many)`, `release(_many)`, `clear`, `reset_capacity` | threads sleep inside a batch with pins and loads in hand; miss coalescing; eviction against pins; failed loads; a clear that throws half way |
| Query page I/O, `src/search/pq_flash_index.cc` | reservation lists, scratch pages, an asynchronous refinement batch | one round per hop: reserve, read, publish, score, release; a final refinement, optionally prefetched | sleeping for each other's loads; scratch memory shared by three uses; I/O errors; a prefetch in flight while rounds go on |
| libaio reader, `src/storage/linux_aligned_file_reader.cc` | a kernel context per thread | `read`, `submit_async`, `complete_async` | completions counted and not matched; refused and partly accepted batches; device errors; interrupted waits |
| Adaptive Cell runtime, `src/index/adaptive_cell_runtime.cc` | the snapshot pointer, profile counters, pending flags, publish budget, overlay file; a builder thread | `observe_query`, `try_publish`, `make_*_replacement`, `background_loop`, `drain_background`, the destructor | lost wake-ups; CAS against a stale snapshot; readers of old generations; failed overlay writes |
| Chunk buffer pool and disk manager, `src/chunk_buf_pool.cc`, `src/disk_manager.cc` | chunk arrays, free lists, metadata file | allocate, release, open, close, read, write | metadata written only at close; partial opens; crashes between file operations |
| `powerlaw_ann_t`, `src/powerlaw_ann.cc`, `hnsw.cc`, `delta_store.cc`, `disk_index.cc` | HNSW graph with a lock per node, delta records and their file, index file; a background thread | insert, build, consolidate, save, load, destruction | inserts lock by lock; a merge beside a save; a crash between flush, merge and removal |
| Vamana index, incremental, `src/index/vamana_index.cc` | graph, tags, delete set, free slots; four kinds of locks | `insert_point`, `lazy_delete`, `consolidate_deletes`, `compact_data`, `search_with_tags`, save, load | lists changed between two holds of a lock; slots reused during an insert or a search |
| Vamana index, static, same file, and the importance scores `src/index/rcni.cc` | graph, label tables, observers | `build`, `build_filtered_index`, prune, plain, filtered and optimized search, save, load | parallel linking, label-aware pruning, files of an earlier save |
| Disk build, `src/index/disk_index_utils.cc`, `src/pq/partition.cc` | a dozen files under one prefix | one-shot and sharded builds, merge, label splitting, layout, cache list | leftovers of earlier or killed builds; ids renamed twice |
| Product quantization, `src/pq/` | pivots, codes, tables | train, encode, inflate, look up | uneven chunks, integral shortcuts |
| IO-optimized artifacts, `src/index/io_optimized_index.cc` | topology, vectors, Cell adjacency; fingerprints and checksums | build, rebind, publish, load | unsynced files, overtaken loads, a sidecar exchanged under a topology |
| Community-polar hierarchy, `src/index/community_polar_index.cc` | communities, gateways, Cells, blocks, packets; the sidecar file | build, repack, profile, save, rebind, load | bounded lists per worker merged afterwards; sidecars of another PQ file |
| Beam search and Cell routing, `src/search/pq_flash_index.cc`, `community_polar_search.cc` | candidate queue, thread-local query state | the query loop from entry points to answer | state that survives a query, budgets, loops that must end |
| Facade and driver, `src/power_ann.cc`, `src/search/diskann_search.cc` | switches, curve points, counters, telemetry | check options, load, warm up, run curves, save | the same rules written three times; points that share one index and one cache |
| io_uring reader, scratch store, standalone `vamana.cc`/`pq.cc`, scripts, third-party code | | | not modelled, see below |

How they meet. A build runs PQ training, Vamana (one-shot or in shards), the merge and the disk
layout; its observer produces the importance scores; the community-polar builder reads the disk graph, and
the artifact builder lays the vectors out in its Cells. A search loads all of these, in an order its
switches choose. A query thread calls the cache with lists of page ids; a `LOAD` makes it the owner of
the read, which it submits to its own kernel context and must publish; a `HIT` gives it a pinned frame;
a `BYPASS` sends the read to the thread's `sector_scratch`. The driver clears or resizes the cache
between curve points. A query takes a snapshot of the adaptive runtime when it starts (an owning
pointer, or the raw `final_snapshot_` once the publish budget is spent) and reports the Cells it loaded
when it ends; the builder thread merges Cells in the background.

What makes them correct: a frame has one use, pins are exact, a reserved page stays where it is, and a
sleeper's page is being loaded; distances come from the bytes of the right page; every query ends; a
snapshot of any generation leads to the vectors; a slot or a label has one owner; an index or a sidecar
that loads is the one that was built, whatever was killed in between; an accepted option is a runnable
one; a point of a curve is what a run of its own would measure.

## Modules

Page cache and queries.

- `LruBufferPool`: the cache. A thread's call is a sequence of turns of `reserve_locked`, one action per
  outcome (`ReserveHit`, `ReserveWait`, `ReserveCoalesced`, `ReserveFree`, `ReserveEvict`,
  `ReserveBypass`). `mutex` names the thread inside a batch, so others run between two pages of a batch
  only when it sleeps. The client is the most general one that respects the interface: any pages, any
  access class, each load published once (with success or not), each pin released once. `held` and
  `pending` are the reservations callers keep; `content` is the page whose bytes a frame holds. Frames are
  interchangeable, so the stack `free_frames_` is a set. Statistics are left out.
- `QueryPageIo_proofs`: the theorems about both. Every `*_proofs` module extends what it is about and declares
  nothing; `SharedLemmas` holds the lemmas several of them need: stacks without repetition, counting and ranking
  finite sets, and folds, loops and recursive functions that keep a set (each stated of a set, not of an operator).
- `QueryPageIo` extends the cache with the page reads of one query per thread and replaces the general
  client by the calls the search makes: `BeginRound`/`BeginRefine`/`BeginPrefetch` choose pages,
  `CallReserve` and the `Take*` actions collect reservations, `Submit*` hand requests to the kernel,
  `Complete` (external) moves the bytes, `ReadReturns` copies range reads and publishes, `ScoreAndRelease`
  scores. Each configuration names its options (`enable_cell_pq_traversal_`,
  `cell_pq_refine_prefetch_hop_`, `enable_cell_page_batch_`) and the kernel faults that may happen: a
  refused or partly accepted submission, a device error, an interrupted wait, of `read` and of the asynchronous
  batch alike. Which pages a query wants is
  left open: any list is possible, sorted where the code sorts. No frame of the cache is a page of a
  `sector_scratch` (`ScratchAssumption`): they are separate allocations.

Stores.

- `DiskManager`: open and close are sequences of file operations which an exception or a crash may cut;
  `held` is what the client was given and keeps over restarts. `ChunkBufPool`: one level of the pool with
  the control bodies of its chunks; levels share nothing.
- `HnswIndex`: an insert lock by lock (`label_lock_`, `global_lock_`, the neighbours' locks), one action
  per hold. `PowerlawAnn` extends it with the delta buffer, the background thread, the API calls and the two
  files; a crash ends the process and may tear what was being written, and the next one opens the same
  files. A vector is a number, and of two vectors of a label the larger number is the newer.
- `AdaptiveCellRuntime`: queries, the builder, other callers of `try_publish` and the driver. The wait
  predicate is evaluated under the mutex and sleeping is a second step; a notification wakes only threads
  that already sleep. A snapshot is identified by its generation. One vector and one page per Cell stand for
  a population; `disk` is the Base plus overlay pages; `BuildPhysical(FALSE)` is any failure of writing,
  syncing or verifying. Checksums, the manifest file and metrics are left out, and the six counters of a
  candidate move in one step.

Building an index.

- `TagStore` is what an incremental index promises: a set of live tags in a bounded number of slots; a
  deleted tag disappears at once, its slot with a consolidation. `VamanaIndex` implements it: a step is what
  runs under one hold of the locks that guard its data. Distances decide only which candidates survive a prune,
  so a prune is a choice. The refinement mapping takes `live` to the tags in `tag_to_location_`,
  `pending` to the size of the two delete sets, the current one and the one being consolidated, and `refuses` to
  whether `reserve_location` fails: the store lets an insert fail only when live and deleted tags fill it, so a
  consolidation that loses a slot does not refine it. `damaged` is a history variable: a save has written an index
  whose layout has holes while `data_compacted_` was set (finding 6). What comes after such a save is excepted.
- `VamanaBuild`: the static build with parallel link workers and exact prunes on integer points, cleanup,
  search, save and load. `Rcni`: the importance counted from its prune events, sharded by thread.
- `ProductQuantizer`: chunk bounds, training, codes and tables on integers. `ShardMerge`: labels, shards, the
  merge and the node cache as pure operators. `DiskLayout`: how records are packed in sectors and found again.
  `DiskIndexBuild`: the build file operation by file operation, with kills, and the load that follows.
- `IoArtifactFormat`: layouts, PForDelta, directory, hints, Cell adjacency, what a load accepts.
  `IoOptimizedIndex`: commands and loads on the files, with failures, crashes that tear unsynced files, and
  inputs replaced by another tool. A fingerprint or checksum is the content it is computed from.
- `CommunityPolarIndex`: the hierarchy's contents and `validate_loaded_index`. `CommunityPolarBuild`: the
  builder's stages with workers that scan the crossing edges, and the repacks. `CommunityPolarSidecar`:
  serialization by version, temporary file and rename, rebind, load. Positions are integers; features in floating
  point become exact sums.

Searching.

- `CommunityPolarSearch`: the query state and the operations a beam search calls on it. `BeamSearch`: the
  loop of one thread cut where control may leave it; the state `s` outlives the query, `q` holds the locals.
  Page reads are `QueryPageIo`'s; here a page is read when it is asked for.
- `SearchOptions`: the rules of the facade, of load and of the configure calls as predicates over the set of
  switches that are on, and the policies as functions on that set. `SearchCurve`: a call through facade, policies,
  load, the points of a curve with their warm-up, and the writing of its files, with crashes; `files` outlives the
  program. `SearchCurve_proofs`: its theorems.

The `MC_*` modules instantiate these. Six put components side by side that share no state, so that each is explored
while the others rest (variable `part`): `MC_Storage` (disk manager and pool, `powerlaw_ann_t`, adaptive runtime),
`MC_VamanaBoth` (incremental, static), `MC_Artifacts` (IO-optimized, disk build, PQ), `MC_CachedArtifacts` (these
and the page cache with its general client), `MC_CommunityPolar` (builder, sidecar), and `MC_SearchDriver` (beam
search, curves). Real composition is by `EXTENDS`: queries over the cache, `powerlaw_ann_t` over HNSW, the artifact
and the disk build over the disk layout, the beam search over the hierarchy's query state.

## Runs

Every bound is a named constant of a cfg or a definition of an MC module. Twelve runs ask twelve questions;
six check what holds, six show a disagreement.

| Run | Checks | Bounds and why they are enough |
| --- | --- | --- |
| `query` | right bytes scored, cache quiet afterwards, every query ends | two queries in seven configurations: Cell-PQ, Cell-PQ under every kernel fault, a refinement prefetch with one frame, the same with refused submissions and failing reads, and with partial batches and interrupted waits, a prefetch with Cell page batches, graph traversal. One or two rounds and a refinement read show every reuse of a buffer; one frame makes the prefetch leave pages in scratch memory |
| `query_prefetch_waits` | violated: every query ends | one query, a prefetch and one Cell batch |
| `adaptive_drain` | violated: drain returns | one query, one pair of Cells, as in the repository's test |
| `storage` | slots given once, chunks read back, next frame pristine; lists allocated, consolidation complete, a saved index comes back; vectors where the snapshot says, final snapshot current, merges persist | disk manager: two chunk files, of two slots and of one, and two opens. `powerlaw_ann_t`: two lives, two calls beside the inserts, four vectors in two near pairs, capacities that fill and that do not. Runtime: three Cells whose merges chain, two queries or a query and another publisher |
| `delta_replay` | violated: what was saved comes back | one label, two lives |
| `vamana` | store: no list leads to a free slot, a search scores its own tag, implements `TagStore`. build: witnesses of prunes, exact counts, exact answers over what is reachable, a saved index loads | store: three tags over two slots and three inserts by two threads, so slots are reused; degree one, so every addition prunes; one save. build: up to four points, two workers, eight constructions (saturated, frozen, inner product, labelled, oversized) |
| `vamana_conc` | violated: inserts survive consolidation | the same store, concurrent consolidation |
| `vamana_save` | violated: a save writes the live tags | two slots, one insert, one save |
| `community_polar` | gateways as by a full sort, what is built is valid, only fitting sidecars are searched | five nodes, two communities, two workers with lists of fewer entries than there are targets; two jobs and one rebuilt PQ artifact between a save and a load |
| `search` | a query starts fresh, exact routing, graph guard, every query ends; accepted options load, points as alone, saved files whole | eight nodes, four Cells, two Communities, twenty-one configurations, two queries on one thread. Options: every combination within two switches of the supported ones. Curves: pairs of calls with two points |
| `artifacts` | page cache: one use per frame, exact pins, reserved pages stay, sleepers have loads, prefetching evicts at most one demand page per credit. Artifacts: what loads describes its Base, completed builds load, Cell pages hold their Cell; a completed disk build loads, merged lists are unions; own code is nearest | four Bases (two nodes per sector, nodes over two sectors, u8 vectors, a bad endpoint), six sidecars, two jobs, one replaced input, one crash. Disk: two builds at one prefix, one kill, up to five shards, a degree above the bound. PQ: blocks with duplicates, uneven chunks, integral and half values. Cache: two threads (a waiter and an owner, a pinner and an evictor), three pages, one or two frames: eviction, coalescing and bypass happen, and a batch of two holds something while it sleeps; `Bounded` lets only demand clients of the larger pool hold several reservations |
| `disk_labels` | violated: labels reach the index | the same disk builds |

Deadlock checking is off where the system may really stop: the cache's client may hold everything and stop; the
runtime ends destroyed, or asleep after the lost wake-up `DrainReturns` is about; in the query runs every query ends
done or thrown, and `QueriesEnd` catches a stop before that; stores and builds end when their bounded number of
lives, jobs or calls is used up. It is on in `vamana`, `vamana_conc` and `vamana_save`, where idle threads may
always search, and in `search`, where `Rests` is the only way to stop.

Some properties name what the code does not protect, so that the rest stays a claim:

- `ScoresRightBytes` is claimed of a kernel that does a batch or refuses it whole, and of queries with a prefetch
  that have no round of reads beside it: `execute_io` ignores `event.res` and counts events without matching them,
  so a failed read, or a read that takes completions of a prefetch, is published as complete (`Reliable`). With Cell
  page batches the prefetch has another hazard, also without rounds: a page it found no frame for stays in
  `sector_scratch`, `can_batch` (`src/search/pq_flash_index.cc` 3732-3738) looks only at the reservations that come
  after the prefetch's, and range reads start at page 0 (3749-3768), so they write over it. `Overwritten` excepts
  the pages they hit; every other page of such a query is claimed.
- `QueriesEnd` excepts what a refused prefetch strands (`LoadsAbandoned`): `submit_async` is called outside any
  `try` (`src/search/pq_flash_index.cc` 3331-3333), so its query ends with an exception, its loads are never
  published, and queries that want one of these pages sleep for ever. A refused or failed `read` strands nobody, and
  neither does a prefetch that fails after it was accepted.
- `QueryEnds` excepts one stall (`StallsOnMarker`): the loop goes on while routed Cells wait (2531-2533), and they
  wait for as many expanded candidates as `cell_activation_marker` says (2489-2499). Nothing checks that option
  (`bin/search_diskann_index.cc` 103); a marker above the number of candidates the search can expand makes the query
  spin for ever with its candidates exhausted.
- `CompletedDiskBuildLoads` excepts a degree above `MAX_GRAPH_DEGREE`, which load refuses
  (`src/search/pq_flash_index.cc` 519-521) and no build checks (`src/diskann_index.cc` 76-81): a sharded build
  writes records of width R (`src/index/disk_index_utils.cc` 263-275) and never loads, a one-shot build loads as long
  as no list is longer than the bound. `TooWide` in the run is such a build, in shards and in one piece.
- The properties of the incremental index are claimed until a save damages it (`damaged`, finding 6).
- `NoSlotGivenTwice` and `ChunksReadBack` are claimed while no metadata was lost: counts and free lists reach
  the file only at close, and an open that fails half way leaves a manager whose close writes over it.
- `QuietSaveComesBack` is `SavedComesBack` for a save beside no merge. Records appended behind a torn one are
  read out of step and are excepted.
- `SavedIndexLoads` is about a save that ended: graph, data and tags are written under their final names, and a
  mixture of two saves with equal counts loads. A load also reads the label files that a filtered index left under
  the prefix, as the model does; the property asks that nothing saved is lost and not that nothing is added.
- `LateRefusal` in `AcceptedOptionsLoad` lists the six combinations that the facade accepts and load or a
  configure call refuses: refinement by leaves without the cache, a gateway prefetch limit of zero without gateway
  prefetching, prefetching next to an L-aware search without refinement, several Cells added for a neighbor without
  a Cell adjacency file, a ranked page budget above `MAX_N_SECTOR_READS`, and handoff, terminal convergence or
  hierarchical routing under the Communities with a list below `cell_min_search_list_size`: the driver takes the
  Cells from a single search (`src/search/diskann_search.cc:1078`) and `community_polar_search_t::load` validates
  what is left (`src/search/community_polar_search.cc:957`). Only a single search is gated, so a curve with such a
  list size runs while the search alone does not: `LoadsAlone` in `PointsAsAlone` excepts it, and a MemGraph chosen by
  the hierarchy that the gate has switched off altogether.
- `SavedFilesAreWhole` covers telemetry (temporary file, removal, rename); ids and distances are two files
  written in place.
- `LoadedIndexDescribesBase` excepts every load that a publication overtook, before its checks or after them;
  `CompletedBuildLoads` excepts u8 vectors at odd offsets and PForDelta lists longer than a permutation byte can
  number.
- `BuiltIndexIsValid` excepts two configurations in which the builder makes what its own validation refuses:
  nodes of equal radius that overflow a Cell, and blocks that a repack shrinks.

Reading the driver for `SearchCurve` showed limits that the model has and no property forbids: a cache curve on a
call without the hybrid search ignores its capacities (`src/power_ann.cc:505`); under an L-aware search without
refinement it measures with no cache at all (`src/search/diskann_search.cc:1028`); points of a thread or cache
curve overwrite each other's result files (197); a mismatch of the recall parameters is noticed after the search
(1649).

Fairness. Only liveness needs any. Query threads, publishers, the builder and the driver are OS threads: each is
scheduled while it can step (weak fairness per thread). The kernel completes what it has accepted (weak fairness
per context). A beam search is one thread's loop: `WF_phase(Onward)` says that a query that can go on does.
Nothing is assumed of the order of completions, of which sleeper a notification wakes, or of the mutex beyond
that a thread that can always take it does. All other specifications are safety only.

## Findings

1. `query_prefetch_waits`: with Cell batches and a refinement prefetch, a Cell batch that contains a page of the
   query's own prefetch waits in `reserve_many` for a publication that comes after it. The configuration checks
   (`src/search/pq_flash_index.cc` 375-420, `src/power_ann.cc`) allow the two options together.
2. `adaptive_drain`: flags are stored and the condition variable is notified outside the mutex; a wake-up between
   the builder's predicate and its sleep is lost, and `drain_background` (or the destructor's join) never returns.
3. `delta_replay`: `consolidate` looks at `empty()` before it takes `bg_mu_`; a save beside a merge leaves a delta
   file older than the index, and the next load replays it over newer vectors.
4. `vamana_conc`: an insert publishes its tag before it writes its vector; with concurrent consolidation the slot
   may be deleted, released and reused in between, and the late write lands in the other point's vector.
5. `disk_labels`: `save` and the disk build name a filtered index's label files differently, so a filtered disk
   build succeeds without the start nodes of its labels.
6. `vamana_save`: `data_compacted_` is true until the first lazy delete, and `compact_data` then returns at once; but
   inserts into a fresh dynamic index take its slots from the last one down. A save after inserts alone writes the
   locations below `nd_`, in which none of the points need be, and their tags are lost.

In the search driver an exception of a query leaves an OpenMP region and ends the process, so what a failed query
leaves behind concerns other callers of the library.

## Proofs

The theorems hold for any sets of threads, queries, pages, frames, tags or Cells and any bounds, finite or not
where the model allows it, from the named assumptions of the modules only. Each component has one inductive
invariant; a lemma per action shows that the action keeps it, one step per conjunct the action can disturb, and
the properties follow from it.

| Module | Inductive invariant | Properties proved |
| --- | --- | --- |
| `QueryPageIo_proofs`: the cache | `IInv` | `TypeOK`, `FramesHaveOneUse`, `PinsMatchHolders`, `ReservedPageStays`, `OneLoaderPerPage`, `LruMatchesResidents`, `SleepersHaveLoads`, `PrefetchEvictionBounded` |
| `QueryPageIo_proofs`: queries | `QInv`, and `ByteInv` beside it | `IInv` under the queries, `CacheQuiescesAfterQueries`; `ScoresRightBytes` without a prefetch |
| `AdaptiveCellRuntime_proofs` | `RuntimeInv`, and `FinalInv` beside it | `VectorsWhereSnapshotSays`, the action property `MergesPersist`; `FinalIsCurrent` with the builder as only publisher |
| `Storage_proofs`: disk manager | `DiskInv` | `NoSlotGivenTwice`, `ChunksReadBack` |
| `Storage_proofs`: pool | `PoolIInv` | `NextChunkIsPristine`, and that the free stack lists exactly the free chunks |
| `PowerlawAnn_proofs` | `LifeInv`; `MergeInv` and `FilesInv`, each on top of the one before | `ListsStayAllocated`; `ConsolidatedIsIndexed`; `QuietSaveComesBack` |
| `CommunityPolarSidecar_proofs` | `SidecarIInv` | `SearchedSidecarFits` |
| `VamanaIndex_proofs`: incremental | `SlotInv`, and `GraphInv` beside it | `ImplementsStore` (the refinement of `TagStore`), `NoEdgeToEmptySlot`, `SearchScoresItsTag` |
| `VamanaIndex_proofs`: static | `WitnessInv`; `SaveInv` on top of it | `PruneKeepsWitness`; `SavedIndexLoads` |
| `SearchCurve_proofs` | `IInv`, and `AloneInv` beside it | `AcceptedOptionsLoad`, `SavedFilesAreWhole`, and `SetUpAlone`, the first half of `PointsAsAlone` |

Why the invariants say more than the properties:

- Cache. That a pinned page stays needs that its frame is not a victim (pins are exact), that loading never targets
  a resident frame (one use per frame) and that a resident frame holds its page before anyone asks for it
  (`ResidentBytes`). That a sleeper's page is in flight needs that a call has a page left (`CallsHavePages`).
  Counting pins and unused pages needs finite sets (`FiniteBooks`). The credit argument needs that the credit is
  there only while nothing was evicted (`CreditSpent`).
- Queries. The cache's invariant counts reservations without knowing who remembers them. `QueryBooks` closes the
  gap: the two lists of a query that has not thrown are exactly what it holds (`Describes`, `Listed`), a
  reservation stands in one of them (`Apart`), and a query that is done has both empty (`QueryPlaces`). This holds
  in every configuration and under every kernel fault; a query that throws may leave pins behind, and the
  property is about queries that end normally. `CacheHoldsUnderQueries` says that the queries use the cache as its
  own specification allows.
- Bytes. `Mine` names the buffers only the reads of one query may fill: its `sector_scratch` and the frames of the
  loads it has not published. No such buffer is another query's, holds a resident page or is in a reader's hands
  (`MineApart`), so the steps of other queries leave a query's bytes alone (`OthersBytes`). Within a query, scratch
  pages are numbered in order (`OwnScratch`), which makes the buffers of its reads distinct whether they are
  single reads or slots of a range read (`TargetUnique`); and while `read()` waits, a request is in flight or has
  moved its pages, and the completions it still expects are those in flight (`Reading`), so when it
  returns every page is in place (`ReadComplete`) and the copies bring it to its frame (`CopiesLand`).
- Runtime. A snapshot is safe for its readers because every generation, not only the current one, keeps its vectors
  in place (`VectorsInPlace`); a replacement on its way to the CAS fits the snapshot its publisher read
  (`ReplacementsFit`), so the CAS is what makes merges persist.
- Disk manager. What accounts for the client's chunks moves between the memory (`Accounts`) and the bytes of the
  metadata file (`AccountedBy`), depending on where open and close are. That an open finds what the close wrote
  is a theorem about the format: `load_meta` applied to the image of counts and lists gives them back.
- HNSW and its delta buffer. `LifeInv`: every list names elements whose list on that layer is allocated (`IndexOk`),
  an insert holds an element no other insert holds and walks over such lists only (`InsertOk`, `ElementsApart`), and
  the two threads hold the locks that where they are says they hold (`Control`). That the searches return such
  elements is proved of `SearchLayer`, `GreedyLower` and `SelectNeighbours` as loops that keep their set of states.
  `MergeInv`: the newest vector of a label is in the buffer, among the records build still has to insert, or in the
  index (`NewestIsSomewhere`); what a merge has not inserted yet decides a label, or the index has the vector the
  buffer leaves it (`MergesGoOn`). While the background thread merges the application may be in build, whose labels
  are others. `FilesInv`: vectors are numbered by the clock, the buffer is newer than the index file
  (`BufferIsNewer`), and what the delta file leaves of a label is never older than the index file (`LogIsNewer`)
  nor, while no merge is under way, than the index itself (`LogNotBehind`): that is why a save in a quiet moment may
  write the file, and a replay over it (`ReplayGoesOn`) brings back nothing older. TLC checked the parts of the last
  two on 764,684 states before they were proved.
- Sidecar. A body is never longer than the one its checksum was taken of, so a cut file fails its checksum or was
  not cut (`FileFits`); what is being written under the temporary name would, if it were complete, belong to the
  base index (`WriteFits`, `RebindFits`), and only complete files get the final name.
- Vamana. Slots: empty, tagged, deleted and being-consolidated locations partition the index, the two tag tables
  are inverse and the counters agree (`SlotInv`). A save packs the tagged slots to the front, and that this is one to
  one is the rank lemma of `SharedLemmas`. Graph: a linked node leads to linked nodes, everything a call holds
  between two locks is linked, and a consolidation owes repairs only to the points it has still to process.
  The refinement has one lemma per step that moves a tag (`Add`, `Remove`, `Reclaim`, `Restore`); all others stutter.
  That an insert fails only when the store is full is the count of the slots (`RefusalsAreRight`).
- Static build. What RobustPrune keeps is proved of its loops, round by round and candidate by candidate
  (`ConsiderLemma`, `RoundLemma`, `OccludeListLemma`): every factor of a candidate comes from a kept node that may
  occlude it (`KeptIsFair`), a candidate of the last round is taken or occluded unless the list is full (`Decided`),
  and no later step undoes either (`GoesOn`). The candidates are the nearest because counting numbers them in order
  (`CloserRank`, on the rank lemma of any strict order). `LinkInv` adds what a step under another thread's lock must
  leave alone: the pools of all threads hold points with integer distances, and the data store, the labels and the
  parameters of an index do not change while it is linked. Files: a save has written what its cursor has passed
  (`Written`), each file once (`WritesNames`), and outside a save the files hold what the last ended save wrote
  (`FilesHold`).
- Options. The three sets of rules meet in two steps. A routed call keeps the switches that do not belong to the
  hierarchy (`RoutedCall`); the late policies change only those that do, and load and the configure calls ask
  nothing of them but whether there is a hierarchy (`PolicyIsPlain`, `AcceptanceIsPlain`). So it is enough to
  compare the rules after the L-aware and the forced-tree policy, for every combination at once
  (`RewrittenAccepted`); leaving out a rule of the facade, or one of the six exceptions, breaks that proof.
- Curves. A list size may come twice in a thread or cache curve, so the invariant speaks of the last point that had it
  (`LastOfSize`) and sets the point apart that is rewriting its files (`Rewrites`). That a telemetry file is whole
  rests on the order: it gets its name only once it is closed. The switches are settled by the first list size;
  `SharedPolicy` shows that the checks on the thresholds make them those of each list size alone.

What the theorems assume, beyond the constants:

- `ScoresRightBytes` is proved for searches without a refinement prefetch. With a prefetch and rounds beside it
  the property is false (a `read` takes the prefetch's completions, see above); the prefetch without rounds, less
  the pages range reads overwrite, is model-checked. That the kernel is `Reliable` is part of the property itself.
- `FinalIsCurrent` is proved where the builder is the only caller of `try_publish`, which is so in `src/`
  (`adaptive_cell_runtime.cc` 689). A second publisher between the CAS and the count overruns the budget. The
  other two theorems of the runtime hold for any publishers.
- The theorems of the incremental index are about every behaviour, and say nothing of an index once a save has
  damaged it (`damaged`), as the properties do: `DamageStays` and `SlotsTaken` show that up to then the accounting is
  exact. Its graph theorems are about indexes without concurrent consolidation: with it they fail, `vamana_conc`.
- The static index: the rows of a data file have one dimension, and the parameters are unsigned (`BuildAssumption`).
- `SearchCurve_proofs` assumes of the calls their types only (`CallAssumption`).
- `PowerlawAnn_proofs`: the labels of bulk builds are none of those inserted (`PowerlawAssumption`), as in the model.
- `NoSlotGivenTwice` and `ChunksReadBack` are about managers whose metadata was not lost (`clean`), as stated there.

Only model-checked: all liveness (`QueriesEnd`, the ends of the beam search), since fairness and `ENABLED` are
outside the prover's reach; `BeamSearch`, `CommunityPolarBuild`, `CommunityPolarIndex`, `CommunityPolarSearch`,
`IoArtifactFormat` and `IoOptimizedIndex`, which reach `RECURSIVE` operators; `Rcni`, `ProductQuantizer`,
`ShardMerge` and `DiskIndexBuild`, and of `VamanaBuild` `RankingCountsEveryPrune` and `AnswersExactOverReach`, whose
claims are about what folds and searches compute, an induction over data; and `CountsAlone`, the second half of
`PointsAsAlone`, which compares the counters of the cache with a sum over the queries. `SavedComesBack` without
`quiet` is refuted by a run.

## Not modelled

- The io_uring reader (compiled only with liburing) and the prefetching of nodes, Cells and gateways through it;
  `try_reserve_hit` rounds of a Cell batch inside a query; opening readers and the overlay file.
- The scratch store: every modelled caller holds a scratch space of its own.
- Vamana: filtered inserts into an incremental index, resizing, builds over quantized distances (`pq_dist_build`).
  A search over the optimized layout is asked for at most as many candidates as there are points: with more it draws
  start nodes for ever (`vamana_index.cc` 3208), and nothing keeps a larger number out.
- `powerlaw_ann_t`: its search, which changes nothing and reads `entry_point_` and `max_level_` without a lock; a
  load under a running background thread; labels both built in bulk and inserted (save leaves the delta file
  alone when only build changed the index, and load replays older records over the build).
- Chunk store: a `write_chunk` that fails on a chunk the client already holds (`disk_manager.cc` 281-283).
- Artifacts: `neighbors` of a paged topology reads whole pages and throws on a partial last one
  (`io_optimized_index.cc` 2064-2075); `RawNeighbors` takes the file as padded to a page.
- PQ: OPQ training, SIMD kernels. `vamana.cc` and `pq.cc` are smaller sequential counterparts of modelled parts.
- Disk build: preprocessing for inner product and reorder data are abstracted. Community-polar: floating-point
  features and the Louvain library; gateway selection files are trusted where the code trusts them
  (`community_polar_index.cc` 3657).
- Beam search: filtered search, node caching. Driver: recall and timing.
- Scripts, trainer and vendored code.

## Plan

1. Done: page cache with proofs; queries over it; adaptive runtime; disk manager and pool; `powerlaw_ann_t`; the
   incremental Vamana index as an implementation of `TagStore`; static build and importance; PQ; disk build;
   artifacts; community-polar hierarchy; beam search; options and curves.
2. Done: theorems about the cache, the queries over it, the runtime, the disk manager and its pool, the incremental
   index and its refinement, the prunes and files of the static one, the search program, the sidecar,
   and `powerlaw_ann_t` with its graph. Next: `ScoresRightBytes` with a prefetch and no rounds.
3. Then, if the code grows there: the io_uring reader with out-of-order prefetch completions, filtered inserts and
   resizing, and the scratch store's blocking queue.

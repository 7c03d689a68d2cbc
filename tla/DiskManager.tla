---------------------------- MODULE DiskManager ----------------------------
(***************************************************************************)
(* disk_manager_t (src/src/disk_manager.cc): fixed-size chunk files and a  *)
(* metadata file under one prefix.  The metadata (slot counts and free     *)
(* lists) lives in memory while the manager is open and reaches its file   *)
(* only when the manager is created, truncated or closed; open and close   *)
(* are sequences of file operations that an exception or a crash may cut.  *)
(*                                                                         *)
(* `held' is what the manager's client was given and has not deleted; the  *)
(* client keeps it across restarts (it is the index built on the chunks).  *)
(***************************************************************************)
EXTENDS Integers, SequencesExt

CONSTANTS
  Levels,      \* number of chunk types (k_chunk_levels)
  MaxChunks,   \* bound: slots per chunk file
  MaxOpens,    \* bound: times the prefix is opened
  Values,      \* page contents
  Zero         \* an all-zero or torn page

ASSUME DiskAssumption ==
  /\ Levels \in Nat \ {0}
  /\ MaxChunks \in Nat \ {0}
  /\ MaxOpens \in Nat
  /\ Zero \notin Values

Types == 0 .. Levels - 1
Meta  == -1                       \* the metadata file, opened before the others
Files == {Meta} \cup Types

VARIABLES
  exists,     \* files present under the prefix
  metaFile,   \* header and list bytes of the metadata file, or <<>> when short
  data,       \* pages of each chunk file
  manager,    \* step the manager object is in
  meta,       \* meta_.chunk_counts
  freeList,   \* free_lists_
  options,    \* options_ of the last open
  opened,     \* files whose streams are open
  held,       \* the client's chunks and what it wrote to them
  clean,      \* no metadata was lost by a crash or a half-way open
  opens       \* times open was called, for the bound

diskVars == <<exists, metaFile, data, manager, meta, freeList, options, opened,
          held, clean, opens>>

NoMeta == <<>>
ZeroCounts == [t \in Types |-> 0]
NoFree == [t \in Types |-> <<>>]
NoHeld == [t \in Types |-> <<>>]     \* chunk number |-> value

Lengths(lists) == [t \in Types |-> Len(lists[t])]

\* Entries of the lists before type t's, when type s has free[s] of them.
Before(free, t) == Cardinality(UNION {{s} \X (1 .. free[s]) : s \in 0 .. t - 1})

\* The type whose list has the k-th entry.
Owner(free, k) == CHOOSE t \in Types : Before(free, t) < k /\ k <= Before(free, t + 1)

\* The lists of all types in a row.
Concat(lists) ==
  LET free == Lengths(lists)
  IN  [k \in 1 .. Before(free, Levels) |->
         lists[Owner(free, k)][k - Before(free, Owner(free, k))]]

\* What flush_meta writes: the header, then the lists of all types in a row.
Image(counts, lists) ==
  [counts |-> counts, free |-> Lengths(lists), tail |-> Concat(lists)]

\* The free lists after the last chunk of each type in deleted was deleted.
LastFreed(n, deleted) == [t \in Types |-> IF t \in deleted THEN <<n[t] - 1>> ELSE <<>>]

\* The prefix is new, or an earlier process wrote chunks (one per slot),
\* deleted the last chunk of some types and closed its manager.
DiskInit ==
  /\ \/ /\ exists = {} /\ metaFile = NoMeta
        /\ data = [t \in Types |-> <<>>] /\ held = NoHeld
     \/ \E n \in [Types -> 0 .. MaxChunks], v \in Values :
          \E deleted \in SUBSET {t \in Types : n[t] > 0} :
            /\ exists = Files
            /\ metaFile = Image(n, LastFreed(n, deleted))
            /\ data = [t \in Types |-> [i \in 1 .. n[t] |-> v]]
            /\ held = [t \in Types |->
                         [no \in (0 .. n[t] - 1) \ Range(LastFreed(n, deleted)[t]) |-> v]]
  /\ manager = "closed"
  /\ meta = ZeroCounts
  /\ freeList = NoFree
  /\ options = [create |-> TRUE, truncate |-> FALSE]
  /\ opened = {}
  /\ clean = TRUE
  /\ opens = 0

-----------------------------------------------------------------------------
(* open: close(), then one file after the other, then load_meta.           *)

\* The constructor or open() on a closed manager takes the new options.
Open(create, truncate) ==
  /\ manager = "closed"
  /\ opens < MaxOpens
  /\ opens' = opens + 1
  /\ manager' = "open_files"
  /\ options' = [create |-> create, truncate |-> truncate]
  /\ UNCHANGED <<exists, metaFile, data, meta, freeList, opened, held, clean>>

NextFile == Cardinality(opened) - 1     \* Meta, 0, 1, ... in this order

\* prepare_file empties a file it creates or truncates.
Emptied_ChunkFiles(f) == options.truncate \/ f \notin exists \/ f \in Types

Emptied(f) == options.truncate \/ f \notin exists

\* prepare_file and open_stream: a missing file is created or refused, a
\* truncating open empties it first.
PrepareFile ==
  LET f == NextFile
  IN  /\ manager = "open_files"
      /\ f \in Files
      /\ IF f \notin exists /\ ~options.create
         THEN /\ manager' = "failed"
              /\ UNCHANGED <<exists, metaFile, data, opened, held>>
         ELSE /\ exists' = exists \cup {f}
              /\ opened' = opened \cup {f}
              /\ metaFile' = IF Emptied(f) /\ f = Meta THEN NoMeta ELSE metaFile
              /\ data' = IF Emptied(f) /\ f \in Types
                         THEN [data EXCEPT ![f] = <<>>] ELSE data
              /\ held' = IF options.truncate THEN NoHeld ELSE held
              /\ UNCHANGED manager
      /\ UNCHANGED <<meta, freeList, options, clean, opens>>

\* The system refuses to open or create the file.
PrepareFails ==
  /\ manager = "open_files"
  /\ NextFile \in Files
  /\ manager' = "failed"
  /\ UNCHANGED <<exists, metaFile, data, meta, freeList, options, opened, held, clean, opens>>

\* The free list of type t as load_meta reads it: zeros stay past the end of the file.
ListOf(image, t) ==
  [i \in 1 .. image.free[t] |->
     IF Before(image.free, t) + i \in DOMAIN image.tail
     THEN image.tail[Before(image.free, t) + i] ELSE 0]

\* Types whose list is cut short or names a slot past the count.
BadLists(image) ==
  {t \in Types : \/ Before(image.free, t + 1) > Len(image.tail)
                 \/ \E no \in Range(ListOf(image, t)) : no >= image.counts[t]}

\* load_meta.  A new or truncated file gets a
\* fresh header at once; otherwise the lists are read type by type and the
\* first bad one throws, with itself and the lists before it already loaded.
LoadMeta ==
  /\ manager = "open_files"
  /\ NextFile \notin Files
  /\ IF metaFile = NoMeta
     THEN /\ meta' = ZeroCounts
          /\ freeList' = NoFree
          /\ metaFile' = Image(ZeroCounts, NoFree)
          /\ clean' = (clean /\ held = NoHeld)
          /\ manager' = "hint"
     ELSE LET bad == BadLists(metaFile)
          IN  /\ meta' = metaFile.counts
              /\ freeList' = [t \in Types |->
                                IF \E b \in bad : b < t THEN <<>> ELSE ListOf(metaFile, t)]
              /\ manager' = IF bad = {} THEN "hint" ELSE "failed"
              /\ UNCHANGED <<metaFile, clean>>
  /\ UNCHANGED <<exists, data, options, opened, held, opens>>

\* configure_huge_page_hint: with huge_page_policy_t::require on a machine
\* without huge pages open throws, with the metadata already loaded.
HugePageHint ==
  /\ manager = "hint"
  /\ manager' \in {"ready", "failed"}
  /\ UNCHANGED <<exists, metaFile, data, meta, freeList, options, opened, held, clean, opens>>

-----------------------------------------------------------------------------
(* close: flush_meta when the metadata stream is open, then the streams.   *)

\* The header is written first ...
FlushHeader ==
  /\ manager \in {"ready", "failed"}
  /\ Meta \in opened
  /\ LET image == Image(meta, freeList)
         tail  == IF metaFile = NoMeta THEN <<>> ELSE metaFile.tail
     IN  metaFile' = [image EXCEPT !.tail = tail]
  /\ clean' = (clean /\ (manager = "ready" \/ metaFile = Image(meta, freeList)))
  /\ manager' = "flushing"
  /\ UNCHANGED <<exists, data, meta, freeList, options, opened, held, opens>>

\* ... then the lists, the file is cut to size and every stream is closed.
FlushLists ==
  /\ manager = "flushing"
  /\ metaFile' = Image(meta, freeList)
  /\ opened' = {}
  /\ manager' = "closed"
  /\ UNCHANGED <<exists, data, meta, freeList, options, held, clean, opens>>

\* An open that failed before the metadata stream was open has nothing to flush.
CloseUnopened ==
  /\ manager = "failed"
  /\ Meta \notin opened
  /\ opened' = {}
  /\ manager' = "closed"
  /\ UNCHANGED <<exists, metaFile, data, meta, freeList, options, held, clean, opens>>

\* The process ends without close, or an open throws inside a constructor and
\* no destructor runs: memory is lost, the files stay as they are.
Crash ==
  /\ manager # "closed"
  /\ manager' = "closed"
  /\ opened' = {}
  /\ meta' = ZeroCounts
  /\ freeList' = NoFree
  /\ clean' = (clean /\ (manager \in {"open_files", "failed"}
                            \/ metaFile = Image(meta, freeList)))
  /\ UNCHANGED <<exists, metaFile, data, options, held, opens>>

\* A chunk file disappears while the manager is closed.
LoseFile(t) ==
  /\ manager = "closed"
  /\ t \in exists
  /\ held[t] = <<>>
  /\ exists' = exists \ {t}
  /\ data' = [data EXCEPT ![t] = <<>>]
  /\ UNCHANGED <<metaFile, manager, meta, freeList, options, opened, held, clean, opens>>

-----------------------------------------------------------------------------
(* Chunks.                                                                 *)

\* validate_chunk_id
Valid(t, no) == no < meta[t] /\ no \notin Range(freeList[t])

\* allocate_chunk: the last free slot, or a new one at the end of the file.
Slot(t) == IF freeList[t] # <<>> THEN Last(freeList[t]) ELSE meta[t]

FreeAfterAllocate_NotPopped(t) == freeList

FreeAfterAllocate(t) ==
  IF freeList[t] # <<>> THEN [freeList EXCEPT ![t] = Front(@)] ELSE freeList

CountsAfterAllocate(t) ==
  IF freeList[t] # <<>> THEN meta ELSE [meta EXCEPT ![t] = @ + 1]

\* Pages t's file has once slot no is inside it (reserve_file_space).
Reserved(t, no) ==
  data[t] \o [i \in 1 .. (IF no + 1 > Len(data[t]) THEN no + 1 - Len(data[t]) ELSE 0) |-> Zero]

Put(f, k, v) == [x \in DOMAIN f \cup {k} |-> IF x = k THEN v ELSE f[x]]
Drop(f, k)   == [x \in DOMAIN f \ {k} |-> f[x]]

\* write_new_chunk: allocate, write the bytes and zero the rest of the page.
WriteNewChunk(t, v) ==
  LET no == Slot(t)
  IN  /\ manager = "ready"
      /\ no < MaxChunks
      /\ freeList' = FreeAfterAllocate(t)
      /\ meta' = CountsAfterAllocate(t)
      /\ data' = [data EXCEPT ![t] = [Reserved(t, no) EXCEPT ![no + 1] = v]]
      /\ held' = [held EXCEPT ![t] = Put(@, no, v)]
      /\ UNCHANGED <<exists, metaFile, manager, options, opened, clean, opens>>

\* The write of write_new_chunk throws: delete_chunk gives the slot back.
WriteNewChunkFails(t) ==
  LET no == Slot(t)
  IN  /\ manager = "ready"
      /\ no < MaxChunks
      /\ freeList' = [FreeAfterAllocate(t) EXCEPT ![t] = Append(@, no)]
      /\ meta' = CountsAfterAllocate(t)
      /\ data' = [data EXCEPT ![t] = [Reserved(t, no) EXCEPT ![no + 1] = Zero]]
      /\ UNCHANGED <<exists, metaFile, manager, options, opened, held, clean, opens>>

\* allocate_chunk alone: the client gets the page as its last user left it.
AllocateChunk(t) ==
  LET no == Slot(t)
  IN  /\ manager = "ready"
      /\ no < MaxChunks
      /\ freeList' = FreeAfterAllocate(t)
      /\ meta' = CountsAfterAllocate(t)
      /\ data' = IF freeList[t] = <<>> THEN [data EXCEPT ![t] = Reserved(t, no)] ELSE data
      /\ held' = [held EXCEPT ![t] =
                    Put(@, no, IF no < Len(data[t]) THEN data[t][no + 1] ELSE Zero)]
      /\ UNCHANGED <<exists, metaFile, manager, options, opened, clean, opens>>

\* reserve_file_space throws after chunk_counts was incremented: the slot is
\* neither free nor anyone's.
AllocateChunkFails(t) ==
  /\ manager = "ready"
  /\ freeList[t] = <<>>
  /\ meta[t] < MaxChunks
  /\ meta' = [meta EXCEPT ![t] = @ + 1]
  /\ UNCHANGED <<exists, metaFile, data, manager, freeList, options, opened, held, clean, opens>>

WriteChunk(t, no, v) ==
  /\ manager = "ready"
  /\ no \in DOMAIN held[t]
  /\ Valid(t, no)
  /\ data' = [data EXCEPT ![t] = [Reserved(t, no) EXCEPT ![no + 1] = v]]
  /\ held' = [held EXCEPT ![t] = Put(@, no, v)]
  /\ UNCHANGED <<exists, metaFile, manager, meta, freeList, options, opened, clean, opens>>

\* delete_chunk; a slot that is already free is refused by validate_chunk_id.
DeleteChunk(t, no) ==
  /\ manager = "ready"
  /\ no \in DOMAIN held[t]
  /\ Valid(t, no)
  /\ freeList' = [freeList EXCEPT ![t] = Append(@, no)]
  /\ held' = [held EXCEPT ![t] = Drop(@, no)]
  /\ UNCHANGED <<exists, metaFile, data, manager, meta, options, opened, clean, opens>>

\* load_chunk: the page, or zeros past the end of the file.
LoadChunk(t, no) == IF no < Len(data[t]) THEN data[t][no + 1] ELSE Zero

DiskNext ==
  \/ \E create, truncate \in BOOLEAN : Open(create, truncate)
  \/ PrepareFile \/ PrepareFails \/ LoadMeta \/ HugePageHint
  \/ FlushHeader \/ FlushLists \/ CloseUnopened \/ Crash
  \/ \E t \in Types :
       \/ LoseFile(t)
       \/ WriteNewChunkFails(t)
       \/ AllocateChunk(t)
       \/ AllocateChunkFails(t)
       \/ \E v \in Values : WriteNewChunk(t, v)
       \/ \E no \in 0 .. MaxChunks - 1 :
            \/ DeleteChunk(t, no)
            \/ \E v \in Values : WriteChunk(t, no, v)

DiskSpec == DiskInit /\ [][DiskNext]_diskVars

-----------------------------------------------------------------------------
Pages == Values \cup {Zero}

\* As long as no metadata was lost, allocate_chunk never hands out a slot a
\* client still holds, over any number of closes and reopens: what is held is
\* below the count, is not on the free list, and no slot is on it twice.
NoSlotGivenTwice ==
  manager = "ready" /\ clean =>
    \A t \in Types :
      /\ \A no \in DOMAIN held[t] : Valid(t, no)
      /\ IsInjective(freeList[t])

\* As long as no metadata was lost, load_chunk returns what the client last
\* wrote to the chunk, in this session or in an earlier one.
ChunksReadBack ==
  manager = "ready" /\ clean =>
    \A t \in Types : \A no \in DOMAIN held[t] : LoadChunk(t, no) = held[t][no]
=============================================================================

---------------------------- MODULE QueryPageIo ----------------------------
(***************************************************************************)
(* The page reads of one disk search per thread (cached_beam_search with   *)
(* an IO layout) over the shared page cache and the libaio reader.         *)
(*                                                                         *)
(* A query runs rounds: it reserves the pages of the round, submits one    *)
(* read per LOAD and per BYPASS, waits for as many completions, publishes, *)
(* scores the vectors in the page buffers and releases its pins.  With     *)
(* Cell-PQ traversal a round reserves a sorted Cell batch that waits for   *)
(* pages in flight, and the query ends with a refinement read; with a      *)
(* refinement prefetch that read is submitted early and left in flight     *)
(* while rounds go on.  Without Cell-PQ a round reserves page by page and  *)
(* never waits.                                                            *)
(*                                                                         *)
(* The kernel is external: each thread's libaio context holds operations   *)
(* in flight, which complete in any order, and a FIFO of completion events.*)
(* bytes is the page whose data a buffer holds; a buffer is a frame of the *)
(* cache or a page of the thread's own sector_scratch.                     *)
(***************************************************************************)
EXTENDS LruBufferPool, SequencesExt

CONSTANT Options  \* the configurations of the searches: cellPq is
                  \* enable_cell_pq_traversal_ with Cell batches, prefetch is
                  \* cell_pq_refine_prefetch_hop_ # 0, pageBatch is
                  \* enable_cell_page_batch_; faults are the kernel faults that
                  \* may happen; pages, capacities and rounds (rounds with page
                  \* reads of one query, 0 with cellPq is Cell batches off) are
                  \* the bounds of that configuration

FaultKinds == {"submit", "partial", "device", "interrupt"}
ASSUME OptionAssumption ==
  \A o \in Options :
    /\ {o.cellPq, o.prefetch, o.pageBatch} \subseteq BOOLEAN
    /\ o.faults \subseteq FaultKinds /\ o.pages \subseteq Pages
    /\ o.capacities \subseteq Capacities /\ o.rounds \in Nat

VARIABLES
  opt,        \* the configuration of this process
  pc,         \* where each query is
  phase,      \* which reservation list the running read belongs to
  rounds,     \* rounds with page reads so far
  attempted,  \* refine_prefetch_attempted
  submitted,  \* refine_prefetch_submitted
  wanted,     \* pages still to ask the cache for
  got,        \* reservations and buffers of the running read
  kept,       \* refine_reservations of the prefetch
  expected,   \* completions read() waits for
  inflight,   \* operations the kernel has not completed, per context
  events,     \* completion events nobody has fetched, per context
  bytes       \* the page whose data each buffer holds

queryVars == <<pc, phase, rounds, attempted, submitted, wanted, got, kept>>
kernelVars == <<expected, inflight, events, bytes>>
allVars == <<opt, vars, queryVars, kernelVars>>

Scratch(t) == {t} \X (0 .. (2 * MaxBatch - 1))
Buffers == Frames \cup UNION {Scratch(t) : t \in Threads}
ASSUME ScratchAssumption == Frames \cap UNION {Scratch(t) : t \in Threads} = {}

QueryInit ==
  /\ opt \in Options
  /\ Init /\ Cardinality(frames) \in opt.capacities
  /\ pc = [t \in Threads |-> "search"]
  /\ phase = [t \in Threads |-> "frontier"]
  /\ rounds = [t \in Threads |-> 0]
  /\ attempted = [t \in Threads |-> FALSE]
  /\ submitted = [t \in Threads |-> FALSE]
  /\ wanted = [t \in Threads |-> <<>>]
  /\ got = [t \in Threads |-> <<>>]
  /\ kept = [t \in Threads |-> <<>>]
  /\ expected = [t \in Threads |-> 0]
  /\ inflight = [t \in Threads |-> {}]
  /\ events = [t \in Threads |-> <<>>]
  /\ bytes = [b \in Buffers |-> NoPage]

Goto(t, place) == pc' = [pc EXCEPT ![t] = place]

(***************************************************************************)
(* Choosing what to read.  A round takes any distinct pages, sorted when a *)
(* Cell batch asks for them in one call; the refinement skips the pages    *)
(* its prefetch already has.                                               *)
(***************************************************************************)
Distinct(ps) == Cardinality(ToSet(ps)) = Len(ps)
PageLists == {ps \in Batches : ToSet(ps) \subseteq opt.pages /\ Distinct(ps) /\ (opt.cellPq => StrictlyIncreasing(ps))}

BeginRound(t) ==
  /\ pc[t] = "search" /\ rounds[t] < opt.rounds
  /\ \E ps \in PageLists : wanted' = [wanted EXCEPT ![t] = ps]
  /\ phase' = [phase EXCEPT ![t] = "frontier"]
  /\ rounds' = [rounds EXCEPT ![t] = @ + 1]
  /\ Goto(t, "reserve")
  /\ UNCHANGED <<vars, attempted, submitted, got, kept, kernelVars>>

BeginPrefetch(t) ==
  /\ opt.cellPq /\ opt.prefetch
  /\ pc[t] = "search" /\ ~attempted[t]
  /\ attempted' = [attempted EXCEPT ![t] = TRUE]
  /\ \E ps \in PageLists : wanted' = [wanted EXCEPT ![t] = ps]
  /\ phase' = [phase EXCEPT ![t] = "prefetch"]
  /\ Goto(t, "reserve")
  /\ UNCHANGED <<vars, rounds, submitted, got, kept, kernelVars>>

\* Without Cell-PQ the distances of the traversal were exact already.
AfterSearch(t) ==
  IF ~opt.cellPq THEN "done" ELSE IF submitted[t] THEN "completing" ELSE "refining"

EndSearch(t) ==
  /\ pc[t] = "search"
  /\ Goto(t, AfterSearch(t))
  /\ UNCHANGED <<vars, phase, rounds, attempted, submitted, wanted, got, kept, kernelVars>>

BeginRefine(t) ==
  /\ pc[t] = "refining"
  /\ \E ps \in PageLists, left \in PageLists \cup {<<>>} :
       /\ ToSet(left) = ToSet(ps) \ {e.page : e \in ToSet(kept[t])}
       /\ wanted' = [wanted EXCEPT ![t] = left]
  /\ phase' = [phase EXCEPT ![t] = "refine"]
  /\ Goto(t, "reserve")
  /\ UNCHANGED <<vars, rounds, attempted, submitted, got, kept, kernelVars>>

(***************************************************************************)
(* Reserving.  A BYPASS page is read into the query's scratch memory: the  *)
(* frontier counts its scratch pages from 0 in every round, refinement     *)
(* from 0 once per query, and both count in the same sector_scratch.       *)
(***************************************************************************)
CallReserve(t) ==
  /\ pc[t] = "reserve" /\ wanted[t] # <<>>
  /\ IF opt.cellPq
     THEN /\ BeginReserve(t, wanted[t], [access |-> "DEMAND", wait |-> TRUE])
          /\ wanted' = [wanted EXCEPT ![t] = <<>>]
     ELSE /\ BeginReserve(t, <<Head(wanted[t])>>, [access |-> "DEMAND", wait |-> FALSE])
          /\ wanted' = [wanted EXCEPT ![t] = Tail(@)]
  /\ UNCHANGED <<pc, phase, rounds, attempted, submitted, got, kept, kernelVars>>

Places(s, kind) == {i \in DOMAIN s : s[i].kind = kind}
Bypassed(s) == Places(s, "BYPASS")
Loads(s) == [k \in 1..Cardinality(Places(s, "LOAD")) |->
               s[CHOOSE i \in Places(s, "LOAD") :
                   Cardinality({j \in Places(s, "LOAD") : j <= i}) = k].res]

\* Mutant: only the pages the query loaded itself are released.
Pins_LoadsOnly(s) == ToSet(Loads(s))

Pins(s) == {e.res : e \in {x \in ToSet(s) : x.kind # "BYPASS"}}

\* Mutant: the refinement restarts its scratch pages after the prefetch.
NextScratch_Restarts(t) == <<t, Cardinality(Bypassed(got[t]))>>

NextScratch(t) ==
  <<t, Cardinality(Bypassed(got[t])) + IF phase[t] = "frontier" THEN 0 ELSE Cardinality(Bypassed(kept[t]))>>

TakeResult(t) ==
  /\ ReserveHit(t) \/ ReserveFree(t) \/ ReserveEvict(t)
  /\ \E r \in held' \ held :
       got' = [got EXCEPT ![t] =
                 Append(@, [page |-> r.page, buf |-> r.frame, kind |-> r.state, res |-> r])]
  /\ UNCHANGED <<pc, phase, rounds, attempted, submitted, wanted, kept, kernelVars>>

TakeBypass(t) ==
  /\ ReserveBypass(t) \/ ReserveCoalesced(t)
  /\ got' = [got EXCEPT ![t] =
               Append(@, [page |-> Head(todo[t]), buf |-> NextScratch(t), kind |-> "BYPASS"])]
  /\ UNCHANGED <<pc, phase, rounds, attempted, submitted, wanted, kept, kernelVars>>

SleepForLoad(t) == ReserveWait(t) /\ UNCHANGED <<queryVars, kernelVars>>

(***************************************************************************)
(* The read requests.  Page batching turns each run of adjacent pages into *)
(* one range read into the start of sector_scratch, copied page by page    *)
(* when read() returns; it is not used when the running read has a BYPASS. *)
(***************************************************************************)
Reads(t) == {e \in ToSet(got[t]) : e.kind # "HIT"}
Batched(t) == opt.pageBatch /\ Cardinality(Reads(t)) > 1 /\ Bypassed(got[t]) = {}
ReadPages(t) == {e.page : e \in Reads(t)}
RangePages(t) ==
  IF Batched(t) THEN {p \in ReadPages(t) : \E o \in ReadPages(t) : o + 1 = p \/ p + 1 = o} ELSE {}
RangeSlot(t, p) == <<t, Cardinality({o \in RangePages(t) : o < p})>>
SameRun(t, p, o) ==
  \A x \in Pages : (p <= x /\ x <= o) \/ (o <= x /\ x <= p) => x \in RangePages(t)

Requests(t, tag) ==
  {[tag |-> tag, to |-> [p \in {e.page} |-> e.buf]] :
     e \in {x \in Reads(t) : x.page \notin RangePages(t)}}
  \cup
  {[tag |-> tag, to |-> [o \in {x \in RangePages(t) : SameRun(t, p, x)} |-> RangeSlot(t, o)]] :
     p \in RangePages(t)}

AllReserved(t) == pc[t] = "reserve" /\ wanted[t] = <<>> /\ status[t] = "idle"

\* reader_->read() submits the batch and blocks in io_getevents.
SubmitRead(t) ==
  /\ AllReserved(t) /\ phase[t] # "prefetch"
  /\ IF Reads(t) = {}
     THEN Goto(t, "score") /\ UNCHANGED <<inflight, expected>>
     ELSE /\ Goto(t, "reading")
          /\ inflight' = [inflight EXCEPT ![t] = @ \cup Requests(t, "sync")]
          /\ expected' = [expected EXCEPT ![t] = Cardinality(Requests(t, "sync"))]
  /\ UNCHANGED <<vars, phase, rounds, attempted, submitted, wanted, got, kept, events, bytes>>

\* submit_async: the batch stays in flight and the search goes on.
AsyncRequests(t) == {[tag |-> "async", to |-> [p \in {e.page} |-> e.buf]] : e \in Reads(t)}

SubmitAsync(t) ==
  /\ AllReserved(t) /\ phase[t] = "prefetch"
  /\ kept' = [kept EXCEPT ![t] = got[t]]
  /\ got' = [got EXCEPT ![t] = <<>>]
  /\ inflight' = [inflight EXCEPT ![t] = @ \cup AsyncRequests(t)]
  /\ submitted' = [submitted EXCEPT ![t] = Reads(t) # {}]
  /\ Goto(t, "search")
  /\ UNCHANGED <<vars, phase, rounds, attempted, wanted, expected, events, bytes>>

\* Mutant: read() is called outside the try block.
RollsBack_Never(t) == FALSE

RollsBack(t) == phase[t] # "prefetch"

\* io_submit refuses the batch, or accepts a part of it and leaves that part
\* in flight: the loads of a round are rolled back, those of a prefetch are not,
\* and the query ends with an exception.
Accepted(t) ==
  LET batch == IF phase[t] = "prefetch" THEN AsyncRequests(t) ELSE Requests(t, "sync")
  IN IF "partial" \in opt.faults THEN SUBSET batch \ {batch} ELSE {{}}

SubmitFails(t) ==
  /\ opt.faults \cap {"submit", "partial"} # {}
  /\ AllReserved(t) /\ Reads(t) # {}
  /\ IF RollsBack(t) THEN PublishFailed(t, Loads(got[t]), "DEMAND") ELSE UNCHANGED vars
  /\ \E ops \in Accepted(t) : inflight' = [inflight EXCEPT ![t] = @ \cup ops]
  /\ Goto(t, "thrown")
  /\ UNCHANGED <<phase, rounds, attempted, submitted, wanted, got, kept, expected, events, bytes>>

\* The kernel moves the data and queues the event; a failed device read moves
\* nothing and queues an event all the same.
Complete(t, op, ok) ==
  /\ op \in inflight[t]
  /\ ok \/ "device" \in opt.faults
  /\ inflight' = [inflight EXCEPT ![t] = @ \ {op}]
  /\ events' = [events EXCEPT ![t] = Append(@, [tag |-> op.tag, ok |-> ok])]
  /\ bytes' = [b \in Buffers |->
                 IF ok /\ \E p \in DOMAIN op.to : op.to[p] = b
                 THEN CHOOSE p \in DOMAIN op.to : op.to[p] = b
                 ELSE bytes[b]]
  /\ UNCHANGED <<vars, queryVars, expected>>

\* io_getevents returns the first events of the context, whoever submitted
\* them, and read() does not look at their results.

Arrived(t) == Len(events[t]) >= expected[t]

CopiesFrom(t, b) == {e \in Reads(t) : e.buf = b /\ e.page \in RangePages(t)}

ReadReturns(t) ==
  /\ pc[t] = "reading" /\ Arrived(t)
  /\ events' = [events EXCEPT ![t] = SubSeq(@, expected[t] + 1, Len(@))]
  /\ bytes' = [b \in Buffers |->
                 IF CopiesFrom(t, b) = {} THEN bytes[b]
                 ELSE bytes[RangeSlot(t, (CHOOSE e \in CopiesFrom(t, b) : TRUE).page)]]
  /\ PublishLoaded(t, Loads(got[t]), "DEMAND")
  /\ expected' = [expected EXCEPT ![t] = 0]
  /\ Goto(t, "score")
  /\ UNCHANGED <<phase, rounds, attempted, submitted, wanted, got, kept, inflight>>

\* A signal ends io_getevents early: the loads are rolled back while their
\* reads are still in flight.
ReadInterrupted(t) ==
  /\ "interrupt" \in opt.faults
  /\ pc[t] = "reading" /\ Len(events[t]) < expected[t]
  /\ events' = [events EXCEPT ![t] = <<>>]
  /\ PublishFailed(t, Loads(got[t]), "DEMAND")
  /\ expected' = [expected EXCEPT ![t] = 0]
  /\ Goto(t, "thrown")
  /\ UNCHANGED <<phase, rounds, attempted, submitted, wanted, got, kept, inflight, bytes>>

\* complete_async fetches as many events as the prefetch has operations and
\* refuses an event that is not one of them or did not read its page, and fewer
\* events, which a signal leaves it with.
CompleteAsync(t) ==
  LET n == Cardinality({e \in ToSet(kept[t]) : e.kind # "HIT"})
      whole == Len(events[t]) >= n
      valid == whole /\ \A i \in 1..n : events[t][i].tag = "async" /\ events[t][i].ok
  IN
  /\ pc[t] = "completing" /\ (whole \/ "interrupt" \in opt.faults)
  /\ events' = [events EXCEPT ![t] = SubSeq(@, n + 1, Len(@))]
  /\ IF valid
     THEN PublishLoaded(t, Loads(kept[t]), "DEMAND") /\ Goto(t, "refining")
     ELSE PublishFailed(t, Loads(kept[t]), "DEMAND") /\ Goto(t, "thrown")
  /\ submitted' = [submitted EXCEPT ![t] = FALSE]
  /\ UNCHANGED <<phase, rounds, attempted, wanted, got, kept, expected, inflight, bytes>>

\* Distances are computed from the buffers, then the pins are given back.
ScoreAndRelease(t) ==
  /\ pc[t] = "score"
  /\ Release(t, Pins(got[t]) \cup IF phase[t] = "refine" THEN Pins(kept[t]) ELSE {})
  /\ Goto(t, IF phase[t] = "refine" THEN "done" ELSE "search")
  /\ got' = [got EXCEPT ![t] = <<>>]
  /\ kept' = [kept EXCEPT ![t] = IF phase[t] = "refine" THEN <<>> ELSE @]
  /\ UNCHANGED <<phase, rounds, attempted, submitted, wanted, kernelVars>>

-----------------------------------------------------------------------------
QueryStep(t) == UNCHANGED opt /\ (
  \/ BeginRound(t) \/ BeginPrefetch(t) \/ EndSearch(t) \/ BeginRefine(t)
  \/ CallReserve(t) \/ TakeResult(t) \/ TakeBypass(t) \/ SleepForLoad(t)
  \/ SubmitRead(t) \/ SubmitAsync(t) \/ SubmitFails(t)
  \/ ReadReturns(t) \/ ReadInterrupted(t) \/ CompleteAsync(t) \/ ScoreAndRelease(t))

KernelStep(t) == UNCHANGED opt /\ \E op \in inflight[t], ok \in BOOLEAN : Complete(t, op, ok)

QueryNext == \E t \in Threads : QueryStep(t) \/ KernelStep(t)

\* Threads are scheduled and the kernel completes what it was given.
QueryFairness == \A t \in Threads : WF_allVars(QueryStep(t)) /\ WF_allVars(KernelStep(t))

QuerySpec == QueryInit /\ [][QueryNext]_allVars /\ QueryFairness

-----------------------------------------------------------------------------
\* The kernel does all the reads it accepted, or refuses a batch as a whole,
\* and no read of a round meets a prefetch in flight.  execute_io looks at no
\* result and takes whichever events come first, and a failed or interrupted
\* batch leaves reads in flight that write to frames given back already.
Reliable == opt.faults \subseteq {"submit"} /\ (opt.prefetch => opt.rounds = 0)

\* What the range reads of the refinement have landed on: they begin at page 0
\* of sector_scratch, where the prefetch put the pages it had no frame for.
Overwritten(t) == {e \in ToSet(kept[t]) : e.buf \in {RangeSlot(t, p) : p \in RangePages(t)}}

\* Every distance is computed from the page it is meant for: when a query
\* scores, each buffer it was handed (a pinned frame or a scratch page, but for
\* the overwritten ones) holds the bytes of its page, whatever the other queries
\* evict or load meanwhile.
ScoresRightBytes ==
  Reliable => \A t \in Threads : pc[t] = "score" =>
    \A e \in ToSet(got[t]) \cup (IF phase[t] = "refine" THEN ToSet(kept[t]) \ Overwritten(t) ELSE {}) :
      bytes[e.buf] = e.page

\* Queries that ended normally leave the cache with no pin and no load, so the
\* clear or reset_capacity between two curve points cannot throw.
CacheQuiescesAfterQueries ==
  (\A t \in Threads : pc[t] = "done") => InFlight = {} /\ PinnedPages = {}

\* Every query ends, with its results or with an exception: no reservation
\* waits for ever, although queries sleep for each other's loads while they
\* hold loads themselves, and although reads of other queries may fail.  Only a
\* prefetch the kernel refuses is not rolled back: its query is gone and its
\* loads are never published.
LoadsAbandoned == \E t \in Threads : pc[t] = "thrown" /\ phase[t] = "prefetch" /\ Loads(got[t]) # <<>>
QueriesEnd == \A t \in Threads : <>(pc[t] \in {"done", "thrown"} \/ LoadsAbandoned)

=============================================================================

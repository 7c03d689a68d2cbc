------------------------ MODULE AdaptiveCellRuntime ------------------------
(***************************************************************************)
(* adaptive_cell_runtime_t: query threads profile pairs of Cells, and a    *)
(* background builder merges a pair that passes the profile gate and       *)
(* publishes the merged view in a new immutable snapshot with one CAS.     *)
(* try_publish is public, so other publishers may race with the builder;   *)
(* they bring a replacement of their own.                                  *)
(*                                                                         *)
(* A snapshot is known by its generation: the CAS admits one snapshot per  *)
(* generation, so snaps is the sequence of published ones, and readers     *)
(* hold a generation.  One vector per Cell stands for its population, one  *)
(* page each, so pages and unseen vectors count the same.  disk is what the*)
(* pages hold, the Base first and the overlay above it.  The counters of a *)
(* candidate are updated and read in one step.                             *)
(*                                                                         *)
(* The mutex and the condition variable are modelled step by step: the     *)
(* predicate of a wait is evaluated under the mutex, and the thread then   *)
(* joins the sleepers and gives the mutex up in one step.  Queries and the *)
(* destructor store their flags and notify without the mutex.              *)
(***************************************************************************)
EXTENDS Integers, SequencesExt

CONSTANTS CellCount,     \* Cells are 1..CellCount, Cell c on Base page c
          Candidates,    \* candidates_: a sequence of pairs <<left, right>>
          Queries,       \* queries, each on its own thread
          Externals,     \* callers of try_publish besides the builder
          LargestClass,  \* the largest capacity class, 512 vectors in the code
          Configs,       \* configurations of the runtime: minJoint, minCoaccess and
                         \* maxIncrease (percent) are the profile gate, maxPublishes the
                         \* budget, physical says that overlay storage is configured,
                         \* force is force_first_observed_modification; queries and
                         \* externals are the threads that exist
          None

ASSUME CountAssumption == CellCount \in Nat \ {0} /\ LargestClass \in Nat
ASSUME CandidateAssumption ==
  \A i \in DOMAIN Candidates : /\ Candidates[i] \in (1..CellCount) \X (1..CellCount)
                               /\ Candidates[i][1] # Candidates[i][2]
ASSUME ConfigAssumption ==
  \A c \in Configs : /\ c.minJoint \in Nat \ {0}
                     /\ {c.minCoaccess, c.maxIncrease, c.maxPublishes} \subseteq Nat
                     /\ {c.physical, c.force} \subseteq BOOLEAN
                     /\ c.queries \subseteq Queries /\ c.externals \subseteq Externals
ASSUME ActorAssumption == "builder" \notin Externals

Cells == 1..CellCount
Ids == DOMAIN Candidates
Publishers == {"builder"} \cup Externals

VARIABLES
  config,      \* config_, and the threads of this process
  snaps,       \* the snapshots published so far, generation 0 first
  disk,        \* the vector on each page written so far, None after a failed write
  nextOverlay, \* next_overlay_page_
  counters,    \* the profile of each candidate
  successful,  \* successful_publishes_
  final,       \* final_snapshot_, a generation or None
  pending,     \* pending_
  forced,      \* forced_candidate_, None while forced_modification_queued_ is false
  active,      \* background_active_
  stop,        \* stop_background_
  mutex,       \* holder of background_mutex_, or None
  sleepers,    \* threads asleep on background_wakeup_
  qpc, qtodo, loaded, snap, raw,  \* each query: place, candidates left, Cells it
                                  \* loaded, its snapshot, whether it took final_snapshot_
  bpc, scan,   \* the builder: place, candidate it looks at
  ppc, cand, repl, seen,  \* each publisher: place, candidate, replacement, snapshot read
  mpc          \* the thread that drains and destroys the runtime

queryVars == <<qpc, qtodo, loaded, snap, raw>>
publishVars == <<ppc, cand, repl, seen>>
profileVars == <<counters, pending, forced>>
syncVars == <<mutex, sleepers>>
vars == <<config, snaps, disk, nextOverlay, successful, final, active, stop, profileVars, syncVars,
          queryVars, publishVars, bpc, scan, mpc>>

Current == Len(snaps) - 1
Snapshot(g) == snaps[g + 1]
Left(g, c) == Snapshot(g).view[Candidates[c][1]]
Right(g, c) == Snapshot(g).view[Candidates[c][2]]

AcceptsObservations == successful < config.maxPublishes

\* A view: its generation, its Cells, its page run, and the directory of the
\* vectors that moved, empty when none did.
BaseView(c) == [gen |-> 0, cells |-> {c}, first |-> c, count |-> 1, at |-> <<>>]
NoCounts == [parent |-> 0, joint |-> 0, fixed |-> 0, merged |-> 0]

Init ==
  /\ config \in Configs
  /\ snaps = <<[view |-> [c \in Cells |-> BaseView(c)], location |-> [c \in Cells |-> c]]>>
  /\ disk = [p \in Cells |-> p]
  /\ nextOverlay = 0
  /\ counters = [c \in Ids |-> NoCounts]
  /\ successful = 0
  /\ final = None
  /\ pending = [c \in Ids |-> FALSE]
  /\ forced = None
  /\ active = 0
  /\ stop = FALSE
  /\ mutex = None
  /\ sleepers = {}
  /\ qpc = [q \in Queries |-> IF q \in config.queries THEN "ready" ELSE "done"]
  /\ qtodo = [q \in Queries |-> {}]
  /\ loaded = [q \in Queries |-> {}]
  /\ snap = [q \in Queries |-> None]
  /\ raw = [q \in Queries |-> FALSE]
  /\ bpc = "top"
  /\ scan = 1
  /\ ppc = [w \in Publishers |-> "idle"]
  /\ cand = [w \in Publishers |-> None]
  /\ repl = [w \in Publishers |-> None]
  /\ seen = [w \in Publishers |-> None]
  /\ mpc = "running"

\* notify_one wakes any one sleeper, notify_all every one.
NotifyOne == IF sleepers = {} THEN UNCHANGED sleepers
             ELSE \E w \in sleepers : sleepers' = sleepers \ {w}
NotifyAll == sleepers' = {}

(***************************************************************************)
(* A query takes a snapshot when it starts, reads vectors where the        *)
(* snapshot says, and reports the Cells it loaded when it is over.         *)
(***************************************************************************)
QGoto(q, place) == qpc' = [qpc EXCEPT ![q] = place]

BeginQuery(q) ==
  /\ qpc[q] = "ready"
  /\ snap' = [snap EXCEPT ![q] = IF final = None THEN Current ELSE final]
  /\ raw' = [raw EXCEPT ![q] = final # None]
  /\ QGoto(q, "searching")
  /\ UNCHANGED <<snaps, disk, nextOverlay, successful, final, active, stop, profileVars, syncVars,
                 qtodo, loaded, publishVars, bpc, scan, mpc>>

CandidatesOf(L) == {c \in Ids : Candidates[c][1] \in L \/ Candidates[c][2] \in L}

\* The start of observe_query; the first one may queue a forced modification.
ObserveQuery(q, L) ==
  LET touched == CandidatesOf(L) IN
  /\ qpc[q] = "searching" /\ L # {}
  /\ IF ~AcceptsObservations
     THEN QGoto(q, "profiling") /\ UNCHANGED <<qtodo, loaded, forced, pending>>
     ELSE /\ qtodo' = [qtodo EXCEPT ![q] = touched]
          /\ loaded' = [loaded EXCEPT ![q] = L]
          /\ IF config.force /\ forced = None /\ touched # {}
             THEN /\ forced' = Min(touched)
                  /\ pending' = [pending EXCEPT ![Min(touched)] = TRUE]
                  /\ QGoto(q, "notify")
             ELSE QGoto(q, "profiling") /\ UNCHANGED <<forced, pending>>
  /\ UNCHANGED <<snaps, disk, nextOverlay, counters, successful, final, active, stop, syncVars,
                 snap, raw, publishVars, bpc, scan, mpc>>

\* profile: enough joint observations, often enough among all of them, and
\* merging costs few extra pages.
EligibleCounts(k) ==
  /\ k.joint >= config.minJoint
  /\ 100 * k.joint >= config.minCoaccess * k.parent
  /\ 100 * k.merged <= (100 + config.maxIncrease) * k.fixed
Eligible(c) == EligibleCounts(counters[c])

Observed(c, L, l, r) ==
  LET pages(v, cell) == IF cell \in L THEN v.count ELSE 0
      both == Candidates[c][1] \in L /\ Candidates[c][2] \in L
  IN  [parent |-> counters[c].parent + 1,
       joint |-> counters[c].joint + (IF both THEN 1 ELSE 0),
       fixed |-> counters[c].fixed + pages(l, Candidates[c][1]) + pages(r, Candidates[c][2]),
       merged |-> counters[c].merged + l.count + r.count]

\* One turn of observe_query's loop.
ProfileCandidate(q) ==
  LET c == Min(qtodo[q])
      l == Left(Current, c)
      r == Right(Current, c)
      k == Observed(c, loaded[q], l, r)
  IN
  /\ qpc[q] = "profiling" /\ qtodo[q] # {}
  /\ IF ~AcceptsObservations
     THEN qtodo' = [qtodo EXCEPT ![q] = {}] /\ UNCHANGED <<qpc, counters, pending>>
     ELSE /\ qtodo' = [qtodo EXCEPT ![q] = @ \ {c}]
          /\ IF l = r
             THEN UNCHANGED <<qpc, counters, pending>>
             ELSE /\ counters' = [counters EXCEPT ![c] = k]
                  /\ IF EligibleCounts(k)
                     THEN pending' = [pending EXCEPT ![c] = TRUE] /\ QGoto(q, "notify")
                     ELSE UNCHANGED <<qpc, pending>>
  /\ UNCHANGED <<snaps, disk, nextOverlay, successful, final, active, stop, forced, syncVars,
                 loaded, snap, raw, publishVars, bpc, scan, mpc>>

QueryNotifies(q) ==
  /\ qpc[q] = "notify"
  /\ NotifyOne
  /\ QGoto(q, "profiling")
  /\ UNCHANGED <<snaps, disk, nextOverlay, successful, final, active, stop, profileVars, mutex,
                 qtodo, loaded, snap, raw, publishVars, bpc, scan, mpc>>

EndQuery(q) ==
  /\ qpc[q] = "profiling" /\ qtodo[q] = {}
  /\ QGoto(q, "done")
  /\ snap' = [snap EXCEPT ![q] = None]
  /\ raw' = [raw EXCEPT ![q] = FALSE]
  /\ loaded' = [loaded EXCEPT ![q] = {}]
  /\ UNCHANGED <<snaps, disk, nextOverlay, successful, final, active, stop, profileVars, syncVars,
                 qtodo, publishVars, bpc, scan, mpc>>

(***************************************************************************)
(* Publishing: build a replacement from the current snapshot, then         *)
(* try_publish it: gate and validation against the snapshot read, the CAS, *)
(* and the count of successes that decides the final snapshot.             *)
(***************************************************************************)
PGoto(w, place) == ppc' = [ppc EXCEPT ![w] = place]
Adjacent(l, r) == l.first + l.count = r.first \/ r.first + r.count = l.first

\* The view of both sides of candidate c on top of generation g.
Merged(g, c, first, at) ==
  [gen |-> g + 1, cells |-> Left(g, c).cells \cup Right(g, c).cells, first |-> first,
   count |-> Left(g, c).count + Right(g, c).count, at |-> at]

\* Without overlay storage make_contiguous_replacement joins two page runs that
\* touch, unless the population exceeds the largest class.
BuildContiguous ==
  LET l == Left(Current, cand["builder"])
      r == Right(Current, cand["builder"])
  IN
  /\ ~config.physical /\ ppc["builder"] = "build"
  /\ IF l = r \/ ~Adjacent(l, r) \/ Cardinality(l.cells \cup r.cells) > LargestClass
     THEN PGoto("builder", "end") /\ UNCHANGED repl
     ELSE /\ repl' = [repl EXCEPT !["builder"] =
                        Merged(Current, cand["builder"], IF l.first < r.first THEN l.first ELSE r.first, <<>>)]
          /\ PGoto("builder", "try")
  /\ UNCHANGED <<snaps, disk, nextOverlay, successful, final, active, stop, profileVars, syncVars,
                 queryVars, cand, seen, bpc, scan, mpc>>

\* Mutant: the overlay advances one page too few.
Advance_OneShort(n) == nextOverlay + n - 1

Advance(n) == nextOverlay + n

\* Vectors are packed in the order of their Cells.
PlaceOf(first, cells, c) == first + Cardinality({d \in cells : d < c})

\* make_physical_replacement takes fresh overlay pages, copies the vectors of
\* both views to them from where the snapshot says they are, and reads them
\* back.  ok is FALSE when a write, the sync or the verification fails; the
\* pages stay taken then, and also when the class of the population is refused.
BuildPhysical(ok) ==
  LET c == cand["builder"]
      cells == Left(Current, c).cells \cup Right(Current, c).cells
      first == CellCount + nextOverlay + 1
      packed(p) == CHOOSE d \in cells : PlaceOf(first, cells, d) = p
      fresh == first..(first + Cardinality(cells) - 1)
  IN
  /\ config.physical /\ ppc["builder"] = "build"
  /\ IF Left(Current, c) = Right(Current, c)
     THEN ok /\ PGoto("builder", "end") /\ UNCHANGED <<repl, disk, nextOverlay>>
     ELSE /\ nextOverlay' = Advance(Cardinality(cells))
          /\ disk' = [p \in DOMAIN disk \cup fresh |->
                        IF p \notin fresh THEN disk[p]
                        ELSE IF ok THEN disk[Snapshot(Current).location[packed(p)]]
                        ELSE None]
          /\ IF ok /\ Cardinality(cells) <= LargestClass
             THEN /\ repl' = [repl EXCEPT !["builder"] =
                                Merged(Current, c, first, [d \in cells |-> PlaceOf(first, cells, d)])]
                  /\ PGoto("builder", "try")
             ELSE PGoto("builder", "end") /\ UNCHANGED repl
  /\ UNCHANGED <<snaps, successful, final, active, stop, profileVars, syncVars, queryVars, cand,
                 seen, bpc, scan, mpc>>

\* Another caller of try_publish: it builds a view of the current snapshot's two
\* sides on pages of its own, moves no vector, and forces the operation.
ExternalCalls(w, c) ==
  /\ mpc = "running" /\ ppc[w] = "idle" /\ w \in config.externals
  /\ cand' = [cand EXCEPT ![w] = c]
  /\ repl' = [repl EXCEPT ![w] = Merged(Current, c, CellCount + 1, <<>>)]
  /\ PGoto(w, "try")
  /\ UNCHANGED <<snaps, disk, nextOverlay, successful, final, active, stop, profileVars, syncVars,
                 queryVars, seen, bpc, scan, mpc>>

Validated(w) ==
  /\ Left(Current, cand[w]) # Right(Current, cand[w])
  /\ repl[w].gen = Current + 1
  /\ repl[w].cells = Left(Current, cand[w]).cells \cup Right(Current, cand[w]).cells
  /\ Cardinality(repl[w].cells) <= LargestClass

MayForce(w) == IF w = "builder" THEN forced = cand[w] ELSE TRUE

\* try_publish up to the CAS: the gate, then the checks against the snapshot.
TryPublish(w) ==
  /\ ppc[w] = "try"
  /\ IF AcceptsObservations /\ (Eligible(cand[w]) \/ MayForce(w)) /\ Validated(w)
     THEN PGoto(w, "cas") /\ seen' = [seen EXCEPT ![w] = Current]
     ELSE PGoto(w, "end") /\ UNCHANGED seen
  /\ UNCHANGED <<snaps, disk, nextOverlay, successful, final, active, stop, profileVars, syncVars,
                 queryVars, cand, repl, bpc, scan, mpc>>

\* The next generation: every alias of the replacement's Cells maps to it, and
\* its directory overrides the older one.
NextSnapshot(g, v) ==
  [view |-> [c \in Cells |-> IF c \in v.cells THEN v ELSE Snapshot(g).view[c]],
   location |-> [c \in Cells |-> IF c \in DOMAIN v.at THEN v.at[c] ELSE Snapshot(g).location[c]]]

\* Mutant: the snapshot is stored whatever was published since it was read.
CasWins_Always(w) == TRUE

\* The CAS compares the snapshot that was read with the published one.
CasWins(w) == seen[w] = Current

PublishCas(w) ==
  /\ ppc[w] = "cas"
  /\ IF CasWins(w)
     THEN snaps' = Append(snaps, NextSnapshot(seen[w], repl[w])) /\ PGoto(w, "count")
     ELSE PGoto(w, "end") /\ UNCHANGED snaps
  /\ UNCHANGED <<disk, nextOverlay, successful, final, active, stop, profileVars, syncVars,
                 queryVars, cand, repl, seen, bpc, scan, mpc>>

\* Mutant: one is added to the count twice.
SpendsBudget_Early == successful + 2 >= config.maxPublishes

\* Whether the publication now counted is the last one of the budget.
SpendsBudget == successful + 1 >= config.maxPublishes

CountPublish(w) ==
  /\ ppc[w] = "count"
  /\ successful' = successful + 1
  /\ PGoto(w, IF SpendsBudget THEN "final" ELSE "end")
  /\ UNCHANGED <<snaps, disk, nextOverlay, final, active, stop, profileVars, syncVars, queryVars,
                 cand, repl, seen, bpc, scan, mpc>>

StoreFinal(w) ==
  /\ ppc[w] = "final"
  /\ final' = repl[w].gen
  /\ PGoto(w, "end")
  /\ UNCHANGED <<snaps, disk, nextOverlay, successful, active, stop, profileVars, syncVars,
                 queryVars, cand, repl, seen, bpc, scan, mpc>>

(***************************************************************************)
(* background_loop.                                                        *)
(***************************************************************************)
AnyPending == \E c \in Ids : pending[c]

BuilderTop ==
  /\ bpc = "top"
  /\ bpc' = IF stop THEN "exited" ELSE "check"
  /\ UNCHANGED <<snaps, disk, nextOverlay, successful, final, active, stop, profileVars, syncVars,
                 queryVars, publishVars, scan, mpc>>

\* The predicate of the wait, evaluated under the mutex.
BuilderChecks ==
  /\ bpc = "check" /\ mutex = None /\ "builder" \notin sleepers
  /\ IF stop \/ AnyPending
     THEN bpc' = "scan" /\ scan' = 1 /\ UNCHANGED mutex
     ELSE bpc' = "sleep" /\ mutex' = "builder" /\ UNCHANGED scan
  /\ UNCHANGED <<snaps, disk, nextOverlay, successful, final, active, stop, profileVars, sleepers,
                 queryVars, publishVars, mpc>>

BuilderSleeps ==
  /\ bpc = "sleep"
  /\ bpc' = "check"
  /\ mutex' = None
  /\ sleepers' = sleepers \cup {"builder"}
  /\ UNCHANGED <<snaps, disk, nextOverlay, successful, final, active, stop, profileVars,
                 queryVars, publishVars, scan, mpc>>

\* What background_active_ grows by while a candidate is built and published.
Busy == 1

BuilderTakes ==
  /\ bpc = "scan" /\ scan \in Ids /\ mutex = None
  /\ IF pending[scan]
     THEN /\ pending' = [pending EXCEPT ![scan] = FALSE]
          /\ active' = active + Busy
          /\ cand' = [cand EXCEPT !["builder"] = scan]
          /\ PGoto("builder", "build")
          /\ bpc' = "publish"
          /\ UNCHANGED scan
     ELSE scan' = scan + 1 /\ UNCHANGED <<pending, active, cand, ppc, bpc>>
  /\ UNCHANGED <<snaps, disk, nextOverlay, counters, successful, final, stop, forced, syncVars,
                 queryVars, repl, seen, mpc>>

BuilderFinishes ==
  /\ bpc = "publish" /\ ppc["builder"] = "end" /\ mutex = None
  /\ active' = active - Busy
  /\ PGoto("builder", "idle")
  /\ bpc' = "notify"
  /\ UNCHANGED <<snaps, disk, nextOverlay, successful, final, stop, profileVars, syncVars,
                 queryVars, cand, repl, seen, scan, mpc>>

BuilderNotifies ==
  /\ bpc = "notify"
  /\ NotifyAll
  /\ bpc' = "scan"
  /\ scan' = scan + 1
  /\ UNCHANGED <<snaps, disk, nextOverlay, successful, final, active, stop, profileVars, mutex,
                 queryVars, publishVars, mpc>>

BuilderWraps ==
  /\ bpc = "scan" /\ scan \notin Ids
  /\ bpc' = "top"
  /\ UNCHANGED <<snaps, disk, nextOverlay, successful, final, active, stop, profileVars, syncVars,
                 queryVars, publishVars, scan, mpc>>

(***************************************************************************)
(* After the queries the driver drains the builder and destroys the        *)
(* runtime.                                                                *)
(***************************************************************************)
DrainChecks ==
  /\ mpc \in {"running", "draining"} /\ mutex = None /\ "driver" \notin sleepers
  /\ \A q \in Queries : qpc[q] = "done"
  /\ IF active = 0 /\ ~AnyPending
     THEN mpc' = "drained" /\ UNCHANGED mutex
     ELSE mpc' = "sleep" /\ mutex' = "driver"
  /\ UNCHANGED <<snaps, disk, nextOverlay, successful, final, active, stop, profileVars, sleepers,
                 queryVars, publishVars, bpc, scan>>

DrainSleeps ==
  /\ mpc = "sleep"
  /\ mpc' = "draining"
  /\ mutex' = None
  /\ sleepers' = sleepers \cup {"driver"}
  /\ UNCHANGED <<snaps, disk, nextOverlay, successful, final, active, stop, profileVars,
                 queryVars, publishVars, bpc, scan>>

DestroyStops ==
  /\ mpc = "drained"
  /\ \A w \in Externals : ppc[w] \in {"idle", "end"}
  /\ stop' = TRUE
  /\ mpc' = "stopped"
  /\ UNCHANGED <<snaps, disk, nextOverlay, successful, final, active, profileVars, syncVars,
                 queryVars, publishVars, bpc, scan>>

DestroyNotifies ==
  /\ mpc = "stopped"
  /\ NotifyAll
  /\ mpc' = "joining"
  /\ UNCHANGED <<snaps, disk, nextOverlay, successful, final, active, stop, profileVars, mutex,
                 queryVars, publishVars, bpc, scan>>

Join ==
  /\ mpc = "joining" /\ bpc = "exited"
  /\ mpc' = "destroyed"
  /\ UNCHANGED <<snaps, disk, nextOverlay, successful, final, active, stop, profileVars, syncVars,
                 queryVars, publishVars, bpc, scan>>

-----------------------------------------------------------------------------
QueryStep(q) == UNCHANGED config /\ (
  \/ BeginQuery(q) \/ ProfileCandidate(q) \/ QueryNotifies(q) \/ EndQuery(q)
  \/ \E L \in SUBSET Cells : ObserveQuery(q, L))

PublishStep(w) == UNCHANGED config /\ (TryPublish(w) \/ PublishCas(w) \/ CountPublish(w) \/ StoreFinal(w))

BuilderStep == UNCHANGED config /\ (
  \/ BuilderTop \/ BuilderChecks \/ BuilderSleeps \/ BuilderTakes
  \/ BuilderFinishes \/ BuilderNotifies \/ BuilderWraps
  \/ BuildContiguous \/ \E ok \in BOOLEAN : BuildPhysical(ok))

DriverStep == UNCHANGED config /\ (DrainChecks \/ DrainSleeps \/ DestroyStops \/ DestroyNotifies \/ Join)

Next ==
  \/ \E q \in Queries : QueryStep(q)
  \/ \E w \in Publishers : PublishStep(w)
  \/ \E w \in Externals, c \in Ids : ExternalCalls(w, c) /\ UNCHANGED config
  \/ BuilderStep
  \/ DriverStep

\* Every thread that can run is scheduled.
Fairness ==
  /\ \A q \in Queries : WF_vars(QueryStep(q))
  /\ \A w \in Publishers : WF_vars(PublishStep(w))
  /\ WF_vars(BuilderStep)
  /\ WF_vars(DriverStep)

Spec == Init /\ [][Next]_vars /\ Fairness

-----------------------------------------------------------------------------

\* A query finds every vector where the snapshot it holds says it is, however
\* old the snapshot and whatever the builder has written since.
VectorsWhereSnapshotSays ==
  \A q \in Queries : snap[q] # None =>
    \A c \in Cells : disk[Snapshot(snap[q]).location[c]] = c

\* A merge is never undone: the generation after the current one keeps
\* together the Cells that were together, so no publication is lost to another.
MergesPersist ==
  [][\A c, d \in Cells :
       Snapshot(Current).view[c] = Snapshot(Current).view[d]
         => Snapshot(Current)'.view[c] = Snapshot(Current)'.view[d]]_vars

\* final_snapshot_ is the published snapshot, so the raw pointer queries take
\* from it stays owned: once it is set nothing is published any more.
FinalIsCurrent ==
  /\ final # None => final = Current
  /\ \A q \in Queries : raw[q] => snap[q] = Current

\* drain_background returns once the queries are over.
DrainReturns == <>(mpc = "drained")
=============================================================================

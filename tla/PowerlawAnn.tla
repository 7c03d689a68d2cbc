----------------------------- MODULE PowerlawAnn -----------------------------
(***************************************************************************)
(* powerlaw_ann_t (src/src/powerlaw_ann.cc) with its delta buffer          *)
(* (delta_store.cc) and its files (disk_index.cc): inserts wait in the     *)
(* buffer until the background thread, consolidate or save merges them     *)
(* into the index.  bg_mu_ keeps merges apart; mu_ of the delta store is   *)
(* held through a whole merge, so an insert waits for it.                  *)
(*                                                                         *)
(* One application thread calls the API; the other thread is the object's  *)
(* own.  A crash ends the process, and the next one opens the same files.  *)
(***************************************************************************)
EXTENDS HnswIndex

CONSTANTS
  Labels,       \* labels the application inserts one by one
  Batches,      \* what it builds in bulk, of other labels: save leaves the delta file alone when
                \* only build has changed the index, and load replays it over the build
  Capacities,   \* values of max_elements
  MaxLives,     \* bound: processes that open the files
  MaxCalls      \* bound: calls beside inserts, over all lives

ASSUME PowerlawAssumption ==
  /\ {"user", "bg"} \subseteq Writers
  /\ Capacities \subseteq Nat
  /\ \A batch \in Batches : batch \in Seq(ToSet(batch)) /\ ToSet(batch) \cap Labels = {}

VARIABLES
  delta,   \* records_ of the delta store
  bgMu,    \* who holds bg_mu_
  deltaMu, \* who holds mu_ of the delta store over several steps
  bg,      \* where bg_loop is
  user,    \* the application's call
  stopBg,    \* stop_bg_
  db,      \* the index file: absent, torn, or a saved index
  log,     \* the delta file: its whole records, and what follows them
  newest,  \* label |-> the newest vector the application handed over
  kept,    \* label |-> its vector in the index file
  quiet,   \* no merge was under way when the index file was written
  clock,   \* vectors used so far
  lives, calls, max
apiVars == <<delta, bgMu, deltaMu, bg, user, stopBg, db, log, newest, kept, quiet, clock, lives, calls, max>>

USER == "user"
BG == "bg"
Absent == [kind |-> "absent"]
Torn == [kind |-> "torn"]
EmptyLog == [records |-> <<>>, tail |-> "whole"]
Nothing == [l \in {} |-> 0]
AtRest == [pc |-> "idle", call |-> "none"]
Record(l) == [label |-> l, vec |-> clock + 1]

\* Mutant: add and empty do not take mu_.
DeltaFree_Unasked == TRUE
\* mu_ of the delta store can be taken.
DeltaFree == deltaMu = ""

ApiInit ==
  /\ max \in Capacities
  /\ index = NewIndex(max) /\ ins = [t \in Writers |-> Idle]
  /\ delta = <<>> /\ bgMu = "" /\ deltaMu = "" /\ bg = "wait" /\ user = AtRest /\ stopBg = FALSE
  /\ db = Absent /\ log = EmptyLog /\ newest = Nothing /\ kept = Nothing /\ quiet = TRUE
  /\ clock = 0 /\ lives = 1 /\ calls = 0

ApiFiles == <<db, log, kept, quiet>>
Bounds == <<clock, lives, calls, max>>

Call(name, pc) ==
  /\ user = AtRest /\ ~stopBg /\ calls < MaxCalls
  /\ calls' = calls + 1
  /\ user' = [pc |-> pc, call |-> name]
Goto(pc) == user' = [user EXCEPT !.pc = pc]

-----------------------------------------------------------------------------
(* Inserting. *)

\* add and, when the buffer is full, notify_one: bg_loop looks every two seconds in any case.
Insert(l) ==
  /\ user = AtRest /\ ~stopBg /\ DeltaFree /\ clock + 1 \in DOMAIN Coordinates
  /\ delta' = Append(delta, Record(l))
  /\ newest' = With(newest, l, clock + 1)
  /\ clock' = clock + 1
  /\ UNCHANGED <<hnswVars, bgMu, deltaMu, bg, user, stopBg, ApiFiles, lives, calls, max>>

\* The last place of a label in a batch.
LastPlace(batch, l) == SelectLastInSeq(batch, LAMBDA x : x = l)

\* build inserts into the index itself, without bg_mu_.
Build(batch) ==
  /\ Call("build", "inserting") /\ clock + Len(batch) \in DOMAIN Coordinates
  /\ Begin(USER, [i \in DOMAIN batch |-> [label |-> batch[i], vec |-> clock + i]])
  /\ newest' = [l \in ToSet(batch) \cup DOMAIN newest |->
                  IF l \in ToSet(batch) THEN clock + LastPlace(batch, l) ELSE newest[l]]
  /\ clock' = clock + Len(batch)
  /\ UNCHANGED <<index, delta, bgMu, deltaMu, bg, stopBg, ApiFiles, lives, max>>

Inserting ==
  /\ user.pc \in {"inserting", "merging", "replaying"} /\ InsertStep(USER)
  /\ UNCHANGED apiVars

BuildReturns ==
  /\ user.pc = "inserting" /\ ~Working(USER)
  /\ Goto("done")
  /\ UNCHANGED <<hnswVars, delta, bgMu, deltaMu, bg, stopBg, ApiFiles, newest, Bounds>>

-----------------------------------------------------------------------------
(* consolidate and save. *)

Consolidate ==
  /\ \E name \in {"consolidate", "save"} : Call(name, "check")
  /\ UNCHANGED <<hnswVars, delta, bgMu, deltaMu, bg, stopBg, ApiFiles, newest, clock, lives, max>>

AfterMerge == IF user.call = "save" THEN "open" ELSE "done"

\* empty() is asked before bg_mu_ is taken.
ConsolidateChecks ==
  /\ user.pc = "check" /\ DeltaFree
  /\ Goto(IF delta = <<>> THEN AfterMerge ELSE "lock")
  /\ UNCHANGED <<hnswVars, delta, bgMu, deltaMu, bg, stopBg, ApiFiles, newest, Bounds>>

ConsolidateLocks ==
  /\ user.pc = "lock" /\ bgMu = "" /\ DeltaFree
  /\ bgMu' = USER /\ deltaMu' = USER
  /\ Begin(USER, delta)
  /\ Goto("merging")
  /\ UNCHANGED <<index, delta, bg, stopBg, ApiFiles, newest, Bounds>>

\* Mutant: the delta file stays.
LogAfterMerge_Kept == log
\* The delta file goes with the buffer.
LogAfterMerge == EmptyLog

ConsolidateClears ==
  /\ user.pc = "merging" /\ ~Working(USER)
  /\ delta' = <<>> /\ deltaMu' = ""
  /\ Goto("remove")
  /\ UNCHANGED <<hnswVars, bgMu, bg, stopBg, ApiFiles, newest, Bounds>>

ConsolidateRemoves ==
  /\ user.pc = "remove"
  /\ log' = LogAfterMerge /\ bgMu' = ""
  /\ Goto(AfterMerge)
  /\ UNCHANGED <<hnswVars, delta, deltaMu, bg, stopBg, db, kept, quiet, newest, Bounds>>

\* The index file is truncated in place and then written.
SaveOpens ==
  /\ user.pc = "open"
  /\ db' = Torn /\ kept' = Nothing /\ UNCHANGED quiet
  /\ Goto("write")
  /\ UNCHANGED <<hnswVars, delta, bgMu, deltaMu, bg, stopBg, log, newest, Bounds>>

SaveWrites ==
  /\ user.pc = "write"
  /\ db' = [kind |-> "saved", index |-> index] /\ kept' = Content(index) /\ quiet' = (bg = "wait")
  /\ Goto("done")
  /\ UNCHANGED <<hnswVars, delta, bgMu, deltaMu, bg, stopBg, log, newest, Bounds>>

\* An insert beyond the capacity throws out of build, consolidate or load; the buffer stays as it
\* was.  The application gives up.
Throws ==
  /\ user.pc \in {"inserting", "merging", "replaying"} /\ CapacityExceeded(USER)
  /\ ins' = [ins EXCEPT ![USER] = Idle]
  /\ bgMu' = IF bgMu = USER THEN "" ELSE bgMu
  /\ deltaMu' = IF deltaMu = USER THEN "" ELSE deltaMu
  /\ Goto("threw")
  /\ UNCHANGED <<index, delta, bg, stopBg, ApiFiles, newest, Bounds>>

Return ==
  /\ user.pc = "done"
  /\ user' = AtRest
  /\ UNCHANGED <<hnswVars, delta, bgMu, deltaMu, bg, stopBg, ApiFiles, newest, Bounds>>

-----------------------------------------------------------------------------
(* load. *)

\* The new index replaces the old one under the background thread's feet: load is called before
\* anything is inserted, as the tests do.  The capacity is the file's.  What replay_file makes of
\* a garbled file may be a record of any label (here one at most), whose vector is none that was
\* ever handed over: it counts as a new one.
Garbage == IF log.tail = "garbled" THEN {<<>>} \cup {<<Record(l)>> : l \in Labels} ELSE {<<>>}
Load ==
  /\ newest = Nothing /\ db.kind # "absent"
  /\ Call("load", IF db.kind = "torn" THEN "threw" ELSE "replaying")
  /\ index' = IF db.kind = "torn" THEN NewIndex(max) ELSE db.index
  /\ \E g \in Garbage :
       /\ Begin(USER, IF db.kind = "torn" THEN <<>> ELSE log.records \o g)
       /\ clock' = clock + Len(g) /\ clock' \in DOMAIN Coordinates
  /\ UNCHANGED <<delta, bgMu, deltaMu, bg, stopBg, ApiFiles, newest, lives, max>>

LoadReturns ==
  /\ user.pc = "replaying" /\ ~Working(USER)
  /\ newest' = Content(index)
  /\ Goto("done")
  /\ UNCHANGED <<hnswVars, delta, bgMu, deltaMu, bg, stopBg, ApiFiles, Bounds>>

-----------------------------------------------------------------------------
(* The background thread. *)

\* wait_for returns with bg_mu_ held, after two seconds at the latest.
BgWakes ==
  /\ bg = "wait" /\ bgMu = "" /\ DeltaFree /\ (delta # <<>> \/ stopBg)
  /\ IF delta = <<>> THEN bg' = "ended" /\ UNCHANGED bgMu
     ELSE bg' = "flush" /\ bgMu' = BG
  /\ UNCHANGED <<hnswVars, delta, deltaMu, user, stopBg, ApiFiles, newest, Bounds>>

\* The buffer is appended to the delta file, behind a torn record if there is one: what is read
\* from there on is out of step.
Appended(records) ==
  IF log.tail = "whole" THEN [log EXCEPT !.records = @ \o records]
  ELSE IF records = <<>> THEN log ELSE [log EXCEPT !.tail = "garbled"]

BgFlushes ==
  /\ bg = "flush" /\ DeltaFree
  /\ log' = Appended(delta)
  /\ bg' = "apply"
  /\ UNCHANGED <<hnswVars, delta, bgMu, deltaMu, user, stopBg, db, kept, quiet, newest, Bounds>>

BgApplies ==
  /\ bg = "apply" /\ DeltaFree
  /\ deltaMu' = BG /\ bg' = "merging"
  /\ Begin(BG, delta)
  /\ UNCHANGED <<index, delta, bgMu, user, stopBg, ApiFiles, newest, Bounds>>

BgInserts ==
  /\ bg = "merging" /\ InsertStep(BG)
  /\ UNCHANGED apiVars

BgClears ==
  /\ bg = "merging" /\ ~Working(BG)
  /\ delta' = <<>> /\ deltaMu' = "" /\ bg' = "remove"
  /\ UNCHANGED <<hnswVars, bgMu, user, stopBg, ApiFiles, newest, Bounds>>

BgRemoves ==
  /\ bg = "remove"
  /\ log' = LogAfterMerge /\ bgMu' = "" /\ bg' = IF stopBg THEN "ended" ELSE "wait"
  /\ UNCHANGED <<hnswVars, delta, deltaMu, user, stopBg, db, kept, quiet, newest, Bounds>>

-----------------------------------------------------------------------------
(* The end of a life. *)

Destroy ==
  /\ user = AtRest /\ ~stopBg
  /\ stopBg' = TRUE
  /\ UNCHANGED <<hnswVars, delta, bgMu, deltaMu, bg, user, ApiFiles, newest, Bounds>>

NewLife ==
  /\ lives < MaxLives /\ lives' = lives + 1
  /\ index' = NewIndex(max) /\ ins' = [t \in Writers |-> Idle]
  /\ delta' = <<>> /\ bgMu' = "" /\ deltaMu' = "" /\ bg' = "wait" /\ user' = AtRest /\ stopBg' = FALSE
  /\ newest' = Nothing
  /\ UNCHANGED <<db, kept, quiet, clock, calls, max>>

Reopen == stopBg /\ bg = "ended" /\ NewLife /\ UNCHANGED log

\* Also what an exception in the background thread comes to.  Of a flush any part may have reached
\* the file.
ApiCrash ==
  /\ bg # "ended"
  /\ NewLife
  /\ \/ UNCHANGED log
     \/ /\ bg = "flush" /\ DeltaFree
        /\ \E n \in 0 .. Len(delta) - 1 : \E torn \in BOOLEAN :
             log' = [Appended(SubSeq(delta, 1, n)) EXCEPT
                       !.tail = IF ~torn THEN @ ELSE IF log.tail = "whole" THEN "torn" ELSE "garbled"]

ApiNext ==
  \/ \E l \in Labels : Insert(l)
  \/ \E batch \in Batches : Build(batch)
  \/ Inserting \/ BuildReturns
  \/ Consolidate \/ ConsolidateChecks \/ ConsolidateLocks \/ ConsolidateClears \/ ConsolidateRemoves
  \/ SaveOpens \/ SaveWrites \/ Throws \/ Return \/ Load \/ LoadReturns
  \/ BgWakes \/ BgFlushes \/ BgApplies \/ BgInserts \/ BgClears \/ BgRemoves
  \/ Destroy \/ Reopen \/ ApiCrash

-----------------------------------------------------------------------------
\* powerlaw_ann.h, consolidate: "Apply buffered deltas into the main index."  When it or save has
\* returned, every label handed over before is in the index with its newest vector, whichever
\* thread merged it and whatever was merged twice.
ConsolidatedIsIndexed ==
  user.pc = "done" /\ user.call \in {"consolidate", "save"} =>
    \A l \in DOMAIN newest : l \in DOMAIN index.lookup /\ Content(index)[l] = newest[l]

\* powerlaw_ann.h, save: "Persist in-memory index."  No label comes back from a load without the
\* vector that was last saved or a newer one, whatever crashes left in the delta file, unless
\* records were appended to one that ends in the middle of a record.
SavedComesBack ==
  user.pc = "done" /\ user.call = "load" /\ log.tail # "garbled" =>
    \A l \in DOMAIN kept : l \in DOMAIN index.lookup /\ Content(index)[l] >= kept[l]

\* It does when the background thread was in no merge as save wrote the file.
QuietSaveComesBack == quiet => SavedComesBack

ApiSpec == ApiInit /\ [][ApiNext]_<<hnswVars, apiVars>>
=============================================================================

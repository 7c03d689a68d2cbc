-------------------------- MODULE SearchCurve_proofs --------------------------
(***************************************************************************)
(* What the facade accepts the index loads (AcceptedOptionsLoad), for      *)
(* every combination of switches, and what a run saves stays whole         *)
(* (SavedFilesAreWhole), for all calls, curves and crashes.                *)
(***************************************************************************)
EXTENDS SearchCurve, SharedLemmas, TLAPS

(* The switches the rules of the facade do not hand to the hierarchy.         *)
Plain(s) == s \notin HybridSwitches

(* A routed call keeps its lists and thresholds; on the vector layout it keeps *)
(* the plain switches and off it has none (search_diskann_index_impl).        *)
LEMMA RoutedCall ==
  ASSUME NEW a \in CallRecords, CallAccepted(a), NEW n \in Nat
  PROVE  LET j == [Routed(a) EXCEPT !.run = n]
         IN /\ j \in CallRecords
            /\ j.run = n /\ j.sizes = a.sizes /\ j.l_aware_max = a.l_aware_max
            /\ j.threads = a.threads /\ (j.pages = a.pages \/ j.pages = <<>>)
            /\ "topology_vector" \notin j.o => \A s \in j.o : ~Plain(s)
            /\ "topology_vector" \in j.o => ~j.observe /\ \A s : Plain(s) => (s \in j.o <=> s \in a.o)
            /\ "hybrid" \in j.o <=> HybridSearch(a)
  <1> DEFINE observe == HybridSearch(a) /\ {"oracle", "gateway_value"} \cap a.outputs # {}
             hybrid == IF HybridSearch(a) THEN HybridSwitches \cap a.o ELSE {}
             io == IF IoSearch(a) /\ ~observe THEN a.o \ HybridSwitches ELSE {}
             pages == IF HybridSearch(a) THEN a.pages ELSE <<>>
             j == [Routed(a) EXCEPT !.run = n]
  <1>1. j = [a EXCEPT !.o = hybrid \cup io, !.observe = observe, !.pages = pages, !.run = n]
    BY DEF Routed, CallRecords
  <1>2. hybrid \cup io \in SUBSET STRING /\ observe \in BOOLEAN /\ pages \in Seq(Nat)
    BY DEF CallRecords
  <1>3. j \in CallRecords /\ j.run = n /\ j.sizes = a.sizes /\ j.l_aware_max = a.l_aware_max
        /\ j.threads = a.threads /\ (j.pages = a.pages \/ j.pages = <<>>)
        /\ j.o = hybrid \cup io /\ j.observe = observe
    <2>1. pages = a.pages \/ pages = <<>>
      OBVIOUS
    <2> HIDE DEF hybrid, io, observe, pages
    <2> QED BY <1>1, <1>2, <2>1 DEF CallRecords
  <1>4. "topology_vector" \notin HybridSwitches /\ "hybrid" \in HybridSwitches
    BY DEF HybridSwitches
  <1>5. "topology_vector" \in j.o => IoSearch(a) /\ ~observe
    BY <1>3, <1>4
  <1>6. "topology_vector" \notin j.o => io = {}
    BY <1>3, <1>4 DEF IoSearch
  <1>7. "hybrid" \in j.o <=> HybridSearch(a)
    BY <1>3, <1>4 DEF HybridSearch
  <1>8. "topology_vector" \notin j.o => \A s \in j.o : ~Plain(s)
    BY <1>3, <1>6 DEF Plain
  <1>9. "topology_vector" \in j.o => ~j.observe /\ \A s : Plain(s) => (s \in j.o <=> s \in a.o)
    BY <1>3, <1>5 DEF Plain
  <1> HIDE DEF j
  <1> QED BY <1>3, <1>7, <1>8, <1>9 DEF j

(* After the two policies only switches of the hierarchy still change: the     *)
(* plain ones are settled, and the hierarchy is not switched on again.         *)
LEMMA PolicyIsPlain ==
  ASSUME NEW j \in CallRecords
  PROVE  /\ \A s : Plain(s) => (s \in Policy(j) <=> s \in Rewritten(j))
         /\ "hybrid" \in Policy(j) => "hybrid" \in Rewritten(j)
  <1> DEFINE seen == Telemetry(Rewritten(j), j.outputs)
             fast == Ungated(j)
  <1>1. /\ {"cell_value", "gateway_value", "fast_distance", "source_batching"} \subseteq HybridSwitches
        /\ {"cell_expansion", "whole_cell", "centroid_routing"} \subseteq HybridSwitches
    BY DEF HybridSwitches
  <1>2. /\ \A s : Plain(s) => (s \in seen <=> s \in Rewritten(j))
        /\ "hybrid" \in seen => "hybrid" \in Rewritten(j)
    BY <1>1 DEF Plain, Telemetry
  <1>3. /\ \A s : Plain(s) => (s \in fast <=> s \in seen)
        /\ "hybrid" \in fast => "hybrid" \in seen
    BY <1>1 DEF Plain, Ungated
  <1>4. /\ \A s : Plain(s) => (s \in CellGate(fast) <=> s \in fast)
        /\ "hybrid" \in CellGate(fast) => "hybrid" \in fast
    <2> HIDE DEF fast
    <2> QED BY <1>1 DEF Plain, CellGate
  <1>5. Policy(j) = CellGate(fast) \/ Policy(j) = fast
    BY DEF Policy
  <1> QED
    <2> HIDE DEF seen, fast
    <2> QED BY <1>2, <1>3, <1>4, <1>5

(* The switches load and the configure calls ask for are plain.               *)
LEMMA AskedSwitchesArePlain ==
  /\ {"scaled", "decoded", "lru", "topology_vector", "page_batch", "batch_search"} \cap HybridSwitches = {}
  /\ {"pq_traversal", "refine", "prefetch_hop", "leaf_refine", "gateway_limit"} \cap HybridSwitches = {}
  /\ {"node_prefetch", "cell_prefetch", "gateway_prefetch"} \cap HybridSwitches = {}
  /\ {"dynamic_width", "width", "l_aware_budget", "budget", "refine_min_l"} \cap HybridSwitches = {}
  /\ {"adj", "adj_wide", "adjacency", "forced_tree", "adj_budget", "interleaved"} \cap HybridSwitches = {}
  /\ {"interleave_hops", "preserve", "stitch_l", "ranked", "ranked_pages"} \cap HybridSwitches = {}
  /\ {"ranked_over", "l_aware", "compressed"} \cap HybridSwitches = {}
  BY DEF HybridSwitches

(* What load and the configure calls ask of a policy they ask of its plain     *)
(* switches alone, and of the hierarchy only whether it is there.             *)
LEMMA AcceptanceIsPlain ==
  ASSUME NEW p, NEW q, \A s : Plain(s) => (s \in p <=> s \in q), "hybrid" \in p => "hybrid" \in q
  PROVE  LoadAccepts(q) /\ ConfigureAccepts(q) => LoadAccepts(p) /\ ConfigureAccepts(p)
  <1>1. LoadAccepts(q) => LoadAccepts(p)
    BY AskedSwitchesArePlain DEF LoadAccepts, Needs, Bars, Prefetches, Plain
  <1>2. ConfigureAccepts(q) => ConfigureAccepts(p)
    BY AskedSwitchesArePlain DEF ConfigureAccepts, RefinementConfigures, HierarchyConfigures, Needs, Bars, Plain
  <1> QED BY <1>1, <1>2

(* A call the facade took that is not one of the named exceptions leaves, once *)
(* its policy is settled, a combination that load and the configure calls take.*)
LEMMA RewrittenAccepted ==
  ASSUME NEW o, FacadeAccepts(o), NEW j \in CallRecords,
         "topology_vector" \in j.o, ~j.observe, \A s : Plain(s) => (s \in j.o <=> s \in o),
         "hybrid" \in j.o => "hybrid" \in o, ~LateRefusal(j)
  PROVE  LoadAccepts(Rewritten(j)) /\ ConfigureAccepts(Rewritten(j))
  <1> DEFINE q == Rewritten(j)
  <1>1. CASE "l_aware" \in j.o /\ j.sizes[1] <= j.l_aware_max
    <2>1. "forced_tree" \notin o /\ "forced_tree" \notin j.o
      BY <1>1, AskedSwitchesArePlain DEF FacadeAccepts, PolicyRules, Bars, Plain
    <2>2. q = LAwarePolicy(j.o)
      BY <1>1, <2>1 DEF Rewritten, LAwareSwitches, LAwarePolicy
    <2>3. LoadAccepts(q)
      BY <1>1, <2>1, <2>2, AskedSwitchesArePlain
      DEF LAwarePolicy, LoadAccepts, Needs, Bars, Prefetches, Plain, LateRefusal, FacadeAccepts,
          TopologyRules, CellPageRules, CellBatchRules, RefinementRules, CodeRules, DeviceRules
    <2>4. ConfigureAccepts(q)
      BY <1>1, <2>1, <2>2, AskedSwitchesArePlain
      DEF LAwarePolicy, ConfigureAccepts, RefinementConfigures, HierarchyConfigures, Needs, Bars, Plain, FacadeAccepts, RefinementRules, HybridSwitches
    <2> QED BY <2>3, <2>4
  <1>2. CASE ~("l_aware" \in j.o /\ j.sizes[1] <= j.l_aware_max) /\ "forced_tree" \in j.o
    <2>1. q = ForcedTreePolicy(j.o)
      BY <1>2 DEF Rewritten, LAwareSwitches
    <2>2. LoadAccepts(q)
      BY <1>2, <2>1, AskedSwitchesArePlain
      DEF ForcedTreePolicy, LoadAccepts, Needs, Bars, Prefetches, Plain, LateRefusal, FacadeAccepts,
          TopologyRules, CellPageRules, CellBatchRules, RefinementRules, CodeRules, PolicyRules, DeviceRules
    <2>3. ConfigureAccepts(q)
      BY <1>2, <2>1, AskedSwitchesArePlain
      DEF ForcedTreePolicy, ConfigureAccepts, RefinementConfigures, HierarchyConfigures, Needs, Bars, Plain, FacadeAccepts, LateRefusal,
          CellBatchRules, RefinementRules, CodeRules, PolicyRules
    <2> QED BY <2>2, <2>3
  <1>3. CASE ~("l_aware" \in j.o /\ j.sizes[1] <= j.l_aware_max) /\ "forced_tree" \notin j.o
    <2>1. q = j.o
      BY <1>3 DEF Rewritten, LAwareSwitches
    <2>2. LoadAccepts(q)
      BY <1>3, <2>1, AskedSwitchesArePlain
      DEF LoadAccepts, Needs, Bars, Prefetches, Plain, LateRefusal, FacadeAccepts,
          TopologyRules, CellPageRules, CellBatchRules, RefinementRules, CodeRules, PolicyRules, DeviceRules
    <2>3. ConfigureAccepts(q)
      BY <1>3, <2>1, AskedSwitchesArePlain
      DEF ConfigureAccepts, RefinementConfigures, HierarchyConfigures, Needs, Bars, Plain, FacadeAccepts, LateRefusal,
          CellBatchRules, RefinementRules, CodeRules, PolicyRules
    <2> QED BY <2>2, <2>3
  <1> QED BY <1>1, <1>2, <1>3

(* A call without the vector layout has none of the plain switches left, so    *)
(* nothing that load or the configure calls check is asked for.               *)
LEMMA BareAccepted ==
  ASSUME NEW j \in CallRecords, \A s \in j.o : ~Plain(s)
  PROVE  LoadAccepts(Rewritten(j)) /\ ConfigureAccepts(Rewritten(j))
  <1>1. Rewritten(j) = j.o
    BY AskedSwitchesArePlain DEF Rewritten, LAwareSwitches, Plain
  <1>2. LoadAccepts(j.o)
    BY AskedSwitchesArePlain DEF LoadAccepts, Needs, Bars, Prefetches, Plain
  <1>3. ConfigureAccepts(j.o)
    BY AskedSwitchesArePlain DEF ConfigureAccepts, RefinementConfigures, HierarchyConfigures, Needs, Bars, Plain
  <1> QED BY <1>1, <1>2, <1>3

(* The switches validate_community_polar_search_config looks at.              *)
Polar == {"hybrid", "community_skip", "cell_expansion", "pq_approach", "whole_cell", "centroid_routing", "handoff",
          "terminal", "l_aware_approach", "stitch_promote", "hierarchical", "persisted"}

(* They are switches of the hierarchy, which is there or is not as a whole;    *)
(* until the gate of the Cells no policy touches one of them on its own.       *)
LEMMA PolarSwitchesStay ==
  ASSUME NEW j \in CallRecords, "hybrid" \in Ungated(j)
  PROVE  \A s \in Polar : s \in Ungated(j) <=> s \in j.o
  <1> DEFINE seen == Telemetry(Rewritten(j), j.outputs)
  <1>1. "hybrid" \in seen /\ \A s \in Polar : s \in Ungated(j) <=> s \in seen
    BY DEF Ungated, Polar
  <1>2. "hybrid" \in Rewritten(j) /\ \A s \in Polar : s \in seen <=> s \in Rewritten(j)
    BY <1>1 DEF Telemetry, Polar
  <1>3. "hybrid" \in LAwareSwitches(j) /\ \A s \in Polar : s \in Rewritten(j) <=> s \in LAwareSwitches(j)
    BY <1>2 DEF Rewritten, ForcedTreePolicy, Polar
  <1>4. LAwareSwitches(j) = j.o
    BY <1>3 DEF LAwareSwitches, LAwarePolicy, HybridSwitches
  <1> HIDE DEF seen
  <1> QED BY <1>1, <1>2, <1>3, <1>4

(* What the rules of the hierarchy ask they ask of these switches.            *)
LEMMA PolarRulesOfPolar ==
  ASSUME NEW p, NEW q, \A s \in Polar : s \in p <=> s \in q, PolarRules(q)
  PROVE  PolarRules(p)
  BY DEF PolarRules, Needs, Polar

(* Beyond the gate they still go together, unless the gate is the exception.   *)
LEMMA PolarAccepted ==
  ASSUME NEW a \in CallRecords, CallAccepted(a), NEW n \in Nat, NEW j, j = [Routed(a) EXCEPT !.run = n],
         ~GateRefuses(j), "hybrid" \in Policy(j)
  PROVE  PolarRules(Policy(j))
  <1>1. j \in CallRecords /\ ("hybrid" \in j.o <=> HybridSearch(a))
    BY RoutedCall
  <1>2. "hybrid" \in Ungated(j)
    BY DEF Policy, CellGate
  <1>3. \A s \in Polar : s \in Ungated(j) <=> s \in j.o
    BY <1>1, <1>2, PolarSwitchesStay
  <1>4. HybridSearch(a)
    BY <1>1, <1>2, <1>3 DEF Polar
  <1>5. \A s \in Polar : s \in j.o <=> s \in a.o
    <2> DEFINE io == IF IoSearch(a) /\ ~(HybridSearch(a) /\ {"oracle", "gateway_value"} \cap a.outputs # {})
                     THEN a.o \ HybridSwitches ELSE {}
    <2>1. j.o = (HybridSwitches \cap a.o) \cup io
      BY <1>4 DEF Routed, CallRecords
    <2>2. Polar \subseteq HybridSwitches
      BY DEF Polar, HybridSwitches
    <2>3. io \cap HybridSwitches = {}
      OBVIOUS
    <2> HIDE DEF io
    <2> QED BY <2>1, <2>2, <2>3
  <1>6. PolarRules(j.o)
    <2>1. PolarRules(a.o)
      BY DEF CallAccepted, FacadeAccepts
    <2> QED BY <1>5, <2>1, PolarRulesOfPolar
  <1>7. PolarRules(Ungated(j))
    BY <1>3, <1>6, PolarRulesOfPolar
  <1>8. CASE GatesCells(j)
    <2>1. Policy(j) = CellGate(Ungated(j))
      BY <1>8 DEF Policy
    <2>2. "community_skip" \in Ungated(j)
      BY <1>2, <2>1 DEF CellGate, HybridSwitches
    <2>3. "community_skip" \in j.o
      BY <1>3, <2>2 DEF Polar
    <2>4. {"handoff", "terminal", "hierarchical"} \cap j.o = {}
      BY <1>8, <2>3 DEF GateRefuses
    <2>5. {"handoff", "terminal", "hierarchical"} \cap Ungated(j) = {}
      BY <1>3, <2>4 DEF Polar
    <2>6. Policy(j) = Ungated(j) \ {"cell_expansion", "whole_cell", "centroid_routing"}
      BY <2>1, <2>2 DEF CellGate
    <2> QED BY <1>2, <1>7, <2>2, <2>5, <2>6 DEF PolarRules, Needs
  <1>9. CASE ~GatesCells(j)
    BY <1>7, <1>9 DEF Policy
  <1> QED BY <1>8, <1>9

(* What is refused when it is loaded is one of the named exceptions.          *)
LEMMA RefusedLate ==
  ASSUME NEW a \in CallRecords, CallAccepted(a), NEW n \in Nat, NEW j, j = [Routed(a) EXCEPT !.run = n],
         ~LateRefusal(j)
  PROVE  LoadAccepts(Policy(j)) /\ ConfigureAccepts(Policy(j)) /\ ("hybrid" \in Policy(j) => PolarRules(Policy(j)))
  <1>1. /\ j \in CallRecords
        /\ "topology_vector" \notin j.o => \A s \in j.o : ~Plain(s)
        /\ "topology_vector" \in j.o => ~j.observe /\ \A s : Plain(s) => (s \in j.o <=> s \in a.o)
        /\ "hybrid" \in j.o <=> HybridSearch(a)
    BY RoutedCall
  <1>2. LoadAccepts(Rewritten(j)) /\ ConfigureAccepts(Rewritten(j))
    <2>1. CASE "topology_vector" \notin j.o
      BY <1>1, <2>1, BareAccepted
    <2>2. CASE "topology_vector" \in j.o
      <3>1. FacadeAccepts(a.o)
        BY DEF CallAccepted
      <3>2. "hybrid" \in j.o => "hybrid" \in a.o
        BY <1>1 DEF HybridSearch
      <3>3. ~j.observe /\ \A s : Plain(s) => (s \in j.o <=> s \in a.o)
        BY <1>1, <2>2
      <3> QED BY <1>1, <2>2, <3>1, <3>2, <3>3, RewrittenAccepted
    <2> QED BY <2>1, <2>2
  <1>3. "hybrid" \in Policy(j) => PolarRules(Policy(j))
    BY PolarAccepted DEF LateRefusal
  <1> QED BY <1>1, <1>2, <1>3, PolicyIsPlain, AcceptanceIsPlain

-----------------------------------------------------------------------------
(* The inductive invariant.  A call in progress is the routed form of one the  *)
(* facade accepted, and it has a number of its own.                           *)

Acts == {"idle", "driver", "loaded", "warm", "measure", "visits", "ids", "dists", "telemetry",
         "finished", "ended", "refused"}
Working == Acts \ {"idle", "ended", "refused"}
Busy == Working \ {"driver", "loaded", "finished"}

CallInv ==
  /\ calls \in Nat
  /\ act \in Acts
  /\ act = "driver" => \E a \in CallRecords : \E n \in Nat : CallAccepted(a) /\ job = [Routed(a) EXCEPT !.run = n]
  /\ act \in Working => job.run \in Nat \ {0}
  /\ AcceptedOptionsLoad

(* One result for each point that is done. *)
ResultInv ==
  act \in Working =>
    /\ \E S : results \in Seq(S)
    /\ point = Len(results) + (IF act \in Busy THEN 1 ELSE 0)
    /\ act = "driver" => results = <<>>

(* The files of the last point with a list size are its own; those of the      *)
(* point being saved are so far as the saving went.                           *)
KeptFiles(i) ==
  \A kind \in {"ids", "dists"} :
    LET name == <<kind, results[i].L>>
    IN name \in DOMAIN files /\ files[name] = [run |-> job.run, point |-> i]
Rewrites(i) == act \in {"ids", "dists", "telemetry"} /\ results[i].L = SizeAt(job, point)
FilesInv ==
  /\ \A n \in DOMAIN files : n[1] = "final" => files[n] # Torn
  /\ act \in Working /\ job.saves =>
       /\ \A i \in DOMAIN results : LastOfSize(i) /\ ~Rewrites(i) => KeptFiles(i)
       /\ act \in {"dists", "telemetry"} => Written(IdsFile)
       /\ act = "telemetry" => Written(DistsFile)

IInv == CallInv /\ ResultInv /\ FilesInv

(* The invariant holds of the program that has not been called yet.           *)
LEMMA InitIInv == CurveInit => IInv
  BY DEF CurveInit, IInv, CallInv, ResultInv, FilesInv, Acts, Working, Busy, AcceptedOptionsLoad

(* A file that is written leaves the other files as they are.                 *)
LEMMA OthersStay ==
  ASSUME NEW name, Write(name)
  PROVE  /\ DOMAIN files' = DOMAIN files \cup {name}
         /\ \A n \in DOMAIN files : n # name => files'[n] = files[n]
  BY DEF Write, Put

(* The steps that only end the call keep the invariant.                       *)
LEMMA StopIInv ==
  ASSUME IInv, UNCHANGED <<job, results, files, calls>>,
         act' \in {"ended", "finished"}, act' = "finished" => act = "loaded" /\ UNCHANGED point
  PROVE  IInv'
  <1>1. CallInv'
    BY DEF IInv, CallInv, Acts, Working, AcceptedOptionsLoad
  <1>2. ResultInv'
    BY DEF IInv, ResultInv, Working, Busy, Acts
  <1>3. FilesInv'
    BY DEF IInv, FilesInv, Working, Acts, LastOfSize, Rewrites, KeptFiles, SizeAt
  <1> QED BY <1>1, <1>2, <1>3 DEF IInv

(* search_diskann_index_impl hands the driver the routed form of an accepted   *)
(* call, with the next number.                                                *)
LEMMA MakeCallIInv ==
  ASSUME IInv, NEW a \in CallRecords, MakeCall(a)
  PROVE  IInv'
  <1>1. calls + 1 \in Nat \ {0} /\ calls + 1 \in Nat
    BY DEF IInv, CallInv
  <1>2. CASE CallAccepted(a)
    <2>1. act' = "driver" /\ job' = [Routed(a) EXCEPT !.run = calls + 1] /\ calls' = calls + 1
      BY <1>2 DEF MakeCall
    <2>2. job'.run = calls + 1
      BY <1>1, <1>2, <2>1, RoutedCall
    <2>3. CallInv'
      BY <1>1, <1>2, <2>1, <2>2 DEF CallInv, Acts, Working, AcceptedOptionsLoad
    <2>4. ResultInv'
      <3>1. <<>> \in Seq({})
        OBVIOUS
      <3> QED BY <3>1, <2>1 DEF MakeCall, ResultInv, Busy
    <2>5. FilesInv'
      BY <2>1 DEF MakeCall, IInv, FilesInv
    <2> QED BY <2>3, <2>4, <2>5 DEF IInv
  <1>3. CASE ~CallAccepted(a)
    <2>1. act' = "ended" /\ calls' = calls + 1
      BY <1>3 DEF MakeCall
    <2>2. CallInv'
      BY <1>1, <2>1 DEF CallInv, Acts, Working, AcceptedOptionsLoad
    <2>3. ResultInv' /\ FilesInv'
      BY <2>1 DEF MakeCall, IInv, ResultInv, FilesInv, Working
    <2> QED BY <2>2, <2>3 DEF IInv
  <1> QED BY <1>2, <1>3

(* Of the steps of a load only four are refused by the rules of the index.     *)
LEMMA RefusedByRules ==
  ASSUME NEW a, NEW p, Loaded(a, p) = "refused"
  PROVE  ~(LoadAccepts(p) /\ ConfigureAccepts(p) /\ ("hybrid" \in p => PolarRules(p)))
  <1> DEFINE failed == {i \in LoadSteps : StepFails(i, a, p)}
             first == Min(failed)
  <1>1. failed # {} /\ first \in RuleSteps
    BY DEF Loaded
  <1>2. first \in failed
    <2>1. failed \in SUBSET Nat
      BY DEF LoadSteps
    <2> HIDE DEF failed
    <2>2. \E x \in failed : \A y \in failed : x <= y
      BY <1>1, <2>1, LeastNumber
    <2> QED BY <2>2 DEF Min
  <1>3. StepFails(first, a, p)
    BY <1>2
  <1> HIDE DEF failed, first
  <1> QED BY <1>1, <1>3 DEF StepFails, RuleSteps, ConfigureAccepts

(* Loading refuses only the named exceptions; the points have not begun.      *)
LEMMA LoadIInv ==
  ASSUME IInv, Load
  PROVE  IInv'
  <1>1. act = "driver" /\ act' \in {"refused", "loaded", "ended"}
        /\ UNCHANGED <<job, point, results, files, calls>>
    BY DEF Load, Stop, Loaded
  <1>2. act' = "refused" => LateRefusal(job)
    <2> SUFFICES ASSUME act' = "refused" PROVE LateRefusal(job)
      OBVIOUS
    <2>1. ~(/\ LoadAccepts(Policy(job)) /\ ConfigureAccepts(Policy(job))
            /\ "hybrid" \in Policy(job) => PolarRules(Policy(job)))
      BY RefusedByRules DEF Load, Stop
    <2>2. PICK a \in CallRecords, n \in Nat : CallAccepted(a) /\ job = [Routed(a) EXCEPT !.run = n]
      BY <1>1 DEF IInv, CallInv
    <2> QED BY <2>1, <2>2, RefusedLate
  <1>3. AcceptedOptionsLoad'
    <2>1. LateRefusal(job)' = LateRefusal(job)
      BY <1>1
    <2> QED BY <1>1, <1>2, <2>1 DEF AcceptedOptionsLoad
  <1>4. CallInv'
    BY <1>1, <1>3 DEF IInv, CallInv, Acts, Working
  <1>5. ResultInv'
    BY <1>1 DEF IInv, ResultInv, Working, Busy, Acts
  <1>6. FilesInv'
    BY <1>1 DEF IInv, FilesInv, Working, Acts, LastOfSize, Rewrites, KeptFiles
  <1> QED BY <1>4, <1>5, <1>6 DEF IInv

(* The steps of a point before its files are written change none of them.     *)
LEMMA PointIInv ==
  ASSUME IInv, UNCHANGED <<job, results, files, calls>>,
         \/ act = "loaded" /\ act' = "warm" /\ point' = point + 1
         \/ act \in {"warm", "measure"} /\ act' \in {"warm", "measure", "visits"} /\ UNCHANGED point
  PROVE  IInv'
  <1>1. CallInv'
    BY DEF IInv, CallInv, Acts, Working, AcceptedOptionsLoad
  <1>2. ResultInv'
    BY DEF IInv, ResultInv, Working, Busy, Acts
  <1>3. FilesInv'
    BY DEF IInv, FilesInv, Working, Acts, LastOfSize, Rewrites, KeptFiles
  <1> QED BY <1>1, <1>2, <1>3 DEF IInv

(* A file that is no telemetry is written, or the next one is turned to.      *)
LEMMA SavesIInv ==
  ASSUME IInv, NEW from, NEW wanted, NEW name, NEW to, Saves(from, wanted, name, to),
         \/ from = "visits" /\ name = <<"visits", 0>> /\ to = "ids"
         \/ from = "ids" /\ wanted = job.saves /\ name = IdsFile /\ to = "dists"
         \/ from = "dists" /\ wanted = job.saves /\ name = DistsFile /\ to = "telemetry"
  PROVE  IInv'
  <1>1. act = from /\ UNCHANGED <<job, point, results, calls>>
    BY DEF Saves
  <1>2. act' \in {"visits", "ids", "dists", "telemetry"} /\ act \in {"visits", "ids", "dists"}
    BY <1>1 DEF Saves
  <1>3. CallInv'
    BY <1>1, <1>2 DEF IInv, CallInv, Acts, Working, AcceptedOptionsLoad
  <1>4. ResultInv'
    BY <1>1, <1>2 DEF IInv, ResultInv, Working, Busy, Acts
  <1>5. CASE Write(name) /\ UNCHANGED act
    <2>1. /\ DOMAIN files' = DOMAIN files \cup {name}
          /\ \A n \in DOMAIN files : n # name => files'[n] = files[n]
      BY <1>5, OthersStay
    <2>2. \A n \in DOMAIN files' : n[1] = "final" => files'[n] # Torn
      <3>1. name[1] # "final"
        BY DEF IdsFile, DistsFile
      <3> QED BY <2>1, <3>1 DEF IInv, FilesInv, Torn
    <2>3. ASSUME job.saves, NEW i \in DOMAIN results, LastOfSize(i), ~Rewrites(i)'
          PROVE  KeptFiles(i)'
      <3>1. ~Rewrites(i) /\ KeptFiles(i)
        BY <1>1, <1>2, <1>5, <2>3 DEF IInv, FilesInv, Rewrites, SizeAt, Working, Acts
      <3>2. \A kind \in {"ids", "dists"} : <<kind, results[i].L>> # name
        BY <1>1, <3>1 DEF Rewrites, IdsFile, DistsFile
      <3> QED BY <1>1, <2>1, <3>1, <3>2 DEF KeptFiles
    <2>4. act' \in {"dists", "telemetry"} /\ job.saves => Written(IdsFile)'
      <3>1. IdsFile # name \/ act' = "ids" \/ act' = "visits"
        BY <1>1, <1>5 DEF IdsFile, DistsFile
      <3> QED BY <1>1, <1>2, <1>5, <2>1, <3>1 DEF IInv, FilesInv, Written, IdsFile, Content, SizeAt, Working, Acts
    <2>5. act' # "telemetry"
      BY <1>2, <1>5
    <2> QED BY <1>1, <1>3, <1>4, <2>2, <2>3, <2>4, <2>5 DEF IInv, FilesInv, LastOfSize
  <1>6. CASE act' = to /\ UNCHANGED files
    <2>1. \A n \in DOMAIN files' : n[1] = "final" => files'[n] # Torn
      BY <1>6 DEF IInv, FilesInv, Torn
    <2>2. ASSUME job.saves, NEW i \in DOMAIN results, LastOfSize(i), ~Rewrites(i)'
          PROVE  KeptFiles(i)'
      <3>1. ~Rewrites(i)
        BY <1>1, <1>2, <1>6, <2>2 DEF Rewrites, SizeAt
      <3>2. KeptFiles(i)
        BY <1>2, <2>2, <3>1 DEF IInv, FilesInv, Working, Acts
      <3> QED BY <1>1, <1>6, <3>2 DEF KeptFiles
    <2>3. job.saves /\ act' = "dists" => Written(IdsFile)
      BY <1>1, <1>6 DEF Saves, IdsFile
    <2>4. job.saves /\ act' = "telemetry" => Written(IdsFile) /\ Written(DistsFile)
      BY <1>1, <1>6 DEF Saves, IInv, FilesInv, Working, Acts
    <2>5. Written(IdsFile)' = Written(IdsFile) /\ Written(DistsFile)' = Written(DistsFile)
      BY <1>1, <1>6 DEF Written, IdsFile, DistsFile, Content, SizeAt
    <2> QED BY <1>1, <1>3, <1>4, <2>1, <2>2, <2>3, <2>4, <2>5 DEF IInv, FilesInv, LastOfSize
  <1> QED BY <1>5, <1>6 DEF Saves

(* Publishing a telemetry file writes it aside, then removes the old one, then *)
(* renames: no telemetry file is torn and no other file changes.              *)
LEMMA PublishKeeps ==
  ASSUME IInv, act = "telemetry", NEW x, Publish(x)
  PROVE  /\ \A n \in DOMAIN files' : n[1] = "final" => files'[n] # Torn
         /\ \A n : n[1] \in {"ids", "dists"} =>
              /\ n \in DOMAIN files' <=> n \in DOMAIN files
              /\ n \in DOMAIN files => files'[n] = files[n]
  <1>1. Temporary(x)[1] = "tmp" /\ <<"final", x>>[1] = "final"
    BY DEF Temporary
  <1>2. \A n \in DOMAIN files : n[1] = "final" => files[n] # Torn
    BY DEF IInv, FilesInv
  <1>3. CASE Write(Temporary(x))
    <2>1. /\ DOMAIN files' = DOMAIN files \cup {Temporary(x)}
          /\ \A n \in DOMAIN files : n # Temporary(x) => files'[n] = files[n]
      BY <1>3, OthersStay
    <2> QED BY <1>1, <1>2, <2>1
  <1>4. CASE files' = Drop(<<"final", x>>)
    BY <1>1, <1>2, <1>4 DEF Drop
  <1>5. CASE /\ Written(Temporary(x))
             /\ files' = [n \in (DOMAIN files \ {Temporary(x)}) \cup {<<"final", x>>} |->
                            IF n = <<"final", x>> THEN files[Temporary(x)] ELSE files[n]]
    <2>1. Content # Torn
      BY DEF IInv, CallInv, Working, Acts, Content, Torn
    <2>2. files[Temporary(x)] # Torn
      BY <1>5, <2>1 DEF Written
    <2> HIDE DEF Temporary
    <2> QED BY <1>1, <1>2, <1>5, <2>2
  <1> QED BY <1>3, <1>4, <1>5 DEF Publish

(* The telemetry is published file by file, then the point has its result.    *)
LEMMA TelemetryIInv ==
  ASSUME IInv, SaveTelemetry
  PROVE  IInv'
  <1>1. act = "telemetry" /\ UNCHANGED <<job, point, calls>>
    BY DEF SaveTelemetry
  <1>2. CASE /\ Publish(TelemetryOutputs[Min(Pending)])
             /\ UNCHANGED <<act, results>>
    <2>1. CallInv' /\ ResultInv'
      BY <1>1, <1>2 DEF IInv, CallInv, ResultInv, Acts, Working, Busy, AcceptedOptionsLoad
    <2>2. /\ \A n \in DOMAIN files' : n[1] = "final" => files'[n] # Torn
          /\ \A n : n[1] \in {"ids", "dists"} =>
               /\ n \in DOMAIN files' <=> n \in DOMAIN files
               /\ n \in DOMAIN files => files'[n] = files[n]
      BY <1>1, <1>2, PublishKeeps
    <2>3. ASSUME job.saves PROVE Written(IdsFile)' /\ Written(DistsFile)'
      <3>1. Written(IdsFile) /\ Written(DistsFile)
        BY <1>1, <2>3 DEF IInv, FilesInv, Working, Acts
      <3>2. IdsFile[1] = "ids" /\ DistsFile[1] = "dists" /\ IdsFile' = IdsFile /\ DistsFile' = DistsFile
            /\ Content' = Content
        BY <1>1 DEF IdsFile, DistsFile, SizeAt, Content
      <3> QED BY <2>2, <3>1, <3>2 DEF Written
    <2>4. ASSUME job.saves, NEW i \in DOMAIN results, LastOfSize(i), ~Rewrites(i)'
          PROVE  KeptFiles(i)'
      <3>1. ~Rewrites(i)
        BY <1>1, <1>2, <2>4 DEF Rewrites, SizeAt
      <3>2. KeptFiles(i)
        BY <1>1, <2>4, <3>1 DEF IInv, FilesInv, Working, Acts
      <3>3. ASSUME NEW kind \in {"ids", "dists"}
            PROVE  /\ <<kind, results[i].L>> \in DOMAIN files'
                   /\ files'[<<kind, results[i].L>>] = [run |-> job.run, point |-> i]
        <4>1. <<kind, results[i].L>>[1] \in {"ids", "dists"}
          BY <3>3
        <4> QED BY <2>2, <3>2, <4>1 DEF KeptFiles
      <3> QED BY <1>1, <1>2, <3>3 DEF KeptFiles
    <2> QED BY <1>1, <1>2, <2>1, <2>2, <2>3, <2>4 DEF IInv, FilesInv, LastOfSize
  <1>3. CASE act' = "loaded" /\ results' = Append(results, Result) /\ UNCHANGED files
    <2>1. PICK S : results \in Seq(S)
      BY <1>1 DEF IInv, ResultInv, Working, Acts
    <2>2. point = Len(results) + 1
      BY <1>1 DEF IInv, ResultInv, Working, Busy, Acts
    <2>3. /\ results' \in Seq(S \cup {Result})
          /\ Len(results') = Len(results) + 1 /\ Len(results) \in Nat
          /\ results'[Len(results) + 1] = Result
          /\ \A i \in DOMAIN results : results'[i] = results[i]
          /\ DOMAIN results = 1 .. Len(results) /\ DOMAIN results' = 1 .. Len(results) + 1
      <3>1. results \in Seq(S \cup {Result}) /\ Result \in S \cup {Result}
        BY <2>1
      <3> HIDE DEF Result
      <3> QED BY <1>3, <3>1
    <2>4. CallInv'
      BY <1>1, <1>3 DEF IInv, CallInv, Acts, Working, AcceptedOptionsLoad
    <2>5. ResultInv'
      BY <1>1, <1>3, <2>2, <2>3 DEF ResultInv, Working, Busy, Acts
    <2>6. Result.L = SizeAt(job, point)
      BY DEF Result
    <2>7. ASSUME job.saves, NEW i \in DOMAIN results', LastOfSize(i)'
          PROVE  KeptFiles(i)'
      <3>1. CASE i = Len(results) + 1
        <4>1. Written(IdsFile) /\ Written(DistsFile) /\ results'[i].L = SizeAt(job, point)
          BY <1>1, <2>3, <2>6, <2>7, <3>1 DEF IInv, FilesInv, Working, Acts
        <4> QED BY <1>1, <1>3, <2>2, <3>1, <4>1 DEF Written, KeptFiles, IdsFile, DistsFile, Content
      <3>2. CASE i \in DOMAIN results
        <4>1. results'[i] = results[i] /\ results[i].L # SizeAt(job, point)
          BY <2>3, <2>6, <2>7, <3>2 DEF LastOfSize
        <4>2. LastOfSize(i)
          BY <2>3, <2>7, <3>2 DEF LastOfSize
        <4>3. KeptFiles(i)
          BY <1>1, <2>7, <3>2, <4>1, <4>2 DEF IInv, FilesInv, Rewrites, Working, Acts
        <4> QED BY <1>1, <1>3, <4>1, <4>3 DEF KeptFiles
      <3> QED BY <2>3, <3>1, <3>2
    <2>8. \A n \in DOMAIN files' : n[1] = "final" => files'[n] # Torn
      BY <1>3 DEF IInv, FilesInv, Torn
    <2> QED BY <1>1, <1>3, <2>4, <2>5, <2>7, <2>8 DEF IInv, FilesInv
  <1> QED BY <1>2, <1>3 DEF SaveTelemetry

(* Every step keeps the invariant.                                            *)
LEMMA NextIInv == IInv /\ [CurveNext]_curveVars => IInv'
  <1> SUFFICES ASSUME IInv, [CurveNext]_curveVars PROVE IInv'
    OBVIOUS
  <1>1. ASSUME NEW a \in Calls, MakeCall(a) PROVE IInv'
    BY <1>1, CallAssumption, MakeCallIInv
  <1>2. CASE TryOptions
    <2>1. PICK a \in Tried : MakeCall(a)
      BY <1>2 DEF TryOptions
    <2> QED BY <2>1, CallAssumption, MakeCallIInv
  <1>3. CASE Refuse
    BY <1>3, StopIInv DEF Refuse, Stop
  <1>4. CASE Load
    BY <1>4, LoadIInv
  <1>5. CASE BeginPoint
    <2>1. UNCHANGED <<job, results, files, calls>> /\ act = "loaded" /\ act' \in {"warm", "ended"}
          /\ point' = point + 1
      BY <1>5 DEF BeginPoint
    <2> QED BY <2>1, PointIInv, StopIInv
  <1>6. ASSUME NEW t \in DOMAIN team.hands, TakeQuery(t) PROVE IInv'
    BY <1>6, PointIInv DEF TakeQuery
  <1>7. ASSUME NEW t \in DOMAIN team.hands, TakePage(t) PROVE IInv'
    BY <1>7, PointIInv DEF TakePage
  <1>8. CASE BeginMeasure
    BY <1>8, PointIInv DEF BeginMeasure
  <1>9. CASE FinishPoint
    <2>1. UNCHANGED <<job, point, results, files, calls>> /\ act = "measure" /\ act' \in {"visits", "ended"}
      BY <1>9 DEF FinishPoint
    <2> QED BY <2>1, PointIInv, StopIInv
  <1>10. CASE SaveVisits
    BY <1>10, SavesIInv DEF SaveVisits
  <1>11. CASE SaveIds
    BY <1>11, SavesIInv DEF SaveIds
  <1>12. CASE SaveDists
    BY <1>12, SavesIInv DEF SaveDists
  <1>13. CASE SaveTelemetry
    BY <1>13, TelemetryIInv
  <1>14. CASE Finish
    BY <1>14, StopIInv DEF Finish, Stop
  <1>15. CASE Return
    <2>1. act' = "idle" /\ UNCHANGED <<files, calls>>
      BY <1>15 DEF Return
    <2>2. CallInv'
      BY <2>1 DEF IInv, CallInv, Acts, Working, AcceptedOptionsLoad
    <2>3. ResultInv' /\ FilesInv'
      BY <2>1 DEF IInv, ResultInv, FilesInv, Working, Torn
    <2> QED BY <2>2, <2>3 DEF IInv
  <1>16. CASE Crash
    BY <1>16, StopIInv DEF Crash, Stop
  <1>17. CASE UNCHANGED curveVars
    <2>1. UNCHANGED <<job, act, point, results, files, calls>>
      BY <1>17 DEF curveVars
    <2>2. CallInv' /\ ResultInv'
      BY <2>1 DEF IInv, CallInv, ResultInv, AcceptedOptionsLoad
    <2>3. FilesInv'
      BY <2>1 DEF IInv, FilesInv, LastOfSize, Rewrites, KeptFiles, SizeAt, Torn, Written, IdsFile, DistsFile, Content
    <2> QED BY <2>2, <2>3 DEF IInv
  <1> QED BY <1>1, <1>2, <1>3, <1>4, <1>5, <1>6, <1>7, <1>8, <1>9, <1>10, <1>11, <1>12, <1>13, <1>14, <1>15,
             <1>16, <1>17 DEF CurveNext

(* The invariant holds throughout every run of search programs.               *)
THEOREM CurveInvariant == CurveSpec => []IInv
  BY InitIInv, NextIInv, PTL DEF CurveSpec

(* search_diskann_index_impl lets nothing through that load or the configure   *)
(* calls then refuse, but for the six combinations LateRefusal names: for      *)
(* every combination of switches, list of sizes, threshold and output.        *)
THEOREM LoadsWhatItAccepts == CurveSpec => []AcceptedOptionsLoad
  <1>1. IInv => AcceptedOptionsLoad
    BY DEF IInv, CallInv
  <1> QED BY <1>1, CurveInvariant, PTL

(* Whatever crashes, a telemetry file is absent or whole; and a finished run   *)
(* that saves has left each list size the files of its last point.            *)
THEOREM FilesStayWhole == CurveSpec => []SavedFilesAreWhole
  <1>1. IInv => SavedFilesAreWhole
    <2> SUFFICES ASSUME IInv PROVE SavedFilesAreWhole
      OBVIOUS
    <2>1. \A n \in DOMAIN files : n[1] = "final" => files[n] # Torn
      BY DEF IInv, FilesInv
    <2>2. ASSUME act = "finished", job.saves, NEW i \in DOMAIN results, LastOfSize(i)
          PROVE  KeptFiles(i)
      BY <2>2 DEF IInv, FilesInv, Working, Acts, Rewrites
    <2> QED BY <2>1, <2>2 DEF SavedFilesAreWhole, KeptFiles
  <1> QED BY <1>1, CurveInvariant, PTL

-----------------------------------------------------------------------------
(* A curve is planned once for all its points.                                *)

(* execute_search_curve settles the switches by the first list size; since the *)
(* lists lie on one side of each threshold, they are in effect those that a     *)
(* search with each list size alone would have settled.                       *)
LEMMA SharedPolicy ==
  ASSUME NEW j \in CallRecords, CurveAccepted(j), NEW i \in DOMAIN j.sizes, NEW L, L = j.sizes[i]
  PROVE  /\ Ungated(Alone(j, L)) = Ungated(j)
         /\ Policy(j) = Ungated(j) \/ Policy(j) = Policy(Alone(j, L))
         /\ Behaviour(Policy(j), L, j.cell_min) = Behaviour(Policy(Alone(j, L)), L, j.cell_min)
  <1> DEFINE a == Alone(j, L)
             fast == Ungated(j)
  <1>1. /\ a.o = j.o /\ a.observe = j.observe /\ a.outputs = j.outputs /\ a.sizes = <<L>>
        /\ a.l_aware_max = j.l_aware_max /\ a.cell_min = j.cell_min
    BY DEF Alone, CallRecords
  <1>2. L \in Nat /\ Len(j.sizes) \in Nat /\ DOMAIN j.sizes = 1 .. Len(j.sizes) /\ 1 \in DOMAIN j.sizes
        /\ j.sizes[1] \in Nat /\ j.cell_min \in Nat /\ j.l_aware_max \in Nat
    <2>1. j.sizes \in Seq(Nat) /\ j.cell_min \in Nat /\ j.l_aware_max \in Nat
      BY DEF CallRecords
    <2>2. Len(j.sizes) \in Nat /\ DOMAIN j.sizes = 1 .. Len(j.sizes) /\ i \in 1 .. Len(j.sizes)
      BY <2>1
    <2>3. j.sizes[1] \in Nat /\ j.sizes[i] \in Nat /\ 1 \in 1 .. Len(j.sizes)
      BY <2>1, <2>2
    <2> QED BY <2>1, <2>2, <2>3
  <1>3. "l_aware" \in j.o => (j.sizes[1] <= j.l_aware_max <=> L <= j.l_aware_max)
    BY <1>2 DEF CurveAccepted, Alike
  <1>4. Rewritten(a) = Rewritten(j)
    <2>1. a.sizes[1] = L
      BY <1>1
    <2>2. LAwareSwitches(a) = LAwareSwitches(j)
      BY <1>1, <1>3, <2>1 DEF LAwareSwitches
    <2> QED BY <1>1, <2>2 DEF Rewritten
  <1>10. Ungated(a) = fast
    <2> HIDE DEF a
    <2> QED BY <1>1, <1>4 DEF Ungated
  <1>5. Policy(a) = IF ~j.observe /\ {"hybrid", "cell_expansion"} \subseteq fast /\ L < j.cell_min
                    THEN CellGate(fast) ELSE fast
    <2>1. Len(a.sizes) = 1 /\ a.sizes[1] = L
      BY <1>1
    <2> HIDE DEF a
    <2> QED BY <1>1, <1>10, <2>1 DEF Policy, GatesCells
  <1>6. Policy(j) = fast \/ Policy(j) = Policy(a)
    <2>1. CASE Len(j.sizes) = 1
      <3>1. j.sizes[1] = L
        BY <1>2, <2>1
      <3> HIDE DEF a
      <3> QED BY <1>5, <2>1, <3>1 DEF Policy, GatesCells
    <2>2. CASE Len(j.sizes) # 1
      BY <2>2 DEF Policy, GatesCells
    <2> QED BY <2>1, <2>2
  <1>7. ~(L >= j.cell_min) => Behaviour(CellGate(fast), L, j.cell_min) = Behaviour(fast, L, j.cell_min)
    <2> HIDE DEF fast
    <2> QED BY DEF Behaviour, CellGate, HybridSwitches
  <1>8. Behaviour(fast, L, j.cell_min) = Behaviour(Policy(a), L, j.cell_min)
    <2> HIDE DEF a, fast
    <2> QED BY <1>2, <1>5, <1>7
  <1> QED BY <1>6, <1>8, <1>10

(* So are those that what is loaded is compared by.                            *)
LEMMA ComparedSwitchesArePlain ==
  {"cell_u8", "cell_layout", "chunk_layout", "weighted_reorder", "online", "memgraph", "topology_vector",
   "score_chunks", "score_limit", "resident_u8"} \cap HybridSwitches = {}
  BY DEF HybridSwitches

(* No policy asks for a MemGraph the call did not ask for.                     *)
LEMMA MemgraphWasAsked ==
  ASSUME NEW j \in CallRecords, "memgraph" \in Ungated(j)
  PROVE  "memgraph" \in j.o
  <1>1. "memgraph" \in Telemetry(Rewritten(j), j.outputs)
    BY DEF Ungated
  <1>2. "memgraph" \in Rewritten(j)
    BY <1>1 DEF Telemetry
  <1>3. "memgraph" \in LAwareSwitches(j)
    BY <1>2 DEF Rewritten, ForcedTreePolicy
  <1> QED BY <1>3 DEF LAwareSwitches, LAwarePolicy

(* If the curve loads, each of its list sizes loads alone, but for the two     *)
(* searches whose Cells the gate takes.                                       *)
LEMMA SizesLoadAlone ==
  ASSUME NEW j \in CallRecords, CurveAccepted(j), NEW i \in DOMAIN j.sizes, NEW L, L = j.sizes[i],
         Loaded(j, Policy(j)) = "loaded"
  PROVE  LoadsAlone(Alone(j, L))
  <1> DEFINE a == Alone(j, L)
             p == Policy(j)
             q == Policy(a)
             fast == Ungated(j)
  <1>1. Ungated(a) = fast /\ (p = fast \/ p = q)
    BY SharedPolicy
  <1>2. /\ a.o = j.o /\ a.chunks = j.chunks /\ a.limit = j.limit /\ a.budget = j.budget /\ a.mode = j.mode
        /\ a.query_offset = j.query_offset
    BY DEF Alone, CallRecords
  <1>3. \A k \in LoadSteps : ~StepFails(k, j, p)
    BY DEF Loaded
  <1> SUFFICES ASSUME ~GateRefuses(a), ~GateLosesOrder(a) PROVE Loaded(a, q) = "loaded"
    BY DEF LoadsAlone
  <1> SUFFICES ASSUME NEW k \in LoadSteps PROVE ~StepFails(k, a, q)
    BY DEF Loaded
  <1> HIDE DEF a, p, q, fast
  <1>4. CASE q = p
    BY <1>2, <1>3, <1>4 DEF StepFails, PartsFit, MemgraphReady
  <1>5. CASE q # p
    <2>1. p = fast /\ q = CellGate(fast) /\ GatesCells(a) /\ "hybrid" \in p
      BY <1>1, <1>5 DEF Policy, GatesCells, q
    <2>2. \A s : Plain(s) => (s \in q <=> s \in p)
      BY <2>1 DEF CellGate, Plain, HybridSwitches
    <2>3. "memgraph" \in p => "memgraph" \in a.o
      BY <1>2, <2>1, MemgraphWasAsked DEF fast
    <2>4. \A s \in Polar : s \in p <=> s \in a.o
      BY <1>2, <2>1, PolarSwitchesStay DEF fast
    <2>5. "hybrid" \in q => "community_skip" \in p /\ q = p \ {"cell_expansion", "whole_cell", "centroid_routing"}
      BY <2>1 DEF CellGate, HybridSwitches
    <2>6. LoadAccepts(q) /\ ConfigureAccepts(q)
      <3>1. LoadAccepts(p) /\ ConfigureAccepts(p)
        BY <1>3 DEF LoadSteps, StepFails, ConfigureAccepts
      <3> QED BY <2>1, <2>2, <3>1, AcceptanceIsPlain
    <2>7. "hybrid" \in q => PolarRules(q)
      <3>1. PolarRules(p)
        BY <1>3, <2>1 DEF LoadSteps, StepFails
      <3>2. "community_skip" \in p => {"handoff", "terminal", "hierarchical"} \cap p = {}
        BY <2>1, <2>4 DEF GateRefuses, Polar
      <3> QED BY <2>1, <2>5, <3>1, <3>2 DEF PolarRules, Needs
    <2>8. ("hybrid" \in q => SidecarFits(q) /\ HintsFit(q)) /\ PartsFit(a, q) /\ ResidentFits(q)
      <3>1. SidecarFits(p) /\ HintsFit(p) /\ PartsFit(a, p) /\ ResidentFits(p)
        BY <1>2, <1>3, <2>1 DEF LoadSteps, StepFails, PartsFit
      <3> QED BY <2>2, <3>1, AskedSwitchesArePlain, ComparedSwitchesArePlain
              DEF SidecarFits, HintsFit, PartsFit, ResidentFits, Plain
    <2>9. /\ "topology_vector" \in q => ExpectedLayout(q) = VectorFile.layout
          /\ "online" \in q => AdaptationReady
          /\ ~(a.query_offset > Len(Reads))
      <3>1. /\ "topology_vector" \in p => ExpectedLayout(p) = VectorFile.layout
            /\ "online" \in p => AdaptationReady
            /\ ~(a.query_offset > Len(Reads))
        BY <1>2, <1>3 DEF LoadSteps, StepFails
      <3>2. ExpectedLayout(q) = ExpectedLayout(p)
        BY <2>2, ComparedSwitchesArePlain DEF ExpectedLayout, Plain
      <3> QED BY <2>2, <3>1, <3>2, AskedSwitchesArePlain, ComparedSwitchesArePlain DEF Plain
    <2>10. "memgraph" \in q => MemgraphReady(a, q)
      <3>1. "memgraph" \in p => MemgraphReady(a, p)
        BY <1>2, <1>3 DEF LoadSteps, StepFails, MemgraphReady
      <3>2. "memgraph" \in q => "memgraph" \in p
        BY <2>2, ComparedSwitchesArePlain DEF Plain
      <3>3. CASE "community_skip" \in a.o
        <4>1. "hybrid" \in q
          BY <2>1, <2>4, <3>3 DEF CellGate, Polar
        <4> QED BY <3>1, <3>2, <4>1 DEF MemgraphReady
      <3>4. CASE "community_skip" \notin a.o
        <4>1. "memgraph" \in q => a.mode # "community"
          BY <2>1, <2>3, <3>2, <3>4 DEF GateLosesOrder
        <4> QED BY <3>1, <3>2, <4>1 DEF MemgraphReady
      <3> QED BY <3>3, <3>4
    <2> QED BY <2>6, <2>7, <2>8, <2>9, <2>10 DEF StepFails, ConfigureAccepts
  <1> QED BY <1>4, <1>5

(* The point being measured has the threads and the pages that were asked for  *)
(* it, and each point that is done was set up as it would have been alone.    *)
JobInv ==
  /\ act \in Working =>
       job \in CallRecords /\ job.sizes # <<>> /\ (job.threads = <<>> \/ job.pages = <<>>)
  /\ act \in Working \ {"driver"} => CurveAccepted(job) /\ Loaded(job, Policy(job)) = "loaded"
TeamInv ==
  act \in Busy =>
    /\ point \in 1 .. PointCount(job)
    /\ \E T, H : team \in [todo : T, hands : Seq(H)]
    /\ \E P, H, M : pool \in [pages : P, capacity : Nat, hits : H, misses : M]
    /\ job.threads # <<>> => Len(team.hands) = job.threads[point]
    /\ job.pages # <<>> /\ "lru" \in Policy(job) => pool.capacity = job.pages[point]
AloneInv == JobInv /\ TeamInv /\ \A i \in DOMAIN results : SetUpAlone(i)

(* The loop over the queries has the threads of its point.                    *)
LEMMA NewTeamThreads ==
  ASSUME NEW a \in CallRecords, CurveAccepted(a), NEW p, NEW i \in 1 .. PointCount(a), NEW queries
  PROVE  /\ \E T, H : NewTeam(a, p, i, queries) \in [todo : T, hands : Seq(H)]
         /\ a.threads # <<>> => Len(NewTeam(a, p, i, queries).hands) = a.threads[i]
  <1> DEFINE n == ThreadsAt(a, i)
             hands == [t \in 1 .. n |-> <<>>]
  <1>1. NewTeam(a, p, i, queries).hands = hands
    BY DEF NewTeam
  <1>2. PICK T : NewTeam(a, p, i, queries) \in [todo : T, hands : {hands}]
    <2>1. NewTeam(a, p, i, queries) \in [todo : {NewTeam(a, p, i, queries).todo}, hands : {hands}]
      BY DEF NewTeam
    <2> QED BY <2>1
  <1>3. n \in Nat /\ (a.threads # <<>> => n = a.threads[i])
    <2>1. CASE a.threads = <<>>
      BY <2>1 DEF ThreadsAt, LoadThreads, CallRecords
    <2>2. CASE a.threads # <<>>
      <3>1. a.threads \in Seq(Nat) /\ PointCount(a) = Len(a.threads)
        BY <2>2 DEF CallRecords, PointCount
      <3>2. a.threads[i] \in Nat
        BY <3>1
      <3> QED BY <2>2, <3>2 DEF ThreadsAt
    <2> QED BY <2>1, <2>2
  <1>4. hands \in Seq({<<>>}) /\ Len(hands) = n
    <2> HIDE DEF n
    <2> QED BY <1>3
  <1>5. NewTeam(a, p, i, queries) \in [todo : T, hands : Seq({<<>>})]
    <2> HIDE DEF hands
    <2> QED BY <1>2, <1>4
  <1> QED
    <2> HIDE DEF n, hands
    <2> QED BY <1>1, <1>3, <1>4, <1>5

(* The page cache has the capacity of its point.                              *)
LEMMA FreshPoolPages ==
  ASSUME NEW a \in CallRecords, a.threads = <<>> \/ a.pages = <<>>, NEW i \in 1 .. PointCount(a), NEW p, NEW z
  PROVE  /\ \E P, H, M : FreshPool(a, i, p, z) \in [pages : P, capacity : Nat, hits : H, misses : M]
         /\ a.pages # <<>> /\ "lru" \in p => FreshPool(a, i, p, z).capacity = a.pages[i]
  <1>1. a.pages # <<>> => a.pages[i] \in Nat
    <2> SUFFICES ASSUME a.pages # <<>> PROVE a.pages[i] \in Nat
      OBVIOUS
    <2>1. a.pages \in Seq(Nat) /\ PointCount(a) = Len(a.pages)
      BY DEF CallRecords, PointCount
    <2> QED BY <2>1
  <1>2. a.lru_pages \in Nat
    BY DEF CallRecords
  <1>3. FreshPool(a, i, p, z) \in [pages : {<<>>}, capacity : Nat, hits : {0}, misses : {0}]
    BY <1>1, <1>2 DEF FreshPool, NoPool
  <1>4. a.pages # <<>> /\ "lru" \in p => FreshPool(a, i, p, z).capacity = a.pages[i]
    BY DEF FreshPool, NoPool
  <1> QED BY <1>3, <1>4

(* Before the first point is begun nothing is set up.                         *)
LEMMA IdleAlone == ASSUME act \in {"idle", "ended", "refused"}, results = <<>> PROVE AloneInv
  BY DEF AloneInv, JobInv, TeamInv, Working, Busy

(* The steps that keep the call, its results, its team and its page cache.    *)
LEMMA SameAlone ==
  ASSUME AloneInv, UNCHANGED <<job, results>>,
         act' \in Working \ {"driver"} => act \in Working \ {"driver"},
         act' \in Busy => act \in Busy /\ UNCHANGED <<point, pool, team>>,
         act' \in Acts, act' # "driver" \/ act = "driver"
  PROVE  AloneInv'
  <1>1. JobInv'
    BY DEF AloneInv, JobInv, Working
  <1>2. TeamInv'
    BY DEF AloneInv, TeamInv
  <1>3. (\A i \in DOMAIN results : SetUpAlone(i))'
    BY DEF AloneInv, SetUpAlone
  <1> QED BY <1>1, <1>2, <1>3 DEF AloneInv

(* search_diskann_index_impl: an accepted call starts with no results.        *)
LEMMA MakeCallAlone ==
  ASSUME IInv, NEW a \in CallRecords, MakeCall(a)
  PROVE  AloneInv'
  <1>1. calls + 1 \in Nat /\ results' = <<>>
    BY DEF MakeCall, IInv, CallInv
  <1>2. CASE CallAccepted(a)
    <2>1. act' = "driver" /\ job' = [Routed(a) EXCEPT !.run = calls + 1]
      BY <1>2 DEF MakeCall
    <2>2. /\ job' \in CallRecords /\ job'.sizes = a.sizes /\ job'.threads = a.threads
          /\ job'.pages = a.pages \/ job'.pages = <<>>
      BY <1>1, <1>2, <2>1, RoutedCall
    <2>3. a.sizes # <<>> /\ (a.threads = <<>> \/ a.pages = <<>>)
      BY <1>2 DEF CallAccepted
    <2>4. JobInv'
      BY <2>1, <2>2, <2>3 DEF JobInv
    <2> QED BY <1>1, <2>1, <2>4 DEF AloneInv, TeamInv, Busy
  <1>3. CASE ~CallAccepted(a)
    BY <1>1, <1>3 DEF MakeCall, AloneInv, JobInv, TeamInv, Working, Busy
  <1> QED BY <1>2, <1>3

(* A point begins with its own threads and its own pages.                     *)
LEMMA BeginPointAlone ==
  ASSUME IInv, AloneInv, BeginPoint
  PROVE  AloneInv'
  <1>1. act = "loaded" /\ act' \in {"warm", "ended"} /\ point' = point + 1 /\ UNCHANGED <<job, results>>
    BY DEF BeginPoint
  <1>2. /\ job \in CallRecords /\ job.sizes # <<>> /\ (job.threads = <<>> \/ job.pages = <<>>)
        /\ CurveAccepted(job) /\ Loaded(job, Policy(job)) = "loaded"
    BY <1>1 DEF AloneInv, JobInv, Working, Acts
  <1>3. JobInv'
    BY <1>1, <1>2 DEF JobInv
  <1>4. point + 1 \in 1 .. PointCount(job)
    <2>1. PICK S : results \in Seq(S) /\ point = Len(results)
      BY <1>1 DEF IInv, ResultInv, Working, Busy, Acts
    <2>2. point \in Nat
      BY <2>1
    <2>3. PointCount(job) \in Nat
      <3>1. job.threads \in Seq(Nat) /\ job.pages \in Seq(Nat) /\ job.sizes \in Seq(Nat)
        BY <1>2 DEF CallRecords
      <3> QED BY <3>1 DEF PointCount
    <2>4. point < PointCount(job)
      BY DEF BeginPoint
    <2> QED BY <2>2, <2>3, <2>4
  <1>5. act' = "warm" => team' = NewTeam(job, Policy(job), point + 1, WarmupQueries(job))
    BY DEF BeginPoint
  <1>6. pool' = FreshPool(job, point + 1, Policy(job), pool)
    BY DEF BeginPoint
  <1>7. act' = "warm" =>
          /\ \E T, H : team' \in [todo : T, hands : Seq(H)]
          /\ job.threads # <<>> => Len(team'.hands) = job.threads[point + 1]
    BY <1>2, <1>4, <1>5, NewTeamThreads
  <1>8. /\ \E P, H, M : pool' \in [pages : P, capacity : Nat, hits : H, misses : M]
        /\ job.pages # <<>> /\ "lru" \in Policy(job) => pool'.capacity = job.pages[point + 1]
    BY <1>2, <1>4, <1>6, FreshPoolPages
  <1>9. TeamInv'
    <2>1. act' \in Busy => act' = "warm"
      BY <1>1 DEF Busy, Working
    <2> QED BY <1>1, <1>4, <1>7, <1>8, <2>1 DEF TeamInv
  <1>10. (\A i \in DOMAIN results : SetUpAlone(i))'
    BY <1>1 DEF AloneInv, SetUpAlone
  <1> QED BY <1>3, <1>9, <1>10 DEF AloneInv

(* A thread that takes a query or reads a page changes neither the number of   *)
(* threads nor that of pages; nor does the measured loop that follows a warmup.*)
LEMMA QueriesAlone ==
  ASSUME IInv, AloneInv,
         \/ \E t \in DOMAIN team.hands : TakeQuery(t) \/ TakePage(t)
         \/ BeginMeasure
  PROVE  AloneInv'
  <1>1. act \in {"warm", "measure"} /\ act' \in {"warm", "measure"} /\ UNCHANGED <<job, point, results>>
    BY DEF TakeQuery, TakePage, BeginMeasure
  <1>2. job \in CallRecords /\ CurveAccepted(job)
    BY <1>1 DEF AloneInv, JobInv, Working, Acts
  <1>3. /\ point \in 1 .. PointCount(job)
        /\ job.threads # <<>> => Len(team.hands) = job.threads[point]
        /\ job.pages # <<>> /\ "lru" \in Policy(job) => pool.capacity = job.pages[point]
    BY <1>1 DEF AloneInv, TeamInv, Working, Busy, Acts
  <1>4. PICK T, H : team \in [todo : T, hands : Seq(H)]
    BY <1>1 DEF AloneInv, TeamInv, Working, Busy, Acts
  <1>5. PICK P, C, M : pool \in [pages : P, capacity : Nat, hits : C, misses : M]
    BY <1>1 DEF AloneInv, TeamInv, Working, Busy, Acts
  <1>6. /\ \E U, V : team' \in [todo : U, hands : Seq(V)]
        /\ job.threads # <<>> => Len(team'.hands) = job.threads[point]
    <2>1. CASE BeginMeasure
      <3>1. team' = NewTeam(job, Policy(job), point, MeasuredQueries(job))
        BY <2>1 DEF BeginMeasure
      <3> QED BY <1>2, <1>3, <3>1, NewTeamThreads
    <2>2. ASSUME NEW t \in DOMAIN team.hands, NEW pages, NEW todo,
                 team' = [team EXCEPT !.hands[t] = pages, !.todo = todo]
          PROVE  team' \in [todo : {todo}, hands : Seq(H \cup {pages})] /\ Len(team'.hands) = Len(team.hands)
      <3>1. team.hands \in Seq(H \cup {pages}) /\ pages \in H \cup {pages}
        BY <1>4
      <3>2. [team.hands EXCEPT ![t] = pages] \in Seq(H \cup {pages})
            /\ Len([team.hands EXCEPT ![t] = pages]) = Len(team.hands)
        BY <3>1
      <3> QED BY <1>4, <2>2, <3>2
    <2>3. ASSUME NEW t \in DOMAIN team.hands, TakeQuery(t)
          PROVE  \E U, V : team' \in [todo : U, hands : Seq(V)] /\ Len(team'.hands) = Len(team.hands)
      <3> DEFINE todo == [team.todo EXCEPT ![QueueFor(t)] = Tail(@)]
                 pages == Reads[Head(team.todo[QueueFor(t)])]
      <3>1. team' = [team EXCEPT !.hands[t] = pages, !.todo = todo]
        BY <1>4, <2>3 DEF TakeQuery
      <3> HIDE DEF todo, pages
      <3> QED BY <2>2, <3>1
    <2>4. ASSUME NEW t \in DOMAIN team.hands, TakePage(t)
          PROVE  \E U, V : team' \in [todo : U, hands : Seq(V)] /\ Len(team'.hands) = Len(team.hands)
      <3> DEFINE pages == Tail(team.hands[t])
      <3>1. team' = [team EXCEPT !.hands[t] = pages, !.todo = team.todo]
        BY <1>4, <2>4 DEF TakePage
      <3> HIDE DEF pages
      <3> QED BY <2>2, <3>1
    <2> QED BY <1>3, <2>1, <2>3, <2>4
  <1>7. /\ \E U, V, W : pool' \in [pages : U, capacity : Nat, hits : V, misses : W]
        /\ pool'.capacity = pool.capacity
    <2>1. ASSUME NEW z, NEW u, NEW v, NEW w, z = [pages |-> u, capacity |-> pool.capacity, hits |-> v, misses |-> w],
                 pool' = z
          PROVE  <1>7!1 /\ <1>7!2
      <3>1. pool' \in [pages : {u}, capacity : Nat, hits : {v}, misses : {w}]
        BY <1>5, <2>1
      <3> QED BY <2>1, <3>1
    <2>2. CASE UNCHANGED pool
      BY <1>5, <2>2
    <2>3. CASE BeginMeasure /\ pool' = [NoPool EXCEPT !.capacity = pool.capacity]
      BY <2>1, <2>3 DEF NoPool
    <2>4. ASSUME NEW page, pool' = ReadPage(pool, page)
          PROVE  <1>7!1 /\ <1>7!2
      <3>1. ASSUME NEW v, NEW u, pool' = [pool EXCEPT !.hits = v, !.pages = u]
            PROVE  <1>7!1 /\ <1>7!2
        BY <1>5, <2>1, <3>1
      <3>2. ASSUME NEW w, NEW u, pool' = [pool EXCEPT !.misses = w, !.pages = u]
            PROVE  <1>7!1 /\ <1>7!2
        BY <1>5, <2>1, <3>2
      <3> QED BY <2>4, <3>1, <3>2 DEF ReadPage
    <2> QED BY <2>2, <2>3, <2>4 DEF TakeQuery, TakePage, BeginMeasure
  <1>8. TeamInv'
    BY <1>1, <1>3, <1>6, <1>7 DEF TeamInv
  <1>9. JobInv'
    BY <1>1 DEF AloneInv, JobInv, Working, Acts
  <1>10. (\A i \in DOMAIN results : SetUpAlone(i))'
    BY <1>1 DEF AloneInv, SetUpAlone
  <1> QED BY <1>8, <1>9, <1>10 DEF AloneInv

(* A point that is done was set up as a search with its list size alone.      *)
LEMMA TelemetryAlone ==
  ASSUME IInv, AloneInv, SaveTelemetry
  PROVE  AloneInv'
  <1>1. act = "telemetry" /\ act' \in {"telemetry", "loaded"} /\ UNCHANGED <<job, point, pool, team>>
    BY DEF SaveTelemetry
  <1>2. JobInv' /\ TeamInv'
    BY <1>1 DEF AloneInv, JobInv, TeamInv, Working, Busy, Acts
  <1>3. CASE UNCHANGED results
    BY <1>1, <1>2, <1>3 DEF AloneInv, SetUpAlone
  <1>4. CASE results' = Append(results, Result)
    <2>1. PICK S : results \in Seq(S) /\ point = Len(results) + 1
      BY <1>1 DEF IInv, ResultInv, Working, Busy, Acts
    <2>2. /\ DOMAIN results = 1 .. Len(results) /\ DOMAIN results' = 1 .. Len(results) + 1
          /\ results'[Len(results) + 1] = Result
          /\ \A i \in DOMAIN results : results'[i] = results[i]
      <3>1. results \in Seq(S \cup {Result}) /\ Result \in S \cup {Result} /\ Len(results) \in Nat
        BY <2>1
      <3> HIDE DEF Result
      <3> QED BY <1>4, <3>1
    <2>3. /\ job \in CallRecords /\ job.sizes # <<>> /\ (job.threads = <<>> \/ job.pages = <<>>)
          /\ CurveAccepted(job) /\ Loaded(job, Policy(job)) = "loaded"
      BY <1>1 DEF AloneInv, JobInv, Working, Acts
    <2>4. /\ point \in 1 .. PointCount(job)
          /\ job.threads # <<>> => Len(team.hands) = job.threads[point]
          /\ job.pages # <<>> /\ "lru" \in Policy(job) => pool.capacity = job.pages[point]
      BY <1>1 DEF AloneInv, TeamInv, Working, Busy, Acts
    <2>5. PICK k \in DOMAIN job.sizes : SizeAt(job, point) = job.sizes[k]
      <3>1. job.sizes \in Seq(Nat) /\ 1 \in DOMAIN job.sizes /\ DOMAIN job.sizes = 1 .. Len(job.sizes)
        BY <2>3 DEF CallRecords
      <3> QED BY <2>4, <3>1 DEF SizeAt, PointCount
    <2>6. /\ Result.L = SizeAt(job, point) /\ Result.threads = Len(team.hands)
          /\ Result.capacity = pool.capacity /\ Result.policy = Policy(job)
      BY DEF Result
    <2>7. /\ LoadsAlone(Alone(job, SizeAt(job, point)))
          /\ Behaviour(Policy(job), SizeAt(job, point), job.cell_min)
               = Behaviour(Policy(Alone(job, SizeAt(job, point))), SizeAt(job, point), job.cell_min)
      BY <2>3, <2>5, SharedPolicy, SizesLoadAlone
    <2>8. SetUpAlone(point)'
      <3>1. results'[point] = Result
        BY <2>1, <2>2
      <3> QED BY <1>1, <2>4, <2>6, <2>7, <3>1 DEF SetUpAlone
    <2>9. ASSUME NEW i \in DOMAIN results PROVE SetUpAlone(i)'
      BY <1>1, <2>2, <2>9 DEF AloneInv, SetUpAlone
    <2>10. ASSUME NEW i \in DOMAIN results' PROVE SetUpAlone(i)'
      <3>1. Len(results) \in Nat
        BY <2>1
      <3>2. i \in DOMAIN results \/ i = point
        BY <2>1, <2>2, <3>1
      <3> QED BY <1>1, <2>8, <2>9, <3>2 DEF SetUpAlone
    <2> QED BY <1>2, <2>10 DEF AloneInv
  <1> QED BY <1>3, <1>4 DEF SaveTelemetry

(* Every step keeps the invariant of the points.                              *)
LEMMA NextAlone == IInv /\ AloneInv /\ [CurveNext]_curveVars => AloneInv'
  <1> SUFFICES ASSUME IInv, AloneInv, [CurveNext]_curveVars PROVE AloneInv'
    OBVIOUS
  <1> USE DEF Working, Busy
  <1>0. act \in Acts
    BY DEF IInv, CallInv
  <1>1. ASSUME NEW a \in Calls, MakeCall(a) PROVE AloneInv'
    BY <1>1, CallAssumption, MakeCallAlone
  <1>2. CASE TryOptions
    <2>1. PICK a \in Tried : MakeCall(a)
      BY <1>2 DEF TryOptions
    <2> QED BY <2>1, CallAssumption, MakeCallAlone
  <1>3. CASE Refuse \/ Finish \/ Crash
    BY <1>0, <1>3, SameAlone DEF Refuse, Finish, Crash, Stop, Acts
  <1>4. CASE Load
    <2>1. act = "driver" /\ CurveAccepted(job) /\ act' \in {"refused", "loaded", "ended"}
          /\ act' = Loaded(job, Policy(job)) /\ UNCHANGED <<job, results>>
      BY <1>4 DEF Load, Stop, Loaded
    <2> QED BY <2>1 DEF AloneInv, JobInv, TeamInv, SetUpAlone, Acts
  <1>5. CASE BeginPoint
    BY <1>5, BeginPointAlone
  <1>6. ASSUME NEW t \in DOMAIN team.hands, TakeQuery(t) \/ TakePage(t) PROVE AloneInv'
    BY <1>6, QueriesAlone
  <1>7. CASE BeginMeasure
    BY <1>7, QueriesAlone
  <1>8. CASE FinishPoint
    BY <1>0, <1>8, SameAlone DEF FinishPoint, Acts
  <1>9. CASE SaveVisits \/ SaveIds \/ SaveDists
    BY <1>0, <1>9, SameAlone DEF SaveVisits, SaveIds, SaveDists, Saves, Acts
  <1>10. CASE SaveTelemetry
    BY <1>10, TelemetryAlone
  <1>11. CASE Return
    BY <1>11 DEF Return, AloneInv, JobInv, TeamInv
  <1>12. CASE UNCHANGED curveVars
    BY <1>0, <1>12, SameAlone DEF curveVars
  <1> QED BY <1>1, <1>2, <1>3, <1>4, <1>5, <1>6, <1>7, <1>8, <1>9, <1>10, <1>11, <1>12 DEF CurveNext

(* Each point of a curve has a list size that loads alone, but for the two     *)
(* searches LoadsAlone names, and runs under the switches that this search     *)
(* would run under, on the threads and the pages asked for it.                *)
THEOREM PointsSetUpAlone == CurveSpec => [](\A i \in DOMAIN results : SetUpAlone(i))
  <1>1. CurveInit => AloneInv
    BY IdleAlone DEF CurveInit
  <1>2. AloneInv => \A i \in DOMAIN results : SetUpAlone(i)
    BY DEF AloneInv
  <1> QED BY <1>1, <1>2, NextAlone, CurveInvariant, PTL DEF CurveSpec
=============================================================================

---------------------------- MODULE MC_VamanaBoth ----------------------------
(* The Vamana index: the incremental one (part "store") and the static one *)
(* with its RCNI observer (part "build"), side by side.                    *)
EXTENDS MC_Vamana, VamanaBuild

CONSTANTS w1, w2
MCLinkThreads == {w1, w2}

MCBothSymmetry == MCSymmetry \cup Permutations(MCLinkThreads)

VARIABLE part

Plain == [points |-> <<<<0>>, <<1>>, <<3>>, <<7>>>>, load |-> 4, max |-> 4, frozen |-> 0, lines |-> <<>>,
          universal |-> FALSE, metric |-> "l2", alpha |-> 1, r |-> 2, l |-> 4, lf |-> 4, maxc |-> 4,
          saturate |-> FALSE, observer |-> FALSE, rcni |-> FALSE, mode |-> "mass", value |-> 600,
          tags |-> Nobody, save |-> FALSE]
Labelled == [Plain EXCEPT !.points = <<<<0>>, <<4>>, <<1>>>>, !.load = 3, !.max = 3, !.lines = <<{1}, {0}, {1, 2}>>,
                          !.universal = TRUE]

MCBuildCases == {
  [Plain EXCEPT !.r = 1],
  [Plain EXCEPT !.points = <<<<0, 0>>, <<1, 0>>, <<0, 2>>, <<3, 3>>>>, !.rcni = TRUE, !.observer = TRUE],
  [Plain EXCEPT !.rcni = TRUE, !.saturate = TRUE, !.mode = "top_ratio", !.value = 500],
  [Plain EXCEPT !.points = <<<<1>>, <<2>>, <<5>>>>, !.load = 3, !.max = 3, !.frozen = 1, !.metric = "ip"],
  [Plain EXCEPT !.load = 5],
  Labelled,
  [Labelled EXCEPT !.save = TRUE, !.max = 3, !.points = <<<<0>>, <<4>>>>, !.load = 2, !.lines = <<{1}, {0, 2}>>],
  [Plain EXCEPT !.save = TRUE, !.max = 3, !.points = <<<<0>>, <<5>>>>, !.load = 2]}

MCLookups == {[kind |-> "plain", query |-> <<2>>, k |-> 2, l |-> 5, label |-> 0],
              [kind |-> "plain", query |-> <<4>>, k |-> 1, l |-> 2, label |-> 0],
              [kind |-> "label", query |-> <<1>>, k |-> 2, l |-> 4, label |-> 1],
              [kind |-> "label", query |-> <<3>>, k |-> 3, l |-> 4, label |-> 9]}

\* An index that will not be saved is built before any that will: the files do not matter to it.
SavesLast == vb'.phase = "made" /\ ~vb'.c.save => \A f \in FileNames : stored[f] = Missing

BothInit == part \in {"store", "build"} /\ VInit /\ BuildInit
BothNext ==
  \/ part = "store" /\ VNext /\ UNCHANGED <<part, buildVars>>
  \/ part = "build" /\ BuildNext /\ SavesLast /\ UNCHANGED <<part, vvars>>
BothSpec == BothInit /\ [][BothNext]_<<part, vvars, buildVars>>
=============================================================================

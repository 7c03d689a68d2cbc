------------------------- MODULE MC_CommunityPolar -------------------------
(***************************************************************************)
(* The builder on five nodes, two communities and two workers, and the     *)
(* sidecar file with two operations and one rebuilt artifact.  Each is     *)
(* explored while the other rests.                                         *)
(***************************************************************************)
EXTENDS CommunityPolarBuild, CommunityPolarSidecar

VARIABLE part

Seq5(a, b, c, d, e) == [n \in Nodes |-> <<a, b, c, d, e>>[n + 1]]

Dense == Seq5(<<1, 3, 4>>, <<0, 2, 3>>, <<1, 3, 4>>, <<2, 0>>, <<3, 1>>)
Sink == Seq5(<<1>>, <<2, 4>>, <<0, 3>>, <<>>, <<0, 3>>)
Doubled == Seq5(<<1, 1>>, <<0>>, <<3>>, <<4>>, <<2>>)
Spread == Seq5(0, 1, 3, 7, 12)
Tied == Seq5(0, 2, 2, 4, 2)
Rcni == <<<<0, 1>>, <<1, 2>>, <<2, 3>>, <<3, 2>>, <<4, 4>>>>
Outside == [Dense EXCEPT ![4] = <<3, NodeCount>>]

In(g, x, rows, d) ==
  [graph |-> g, position |-> x, rcni |-> rows, from_disk |-> d, max_degree |-> 3]

MCInputs ==
  {In(Dense, Spread, Rcni, TRUE), In(Dense, Tied, Rcni, FALSE), In(Sink, Spread, Rcni, FALSE),
   In(Sink, Tied, Rcni, TRUE), In(Doubled, Spread, Rcni, FALSE), In(Outside, Spread, Rcni, TRUE),
   In(Dense, Spread, Append(SubSeq(Rcni, 1, 4), <<2, 1>>), FALSE)}

Base == [projection |-> NodeCount, cell_partition |-> "GRAPH_LOCAL", cell_target |-> 2,
         block_target |-> 2, gateway_count |-> 2, gateway_shortlist |-> 2, hierarchy |-> TRUE,
         branching |-> 2, leaf_size |-> 1, directions |-> 1, axis |-> [d \in {-1, 1} |-> 0]]

MCConfigs ==
  {Base,
   [Base EXCEPT !.projection = 2, !.gateway_count = 1, !.cell_partition = "GLOBAL_GRAPH_LOCAL"],
   [Base EXCEPT !.cell_partition = "CONVERGENCE_COACCESS", !.cell_target = 3],
   [Base EXCEPT !.cell_partition = "GLOBAL_GEOMETRIC", !.cell_target = 3, !.hierarchy = FALSE],
   [Base EXCEPT !.cell_partition = "POLAR_RADIAL", !.hierarchy = FALSE, !.block_target = 1],
   [Base EXCEPT !.cell_partition = "POLAR_RADIAL", !.hierarchy = FALSE, !.directions = 2,
                !.axis = [d \in {-1, 1} |-> IF d = 1 THEN 1 ELSE 0]]}

Ranked(p, n, r) == [pair |-> p, node |-> n, rank |-> r]
MCSelections == {<<>>, <<Ranked(<<0, 1>>, 3, 0)>>,
                 <<Ranked(<<0, 1>>, 3, 0), Ranked(<<0, 1>>, 3, 1)>>}

Slot(n, c, k, o) == [node |-> n, community |-> c, cell |-> k, order |-> o]
MCProfiles ==
  {<<Slot(0, 0, 7, 1), Slot(1, 0, 7, 0), Slot(2, 0, 3, 0), Slot(3, 1, 9, 2), Slot(4, 1, 9, 0)>>,
   <<Slot(4, 1, 1, 4), Slot(3, 0, 1, 3), Slot(2, 0, 1, 2), Slot(1, 1, 1, 1), Slot(0, 0, 1, 0)>>,
   <<Slot(0, 0, 1, 0), Slot(1, 0, 1, 1)>>}

MCRepackConfigs ==
  {[Base EXCEPT !.cell_target = 4], [Base EXCEPT !.cell_target = 3, !.block_target = 1],
   [Base EXCEPT !.cell_target = 1]}

MCLocalityCells ==
  {[target |-> 2, nodes |-> <<<<4, 0>>, <<2>>, <<1, 3>>>>],
   [target |-> 3, nodes |-> <<<<0, 1, 2>>, <<3, 4>>>>],
   [target |-> 3, nodes |-> <<<<0, 1, 2>>, <<3, 2>>>>]}

Request(op, partition_, adaptive, target, gateways, hierarchy) ==
  [op |-> op, partition |-> partition_, adaptive |-> adaptive, target |-> target,
   gateway_count |-> gateways, hierarchy |-> hierarchy]

MCRequests ==
  {Request("fresh", "GLOBAL_GRAPH_LOCAL", FALSE, 256, 3, FALSE),
   Request("fresh", "GLOBAL_GEOMETRIC", TRUE, 128, 3, TRUE),
   Request("reselect", "POLAR_RADIAL", FALSE, 256, 2, FALSE),
   Request("repack", "GLOBAL_GEOMETRIC", TRUE, 128, 3, TRUE),
   Request("cells", "GRAPH_LOCAL", FALSE, 64, 3, TRUE)}

MCSelected == <<3>>

BuildRests == input.graph = Dense /\ input.from_disk /\ config = Base /\ selection = <<>>
SidecarRests == files["source"] = Legacy(5)

Init ==
  /\ BuildInit /\ SidecarInit
  /\ part \in {"build", "sidecar"}
  /\ part # "build" => BuildRests /\ input.position = Spread /\ input.rcni = Rcni
  /\ part # "sidecar" => SidecarRests

Next ==
  /\ UNCHANGED part
  /\ \/ part = "build" /\ BuildStep /\ UNCHANGED sidecarVars
     \/ part = "sidecar" /\ SidecarNext /\ UNCHANGED buildVars

Spec == Init /\ [][Next]_<<part, buildVars, sidecarVars>>
=============================================================================

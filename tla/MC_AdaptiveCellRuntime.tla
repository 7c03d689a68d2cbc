---------------------- MODULE MC_AdaptiveCellRuntime ----------------------
(* Instances of AdaptiveCellRuntime for TLC: merge candidates that chain,   *)
(* and the one pair of the repository's background tests.                   *)
EXTENDS AdaptiveCellRuntime

ChainedPairs == <<<<2, 3>>, <<1, 2>>>>
OnePair == <<<<1, 2>>>>

\* Chained merges on overlay storage, with a budget of two.
Overlay == [minJoint |-> 1, minCoaccess |-> 50, maxIncrease |-> 60, maxPublishes |-> 2,
            physical |-> TRUE, force |-> FALSE, queries |-> Queries, externals |-> {}]
\* Contiguous merges, a forced first one, and another publisher.
Race == [Overlay EXCEPT !.maxIncrease = 100, !.maxPublishes = 9, !.physical = FALSE, !.force = TRUE,
                        !.queries = {CHOOSE q \in Queries : TRUE}, !.externals = Externals]
MergeConfigs == {Overlay, Race}
\* The background tests: one pair, no budget that matters.
DrainConfigs == {[Overlay EXCEPT !.minCoaccess = 100, !.maxPublishes = 9, !.physical = FALSE]}
=============================================================================

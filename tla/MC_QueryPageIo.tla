--------------------------- MODULE MC_QueryPageIo ---------------------------
(***************************************************************************)
(* TLC instances of the queries: one configuration of the search per       *)
(* record, with the pages and the faults that show its cases.              *)
(***************************************************************************)
EXTENDS QueryPageIo

\* The refinement read of Cell-PQ with every kernel fault, on two pages that are not adjacent.
FaultyCells == [cellPq |-> TRUE, prefetch |-> FALSE, pageBatch |-> TRUE, faults |-> FaultKinds,
                pages |-> {1, 3}, capacities |-> {2}, rounds |-> 0]
\* Cell-PQ with range reads or too few frames, and refused submissions.
Cells == [FaultyCells EXCEPT !.faults = {"submit"}, !.pages = {1, 2}, !.capacities = {1, 2},
                              !.rounds = 1]
\* A refinement prefetch with one frame, Cell batches off: the refinement reads beside it.
Prefetch == [Cells EXCEPT !.prefetch = TRUE, !.pageBatch = FALSE, !.faults = {}, !.pages = Pages,
                          !.capacities = {1}, !.rounds = 0]
\* The same on fewer pages: submissions refused whole and reads that fail, then
\* batches taken in part and interrupted waits.
RefusedPrefetch == [Prefetch EXCEPT !.faults = {"submit", "device"}, !.pages = {1, 2}]
InterruptedPrefetch == [RefusedPrefetch EXCEPT !.faults = {"partial", "interrupt"}]
\* A prefetch, and range reads in the refinement after it.
PagedPrefetch == [Prefetch EXCEPT !.pageBatch = TRUE, !.capacities = {2}]
\* Graph traversal without Cell-PQ.
Graph == [Cells EXCEPT !.cellPq = FALSE]
MCOptions == {FaultyCells, Cells, Prefetch, RefusedPrefetch, InterruptedPrefetch, PagedPrefetch,
              Graph}

\* A refinement prefetch together with Cell batches.
PrefetchAndCells == {[Prefetch EXCEPT !.pages = {1, 2}, !.capacities = {2}, !.rounds = 1]}
=============================================================================

------------------------------ MODULE MC_Vamana ------------------------------
(* The incremental Vamana index on small instances.  Threads and tags are   *)
(* interchangeable, and every property is a safety property.                *)
EXTENDS VamanaIndex

CONSTANTS t1, t2, t3, u1, u2

MCTags == {t1, t2, t3}
MCThreads == {u1, u2}
MCSymmetry == Permutations(MCTags) \cup Permutations(MCThreads)
=============================================================================

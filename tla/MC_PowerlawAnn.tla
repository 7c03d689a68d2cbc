--------------------------- MODULE MC_PowerlawAnn ---------------------------
(* An instance of PowerlawAnn for TLC: two pairs of vectors that are near    *)
(* each other, and a bulk that fills the lists of the upper layer.           *)
EXTENDS PowerlawAnn

MCCoordinates == [v \in 0 .. 4 |-> <<0, 0, 5, 1, 6>>[v + 1]]
MCBatches == {<<3>>, <<3, 4, 5>>}
=============================================================================

------------------------- MODULE MC_CachedArtifacts -------------------------
(***************************************************************************)
(* The artifacts of an index beside the page cache through which queries   *)
(* read them (part "cache").                                               *)
(***************************************************************************)
EXTENDS MC_Artifacts, MC_LruBufferPool

CachedInit ==
  \/ ArtifactsInit /\ Init /\ frames = Frames
  \/ part = "cache" /\ Init /\ DiskInit /\ IoRests /\ IoQuiet /\ PqRests

CachedNext ==
  \/ ArtifactsNext /\ UNCHANGED vars
  \/ part = "cache" /\ Next /\ Bounded' /\ UNCHANGED <<part, ioVars, diskVars, pqVars>>

CachedSpec == CachedInit /\ [][CachedNext]_<<vars, part, ioVars, diskVars, pqVars>>
=============================================================================

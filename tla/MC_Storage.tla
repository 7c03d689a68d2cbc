----------------------------- MODULE MC_Storage -----------------------------
(***************************************************************************)
(* The disk manager, a level of the chunk buffer pool, powerlaw_ann_t and  *)
(* the Adaptive Cell runtime in one model.  They share no state (the pool  *)
(* only borrows the manager's id encoding, powerlaw_ann_t keeps files of   *)
(* its own), so each is explored while the others are at rest.             *)
(***************************************************************************)
EXTENDS DiskManager, ChunkBufPool, MC_PowerlawAnn, MC_AdaptiveCellRuntime

VARIABLE part

\* The second chunk file has one slot; the first has MaxChunks.
SecondSmall == meta[1] <= 1 /\ Len(data[1]) <= 1

StorageInit ==
  /\ DiskInit /\ PoolInit /\ ApiInit /\ Init
  /\ part \in {"store", "api", "cells"}
  /\ part # "store" => exists = {}
  /\ SecondSmall
  /\ part # "api" => max = Min(Capacities)
  /\ part # "cells" => config = CHOOSE c \in Configs : TRUE

StorageNext ==
  /\ part' = part
  /\ \/ part = "store" /\ count = 0 /\ DiskNext /\ SecondSmall' /\ UNCHANGED <<poolVars, hnswVars, apiVars, vars>>
     \/ part = "store" /\ exists = {} /\ manager = "closed" /\ PoolNext
        /\ UNCHANGED <<diskVars, hnswVars, apiVars, vars>>
     \/ part = "api" /\ ApiNext /\ UNCHANGED <<diskVars, poolVars, vars>>
     \/ part = "cells" /\ Next /\ UNCHANGED <<diskVars, poolVars, hnswVars, apiVars>>

StorageSpec == StorageInit /\ [][StorageNext]_<<diskVars, poolVars, hnswVars, apiVars, vars, part>>
=============================================================================

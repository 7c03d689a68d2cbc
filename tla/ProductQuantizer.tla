-------------------------- MODULE ProductQuantizer --------------------------
(***************************************************************************)
(* Product quantization (src/pq/product_quantizer.cc, pq_l2_distance.cc,   *)
(* pq_data_store.cc, math_utils.cc): how dimensions are cut into chunks,   *)
(* how k-means trains the centres of a chunk, how a block of vectors is    *)
(* encoded, and how a query's table measures the codes.  A run trains one  *)
(* pivots file, encodes one block with it and loads a table from it.       *)
(* Numbers are fixed-point multiples of 1/Unit, so that means are exact:   *)
(* rounding is not modelled.  Dimensions and chunks count from 1, codes    *)
(* from 0.                                                                 *)
(***************************************************************************)
EXTENDS Integers, Sequences, FiniteSets, SequencesExt, FiniteSetsExt, Functions

CONSTANTS
  Unit,        \* the fixed-point one
  ByteTop,     \* the largest value the encoder's table covers (255)
  NumCenters,  \* centres of a chunk (256)
  KMeansReps,  \* rounds of Lloyd's algorithm
  PqCases      \* [data, chunks, mean, opq, trained, saved, metadata, loader]

VARIABLES
  pqCase, pqStep,
  lloyds,   \* the chunk under training: its points, start, centres, last residual, rounds
  trained,  \* the centres of the chunks done
  pivots, codes

pqVars == <<pqCase, pqStep, lloyds, trained, pivots, codes>>

Sum(f) == SumFunction(f)
Squared(x) == x * x
SquaredDistance(a, b) == Sum([d \in DOMAIN a |-> Squared(a[d] - b[d])])

(***************************************************************************)
(* Chunks.                                                                 *)
(***************************************************************************)
\* Each dimension goes to the first bin below the limit, which falls from the
\* high to the low size when enough bins are high.
ChunkSizes(dim, chunks) ==
  LET low == dim \div chunks
      high == (dim + chunks - 1) \div chunks
      Put(s, d) ==
        LET b == CHOOSE b \in 1 .. chunks : s.size[b] < s.limit /\ \A c \in 1 .. b - 1 : s.size[c] >= s.limit
            full == s.full + (IF s.size[b] + 1 = high THEN 1 ELSE 0)
        IN [size |-> [s.size EXCEPT ![b] = @ + 1], full |-> full,
            limit |-> IF full # s.full /\ full = dim - low * chunks THEN low ELSE s.limit]
  IN FoldLeft(Put, [size |-> [b \in 1 .. chunks |-> 0], full |-> 0, limit |-> high],
              [d \in 1 .. dim |-> d]).size

\* chunk_offsets_: the chunk b has the dimensions offsets[b] + 1 .. offsets[b + 1].
ChunkOffsets(dim, chunks) ==
  LET size == ChunkSizes(dim, chunks)
  IN [b \in 1 .. chunks + 1 |->
        IF b = chunks + 1 THEN dim ELSE Sum([c \in 1 .. b - 1 |-> size[c]])]

Part(v, offsets, b) == SubSeq(v, offsets[b] + 1, offsets[b + 1])

(***************************************************************************)
(* k-means.                                                                *)
(***************************************************************************)
\* compute_closest_centers: the first of the nearest.
Nearest(v, centers) ==
  CHOOSE c \in DOMAIN centers :
    \A e \in DOMAIN centers : LET x == SquaredDistance(v, centers[c])  y == SquaredDistance(v, centers[e])
                              IN x < y \/ (x = y /\ c <= e)

\* A centre becomes the mean of its points, and zero when it has none.
LloydsIter(data, centers) ==
  LET own == [i \in DOMAIN data |-> Nearest(data[i], centers)]
      Cluster(c) == {i \in DOMAIN data : own[i] = c}
  IN [c \in DOMAIN centers |-> [d \in DOMAIN centers[c] |->
        IF Cluster(c) = {} THEN 0
        ELSE Sum([i \in Cluster(c) |-> data[i][d]]) \div Cardinality(Cluster(c))]]

\* The residual of an iteration: its new centres, its old assignment.
Residual(data, old, new) ==
  Sum([i \in DOMAIN data |-> SquaredDistance(data[i], new[Nearest(data[i], old)])])

\* run_lloyds: stop when nothing is left or almost nothing was gained.
Converged(residual, before, rounds) ==
  residual = 0 \/ (rounds > 0 /\ before - residual <= (residual - 1) \div 100000)

\* kmeanspp_selecting_pivots: any point away from those picked, and the last
\* one again and again when there is none.
KMeansPicks(data) ==
  LET Far(p, j) == {i \in DOMAIN data : \A e \in 1 .. j - 1 : data[i] # data[p[e]]}
  IN {p \in [1 .. NumCenters -> DOMAIN data] :
        \A j \in 2 .. NumCenters : IF Far(p, j) = {} THEN p[j] = Len(data) ELSE p[j] \in Far(p, j)}

(***************************************************************************)
(* Training.  A pivots file: the centres, their centroid, the offsets.     *)
(***************************************************************************)
Rotate(v, rotation) == [d \in DOMAIN v |-> v[rotation[d]]]
Minus(v, centroid) == [d \in DOMAIN v |-> v[d] - centroid[d]]

Centroid(data, mean) ==
  [d \in DOMAIN data[1] |-> IF mean THEN Sum([i \in DOMAIN data |-> data[i][d]]) \div Len(data) ELSE 0]

\* The training data as a chunk's k-means sees it: OPQ's is rotated, not centred.
TrainingPart(c, b) ==
  LET centroid == Centroid(c.data, c.mean /\ ~c.opq)
      offsets == ChunkOffsets(Len(c.data[1]), c.chunks)
      Seen(v) == IF c.opq THEN Rotate(v, c.trained) ELSE Minus(v, centroid)
  IN [i \in DOMAIN c.data |-> Part(Seen(c.data[i]), offsets, b)]

\* generate_pq_pivots, generate_opq_pivots (whose last rotation comes after its
\* last centres): the chunks' centres are put side by side.
PivotsFile(c, chunks) ==
  [metadata |-> c.metadata, dim |-> Len(c.data[1]),
   centers |-> [k \in 1 .. NumCenters |-> FlattenSeq([b \in DOMAIN chunks |-> chunks[b][k]])],
   centroid |-> Centroid(c.data, c.mean /\ ~c.opq),
   offsets |-> ChunkOffsets(Len(c.data[1]), c.chunks),
   rotation |-> IF c.opq THEN {c.saved} ELSE {}]

(***************************************************************************)
(* Encoding.                                                               *)
(***************************************************************************)
\* generate_pq_data_from_pivots reads new files only.
EncoderAccepts(file, dim, chunks, opq) ==
  /\ file.metadata = 4 /\ Len(file.centers) = NumCenters /\ file.dim = dim
  /\ Len(file.offsets) = chunks + 1 /\ (opq => file.rotation # {})

Integral(x) == x >= 0 /\ x <= ByteTop * Unit /\ x % Unit = 0

ChunkCenters(file, b) == [k \in DOMAIN file.centers |-> Part(file.centers[k], file.offsets, b)]

\* Mutant of IntegralLut: the centroid is forgotten.
IntegralLut_NoCentroid(file) ==
  [d \in 1 .. file.dim |-> [value \in 0 .. ByteTop |->
     Nearest(<<value * Unit>>, ChunkCenters(file, d)) - 1]]

\* One byte per dimension: the code of every integral value.
IntegralLut(file) ==
  [d \in 1 .. file.dim |-> [value \in 0 .. ByteTop |->
     Nearest(<<value * Unit - file.centroid[d]>>, ChunkCenters(file, d)) - 1]]

UsesLut(file, data, opq) ==
  /\ ~opq /\ file.offsets = [b \in 1 .. file.dim + 1 |-> b - 1]
  /\ \A i \in DOMAIN data : \A d \in DOMAIN data[i] : Integral(data[i][d])

GeneralCode(file, v, opq) ==
  LET centred == Minus(v, file.centroid)
      seen == IF opq THEN Rotate(centred, CHOOSE r \in file.rotation : TRUE) ELSE centred
  IN [b \in 1 .. Len(file.offsets) - 1 |-> Nearest(Part(seen, file.offsets, b), ChunkCenters(file, b)) - 1]

EncodeBlock(file, data, opq) ==
  IF UsesLut(file, data, opq)
  THEN LET lut == IntegralLut(file)
       IN [i \in DOMAIN data |-> [d \in DOMAIN data[i] |-> lut[d][data[i][d] \div Unit]]]
  ELSE [i \in DOMAIN data |-> GeneralCode(file, data[i], opq)]

(***************************************************************************)
(* The table of a query.                                                   *)
(***************************************************************************)
\* load_pq_centroid_bin applies a rotation whenever its file is there;
\* load_pivot_data only when it is told that the index is OPQ.
LoadTable(file, loader, opq) ==
  [centers |-> file.centers, centroid |-> file.centroid, offsets |-> file.offsets,
   rotation |-> IF loader = "flash" \/ opq THEN file.rotation ELSE {}]

LoaderAccepts(file, chunks) ==
  /\ file.metadata \in {4, 5} /\ Len(file.centers) = NumCenters
  /\ chunks = 0 \/ Len(file.offsets) = chunks + 1

PreprocessQuery(table, q) ==
  LET centred == Minus(q, table.centroid)
  IN IF table.rotation = {} THEN centred ELSE Rotate(centred, CHOOSE r \in table.rotation : TRUE)

PopulateChunkDistances(table, p) ==
  [b \in 1 .. Len(table.offsets) - 1 |-> [k \in DOMAIN table.centers |->
     SquaredDistance(Part(table.centers[k], table.offsets, b), Part(p, table.offsets, b))]]

PopulateChunkInnerProducts(table, p) ==
  [b \in 1 .. Len(table.offsets) - 1 |-> [k \in DOMAIN table.centers |->
     -Sum([d \in table.offsets[b] + 1 .. table.offsets[b + 1] |-> table.centers[k][d] * p[d]])]]

AggregateCoords(ids, all) == [i \in DOMAIN ids |-> all[ids[i]]]
PqDistLookup(dists, list) == [i \in DOMAIN list |-> Sum([b \in DOMAIN dists |-> dists[b][list[i][b] + 1]])]

\* The vector a code stands for, as the encoder and l2_distance see it.
CodeVector(table, code) ==
  FlattenSeq([b \in DOMAIN code |-> Part(table.centers[code[b] + 1], table.offsets, b)])
L2Distance(table, p, code) == SquaredDistance(CodeVector(table, code), p)
InflateVector(table, code) ==
  LET v == CodeVector(table, code) IN [d \in DOMAIN v |-> v[d] + table.centroid[d]]

(***************************************************************************)
(* One pivots file.                                                        *)
(***************************************************************************)
NoPivots == [metadata |-> 0]
Idle == [rounds |-> -1]

PqInit ==
  /\ pqCase \in PqCases /\ pqStep = "train" /\ lloyds = Idle
  /\ trained = <<>> /\ pivots = NoPivots /\ codes = <<>>

PickStart ==
  /\ pqStep = "train" /\ lloyds = Idle /\ Len(trained) < pqCase.chunks
  /\ \E data \in {TrainingPart(pqCase, Len(trained) + 1)} :
       \E p \in KMeansPicks(data) :
         LET start == [k \in 1 .. NumCenters |-> data[p[k]]]
         IN lloyds' = [data |-> data, start |-> start, centers |-> start,
                       residual |-> 0, rounds |-> 0, done |-> KMeansReps = 0]
  /\ UNCHANGED <<pqCase, pqStep, trained, pivots, codes>>

LloydsRound ==
  /\ lloyds # Idle /\ ~lloyds.done
  /\ \E next \in {LloydsIter(lloyds.data, lloyds.centers)} :
       \E residual \in {Residual(lloyds.data, lloyds.centers, next)} :
         lloyds' = [lloyds EXCEPT !.centers = next, !.residual = residual, !.rounds = @ + 1,
                      !.done = \/ Converged(residual, lloyds.residual, lloyds.rounds)
                               \/ lloyds.rounds + 1 = KMeansReps]
  /\ UNCHANGED <<pqCase, pqStep, trained, pivots, codes>>

ChunkTrained ==
  /\ lloyds # Idle /\ lloyds.done
  /\ trained' = Append(trained, lloyds.centers) /\ lloyds' = Idle
  /\ UNCHANGED <<pqCase, pqStep, pivots, codes>>

SavePivots ==
  /\ pqStep = "train" /\ Len(trained) = pqCase.chunks
  /\ pivots' = PivotsFile(pqCase, trained) /\ pqStep' = "encode"
  /\ UNCHANGED <<pqCase, lloyds, trained, codes>>

EncodeData ==
  /\ pqStep = "encode"
  /\ LET c == pqCase
     IN IF EncoderAccepts(pivots, Len(c.data[1]), c.chunks, c.opq)
        THEN codes' = EncodeBlock(pivots, c.data, c.opq) /\ pqStep' = "load"
        ELSE pqStep' = "thrown" /\ UNCHANGED codes
  /\ UNCHANGED <<pqCase, lloyds, trained, pivots>>

LoadPivots ==
  /\ pqStep = "load"
  /\ pqStep' = IF LoaderAccepts(pivots, pqCase.chunks) THEN "serve" ELSE "thrown"
  /\ UNCHANGED <<pqCase, lloyds, trained, pivots, codes>>

PqNext == PickStart \/ LloydsRound \/ ChunkTrained \/ SavePivots \/ EncodeData \/ LoadPivots

Table == LoadTable(pivots, pqCase.loader, pqCase.opq)

(***************************************************************************)
(* Properties.                                                             *)
(***************************************************************************)
\* By the loaded table, a vector is at least as near to its own code as to any
\* other: the shortcut for integral values, the general path and the rotation
\* all keep the "ordinary nearest-center result".
OwnCodeIsNearest ==
  pqStep = "serve" =>
    \A i \in DOMAIN pqCase.data :
      \E dists \in {PopulateChunkDistances(Table, PreprocessQuery(Table, pqCase.data[i]))} :
        \A b \in DOMAIN dists : \A k \in DOMAIN dists[b] : dists[b][codes[i][b] + 1] <= dists[b][k]

=============================================================================

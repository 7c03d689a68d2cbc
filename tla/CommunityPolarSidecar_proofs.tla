-------------------- MODULE CommunityPolarSidecar_proofs --------------------
(***************************************************************************)
(* Proofs about the sidecar file, for any build requests, gateway          *)
(* selection, widths and number of rebuilt artifacts and operations, with  *)
(* a crash between any two sections and files cut by a power loss.         *)
(***************************************************************************)
EXTENDS CommunityPolarSidecar, SequenceTheorems, TLAPS

-----------------------------------------------------------------------------
(***************************************************************************)
(* The inductive invariant.  A header names the PQ artifact whose codes    *)
(* the checksummed packets hold, and a body is never longer than the one   *)
(* the checksum was taken of: a cut file either fails its checksum or was  *)
(* not cut at all.                                                         *)
(***************************************************************************)
IsSequence(s) == s \in Seq(ToSet(s))

BoundHeader(h) ==
  /\ h = [version |-> h.version, width |-> h.width, hash |-> h.hash, base |-> h.base, pq |-> h.pq]
  /\ IsSequence(h.hash)
  /\ 6 \in DOMAIN h.hash /\ h.hash[6] = [id |-> "PACKETS", codes |-> h.pq]
  /\ h.width = h.pq.width

SidecarFile(header, body) == [kind |-> "sidecar", header |-> header, body |-> body]

FileFits(file) ==
  file.kind = "sidecar" =>
    /\ file = SidecarFile(file.header, file.body)
    /\ BoundHeader(file.header)
    /\ IsSequence(file.body) /\ Len(file.body) <= Len(file.header.hash)
    /\ LoadOk(file) => Decode(file) \in written

Named == Paths \ {"tmp"}
FilesFit == DOMAIN files = Paths /\ \A p \in Named : FileFits(files[p])

WriteFits ==
  job.step = "write" =>
    /\ job.out \in Named
    /\ BoundHeader(job.header) /\ job.sections = job.header.hash
    /\ Decode(SidecarFile(job.header, job.sections)) \in written
    /\ files["tmp"] = SidecarFile(job.header, files["tmp"].body)

RebindFits ==
  job.step = "rebind" =>
    /\ job.out \in Named
    /\ BoundHeader(job.from.header) /\ IsSequence(job.from.body)
    /\ job.sections = [i \in DOMAIN job.from.body |-> RebindSection(job.from.body[i])]
    /\ files["tmp"] = SidecarFile(Placeholder, files["tmp"].body)

SidecarIInv == FilesFit /\ WriteFits /\ RebindFits /\ SearchedSidecarFits


-----------------------------------------------------------------------------
(***************************************************************************)
(* Sequences of sections.                                                  *)
(***************************************************************************)
\* A sequence over any set is one over its own elements.
LEMMA OwnElements ==
  ASSUME NEW S, NEW s \in Seq(S)
  PROVE  IsSequence(s)
<1>1. s \in [1 .. Len(s) -> S] /\ Len(s) \in Nat /\ DOMAIN s = 1 .. Len(s)
  OBVIOUS
<1>2. \A i \in 1 .. Len(s) : s[i] \in ToSet(s)
  BY <1>1 DEF ToSet
<1>3. s \in [1 .. Len(s) -> ToSet(s)]
  BY <1>1, <1>2
<1> QED
  BY <1>1, <1>3, SeqDef DEF IsSequence

\* A function on an initial segment of the numbers is a sequence.
LEMMA FunctionIsSequence ==
  ASSUME NEW n \in Nat, NEW f, f = [i \in 1 .. n |-> f[i]]
  PROVE  IsSequence(f) /\ Len(f) = n /\ DOMAIN f = 1 .. n
<1>1. DOMAIN f = 1 .. n
  OBVIOUS
<1>2. \A i \in 1 .. n : f[i] \in ToSet(f)
  BY <1>1 DEF ToSet
<1>3. f \in [1 .. n -> ToSet(f)]
  BY <1>1, <1>2
<1>4. f \in Seq(ToSet(f))
  BY <1>3, SeqDef
<1> QED
  BY <1>1, <1>4, LenProperties DEF IsSequence

\* The sections of a cut file are a sequence no longer than the cut.
LEMMA CutSequence ==
  ASSUME NEW s, IsSequence(s), NEW n \in 0 .. Len(s)
  PROVE  /\ IsSequence(SubSeq(s, 1, n)) /\ Len(SubSeq(s, 1, n)) = n
         /\ n = Len(s) => SubSeq(s, 1, n) = s
<1> DEFINE c == SubSeq(s, 1, n)
<1>1. s \in Seq(ToSet(s)) /\ Len(s) \in Nat /\ n \in Nat
  BY LenProperties DEF IsSequence
<1>2. c \in Seq(ToSet(s)) /\ Len(c) = n /\ \A i \in 1 .. n : c[i] = s[i]
  BY <1>1, SubSeqProperties
<1>3. IsSequence(c)
  BY <1>2, OwnElements
<1>4. n = Len(s) => c = s
  BY <1>1, <1>2, SeqEqual
<1> QED
  BY <1>2, <1>3, <1>4

-----------------------------------------------------------------------------
(***************************************************************************)
(* Encoding and decoding.                                                  *)
(***************************************************************************)
\* The section added to the first six.
LEMMA SeventhSection ==
  ASSUME NEW a, NEW b, NEW c, NEW d, NEW e, NEW p, NEW h
  PROVE  <<a, b, c, d, e, p>> \o <<h>> = <<a, b, c, d, e, p, h>>
<1> DEFINE S == {a, b, c, d, e, p, h}
          short == <<a, b, c, d, e, p>>
          last == <<h>>
          whole == <<a, b, c, d, e, p, h>>
<1>1. short \in Seq(S) /\ Len(short) = 6 /\ last \in Seq(S) /\ Len(last) = 1 /\ last[1] = h
  OBVIOUS
<1>2. whole \in Seq(S) /\ Len(whole) = 7 /\ whole[7] = h
  OBVIOUS
<1>3. \A i \in 1 .. 6 : whole[i] = short[i]
  OBVIOUS
<1> HIDE DEF last, short, whole, S
<1> DEFINE joined == short \o last
<1>4. /\ joined \in Seq(S) /\ Len(joined) = Len(short) + Len(last)
      /\ \A i \in 1 .. Len(short) + Len(last) :
           joined[i] = IF i <= Len(short) THEN short[i] ELSE last[i - Len(short)]
  BY <1>1, ConcatProperties
<1> HIDE DEF joined
<1>5. Len(joined) = 7 /\ \A i \in 1 .. 7 : joined[i] = IF i <= 6 THEN short[i] ELSE last[i - 6]
  BY <1>1, <1>4
<1>6. /\ \A i \in 1 .. 6 : joined[i] = short[i]
      /\ joined[7] = h
  BY <1>1, <1>5
<1>7. \A i \in 1 .. 7 : i \in 1 .. 6 \/ i = 7
  OBVIOUS
<1>8. \A i \in 1 .. 7 : joined[i] = whole[i]
  BY <1>2, <1>3, <1>6, <1>7
<1> QED
  BY <1>2, <1>4, <1>5, <1>8, SeqEqual DEF joined, last, short, whole

HoldsSections(s, ix, v) ==
  /\ s[1] = ConfigSection(ix, v)
  /\ s[2] = [id |-> "COMMUNITIES", width |-> ix.packet_width]
  /\ s[3] = [id |-> "GATEWAYS", targets |-> ix.gateways]
  /\ s[4] = [id |-> "CELLS", capacity |-> IF v >= 6 THEN ix.capacity ELSE 0]
  /\ s[5] = [id |-> "BLOCKS", error |-> ix.error]
  /\ s[6] = [id |-> "PACKETS", codes |-> ix.codes]
  /\ v >= 5 => s[7] = [id |-> "CELL_HIERARCHY", hierarchy |-> ix.hierarchy]

\* The sections of an index: from version 5 on the hierarchy follows the packets.
LEMMA SectionsLemma ==
  ASSUME NEW ix, NEW v, v \in 1 .. 7, NEW s, s = MakeSections(ix, v)
  PROVE  IsSequence(s) /\ 6 \in DOMAIN s /\ HoldsSections(s, ix, v)
<1> DEFINE a == ConfigSection(ix, v)
           b == [id |-> "COMMUNITIES", width |-> ix.packet_width]
           c == [id |-> "GATEWAYS", targets |-> ix.gateways]
           d == [id |-> "CELLS", capacity |-> IF v >= 6 THEN ix.capacity ELSE 0]
           e == [id |-> "BLOCKS", error |-> ix.error]
           p == [id |-> "PACKETS", codes |-> ix.codes]
           h == [id |-> "CELL_HIERARCHY", hierarchy |-> ix.hierarchy]
<1>1. s = <<a, b, c, d, e, p>> \o IF v >= 5 THEN <<h>> ELSE <<>>
  BY Zenon DEF MakeSections
<1> HIDE DEF a, b, c, d, e, p, h
<1>2. CASE v >= 5
  <2>1. s = <<a, b, c, d, e, p, h>>
    BY <1>1, <1>2, SeventhSection
  <2>2. s \in Seq({a, b, c, d, e, p, h}) /\ DOMAIN s = 1 .. 7
    BY <2>1
  <2>3. IsSequence(s) /\ 6 \in DOMAIN s
    BY <2>2, OwnElements
  <2>4. s[1] = a /\ s[2] = b /\ s[3] = c /\ s[4] = d /\ s[5] = e /\ s[6] = p /\ s[7] = h
    BY <2>1
  <2> QED
    BY <2>3, <2>4 DEF a, b, c, d, e, p, h, HoldsSections
<1>3. CASE ~(v >= 5)
  <2>1. <<a, b, c, d, e, p>> \in Seq({a, b, c, d, e, p})
    OBVIOUS
  <2>2. s = <<a, b, c, d, e, p>>
    BY <1>1, <1>3, <2>1, ConcatEmptySeq
  <2>3. IsSequence(s)
    BY <2>1, <2>2, OwnElements
  <2>4. 6 \in DOMAIN s
    BY <2>2
  <2>5. s[1] = a /\ s[2] = b /\ s[3] = c /\ s[4] = d /\ s[5] = e /\ s[6] = p
    BY <2>2
  <2> QED
    BY <1>3, <2>3, <2>4, <2>5 DEF a, b, c, d, e, p, HoldsSections
<1> QED
  BY <1>2, <1>3

\* An index in memory, with every field the sidecar keeps.
IsIndex(ix) ==
  /\ ix = [projection |-> ix.projection, partition |-> ix.partition, adaptive |-> ix.adaptive,
           target |-> ix.target, gateway_count |-> ix.gateway_count,
           packet_width |-> ix.packet_width, gateways |-> ix.gateways, capacity |-> ix.capacity,
           error |-> ix.error, codes |-> ix.codes, hierarchy |-> ix.hierarchy,
           width |-> ix.width, base |-> ix.base, pq |-> ix.pq]
  /\ ix.adaptive \in BOOLEAN /\ ix.hierarchy \in BOOLEAN

\* The packets hold the codes of the PQ artifact the index is bound to.
HoldsItsCodes(ix) == ix.codes = ix.pq /\ ix.width = ix.pq.width

\* The header of an index is bound to its PQ artifact.
LEMMA HeaderLemma ==
  ASSUME NEW ix, NEW v, v \in 1 .. 7, HoldsItsCodes(ix)
  PROVE  BoundHeader(Header(ix, v)) /\ Header(ix, v).hash = MakeSections(ix, v)
<1> DEFINE s == MakeSections(ix, v)
<1>1. s = MakeSections(ix, v)
  OBVIOUS
<1> HIDE DEF s
<1>2. IsSequence(s) /\ 6 \in DOMAIN s /\ s[6] = [id |-> "PACKETS", codes |-> ix.codes]
  <2>1. IsSequence(s) /\ 6 \in DOMAIN s /\ HoldsSections(s, ix, v)
    BY <1>1, SectionsLemma, Zenon
  <2> QED
    BY <2>1, Zenon DEF HoldsSections
<1>3. Header(ix, v) = [version |-> v, width |-> ix.width, hash |-> s, base |-> ix.base, pq |-> ix.pq]
  BY <1>1 DEF Header
<1> QED
  BY <1>1, <1>2, <1>3 DEF BoundHeader, HoldsItsCodes

\* The last field of a configuration section, whatever it holds.
LEMMA AdaptiveField ==
  ASSUME NEW a, NEW b, NEW c, NEW d, NEW e, NEW f, NEW r,
         r = [id |-> a, target |-> b, gateway_count |-> c, projection |-> d, partition |-> e,
              adaptive |-> f]
  PROVE  r.adaptive = f
OBVIOUS

\* What is written for an index is decoded to that index.
LEMMA RoundTrip ==
  ASSUME NEW ix, NEW v, v = Version(ix), IsIndex(ix), ValidIndex(ix)
  PROVE  Decode(SidecarFile(Header(ix, v), MakeSections(ix, v))) = ix
<1> DEFINE s == MakeSections(ix, v)
           file == SidecarFile(Header(ix, v), s)
<1>1. v \in 1 .. 7 /\ v >= 5 /\ v >= 2 /\ v >= 3
  BY DEF Version
<1>2. /\ file.body = s /\ file.header.version = v /\ file.header.width = ix.width
      /\ file.header.base = ix.base /\ file.header.pq = ix.pq
  BY DEF SidecarFile, Header
<1>3. ~(v >= 6) => ~ix.adaptive /\ ix.capacity = ix.target
  BY DEF Version, ValidIndex
<1>4. s = MakeSections(ix, v)
  OBVIOUS
<1> HIDE DEF s, file
<1>5. /\ s[1] = ConfigSection(ix, v)
      /\ s[2] = [id |-> "COMMUNITIES", width |-> ix.packet_width]
      /\ s[3] = [id |-> "GATEWAYS", targets |-> ix.gateways]
      /\ s[4] = [id |-> "CELLS", capacity |-> IF v >= 6 THEN ix.capacity ELSE 0]
      /\ s[5] = [id |-> "BLOCKS", error |-> ix.error]
      /\ s[6] = [id |-> "PACKETS", codes |-> ix.codes]
      /\ s[7] = [id |-> "CELL_HIERARCHY", hierarchy |-> ix.hierarchy]
  <2>1. HoldsSections(s, ix, v)
    BY <1>1, <1>4, SectionsLemma, Zenon
  <2> QED
    BY <1>1, <2>1, Zenon DEF HoldsSections
<1>6. /\ s[1].projection = ix.projection /\ s[1].partition = ix.partition
      /\ s[1].target = ix.target /\ s[1].gateway_count = ix.gateway_count
  BY <1>1, <1>5 DEF ConfigSection
<1>7. s[1].adaptive = (v >= 6 /\ ix.adaptive)
  <2> DEFINE adaptive == v >= 6 /\ ix.adaptive
             projection == IF v >= 2 THEN ix.projection ELSE 0
             partition == IF v >= 3 THEN ix.partition ELSE ""
             target == ix.target
             count == ix.gateway_count
             config == s[1]
  <2>1. config = [id |-> "CONFIG", target |-> target, gateway_count |-> count,
                  projection |-> projection, partition |-> partition, adaptive |-> adaptive]
    BY <1>5, Zenon DEF ConfigSection
  <2> HIDE DEF adaptive, projection, partition, target, count, config
  <2>2. config.adaptive = adaptive
    BY <2>1, AdaptiveField
  <2> QED
    BY <2>2, Zenon DEF adaptive, config
<1>8. (v >= 6 /\ s[1].adaptive) = ix.adaptive
  BY <1>3, <1>7, Zenon DEF IsIndex
<1>9. (v >= 5 /\ s[7].hierarchy) = ix.hierarchy
  <2>1. s[7].hierarchy = ix.hierarchy
    BY <1>5
  <2> QED
    BY <1>1, <2>1, Zenon DEF IsIndex
<1>10. (IF v >= 6 THEN s[4].capacity ELSE s[1].target) = ix.capacity
  BY <1>3, <1>5, <1>6
<1>11. Decode(file) = [projection |-> s[1].projection, partition |-> s[1].partition, adaptive |-> (v >= 6 /\ s[1].adaptive),
           target |-> s[1].target, gateway_count |-> s[1].gateway_count,
           packet_width |-> s[2].width, gateways |-> s[3].targets,
           capacity |-> IF v >= 6 THEN s[4].capacity ELSE s[1].target,
           error |-> s[5].error, codes |-> s[6].codes,
           hierarchy |-> (v >= 5 /\ s[7].hierarchy),
           width |-> ix.width, base |-> ix.base, pq |-> ix.pq]
  BY <1>1, <1>2, Zenon DEF Decode, DecodeConfig
<1>12. s[2].width = ix.packet_width /\ s[3].targets = ix.gateways /\ s[5].error = ix.error /\ s[6].codes = ix.codes
  BY <1>5
<1>13. Decode(file) = ix
  BY <1>6, <1>8, <1>9, <1>10, <1>11, <1>12, Zenon DEF IsIndex
<1> QED
  BY <1>13 DEF s, file

\* A record of the index's fields is an index; its fields are read back.
LEMMA IndexRecord ==
  ASSUME NEW a, NEW b, NEW c \in BOOLEAN, NEW d, NEW e, NEW f, NEW g, NEW h, NEW i, NEW j,
         NEW k \in BOOLEAN, NEW l, NEW m, NEW n, NEW ix,
         ix = [projection |-> a, partition |-> b, adaptive |-> c, target |-> d,
               gateway_count |-> e, packet_width |-> f, gateways |-> g, capacity |-> h,
               error |-> i, codes |-> j, hierarchy |-> k, width |-> l, base |-> m, pq |-> n]
  PROVE  IsIndex(ix) /\ ix.codes = j /\ ix.width = l /\ ix.base = m /\ ix.pq = n
BY DEF IsIndex

\* A checksummed body holds the codes of the PQ artifact its header names.
LEMMA LoadableHoldsCodes ==
  ASSUME NEW file, FileFits(file), LoadOk(file)
  PROVE  /\ IsIndex(Decode(file)) /\ HoldsItsCodes(Decode(file))
         /\ Decode(file).base = file.header.base /\ Decode(file).pq = file.header.pq
         /\ Decode(file) \in written
<1> DEFINE v == file.header.version
           ix == Decode(file)
<1>1. /\ file.kind = "sidecar" /\ file.body = file.header.hash
      /\ BoundHeader(file.header) /\ ix \in written
  BY Zenon DEF FileFits, LoadOk, Loadable
<1>2. file.body[6].codes = file.header.pq /\ file.header.width = file.header.pq.width
  BY <1>1 DEF BoundHeader
<1> DEFINE projection == IF v >= 2 THEN file.body[1].projection ELSE 0
           partition == IF v >= 3 THEN file.body[1].partition ELSE "POLAR_RADIAL"
           adaptive == v >= 6 /\ file.body[1].adaptive
           target == file.body[1].target
           count == file.body[1].gateway_count
           width == file.body[2].width
           gateways == file.body[3].targets
           capacity == IF v >= 6 THEN file.body[4].capacity ELSE file.body[1].target
           error == file.body[5].error
           codes == file.body[6].codes
           hierarchy == v >= 5 /\ file.body[7].hierarchy
           w == file.header.width
           base == file.header.base
           pq == file.header.pq
<1>3. adaptive \in BOOLEAN /\ hierarchy \in BOOLEAN
  BY Zenon
<1>4. ix = [projection |-> projection, partition |-> partition, adaptive |-> adaptive,
            target |-> target, gateway_count |-> count, packet_width |-> width,
            gateways |-> gateways, capacity |-> capacity, error |-> error, codes |-> codes,
            hierarchy |-> hierarchy, width |-> w, base |-> base, pq |-> pq]
  BY Zenon DEF Decode, DecodeConfig
<1> HIDE DEF ix, projection, partition, adaptive, target, count, width, gateways, capacity, error,
             codes, hierarchy, w, base, pq
<1>5. IsIndex(ix)
  BY <1>3, <1>4, IndexRecord
<1>6. ix.codes = codes /\ ix.width = w /\ ix.base = base /\ ix.pq = pq
  BY <1>4, IndexRecord
<1>7. HoldsItsCodes(ix) /\ ix.base = file.header.base /\ ix.pq = file.header.pq
  BY <1>2, <1>6 DEF HoldsItsCodes, codes, w, base, pq
<1> QED
  BY <1>1, <1>5, <1>7 DEF ix


-----------------------------------------------------------------------------
(***************************************************************************)
(* What a request builds.                                                  *)
(***************************************************************************)
\* finalize binds an index to the artifacts as they are.
LEMMA BindLemma ==
  ASSUME NEW ix, IsIndex(ix)
  PROVE  IsIndex(Bind(ix)) /\ HoldsItsCodes(Bind(ix))
<1> DEFINE base == files["base"]
           pq == files["pq"]
           width == pq.width
           bound == Bind(ix)
           adaptive == ix.adaptive
           hierarchy == ix.hierarchy
<1>1. adaptive \in BOOLEAN /\ hierarchy \in BOOLEAN
  BY DEF IsIndex
<1>2. bound = [ix EXCEPT !.codes = pq, !.width = width, !.error = "bound", !.packet_width = width,
                         !.base = base, !.pq = pq]
  BY DEF Bind
<1>0. ix.adaptive = adaptive /\ ix.hierarchy = hierarchy
  OBVIOUS
<1> HIDE DEF base, pq, width, bound, adaptive, hierarchy
<1>3. bound = [projection |-> ix.projection, partition |-> ix.partition, adaptive |-> adaptive,
               target |-> ix.target, gateway_count |-> ix.gateway_count, packet_width |-> width,
               gateways |-> ix.gateways, capacity |-> ix.capacity, error |-> "bound",
               codes |-> pq, hierarchy |-> hierarchy, width |-> width, base |-> base, pq |-> pq]
  BY <1>2, <1>0 DEF IsIndex
<1>4. IsIndex(bound) /\ bound.codes = pq /\ bound.width = width /\ bound.pq = pq
  BY <1>1, <1>3, IndexRecord
<1>5. width = pq.width
  BY DEF width
<1> QED
  BY <1>4, <1>5 DEF bound, HoldsItsCodes

\* The loaded capacity classes leave the codes as they are.
LEMMA CapacitiesLemma ==
  ASSUME NEW ix, IsIndex(ix), NEW r, NEW class
  PROVE  /\ IsIndex(WithCapacities(ix, r, class))
         /\ HoldsItsCodes(ix) => HoldsItsCodes(WithCapacities(ix, r, class))
<1>1. CASE r.adaptive
  BY <1>1 DEF IsIndex, WithCapacities, HoldsItsCodes
<1>2. CASE ~r.adaptive
  BY <1>2 DEF WithCapacities
<1> QED
  BY <1>1, <1>2

\* A source that passes its checks holds the codes of its PQ artifact.
LEMMA SourceLemma ==
  ASSUME FilesFit, NEW r, SourceOk(r)
  PROVE  IsIndex(Decode(files["source"])) /\ HoldsItsCodes(Decode(files["source"]))
<1>1. FileFits(files["source"])
  BY DEF FilesFit, Named, Paths, InputPaths
<1>2. LoadOk(files["source"])
  BY Zenon DEF SourceOk
<1> QED
  BY <1>1, <1>2, LoadableHoldsCodes

\* Whatever a request builds is bound to the PQ artifact whose codes it holds:
\* the one its source was built on, or the present one.
LEMMA BuiltLemma ==
  ASSUME FilesFit, NEW r \in Requests, NEW out, NEW class, ~Refused(r, out)
  PROVE  IsIndex(Built(r, class)) /\ HoldsItsCodes(Built(r, class))
<1> DEFINE source == Decode(files["source"])
           gateways == Reselected(source.gateways, r.gateway_count)
<1>1. r.adaptive \in BOOLEAN /\ r.hierarchy \in BOOLEAN
  BY SidecarAssumption
<1>2. r.op \in {"reselect", "repack", "cells"} => IsIndex(source) /\ HoldsItsCodes(source)
  BY SourceLemma DEF Refused
<1>3. IsIndex(Blank(r)) /\ IsIndex(Recelled(source, r))
  <2> DEFINE blank == Blank(r)
             nodes == source.gateways
             projection == source.projection
             moved == Recelled(source, r)
             none == Absent
  <2>1. blank = [projection |-> 1, partition |-> r.partition, adaptive |-> r.adaptive,
                 target |-> r.target, gateway_count |-> r.gateway_count, packet_width |-> 0,
                 gateways |-> <<1, 2>>, capacity |-> r.target, error |-> "max", codes |-> none,
                 hierarchy |-> r.hierarchy, width |-> 0, base |-> none, pq |-> none]
    BY DEF Blank
  <2>2. moved = [blank EXCEPT !.gateways = nodes, !.projection = projection]
    BY DEF Recelled
  <2> HIDE DEF blank, nodes, projection, moved, none
  <2>3. IsIndex(blank)
    BY <1>1, <2>1, IndexRecord
  <2>4. moved = [projection |-> projection, partition |-> r.partition, adaptive |-> r.adaptive,
                 target |-> r.target, gateway_count |-> r.gateway_count, packet_width |-> 0,
                 gateways |-> nodes, capacity |-> r.target, error |-> "max", codes |-> none,
                 hierarchy |-> r.hierarchy, width |-> 0, base |-> none, pq |-> none]
    BY <2>1, <2>2
  <2>5. IsIndex(moved)
    BY <1>1, <2>4, IndexRecord
  <2> QED
    BY <2>3, <2>5 DEF blank, moved
<1> HIDE DEF source, gateways
<1>4. CASE r.op = "reselect"
  <2>1. Built(r, class) = [source EXCEPT !.gateways = gateways, !.gateway_count = r.gateway_count]
    BY <1>4 DEF Built, source, gateways
  <2>2. IsIndex(source) /\ HoldsItsCodes(source)
    BY <1>2, <1>4
  <2> QED
    BY <2>1, <2>2 DEF IsIndex, HoldsItsCodes
<1>5. CASE r.op = "repack"
  <2>1. Built(r, class) = WithCapacities(Repacked(source, r), r, class)
    BY <1>5 DEF Built, source
  <2>2. IsIndex(source) /\ HoldsItsCodes(source)
    BY <1>2, <1>5
  <2>3. IsIndex(Repacked(source, r)) /\ HoldsItsCodes(Repacked(source, r))
    <3> DEFINE packed == Repacked(source, r)
               adaptive == r.adaptive
               hierarchy == r.hierarchy
    <3>0. adaptive \in BOOLEAN /\ hierarchy \in BOOLEAN
      BY <1>1
    <3>1. packed = [source EXCEPT !.partition = r.partition, !.adaptive = adaptive,
                                  !.target = r.target, !.capacity = r.target,
                                  !.hierarchy = hierarchy]
      BY DEF Repacked
    <3> HIDE DEF packed, adaptive, hierarchy
    <3>2. packed = [projection |-> source.projection, partition |-> r.partition,
                    adaptive |-> adaptive, target |-> r.target,
                    gateway_count |-> source.gateway_count, packet_width |-> source.packet_width,
                    gateways |-> source.gateways, capacity |-> r.target, error |-> source.error,
                    codes |-> source.codes, hierarchy |-> hierarchy, width |-> source.width,
                    base |-> source.base, pq |-> source.pq]
      BY <2>2, <3>1 DEF IsIndex
    <3>3. IsIndex(packed) /\ packed.codes = source.codes /\ packed.width = source.width
          /\ packed.pq = source.pq
      BY <3>0, <3>2, IndexRecord
    <3> QED
      BY <2>2, <3>3 DEF packed, HoldsItsCodes
  <2> QED
    BY <2>1, <2>3, CapacitiesLemma
<1>6. CASE r.op = "cells"
  <2>1. Built(r, class) = Bind(WithCapacities(Recelled(source, r), r, class))
    BY <1>6 DEF Built, source
  <2> QED
    BY <1>3, <2>1, CapacitiesLemma, BindLemma
<1>7. CASE r.op \notin {"reselect", "repack", "cells"}
  <2>1. Built(r, class) = Bind(WithCapacities(Blank(r), r, class))
    BY <1>7 DEF Built
  <2> QED
    BY <1>3, <2>1, CapacitiesLemma, BindLemma
<1> QED
  BY <1>4, <1>5, <1>6, <1>7


-----------------------------------------------------------------------------
(***************************************************************************)
(* Every step preserves the invariant.                                     *)
(***************************************************************************)
\* What has been written stays written: a file that is kept still fits.
LEMMA FilesLemma ==
  ASSUME FilesFit, written \subseteq written', DOMAIN files' = Paths,
         \A p \in Named : files'[p] = files[p] \/ FileFits(files[p])'
  PROVE  FilesFit'
<1>1. ASSUME NEW p \in Named PROVE FileFits(files[p])'
  <2>1. CASE FileFits(files[p])'
    BY <2>1
  <2>2. CASE files'[p] = files[p]
    <3>1. FileFits(files[p])
      BY DEF FilesFit
    <3> QED
      BY <2>2, <3>1 DEF FileFits
  <2> QED
    BY <2>1, <2>2
<1> QED
  BY <1>1 DEF FilesFit

\* A whole file of a bound header fits once its index counts as written.
LEMMA WholeFileFits ==
  ASSUME NEW header, NEW body, BoundHeader(header), body = header.hash,
         Decode(SidecarFile(header, body)) \in written
  PROVE  FileFits(SidecarFile(header, body))
<1> DEFINE file == SidecarFile(header, body)
<1>1. file.header = header /\ file.body = body /\ file.kind = "sidecar"
  BY DEF SidecarFile
<1>2. file = SidecarFile(file.header, file.body)
  BY <1>1
<1>3. IsSequence(body) /\ Len(body) <= Len(header.hash)
  BY LenProperties DEF BoundHeader, IsSequence
<1>4. Decode(file) \in written
  OBVIOUS
<1> HIDE DEF file
<1> QED
  BY <1>1, <1>2, <1>3, <1>4 DEF FileFits, file


\* The same of a file a step leaves at a path.
LEMMA PublishedFits ==
  ASSUME NEW p, NEW header, NEW body, files'[p] = SidecarFile(header, body),
         BoundHeader(header), body = header.hash,
         Decode(SidecarFile(header, body)) \in written'
  PROVE  FileFits(files[p])'
<1> DEFINE file == SidecarFile(header, body)
<1>1. file.header = header /\ file.body = body /\ file.kind = "sidecar"
  BY DEF SidecarFile
<1>2. file = SidecarFile(file.header, file.body)
  BY <1>1
<1>3. IsSequence(body) /\ Len(body) <= Len(header.hash)
  BY LenProperties DEF BoundHeader, IsSequence
<1>4. Decode(file) \in written' /\ files'[p] = file
  OBVIOUS
<1> HIDE DEF file
<1> QED
  BY <1>1, <1>2, <1>3, <1>4 DEF FileFits, file

\* A search keeps what it loaded.
LEMMA LoadedLemma ==
  ASSUME SearchedSidecarFits, loaded' = loaded, written \subseteq written'
  PROVE  SearchedSidecarFits'
BY DEF SearchedSidecarFits

\* With no operation under way nothing is claimed of one.
LEMMA IdleLemma ==
  ASSUME job' = Idle
  PROVE  WriteFits' /\ RebindFits'
BY DEF WriteFits, RebindFits, Idle

\* The earlier release's sidecar, and the index it decodes to.
LEMMA InitLemma == SidecarInit => SidecarIInv
<1> SUFFICES ASSUME SidecarInit PROVE SidecarIInv
  OBVIOUS
<1> DEFINE ix == [Blank([partition |-> "POLAR_RADIAL", adaptive |-> FALSE, target |-> 256,
                         gateway_count |-> 3, hierarchy |-> FALSE])
                    EXCEPT !.codes = Artifact(0, 8), !.width = 8, !.packet_width = 8,
                           !.gateways = <<1, 2, 3>>, !.base = Artifact(0, 0), !.pq = Artifact(0, 8)]
<1>1. PICK v \in {1, 5} :
        files = [p \in Paths |-> CASE p = "base" -> Artifact(0, 0) [] p = "pq" -> Artifact(0, 8)
                                   [] p = "source" -> Legacy(v)
                                   [] p = "selection" -> Artifact(0, 1) [] OTHER -> Absent]
  BY Zenon DEF SidecarInit
<1>2. HoldsItsCodes(ix)
  BY DEF HoldsItsCodes, Blank, Artifact
<1>3. Legacy(v) = SidecarFile(Header(ix, v), MakeSections(ix, v))
  BY Zenon DEF Legacy, SidecarFile
<1> HIDE DEF ix
<1>4. files["source"] = Legacy(v) /\ DOMAIN files = Paths
  BY <1>1 DEF Paths, InputPaths
<1>5. \A p \in Named \ {"source"} : files[p].kind # "sidecar"
  BY <1>1 DEF Named, Paths, InputPaths, Artifact, Absent
<1>6. Decode(files["source"]) \in written
  BY DEF SidecarInit
<1>7. FileFits(files["source"])
  BY <1>2, <1>3, <1>4, <1>6, HeaderLemma, WholeFileFits
<1>8. FilesFit
  BY <1>4, <1>5, <1>7 DEF FilesFit, FileFits
<1>9. WriteFits /\ RebindFits /\ SearchedSidecarFits
  BY DEF SidecarInit, WriteFits, RebindFits, SearchedSidecarFits, Idle
<1> QED
  BY <1>8, <1>9 DEF SidecarIInv

\* A write begins with the header of the index it will hold.
LEMMA StartWriteKeeps ==
  ASSUME SidecarIInv, NEW r \in Requests, NEW out \in {"sidecar", "source", "pq", "selection"},
         NEW class, StartWrite(r, out, class)
  PROVE  SidecarIInv'
<1> DEFINE ix == Built(r, class)
           v == Version(ix)
           header == Header(ix, v)
           sections == MakeSections(ix, v)
<1>1. ValidIndex(ix) /\ IsIndex(ix) /\ HoldsItsCodes(ix)
  BY BuiltLemma DEF StartWrite, SidecarIInv
<1>2. v \in 1 .. 7
  BY DEF Version
<1>3. BoundHeader(header) /\ header.hash = sections
  BY <1>1, <1>2, HeaderLemma
<1>4. Decode(SidecarFile(header, sections)) = ix
  BY <1>1, RoundTrip
<1>5. /\ job' = [step |-> "write", index |-> ix, out |-> out, sections |-> sections,
                 header |-> header]
      /\ written' = written \cup {ix}
      /\ files' = [files EXCEPT !["tmp"] = SidecarFile(header, <<>>)]
      /\ loaded' = loaded
  BY Zenon DEF StartWrite, SidecarFile
<1> HIDE DEF ix, v, header, sections
<1>6. FilesFit /\ DOMAIN files = Paths
  BY DEF SidecarIInv, FilesFit
<1>7. files'["tmp"] = SidecarFile(header, <<>>) /\ \A p \in Named : files'[p] = files[p]
  BY <1>5, <1>6 DEF Named, Paths
<1>8. FilesFit'
  BY <1>5, <1>6, <1>7, FilesLemma
<1>9. job'.header = header /\ job'.sections = sections /\ job'.out = out /\ job'.step = "write"
  BY <1>5
<1>10. files'["tmp"] = SidecarFile(header, files'["tmp"].body)
  BY <1>7 DEF SidecarFile
<1>11. WriteFits'
  BY <1>3, <1>4, <1>5, <1>9, <1>10 DEF WriteFits, Named, Paths, InputPaths
<1>12. RebindFits'
  BY <1>9 DEF RebindFits
<1>13. SearchedSidecarFits'
  BY <1>5, LoadedLemma DEF SidecarIInv
<1> QED
  BY <1>8, <1>11, <1>12, <1>13 DEF SidecarIInv


\* A section appended to the temporary file changes no named file.
LEMMA WriteSectionKeeps ==
  ASSUME SidecarIInv, WriteSection
  PROVE  SidecarIInv'
<1> DEFINE body == Append(files["tmp"].body, job.sections[Len(files["tmp"].body) + 1])
<1>1. /\ files' = [files EXCEPT !["tmp"] = [files["tmp"] EXCEPT !.body = body]]
      /\ job' = job /\ written' = written /\ loaded' = loaded
  BY DEF WriteSection
<1>2. FilesFit /\ DOMAIN files = Paths
  BY DEF SidecarIInv, FilesFit
<1> HIDE DEF body
<1>3. files'["tmp"] = [files["tmp"] EXCEPT !.body = body] /\ \A p \in Named : files'[p] = files[p]
  BY <1>1, <1>2 DEF Named, Paths
<1>4. FilesFit'
  BY <1>1, <1>2, <1>3, FilesLemma
<1>5. ASSUME NEW header, files["tmp"] = SidecarFile(header, files["tmp"].body)
      PROVE  files'["tmp"] = SidecarFile(header, files'["tmp"].body)
  BY <1>3, <1>5 DEF SidecarFile
<1>6. WriteFits'
  BY <1>1, <1>5 DEF SidecarIInv, WriteFits
<1>7. RebindFits'
  <2>1. files'["pq"] = files["pq"]
    BY <1>3 DEF Named, Paths, InputPaths
  <2> QED
    BY <1>1, <1>5, <2>1 DEF SidecarIInv, RebindFits, RebindSection
<1>8. SearchedSidecarFits'
  BY <1>1, LoadedLemma DEF SidecarIInv
<1> QED
  BY <1>4, <1>6, <1>7, <1>8 DEF SidecarIInv

\* A published file is whole, and its index was validated before the write.
LEMMA PublishKeeps ==
  ASSUME SidecarIInv, Publish
  PROVE  SidecarIInv'
<1> DEFINE file == files["tmp"]
           out == job.out
<1>1. /\ files' = [files EXCEPT ![out] = file, !["tmp"] = Absent]
      /\ job' = Idle /\ written' = written /\ loaded' = loaded
  BY DEF Publish
<1>2. FilesFit /\ DOMAIN files = Paths
  BY DEF SidecarIInv, FilesFit
<1>3. /\ out \in Named /\ BoundHeader(job.header) /\ job.sections = job.header.hash
      /\ Decode(SidecarFile(job.header, job.sections)) \in written
      /\ file = SidecarFile(job.header, job.sections)
  BY DEF SidecarIInv, WriteFits, Publish
<1>4. FileFits(file)
  BY <1>3, WholeFileFits
<1> HIDE DEF file, out
<1>5. files'[out] = file /\ DOMAIN files' = Paths /\ \A p \in Named \ {out} : files'[p] = files[p]
  BY <1>1, <1>2, <1>3 DEF Named, Paths
<1>6. ASSUME NEW p \in Named PROVE files'[p] = files[p] \/ FileFits(files[p])'
  <2>1. CASE p = out
    BY <1>1, <1>4, <1>5, <2>1 DEF FileFits
  <2>2. CASE p # out
    BY <1>5, <2>2
  <2> QED
    BY <2>1, <2>2
<1>7. FilesFit'
  BY <1>1, <1>2, <1>5, <1>6, FilesLemma
<1>8. SearchedSidecarFits'
  BY <1>1, LoadedLemma DEF SidecarIInv
<1> QED
  BY <1>1, <1>7, <1>8, IdleLemma DEF SidecarIInv

\* A failed write removes the temporary file.
LEMMA WriteFailsKeeps ==
  ASSUME SidecarIInv, WriteFails
  PROVE  SidecarIInv'
<1>1. /\ files' = [files EXCEPT !["tmp"] = Absent]
      /\ job' = Idle /\ written' = written /\ loaded' = loaded
  BY DEF WriteFails
<1>2. FilesFit /\ DOMAIN files = Paths
  BY DEF SidecarIInv, FilesFit
<1>3. DOMAIN files' = Paths /\ \A p \in Named : files'[p] = files[p]
  BY <1>1, <1>2 DEF Named, Paths
<1>4. FilesFit'
  BY <1>1, <1>2, <1>3, FilesLemma
<1> QED
  BY <1>1, <1>4, IdleLemma, LoadedLemma DEF SidecarIInv

\* A rebind takes a file whose header is bound.
LEMMA StartRebindKeeps ==
  ASSUME SidecarIInv, NEW from \in {"source", "sidecar"}, StartRebind(from, "sidecar")
  PROVE  SidecarIInv'
<1> DEFINE old == files[from]
           sections == [i \in DOMAIN old.body |-> RebindSection(old.body[i])]
<1>1. /\ job' = [step |-> "rebind", out |-> "sidecar", from |-> old, sections |-> sections]
      /\ files' = [files EXCEPT !["tmp"] = SidecarFile(Placeholder, <<>>)]
      /\ written' = written /\ loaded' = loaded /\ old.kind = "sidecar"
  BY Zenon DEF StartRebind, SidecarFile
<1>2. FilesFit /\ DOMAIN files = Paths
  BY DEF SidecarIInv, FilesFit
<1>3. FileFits(old)
  BY <1>2 DEF FilesFit, Named, Paths, InputPaths
<1>4. BoundHeader(old.header) /\ IsSequence(old.body)
  BY <1>1, <1>3 DEF FileFits
<1>5. files'["tmp"] = SidecarFile(Placeholder, <<>>) /\ DOMAIN files' = Paths
      /\ \A p \in Named : files'[p] = files[p]
  BY <1>1, <1>2 DEF Named, Paths
<1>6. FilesFit'
  BY <1>1, <1>2, <1>5, FilesLemma
<1>7. files'["pq"] = files["pq"]
  BY <1>5 DEF Named, Paths, InputPaths
<1>8. files'["tmp"] = SidecarFile(Placeholder, files'["tmp"].body)
  BY <1>5 DEF SidecarFile
<1>9. sections = [i \in DOMAIN old.body |-> RebindSection(old.body[i])]
  OBVIOUS
<1> HIDE DEF old, sections
<1>10. job'.step = "rebind" /\ job'.out = "sidecar" /\ job'.from = old /\ job'.sections = sections
  BY <1>1
<1>11. RebindFits'
  BY <1>4, <1>7, <1>8, <1>9, <1>10 DEF RebindFits, RebindSection, Named, Paths, InputPaths
<1>12. WriteFits'
  BY <1>10 DEF WriteFits
<1>13. SearchedSidecarFits'
  BY <1>1, LoadedLemma DEF SidecarIInv
<1> QED
  BY <1>6, <1>11, <1>12, <1>13 DEF SidecarIInv


\* The rebound file holds the codes of the PQ artifact its new header names.
LEMMA PublishRebindKeeps ==
  ASSUME SidecarIInv, PublishRebind
  PROVE  SidecarIInv'
<1> DEFINE old == job.from.header
           header == RebindHeader(old)
           sections == job.sections
           file == SidecarFile(header, sections)
           out == job.out
           pq == files["pq"]
<1>1. /\ job.step = "rebind" /\ files["tmp"].body = sections /\ job.from.body = old.hash
      /\ files["tmp"] = SidecarFile(Placeholder, sections)
      /\ out \in Named /\ BoundHeader(old)
      /\ sections = [i \in DOMAIN job.from.body |-> RebindSection(job.from.body[i])]
  BY DEF PublishRebind, SidecarIInv, RebindFits
<1>2. [files["tmp"] EXCEPT !.header = header] = file
  BY <1>1 DEF SidecarFile
<1>3. /\ files' = [files EXCEPT ![out] = file, !["tmp"] = Absent]
      /\ written' = written \cup {Decode(file)}
      /\ job' = Idle /\ loaded' = loaded
  BY <1>2 DEF PublishRebind
<1>4. header = [old EXCEPT !.width = pq.width, !.pq = pq, !.hash = sections]
  BY DEF RebindHeader
<1>5. sections[6] = [id |-> "PACKETS", codes |-> pq] /\ 6 \in DOMAIN sections
  <2> DEFINE packets == job.from.body[6]
  <2>1. 6 \in DOMAIN job.from.body /\ packets = [id |-> "PACKETS", codes |-> old.pq]
    BY <1>1, Zenon DEF BoundHeader
  <2>2. sections[6] = RebindSection(packets) /\ 6 \in DOMAIN sections
    BY <1>1, <2>1
  <2> HIDE DEF packets
  <2>3. RebindSection(packets) = [packets EXCEPT !.codes = pq]
    <3>1. packets.id = "PACKETS"
      BY <2>1
    <3> QED
      BY <3>1 DEF RebindSection
  <2>4. [packets EXCEPT !.codes = pq] = [id |-> "PACKETS", codes |-> pq]
    BY <2>1
  <2> QED
    BY <2>2, <2>3, <2>4
<1>6. IsSequence(sections)
  <2>1. sections = [i \in 1 .. Len(old.hash) |-> sections[i]] /\ Len(old.hash) \in Nat
    BY <1>1, LenProperties DEF BoundHeader, IsSequence
  <2> QED
    BY <2>1, FunctionIsSequence
<1> HIDE DEF header, sections, pq
<1>7. BoundHeader(header) /\ header.hash = sections
  BY <1>1, <1>4, <1>5, <1>6 DEF BoundHeader
<1> HIDE DEF file, out, old
<1>8. FilesFit /\ DOMAIN files = Paths
  BY DEF SidecarIInv, FilesFit
<1>9. files'[out] = file /\ DOMAIN files' = Paths /\ \A p \in Named \ {out} : files'[p] = files[p]
  BY <1>1, <1>3, <1>8 DEF Named, Paths
<1>10. Decode(file) \in written'
  BY <1>3
<1>11. ASSUME NEW p \in Named PROVE files'[p] = files[p] \/ FileFits(files[p])'
  <2>1. CASE p = out
    <3>1. files'[p] = SidecarFile(header, sections)
      BY <1>9, <2>1 DEF file
    <3>2. Decode(SidecarFile(header, sections)) \in written'
      BY <1>10 DEF file
    <3> QED
      BY <1>7, <3>1, <3>2, PublishedFits
  <2>2. CASE p # out
    BY <1>9, <2>2
  <2> QED
    BY <2>1, <2>2
<1>12. FilesFit'
  BY <1>3, <1>8, <1>9, <1>11, FilesLemma
<1>13. SearchedSidecarFits'
  BY <1>3, LoadedLemma DEF SidecarIInv
<1> QED
  BY <1>3, <1>12, <1>13, IdleLemma DEF SidecarIInv

\* A failed rebind leaves the temporary file.
LEMMA RebindFailsKeeps ==
  ASSUME SidecarIInv, RebindFails \/ Crash
  PROVE  SidecarIInv'
<1>1. job' = Idle /\ files' = files /\ written' = written /\ loaded' = loaded
  BY DEF RebindFails, Crash
<1>2. FilesFit'
  BY <1>1, FilesLemma DEF SidecarIInv, FilesFit
<1> QED
  BY <1>1, <1>2, IdleLemma, LoadedLemma DEF SidecarIInv

\* What a search loads holds the codes of the artifacts it was matched with.
LEMMA LoadForSearchKeeps ==
  ASSUME SidecarIInv, NEW p \in {"sidecar", "source"}, LoadForSearch(p)
  PROVE  SidecarIInv'
<1> DEFINE ix == Decode(files[p])
<1>1. /\ LoadOk(files[p]) /\ ix.base = files["base"] /\ ix.pq = files["pq"]
      /\ loaded' = [op |-> "index", index |-> ix, base |-> files["base"], pq |-> files["pq"]]
      /\ files' = files /\ job' = job /\ written' = written
  BY DEF LoadForSearch, ArtifactsMatch
<1>2. FileFits(files[p])
  BY DEF SidecarIInv, FilesFit, Named, Paths, InputPaths
<1>3. HoldsItsCodes(ix) /\ ix \in written
  BY <1>1, <1>2, LoadableHoldsCodes
<1> HIDE DEF ix
<1>4. SearchedSidecarFits'
  BY <1>1, <1>3 DEF SearchedSidecarFits, HoldsItsCodes
<1>5. FilesFit'
  BY <1>1, FilesLemma DEF SidecarIInv, FilesFit
<1>6. WriteFits' /\ RebindFits'
  BY <1>1 DEF SidecarIInv, WriteFits, RebindFits, RebindSection
<1> QED
  BY <1>4, <1>5, <1>6 DEF SidecarIInv

\* A rebuilt artifact is no sidecar.
LEMMA RebuildKeeps ==
  ASSUME SidecarIInv, NEW path \in {"base", "pq"}, NEW w, Rebuild(path, w)
  PROVE  SidecarIInv'
<1> DEFINE artifact == Artifact(generation + 1, IF path = "pq" THEN w ELSE 0)
<1>1. /\ files' = [files EXCEPT ![path] = artifact] /\ job = Idle
      /\ job' = job /\ written' = written /\ loaded' = loaded
  BY DEF Rebuild
<1>2. FilesFit /\ DOMAIN files = Paths
  BY DEF SidecarIInv, FilesFit
<1>3. artifact.kind # "sidecar"
  BY DEF Artifact
<1> HIDE DEF artifact
<1>4. DOMAIN files' = Paths /\ \A q \in Named : files'[q] = files[q] \/ files'[q] = artifact
  BY <1>1, <1>2 DEF Named, Paths
<1>5. \A q \in Named : files'[q] = files[q] \/ FileFits(files[q])'
  BY <1>3, <1>4 DEF FileFits
<1>6. FilesFit'
  BY <1>1, <1>2, <1>4, <1>5, FilesLemma
<1> QED
  BY <1>1, <1>6, IdleLemma, LoadedLemma DEF SidecarIInv

\* A cut file fails its checksum unless nothing of it was lost.
LEMMA PowerLossKeeps ==
  ASSUME SidecarIInv, PowerLoss
  PROVE  SidecarIInv'
<1>1. PICK p \in dirty :
        /\ files[p].kind = "sidecar"
        /\ \E n \in 0 .. Len(files[p].body) : files' = [files EXCEPT ![p].body = SubSeq(@, 1, n)]
  BY DEF PowerLoss
<1>2. PICK n \in 0 .. Len(files[p].body) : files' = [files EXCEPT ![p].body = SubSeq(@, 1, n)]
  BY <1>1
<1>3. job' = Idle /\ loaded' = NoIndex /\ written' = written
  BY DEF PowerLoss
<1>4. FilesFit /\ DOMAIN files = Paths
  BY DEF SidecarIInv, FilesFit
<1>5. ASSUME p \in Named PROVE FileFits(files[p])'
  <2> DEFINE old == files[p]
             cut == SubSeq(old.body, 1, n)
             file == SidecarFile(old.header, cut)
  <2>1. FileFits(old) /\ old.kind = "sidecar"
    BY <1>1, <1>4, <1>5 DEF FilesFit
  <2>2. /\ old = SidecarFile(old.header, old.body) /\ BoundHeader(old.header)
        /\ IsSequence(old.body) /\ Len(old.body) <= Len(old.header.hash)
        /\ LoadOk(old) => Decode(old) \in written
    BY <2>1 DEF FileFits
  <2>3. n \in 0 .. Len(old.body)
    BY <1>2
  <2>4. IsSequence(cut) /\ Len(cut) = n /\ (n = Len(old.body) => cut = old.body)
    BY <2>2, <2>3, CutSequence
  <2>5. files'[p] = [old EXCEPT !.body = cut]
    BY <1>2, <1>4, <1>5 DEF Named
  <2>6. Len(old.body) \in Nat /\ Len(old.header.hash) \in Nat
    BY <2>2, LenProperties DEF IsSequence, BoundHeader
  <2> HIDE DEF old, cut
  <2>7. files'[p] = file
    BY <2>2, <2>5 DEF SidecarFile
  <2>8. file.kind = "sidecar" /\ file.header = old.header /\ file.body = cut
    BY DEF SidecarFile
  <2>9. Len(cut) <= Len(old.header.hash)
    BY <2>2, <2>3, <2>4, <2>6
  <2>10. ASSUME LoadOk(file) PROVE Decode(file) \in written
    <3>1. cut = old.header.hash
      BY <2>8, <2>10, Zenon DEF LoadOk, Loadable
    <3>2. n = Len(old.body)
      BY <2>2, <2>3, <2>4, <2>6, <3>1
    <3>3. file = old
      BY <2>2, <2>4, <3>2
    <3> QED
      BY <2>2, <2>10, <3>3
  <2> HIDE DEF file
  <2>11. file = SidecarFile(file.header, file.body)
    BY <2>8 DEF file
  <2> QED
    BY <1>3, <2>2, <2>4, <2>7, <2>8, <2>9, <2>10, <2>11 DEF FileFits
<1>6. DOMAIN files' = Paths /\ \A q \in Named \ {p} : files'[q] = files[q]
  BY <1>2, <1>4 DEF Named
<1>7. \A q \in Named : files'[q] = files[q] \/ FileFits(files[q])'
  BY <1>5, <1>6
<1>8. FilesFit'
  BY <1>3, <1>4, <1>6, <1>7, FilesLemma
<1>9. SearchedSidecarFits'
  BY <1>3 DEF SearchedSidecarFits
<1> QED
  BY <1>3, <1>8, <1>9, IdleLemma DEF SidecarIInv

-----------------------------------------------------------------------------
\* Steps that touch nothing of the sidecars keep the invariant.
LEMMA StutterKeeps ==
  ASSUME SidecarIInv, UNCHANGED sidecarVars
  PROVE  SidecarIInv'
<1>1. files' = files /\ job' = job /\ written' = written /\ loaded' = loaded
  BY DEF sidecarVars
<1>2. FilesFit'
  BY <1>1, FilesLemma DEF SidecarIInv, FilesFit
<1> QED
  BY <1>1, <1>2, LoadedLemma DEF SidecarIInv, WriteFits, RebindFits, RebindSection

\* The invariant holds in every state of every run.
THEOREM SidecarInvariant == SidecarInit /\ [][SidecarNext]_sidecarVars => []SidecarIInv
<1>1. SidecarIInv /\ SidecarNext => SidecarIInv'
  <2> SUFFICES ASSUME SidecarIInv, SidecarNext PROVE SidecarIInv'
    OBVIOUS
  <2>1. CASE \E r \in Requests, out \in {"sidecar", "source", "pq", "selection"}, class \in {16, 128} :
               StartWrite(r, out, class)
    BY <2>1, StartWriteKeeps
  <2>2. CASE WriteSection
    BY <2>2, WriteSectionKeeps
  <2>3. CASE Publish
    BY <2>3, PublishKeeps
  <2>4. CASE WriteFails
    BY <2>4, WriteFailsKeeps
  <2>5. CASE \E from \in {"source", "sidecar"} : StartRebind(from, "sidecar")
    BY <2>5, StartRebindKeeps
  <2>6. CASE PublishRebind
    BY <2>6, PublishRebindKeeps
  <2>7. CASE RebindFails \/ Crash
    BY <2>7, RebindFailsKeeps
  <2>8. CASE \E p \in {"sidecar", "source"} : LoadForSearch(p)
    BY <2>8, LoadForSearchKeeps
  <2>9. CASE \E path \in {"base", "pq"}, w \in Widths : Rebuild(path, w)
    BY <2>9, RebuildKeeps
  <2>10. CASE PowerLoss
    BY <2>10, PowerLossKeeps
  <2> QED
    BY <2>1, <2>2, <2>3, <2>4, <2>5, <2>6, <2>7, <2>8, <2>9, <2>10, Zenon DEF SidecarNext
<1>2. SidecarIInv /\ UNCHANGED sidecarVars => SidecarIInv'
  BY StutterKeeps
<1> QED
  BY InitLemma, <1>1, <1>2, PTL

\* What a search works on was validated before it was written, field for
\* field, and its packets hold the codes of the PQ artifact it is searched
\* with, whatever was rebuilt, rebound, interrupted or cut in between.
THEOREM SearchedSidecar == SidecarInit /\ [][SidecarNext]_sidecarVars => []SearchedSidecarFits
<1>1. SidecarIInv => SearchedSidecarFits
  BY DEF SidecarIInv
<1> QED
  BY <1>1, SidecarInvariant, PTL
=============================================================================

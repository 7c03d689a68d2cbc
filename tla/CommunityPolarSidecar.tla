----------------------- MODULE CommunityPolarSidecar -----------------------
(***************************************************************************)
(* The sidecar file: how an index is serialized by version, written to a   *)
(* temporary file and renamed, streamed into a rebound copy for a new PQ   *)
(* artifact, loaded and matched against the Base and PQ files              *)
(* (src/index/community_polar_index.cc).  A fingerprint or body hash is    *)
(* the content it is computed from: collisions are left out.  Of the 18    *)
(* sections the ones whose content differs between versions, or is         *)
(* rewritten by the rebind, are kept.                                      *)
(***************************************************************************)
EXTENDS Naturals, Sequences, SequencesExt, FiniteSetsExt

CONSTANTS
  Requests,        \* build requests: [op, partition, adaptive, target, gateway_count, hierarchy]
  Selected,        \* targets a gateway selection CSV ranks for the one superedge
  Widths,          \* PQ code widths a rebuild may choose
  MaxGenerations,  \* bound: rebuilds of the Base and PQ artifacts
  MaxJobs          \* bound: sidecars begun

\* A request turns the adaptive capacities and the hierarchy on or off.
ASSUME SidecarAssumption == \A r \in Requests : r.adaptive \in BOOLEAN /\ r.hierarchy \in BOOLEAN

VARIABLES
  files,      \* path -> content
  job,        \* the operation under way
  written,    \* indexes that passed validation before a write
  loaded,     \* what the last load for a search returned, with the artifacts it met
  generation, \* rebuilds so far
  jobs,       \* operations begun so far
  dirty       \* paths written since the machine started: nothing is synced

sidecarVars == <<files, job, written, loaded, generation, jobs, dirty>>

InputPaths == {"base", "pq", "selection", "source"}
Paths == InputPaths \cup {"sidecar", "tmp"}
Absent == [kind |-> "absent"]
Placeholder == [version |-> 0]
NoIndex == [op |-> "none"]
Idle == [step |-> "idle"]
CapacityClasses == {16, 32, 64, 128}

(***************************************************************************)
(* Serialization.                                                          *)
(***************************************************************************)
Version(ix) ==
  IF ix.partition = "GLOBAL_GRAPH_LOCAL" THEN 7 ELSE IF ix.adaptive THEN 6 ELSE 5

ConfigSection(ix, v) ==
  [id |-> "CONFIG", target |-> ix.target, gateway_count |-> ix.gateway_count,
   projection |-> IF v >= 2 THEN ix.projection ELSE 0,
   partition |-> IF v >= 3 THEN ix.partition ELSE "",
   adaptive |-> v >= 6 /\ ix.adaptive]

\* make_sections; the versions before 5 end with the packets.
MakeSections(ix, v) ==
  <<ConfigSection(ix, v),
    [id |-> "COMMUNITIES", width |-> ix.packet_width],
    [id |-> "GATEWAYS", targets |-> ix.gateways],
    [id |-> "CELLS", capacity |-> IF v >= 6 THEN ix.capacity ELSE 0],
    [id |-> "BLOCKS", error |-> ix.error],
    [id |-> "PACKETS", codes |-> ix.codes]>>
  \o IF v >= 5 THEN <<[id |-> "CELL_HIERARCHY", hierarchy |-> ix.hierarchy]>> ELSE <<>>

Header(ix, v) ==
  [version |-> v, width |-> ix.width, hash |-> MakeSections(ix, v),
   base |-> ix.base, pq |-> ix.pq]

\* The header checks, the directory, and the checksum over the body.
Loadable(file) ==
  /\ file.kind = "sidecar"
  /\ file.header.version \in 1 .. 7
  /\ file.body = file.header.hash

\* The fields of an older version take the configuration's defaults.
DecodeConfig(config, v) ==
  [projection |-> IF v >= 2 THEN config.projection ELSE 0,
   partition |-> IF v >= 3 THEN config.partition ELSE "POLAR_RADIAL",
   adaptive |-> v >= 6 /\ config.adaptive,
   target |-> config.target, gateway_count |-> config.gateway_count]

Decode(file) ==
  LET v == file.header.version
      body == file.body
      config == DecodeConfig(body[1], v)
  IN  [projection |-> config.projection, partition |-> config.partition, adaptive |-> config.adaptive,
       target |-> config.target, gateway_count |-> config.gateway_count,
       packet_width |-> body[2].width, gateways |-> body[3].targets,
       capacity |-> IF v >= 6 THEN body[4].capacity ELSE body[1].target,
       error |-> body[5].error, codes |-> body[6].codes,
       hierarchy |-> v >= 5 /\ body[7].hierarchy,
       width |-> file.header.width, base |-> file.header.base, pq |-> file.header.pq]

\* validate_loaded_index, on the fields kept here.
ValidIndex(ix) ==
  /\ IF ix.adaptive THEN ix.capacity \in CapacityClasses /\ ix.hierarchy
     ELSE ix.capacity = ix.target
  /\ ix.packet_width = ix.width
  /\ ix.codes.width = ix.width
  /\ ix.gateways # <<>> /\ Len(ix.gateways) <= ix.gateway_count
  /\ IsInjective(ix.gateways)

\* load_community_polar_index
LoadOk(file) == Loadable(file) /\ ValidIndex(Decode(file))

\* validate_community_polar_artifacts
ArtifactsMatch(ix) == ix.base = files["base"] /\ ix.pq = files["pq"]

(***************************************************************************)
(* The index of each kind of request.                                      *)
(***************************************************************************)
\* Paths the output must differ from.
Protected(r) ==
  {"base", "pq"} \cup IF r.op \in {"reselect", "repack", "cells"} THEN {"source"} ELSE {}

\* validate_community_polar_build_config, on the adaptive policy.
ConfigOk(r) ==
  /\ r.gateway_count > 0
  /\ r.adaptive => r.partition = "GLOBAL_GEOMETRIC" /\ r.target = 128

\* load_gateway_selection: at most gateway_count ranked nodes.
SelectionOk(r) == Len(Selected) <= r.gateway_count

\* The listed targets in order, then the source's until gateway_count.
Reselected(gateways, count) ==
  LET rest == SelectSeq(gateways, LAMBDA g : g \notin ToSet(Selected))
  IN  Selected \o SubSeq(rest, 1, Min({Len(rest), count - Len(Selected)}))

\* What finalize binds: the codes and fingerprints of the files as they are.
Bind(ix) ==
  [ix EXCEPT !.codes = files["pq"], !.width = files["pq"].width, !.error = "bound",
             !.packet_width = files["pq"].width, !.base = files["base"], !.pq = files["pq"]]

Blank(r) ==
  [projection |-> 1, partition |-> r.partition, adaptive |-> r.adaptive, target |-> r.target,
   gateway_count |-> r.gateway_count, gateways |-> <<1, 2>>, capacity |-> r.target,
   hierarchy |-> r.hierarchy, error |-> "max", codes |-> Absent, width |-> 0,
   packet_width |-> 0, base |-> Absent, pq |-> Absent]

\* load_convergence_cell_capacities: a valid class per Cell, in adaptive mode.
WithCapacities(ix, r, class) == IF r.adaptive THEN [ix EXCEPT !.capacity = class] ELSE ix

\* The cells are rebuilt around the source's communities and gateways, or the
\* packets moved with their codes: only the first reads the PQ file again.
Recelled(source, r) ==
  [Blank(r) EXCEPT !.gateways = source.gateways, !.projection = source.projection]
Repacked(source, r) ==
  [source EXCEPT !.partition = r.partition, !.adaptive = r.adaptive, !.target = r.target,
                 !.capacity = r.target, !.hierarchy = r.hierarchy]

SourceOk(r) ==
  /\ LoadOk(files["source"])
  /\ LET source == Decode(files["source"])
     IN  /\ ArtifactsMatch(source)
         /\ r.op = "reselect" => source.partition = r.partition /\ source.target = r.target
         /\ r.op # "reselect" => source.gateway_count = r.gateway_count

\* build_community_polar_sidecar_from_disk up to the write, for one request.
Built(r, class) ==
  LET source == Decode(files["source"])
  IN  CASE r.op = "reselect" -> [source EXCEPT !.gateways = Reselected(@, r.gateway_count),
                                               !.gateway_count = r.gateway_count]
        [] r.op = "repack" -> WithCapacities(Repacked(source, r), r, class)
        [] r.op = "cells" -> Bind(WithCapacities(Recelled(source, r), r, class))
        [] OTHER -> Bind(WithCapacities(Blank(r), r, class))

Refused(r, out) ==
  \/ ~ ConfigOk(r)
  \/ out \in Protected(r)
  \/ r.op \in {"reselect", "repack", "cells"} /\ ~ SourceOk(r)
  \/ r.op = "reselect" /\ (~ SelectionOk(r)
       \/ ~ ToSet(Selected) \subseteq ToSet(Decode(files["source"]).gateways))
  \/ files["pq"] = Absent \/ files["base"] = Absent

Artifact(g, w) == [kind |-> "artifact", gen |-> g, width |-> w]

\* A sidecar of an earlier release, of the versions this one still reads.
Legacy(v) ==
  LET ix == [Blank([partition |-> "POLAR_RADIAL", adaptive |-> FALSE, target |-> 256,
                    gateway_count |-> 3, hierarchy |-> FALSE])
               EXCEPT !.codes = Artifact(0, 8), !.width = 8, !.packet_width = 8,
                      !.gateways = <<1, 2, 3>>, !.base = Artifact(0, 0), !.pq = Artifact(0, 8)]
  IN  [kind |-> "sidecar", header |-> Header(ix, v), body |-> MakeSections(ix, v)]

SidecarInit ==
  /\ \E v \in {1, 5} :
       files = [p \in Paths |-> CASE p = "base" -> Artifact(0, 0) [] p = "pq" -> Artifact(0, 8)
                                  [] p = "source" -> Legacy(v)
                                  [] p = "selection" -> Artifact(0, 1) [] OTHER -> Absent]
  /\ job = Idle /\ written = {Decode(files["source"])} /\ loaded = NoIndex /\ generation = 0 /\ jobs = 0 /\ dirty = {}

(***************************************************************************)
(* Building and writing.                                                   *)
(***************************************************************************)
\* build_community_polar_sidecar_from_disk to write_community_polar_index's
\* validation and the opening of the temporary file.
StartWrite(r, out, class) ==
  /\ job = Idle /\ jobs < MaxJobs
  /\ ~ Refused(r, out)
  /\ LET ix == Built(r, class)
         v == Version(ix)
     IN  /\ ValidIndex(ix)
         /\ job' = [step |-> "write", index |-> ix, out |-> out,
                    sections |-> MakeSections(ix, v), header |-> Header(ix, v)]
         /\ written' = written \cup {ix}
         /\ files' = [files EXCEPT !["tmp"] =
                        [kind |-> "sidecar", header |-> Header(ix, v), body |-> <<>>]]
  /\ dirty' = dirty \cup {"tmp"}
  /\ jobs' = jobs + 1
  /\ UNCHANGED <<loaded, generation>>

\* The next section reaches the temporary file.
WriteSection ==
  /\ job.step \in {"write", "rebind"}
  /\ Len(files["tmp"].body) < Len(job.sections)
  /\ files' = [files EXCEPT !["tmp"].body = Append(@, job.sections[Len(@) + 1])]
  /\ UNCHANGED <<job, written, loaded, generation, jobs, dirty>>

\* Everything was flushed: the temporary file takes the output's name.
Publish ==
  /\ job.step = "write"
  /\ files["tmp"].body = job.sections
  /\ files' = [files EXCEPT ![job.out] = files["tmp"], !["tmp"] = Absent]
  /\ dirty' = dirty \cup {job.out}
  /\ job' = Idle
  /\ UNCHANGED <<written, loaded, generation, jobs>>

\* A failed write or rename: the temporary file is removed.
WriteFails ==
  /\ job.step = "write"
  /\ files' = [files EXCEPT !["tmp"] = Absent]
  /\ job' = Idle
  /\ UNCHANGED <<written, loaded, generation, jobs, dirty>>

(***************************************************************************)
(* Rebinding to a new PQ artifact.                                         *)
(***************************************************************************)
\* Mutant of RebindSection: the packets keep the codes of the old artifact.
RebindSection_OldCodes(section) ==
  CASE section.id = "COMMUNITIES" -> [section EXCEPT !.width = files["pq"].width]
    [] section.id = "BLOCKS" -> [section EXCEPT !.error = "max"]
    [] section.id = "PACKETS" -> [section EXCEPT !.codes.width = files["pq"].width]
    [] OTHER -> section

\* The communities' packet bytes, the blocks' error bound and the packets are
\* rewritten, everything else is copied.
RebindSection(section) ==
  CASE section.id = "COMMUNITIES" -> [section EXCEPT !.width = files["pq"].width]
    [] section.id = "BLOCKS" -> [section EXCEPT !.error = "max"]
    [] section.id = "PACKETS" -> [section EXCEPT !.codes = files["pq"]]
    [] OTHER -> section

\* rebind_community_polar_pq: the checks before the temporary file is opened;
\* the placeholder header is written first.
StartRebind(from, out) ==
  /\ job = Idle /\ jobs < MaxJobs
  /\ from # out
  /\ files[from].kind = "sidecar" /\ files[from].header.version \in 5 .. 7
  /\ Len(files[from].body) = Len(files[from].header.hash)
  /\ files[from].header.base = files["base"] /\ files["pq"] # Absent
  /\ job' = [step |-> "rebind", out |-> out, from |-> files[from],
             sections |-> [i \in DOMAIN files[from].body |-> RebindSection(files[from].body[i])]]
  /\ files' = [files EXCEPT !["tmp"] = [kind |-> "sidecar", header |-> Placeholder, body |-> <<>>]]
  /\ dirty' = dirty \cup {"tmp"}
  /\ jobs' = jobs + 1
  /\ UNCHANGED <<written, loaded, generation>>

RebindHeader(old) ==
  [old EXCEPT !.width = files["pq"].width, !.pq = files["pq"], !.hash = job.sections]

\* The old checksum held, so the header goes in; size check and rename.
PublishRebind ==
  /\ job.step = "rebind"
  /\ files["tmp"].body = job.sections
  /\ job.from.body = job.from.header.hash
  /\ LET file == [files["tmp"] EXCEPT !.header = RebindHeader(job.from.header)]
     IN  /\ files' = [files EXCEPT ![job.out] = file, !["tmp"] = Absent]
         /\ written' = written \cup {Decode(file)}
  /\ dirty' = dirty \cup {job.out}
  /\ job' = Idle
  /\ UNCHANGED <<loaded, generation, jobs>>

\* A throw after the file was opened leaves it behind.
RebindFails ==
  /\ job.step = "rebind"
  /\ job' = Idle
  /\ UNCHANGED <<files, written, loaded, generation, jobs, dirty>>

(***************************************************************************)
(* The surroundings: searches, rebuilt artifacts, crashes.                 *)
(***************************************************************************)
\* A search opens the sidecar.
LoadForSearch(p) ==
  /\ LoadOk(files[p]) /\ ArtifactsMatch(Decode(files[p]))
  /\ loaded' = [op |-> "index", index |-> Decode(files[p]), base |-> files["base"],
                pq |-> files["pq"]]
  /\ UNCHANGED <<files, job, written, generation, jobs, dirty>>

\* The Base or PQ artifact is built anew, no sidecar operation running.
Rebuild(path, w) ==
  /\ job = Idle /\ generation < MaxGenerations
  /\ generation' = generation + 1
  /\ files' = [files EXCEPT ![path] = Artifact(generation + 1, IF path = "pq" THEN w ELSE 0)]
  /\ UNCHANGED <<job, written, loaded, jobs, dirty>>

\* The process ends where it is.
Crash ==
  /\ job # Idle
  /\ job' = Idle
  /\ UNCHANGED <<files, written, loaded, generation, jobs, dirty>>

\* Nothing is synced: a file written since the start may come back cut.
PowerLoss ==
  /\ dirty # {}
  /\ \E p \in dirty :
       /\ files[p].kind = "sidecar"
       /\ \E n \in 0 .. Len(files[p].body) : files' = [files EXCEPT ![p].body = SubSeq(@, 1, n)]
  /\ job' = Idle /\ loaded' = NoIndex /\ dirty' = {}
  /\ UNCHANGED <<written, generation, jobs>>

SidecarNext ==
  \/ \E r \in Requests, out \in {"sidecar", "source", "pq", "selection"}, class \in {16, 128} :
       StartWrite(r, out, class)
  \/ WriteSection \/ Publish \/ WriteFails
  \/ \E from \in {"source", "sidecar"} : StartRebind(from, "sidecar")
  \/ PublishRebind \/ RebindFails
  \/ \E p \in {"sidecar", "source"} : LoadForSearch(p)
  \/ \E path \in {"base", "pq"}, w \in Widths : Rebuild(path, w)
  \/ Crash \/ PowerLoss

(***************************************************************************)
(* Properties.                                                             *)
(***************************************************************************)
\* What a search works on was validated before it was written, field for
\* field, and its packets hold the codes of the PQ artifact it is searched
\* with, through rebuilt artifacts, rebinds, legacy sources, crashes between
\* any two sections and files cut by a power loss.
SearchedSidecarFits ==
  loaded # NoIndex =>
    /\ loaded.index.codes = loaded.pq /\ loaded.index.width = loaded.pq.width
    /\ loaded.index.base = loaded.base
    /\ loaded.index \in written

=============================================================================

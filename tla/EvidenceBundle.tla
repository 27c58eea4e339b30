--------------------------- MODULE EvidenceBundle ---------------------------
(***************************************************************************)
(* The portable bundle of a record and its offline verification            *)
(* (packages/evidence-bundle, evidence-reporting and evidence-verifier).   *)
(* The bundle is a set of entries under an index of their digests, and the *)
(* index is sealed; reports are regenerated from the record and compared.  *)
(* Between the engine and the verifier a copy of a bundle may lose or gain *)
(* entries or hold those of another one.                                   *)
(*                                                                         *)
(* A digest is what it was computed from.                                  *)
(***************************************************************************)
EXTENDS Naturals, FiniteSets, Functions

CONSTANTS
    Records,        \* sealed records of which bundles are made
    ReportPaths,        \* reports/<profile>.<format>
    DocumentPaths,  \* artifacts/<id>/<filename>
    MaxDamage       \* bound: entries that differ from what was built

VARIABLES
    copy,           \* the entries the verifier gets: path to content
    damage

bundleVars == <<copy, damage>>

\* The ZIP reader: paths do not repeat, and a content fits its checksum.
Declared == {"record.json", "manifest.json", "events.jsonl"} \cup ReportPaths \cup DocumentPaths
Controls == {"bundle-index.json", "bundle-seals.json"}
Path == Declared \cup Controls \cup {"stray"}

\* Reports and documents lie in directories of their own.
ASSUME BundleAssumption == Controls \cap (ReportPaths \cup DocumentPaths) = {}

\* A report is computed from the record alone, whatever the profile.
buildReport(path, r) == [of |-> path, from |-> r]
buildEvidenceReports(r) == [path \in ReportPaths |-> buildReport(path, r)]

\* The published documents that the record's workflow revision binds.
loadAuthoritativeArtifacts(r) == [path \in DocumentPaths |-> [of |-> path, from |-> r]]
Content(path, r) ==
    CASE path \in ReportPaths -> buildEvidenceReports(r)[path]
      [] path \in DocumentPaths -> loadAuthoritativeArtifacts(r)[path]
      [] OTHER -> [of |-> path, from |-> r]

Index(r) == [entries |-> [p \in Declared |-> Content(p, r)], sourceManifestHash |-> r]
Seal(index) == [of |-> "bundle-seals.json", signed |-> index]

\* Every entry but the index and its seals is declared in the index.
buildEvidenceBundle(r) ==
    [p \in Declared \cup Controls |->
        CASE p = "bundle-index.json" -> [of |-> p, index |-> Index(r)]
          [] p = "bundle-seals.json" -> Seal(Index(r))
          [] OTHER -> Content(p, r)]

BundleInit == copy \in {buildEvidenceBundle(r) : r \in Records} /\ damage = 0

(***************************************************************************)
(* What may happen to a copy                                               *)
(***************************************************************************)

loseEntry(p) ==
    /\ damage < MaxDamage /\ p \in DOMAIN copy
    /\ copy' = Restrict(copy, DOMAIN copy \ {p})
    /\ damage' = damage + 1

mixEntry(p, r) ==
    /\ damage < MaxDamage /\ p \in Declared \cup Controls
    /\ copy' = [q \in DOMAIN copy \cup {p} |-> IF q = p THEN buildEvidenceBundle(r)[p] ELSE copy[q]]
    /\ damage' = damage + 1

strayEntry ==
    /\ damage < MaxDamage /\ "stray" \notin DOMAIN copy
    /\ copy' = [q \in DOMAIN copy \cup {"stray"} |->
                  IF q = "stray" THEN [of |-> "stray", from |-> "nobody"] ELSE copy[q]]
    /\ damage' = damage + 1

BundleNext ==
    \/ \E p \in Path : loseEntry(p) \/ (\E r \in Records : mixEntry(p, r))
    \/ strayEntry

(***************************************************************************)
(* verifyEvidenceBundle                                                    *)
(***************************************************************************)

\* Mutant: entries that no descriptor declares are let pass.
EntriesMatchIndex_Undeclared(index) ==
    \A p \in DOMAIN index.entries : p \in DOMAIN copy /\ copy[p] = index.entries[p]

EntriesMatchIndex(index) ==
    /\ \A p \in DOMAIN index.entries : p \in DOMAIN copy /\ copy[p] = index.entries[p]
    /\ DOMAIN copy \subseteq DOMAIN index.entries \cup Controls

\* Some seal of the primary profile, and none that does not verify.
SealVerifies(index) == copy["bundle-seals.json"].signed = index

verifyRegeneratedReports(r) ==
    \A p \in ReportPaths : p \in DOMAIN copy /\ copy[p] = buildEvidenceReports(r)[p]

verifyEvidenceBundle ==
    /\ Controls \cup {"record.json"} \subseteq DOMAIN copy
    /\ LET index == copy["bundle-index.json"].index
           r == copy["record.json"].from
       IN  /\ EntriesMatchIndex(index)
           /\ SealVerifies(index)
           /\ index.sourceManifestHash = r
           /\ verifyRegeneratedReports(r)

(***************************************************************************)
(* Properties                                                              *)
(***************************************************************************)

(* A copy that verifies is, entry by entry, the bundle that the engine built  *)
(* for one record: nothing lost, nothing added, nothing from another bundle.  *)
VerifiedIsBuilt == verifyEvidenceBundle => copy \in {buildEvidenceBundle(r) : r \in Records}
=============================================================================

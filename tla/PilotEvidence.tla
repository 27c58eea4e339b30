---------------------------- MODULE PilotEvidence ----------------------------
(***************************************************************************)
(* The evidence behind the admission gates of one company, kept outside    *)
(* the product: for each gate a private folder of artifacts and a manifest *)
(* made from a descriptor and the folder (packages/pilot-gate-evidence);   *)
(* the approval an administrator records from the manifest in the browser  *)
(* (pilot-gate-manifest-import.ts); and the offline verification of a      *)
(* readiness dossier against all manifests and folders                     *)
(* (packages/pilot-admission-evidence), while operators keep touching the  *)
(* files.                                                                  *)
(*                                                                         *)
(* A digest stands for what it was computed from.  A folder maps a file    *)
(* name to its contents, NoFile when there is none; its stamp is the       *)
(* modification time of the directory, which a change in place of a file   *)
(* leaves alone.                                                           *)
(***************************************************************************)
EXTENDS Naturals, FiniteSets, Functions

CONSTANTS
    PilotGates,      \* TENANT_ADMISSION_GATES
    FileNames,       \* names of files in a folder
    Contents,        \* what a file may hold
    Scopes,          \* scope references of the descriptors
    Descriptors,     \* the descriptors that reviewers write
    MaxTouches,      \* bound: changes of files by operators
    MaxManifests,    \* bound: manifests made
    MaxInspections   \* bound: runs of the commands

NoFile == 0

\* A descriptor names the gate, its artifacts, those its checklist cites, the
\* scope and when it was reviewed.
ASSUME PilotAssumption ==
    /\ PilotGates # {} /\ Contents # {} /\ NoFile \notin Contents
    /\ Descriptors \subseteq [gate: PilotGates, artifacts: SUBSET FileNames, cited: SUBSET FileNames,
                             scope: Scopes, reviewedAt: 1..2]
    /\ {MaxTouches, MaxManifests, MaxInspections} \subseteq Nat

VARIABLES
    folders,      \* gate -> [files, stamp]
    manifestDir,  \* [files: gate -> {} or {[text, digest]}, stamp]
    made,         \* gate -> the manifests made from its folder
    approvals,    \* gate -> {} or {[digest, decidedAt]}
    dossier,      \* {} or {the approvals a readiness export shows}
    week,         \* the engine's clock, 1 or 2
    inspection,   \* {} or {the inspection of a folder under way}
    checking,     \* {} or {the verification of the whole set under way}
    verdict,      \* {} or {[dossier, manifests, read]}: the set passed last
    steadied,     \* for every inspection that passed: did its inventory hold?
    touches, inspections

pilotFiles == <<folders, manifestDir>>
pilotEngine == <<approvals, dossier, week>>
pilotVars == <<pilotFiles, pilotEngine, made, inspection, checking, verdict, steadied,
               touches, inspections>>

Listing(g) == {p \in FileNames : folders[g].files[p] # NoFile}

PilotInit ==
    /\ folders = [g \in PilotGates |-> [files |-> [p \in FileNames |-> CHOOSE c \in Contents : TRUE],
                                        stamp |-> 0]]
    /\ manifestDir = [files |-> [g \in PilotGates |-> {}], stamp |-> 0]
    /\ made = [g \in PilotGates |-> {}]
    /\ approvals = [g \in PilotGates |-> {}]
    /\ dossier = {} /\ week = 1
    /\ inspection = {} /\ checking = {} /\ verdict = {} /\ steadied = {}
    /\ touches = 0 /\ inspections = 0

-----------------------------------------------------------------------------
(* What operators and the clock do meanwhile.                              *)

\* The history flag of an inspection under way: its inventory held so far.
Unsteady(g) ==
    inspection' = {IF i.gate = g THEN [i EXCEPT !.steady = FALSE] ELSE i : i \in inspection}

\* A file is written in place.
editArtifact(g, p, c) ==
    /\ touches < MaxTouches /\ p \in Listing(g) /\ folders[g].files[p] # c
    /\ folders' = [folders EXCEPT ![g].files[p] = c]
    /\ touches' = touches + 1
    /\ UNCHANGED <<manifestDir, pilotEngine, made, inspection, checking, verdict, steadied, inspections>>

\* A file is added, removed or put in another's place.
exchangeArtifact(g, p, c) ==
    /\ touches < MaxTouches /\ folders[g].files[p] # c
    /\ folders' = [folders EXCEPT ![g] = [files |-> [@.files EXCEPT ![p] = c], stamp |-> @.stamp + 1]]
    /\ touches' = touches + 1
    /\ Unsteady(g)
    /\ UNCHANGED <<manifestDir, pilotEngine, made, checking, verdict, steadied, inspections>>

\* A manifest is put under the name of another gate, altered or removed.
touchManifest(g) ==
    /\ touches < MaxTouches /\ manifestDir.files[g] # {}
    /\ \/ \E h \in PilotGates \ {g} :
            manifestDir' = [files |-> [manifestDir.files EXCEPT ![h] = manifestDir.files[g]],
                            stamp |-> manifestDir.stamp + 1]
       \/ \E s \in Scopes :
            manifestDir' = [manifestDir EXCEPT !.files[g] = {[m EXCEPT !.text.scope = s] : m \in @}]
       \/ manifestDir' = [files |-> [manifestDir.files EXCEPT ![g] = {}], stamp |-> manifestDir.stamp + 1]
    /\ touches' = touches + 1
    /\ UNCHANGED <<folders, pilotEngine, made, inspection, checking, verdict, steadied, inspections>>

weekPasses ==
    /\ week = 1 /\ week' = 2
    /\ UNCHANGED <<pilotFiles, approvals, dossier, made, inspection, checking, verdict, steadied,
                   touches, inspections>>

-----------------------------------------------------------------------------
(* The inspection of a folder.                                             *)

validateDescriptorArtifacts(artifacts) == artifacts # {}

\* Every item of the checklist cites artifacts of the descriptor,
validateChecklist(cited, artifacts) == cited # {} /\ cited \subseteq artifacts

\* and every artifact is cited.
validatePilotGateDescriptor(artifacts, cited) ==
    /\ validateDescriptorArtifacts(artifacts) /\ validateChecklist(cited, artifacts)
    /\ cited = artifacts

\* The digest is that of the text.
validatePilotGateManifest(m) ==
    /\ validatePilotGateDescriptor(DOMAIN m.text.files, m.text.cited)
    /\ m.digest = m.text

\* The first listing of the folder.
OpenInspection(g, expected, purpose) ==
    /\ inspection = {} /\ Listing(g) = expected
    /\ inspection' = {[gate |-> g, expected |-> expected, stamp |-> folders[g].stamp,
                       read |-> <<>>, purpose |-> purpose, steady |-> TRUE]}

\* One artifact is read as it is now; one that changes meanwhile is refused.
readPhysicalFile(i, p) ==
    /\ inspection = {i} /\ p \in i.expected \ DOMAIN i.read /\ p \in Listing(i.gate)
    /\ inspection' = {[i EXCEPT !.read = [q \in DOMAIN i.read \cup {p} |->
                          IF q = p THEN folders[i.gate].files[p] ELSE i.read[q]]]}
    /\ UNCHANGED <<pilotFiles, pilotEngine, made, checking, verdict, steadied, touches, inspections>>

\* Mutant: the folder lists the same names at the end.
Steady_Names(i) == Listing(i.gate) = i.expected

\* The folder lists the same names at the end, and was not modified in between.
Steady(i) == Listing(i.gate) = i.expected /\ folders[i.gate].stamp = i.stamp

inspectEvidenceDirectory(i) ==
    /\ inspection = {i} /\ DOMAIN i.read = i.expected /\ Steady(i)
    /\ inspection' = {}
    /\ steadied' = steadied \cup {i.steady}

-----------------------------------------------------------------------------
(* Making a manifest and approving a gate with it.                         *)

createPilotGateEvidenceManifestFile(d) ==
    /\ inspections < MaxInspections /\ checking = {}
    /\ validatePilotGateDescriptor(d.artifacts, d.cited) /\ manifestDir.files[d.gate] = {}
    /\ OpenInspection(d.gate, d.artifacts, {d})
    /\ inspections' = inspections + 1
    /\ UNCHANGED <<pilotFiles, pilotEngine, made, checking, verdict, steadied, touches>>

createPilotGateEvidenceManifest(d, read) ==
    [gate |-> d.gate, files |-> read, cited |-> d.cited, scope |-> d.scope, reviewedAt |-> d.reviewedAt]

\* The text and its digest, in a file that must not exist yet.  (One that a
\* kill cuts short is refused by every reader.)
writePhysicalFile(i) ==
    \E d \in i.purpose :
        LET body == createPilotGateEvidenceManifest(d, i.read)
        IN  /\ inspectEvidenceDirectory(i) /\ manifestDir.files[d.gate] = {}
            /\ Cardinality(UNION Range(made)) < MaxManifests
            /\ manifestDir' = [files |-> [manifestDir.files EXCEPT ![d.gate] = {[text |-> body, digest |-> body]}],
                               stamp |-> manifestDir.stamp + 1]
            /\ made' = [made EXCEPT ![d.gate] = @ \cup {body}]
            /\ UNCHANGED <<folders, pilotEngine, checking, verdict, touches, inspections>>

\* The browser reads a manifest with code of its own, and for the gate it was
\* chosen for only.
normalizeArtifacts(text) == DOMAIN text.files # {}
normalizeChecklist(text) == text.cited = DOMAIN text.files
verifyPilotGateManifestText(m, g) ==
    m.text.gate = g /\ normalizeArtifacts(m.text) /\ normalizeChecklist(m.text) /\ m.digest = m.text

applyTenantAdmissionDecision(g, gate) == approvals' = [approvals EXCEPT ![g] = gate]

\* The approval that the imported manifest fills in; and its revocation.
decide(g) ==
    /\ \/ \E m \in manifestDir.files[g] :
            /\ verifyPilotGateManifestText(m, g)
            /\ applyTenantAdmissionDecision(g, {[digest |-> m.digest, decidedAt |-> week]})
       \/ approvals[g] # {} /\ applyTenantAdmissionDecision(g, {})
    /\ UNCHANGED <<pilotFiles, dossier, week, made, inspection, checking, verdict, steadied,
                   touches, inspections>>

exportReadiness ==
    /\ dossier' = {approvals}
    /\ UNCHANGED <<pilotFiles, approvals, week, made, inspection, checking, verdict, steadied,
                   touches, inspections>>

-----------------------------------------------------------------------------
(* The verification of the whole set.                                      *)

NoManifests == [g \in PilotGates |-> {}]

\* The manifest directory lists exactly one manifest per gate.
verifyPilotAdmissionEvidenceSet ==
    /\ inspections < MaxInspections /\ checking = {} /\ inspection = {}
    /\ \A g \in PilotGates : manifestDir.files[g] # {}
    /\ checking' = {[manifests |-> NoManifests, stamp |-> manifestDir.stamp, dossier |-> NoManifests,
                     bound |-> FALSE, read |-> NoManifests]}
    /\ inspections' = inspections + 1
    /\ UNCHANGED <<pilotFiles, pilotEngine, made, inspection, verdict, steadied, touches>>

readCanonicalManifest(g) ==
    \E c \in checking, m \in manifestDir.files[g] :
        /\ ~c.bound /\ c.manifests[g] = {}
        /\ validatePilotGateManifest(m) /\ m.text.gate = g
        /\ checking' = {[c EXCEPT !.manifests[g] = {m.text}]}
        /\ UNCHANGED <<pilotFiles, pilotEngine, made, inspection, verdict, steadied, touches, inspections>>

\* Every gate is approved with the digest of its manifest, reviewed before it
\* was decided, and all are of one scope.
AdmissionBound(shown, manifests) ==
    /\ \E s \in Scopes : {m.scope : m \in UNION Range(manifests)} = {s}
    /\ \A g \in PilotGates : \E a \in shown[g], m \in manifests[g] :
         a.digest = m /\ m.reviewedAt <= a.decidedAt

verifyAdmissionBindings ==
    \E c \in checking, shown \in dossier :
        /\ ~c.bound /\ \A g \in PilotGates : c.manifests[g] # {}
        /\ manifestDir.stamp = c.stamp
        /\ AdmissionBound(shown, c.manifests)
        /\ checking' = {[c EXCEPT !.bound = TRUE, !.dossier = shown]}
        /\ UNCHANGED <<pilotFiles, pilotEngine, made, inspection, verdict, steadied, touches, inspections>>

\* The folder of one gate is inspected for the artifacts of its manifest,
openGateFolder(g) ==
    \E c \in checking : \E m \in c.manifests[g] :
        /\ c.bound /\ c.read[g] = {}
        /\ OpenInspection(g, DOMAIN m.files, {})
        /\ UNCHANGED <<pilotFiles, pilotEngine, made, checking, verdict, steadied, touches, inspections>>

\* and what it holds is what the manifest lists.
verifyPilotGateEvidenceManifest(i) ==
    /\ i.purpose = {} /\ inspectEvidenceDirectory(i)
    /\ \E c \in checking : \E m \in c.manifests[i.gate] :
         /\ m.files = i.read
         /\ checking' = {[c EXCEPT !.read[i.gate] = {i.read}]}
    /\ UNCHANGED <<pilotFiles, pilotEngine, made, verdict, touches, inspections>>

verifyArtifactDirectories ==
    \E c \in checking :
        /\ c.bound /\ inspection = {} /\ \A g \in PilotGates : c.read[g] # {}
        /\ verdict' = {[dossier |-> c.dossier, manifests |-> c.manifests, read |-> c.read]}
        /\ checking' = {}
        /\ UNCHANGED <<pilotFiles, pilotEngine, made, inspection, steadied, touches, inspections>>

\* Any check of a command refuses, or the command is stopped.
fail ==
    /\ inspection # {} \/ checking # {}
    /\ inspection' = {} /\ checking' = {}
    /\ UNCHANGED <<pilotFiles, pilotEngine, made, verdict, steadied, touches, inspections>>

PilotFilesChange ==
    \E g \in PilotGates :
        \/ touchManifest(g)
        \/ \E p \in FileNames : (\E c \in Contents : editArtifact(g, p, c))
                             \/ \E c \in Contents \cup {NoFile} : exchangeArtifact(g, p, c)

PilotNext ==
    \/ PilotFilesChange \/ weekPasses
    \/ \E d \in Descriptors : createPilotGateEvidenceManifestFile(d)
    \/ \E i \in inspection : \/ \E p \in FileNames : readPhysicalFile(i, p)
                             \/ writePhysicalFile(i) \/ verifyPilotGateEvidenceManifest(i)
    \/ \E g \in PilotGates : decide(g) \/ readCanonicalManifest(g) \/ openGateFolder(g)
    \/ exportReadiness \/ verifyPilotAdmissionEvidenceSet \/ verifyAdmissionBindings
    \/ verifyArtifactDirectories \/ fail

PilotSpec == PilotInit /\ [][PilotNext]_pilotVars

-----------------------------------------------------------------------------
(* Properties.                                                             *)

(* What passed as the complete evidence of an admission is, for every gate,   *)
(* the artifacts somebody reviewed in that gate's own folder and the          *)
(* administrator approved, byte for byte as they were read from the folder,   *)
(* all of one scope: whatever was edited, misfiled, remade or approved        *)
(* meanwhile.                                                                 *)
VerifiedAsApproved ==
    \A v \in verdict : \A g \in PilotGates : \E a \in v.dossier[g] :
        /\ a.digest \in made[g]
        /\ v.read[g] = {a.digest.files}
        /\ \A h \in PilotGates : \A m \in v.manifests[h] : m.scope = a.digest.scope

(* No artifact was added, removed or put in another's place while a folder    *)
(* was inspected that passed, not even one that was put back in time.         *)
InventoryHeld == steadied \subseteq {TRUE}

(* The offline evidence of an admission: what passes is what was approved,    *)
(* and every folder held still while it was listed.                           *)
PilotEvidenceSound == VerifiedAsApproved /\ InventoryHeld
=============================================================================

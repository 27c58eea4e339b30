------------------------------ MODULE Artifacts ------------------------------
(***************************************************************************)
(* Document artifacts of one tenant: the upload route of the web front     *)
(* (api/owner/artifacts/upload), the artifact store of the engine, the     *)
(* malware scan of the integration gateway, the binding into a published   *)
(* workflow revision and the streams back to owners and participants.      *)
(*                                                                         *)
(* The web route, the engine and the gateway run side by side; an HTTP     *)
(* answer may be lost between any two of them, and then the engine's or    *)
(* the gateway's transaction goes on without the one who asked.  A digest  *)
(* is the byte sequence it is taken of.                                    *)
(***************************************************************************)
EXTENDS Naturals, Sequences, FiniteSets, FiniteSetsExt, SequencesExt

CONSTANTS
    Artifacts,      \* identifiers randomUUID may draw
    Original,       \* the one of them that is published at the start
    Docs,           \* documents an owner may upload: sequences of one-byte chunks
    Marker,         \* the byte the built-in inspector refuses
    MaxChunks,      \* documentLimits: the longest document, in chunks
    ByteQuota,      \* quotas.maxArtifactBytes
    MaxScans,       \* bound: scan commands sent to the gateway
    MaxFaults       \* bound: lost answers, timeouts, failing scanners

Bytes == UNION {Range(d) : d \in Docs}

ASSUME ArtifactAssumption ==
    /\ Original \in Artifacts /\ Docs \subseteq Seq(Bytes)
    /\ {MaxChunks, ByteQuota, MaxScans, MaxFaults} \subseteq Nat

VARIABLES
    artifact,       \* document_artifact
    chunks,         \* document_artifact_chunk, in sequence
    bound,          \* workflow_artifact_binding: artifact and digest
    scanner,        \* the tenant's document.malware_scan binding
    attempts,       \* document_artifact_scan_attempt
    profileLock,    \* the upload holding tenant_profile_pointer for update
    upload,         \* the web route's progress with each upload
    finalization,   \* the engine's finalizeArtifact transaction on each artifact
    scans,          \* the gateway's scan transactions
    stream,         \* one stream to a reader
    clash,          \* the unique constraint refused an insert
    faults

artifactVars == <<artifact, chunks, bound, scanner, attempts, profileLock,
                  upload, finalization, scans, stream, clash, faults>>

ScanIds == 1..MaxScans
NoArtifact == [status |-> "none", family |-> {}, revision |-> 0, expected |-> 0,
               sha256 |-> <<>>, external |-> FALSE]
NoUpload == [pc |-> "idle", doc |-> <<>>, family |-> {}, revision |-> 0]
NoFinalization == [pc |-> "none", scan |-> 0]
NoScan == [pc |-> "idle", artifact |-> {}, sha256 |-> <<>>, sent |-> <<>>, verdict |-> "none"]
NoStream == [pc |-> "idle", artifact |-> {}, participant |-> FALSE, got |-> <<>>, chunkCount |-> 0]

\* A document of the tenant is published already, without a scanner, within the
\* quota like every other.
ArtifactInit ==
    /\ \E doc \in {d \in Docs : Marker \notin Range(d) /\ Len(d) <= ByteQuota} :
          /\ artifact = [a \in Artifacts |-> IF a # Original THEN NoArtifact ELSE
                [status |-> "published", family |-> {a}, revision |-> 1,
                 expected |-> Len(doc), sha256 |-> doc, external |-> FALSE]]
          /\ chunks = [a \in Artifacts |-> IF a = Original THEN doc ELSE <<>>]
    /\ bound = {} /\ attempts = {} /\ profileLock = {}
    /\ scanner \in {"active", "none"}
    /\ upload = [a \in Artifacts |-> [NoUpload EXCEPT !.pc = IF a = Original THEN "ended" ELSE "idle"]]
    /\ finalization = [a \in Artifacts |-> NoFinalization]
    /\ scans = [i \in ScanIds |-> NoScan]
    /\ stream = NoStream /\ clash = FALSE /\ faults = 0

Exists(a) == artifact[a].status # "none"
Published(a) == artifact[a].status = "published"
\* select ... for update of the artifact row succeeds.
RowFree(a) == finalization[a].pc = "none"
\* Every upload counts by the length it declared, refused ones too: the sum of the
\* lengths, counted as the chunks of all artifacts.
DeclaredChunks == UNION {{a} \X (1..artifact[a].expected) : a \in Artifacts}
UsedBytes == Cardinality(DeclaredChunks)

(***************************************************************************)
(* createArtifact                                                          *)
(***************************************************************************)

\* Mutant: only what was published counts.
NextRevision_Published(f) ==
    Max({0} \cup {artifact[a].revision : a \in {b \in Artifacts : Published(b) /\ artifact[b].family = f}}) + 1

NextRevision(f) ==
    Max({0} \cup {artifact[a].revision : a \in {b \in Artifacts : artifact[b].family = f}}) + 1

validateArtifactCreateInput(doc) == Len(doc) \in 1..MaxChunks

\* The web route asks for a new artifact.  assertArtifactCapacity locks the
\* profile pointer of the tenant; everything read after it is current until the
\* insert commits.  A family is named by its first artifact.
assertArtifactCapacity(a, doc, replaces) ==
    /\ upload[a].pc = "idle" /\ validateArtifactCreateInput(doc) /\ profileLock = {}
    /\ UsedBytes + Len(doc) <= ByteQuota
    /\ \A r \in replaces : Published(r)
    /\ LET f == IF replaces = {} THEN {a} ELSE UNION {artifact[r].family : r \in replaces}
       IN  upload' = [upload EXCEPT ![a] =
                        [pc |-> "creating", doc |-> doc, family |-> f, revision |-> NextRevision(f)]]
    /\ profileLock' = {a}
    /\ UNCHANGED <<artifact, chunks, bound, scanner, attempts, finalization,
                   scans, stream, clash, faults>>

Unique(f, revision) ==
    \A b \in Artifacts : Exists(b) => ~(artifact[b].family = f /\ artifact[b].revision = revision)

\* The insert, refused by unique ("tenantId", "familyId", "revision"), and commit.
createArtifact(a) ==
    /\ upload[a].pc = "creating"
    /\ LET u == upload[a]
       IN  IF Unique(u.family, u.revision)
           THEN /\ artifact' = [artifact EXCEPT ![a] = [NoArtifact EXCEPT
                     !.status = "quarantined", !.family = u.family,
                     !.revision = u.revision, !.expected = Len(u.doc)]]
                /\ upload' = [upload EXCEPT ![a].pc = "sending"]
                /\ UNCHANGED clash
           ELSE /\ clash' = TRUE
                /\ upload' = [upload EXCEPT ![a].pc = "ended"]
                /\ UNCHANGED artifact
    /\ profileLock' = {}
    /\ UNCHANGED <<chunks, bound, scanner, attempts, finalization, scans, stream,
                   faults>>

(***************************************************************************)
(* appendChunk, and the loop of the route that calls it                    *)
(***************************************************************************)

\* The engine takes the chunk with the next sequence number; the answer may be
\* lost or late, which the route treats as a failed upload.
appendChunk(a) ==
    LET next == Len(chunks[a])
    IN  /\ upload[a].pc = "sending" /\ next < Len(upload[a].doc)
        /\ RowFree(a) /\ artifact[a].status = "quarantined"
        /\ chunks' = [chunks EXCEPT ![a] = Append(@, upload[a].doc[next + 1])]
        /\ \/ UNCHANGED <<upload, faults>>
           \/ /\ faults < MaxFaults
              /\ faults' = faults + 1
              /\ upload' = [upload EXCEPT ![a].pc = "aborting"]
        /\ UNCHANGED <<artifact, bound, scanner, attempts, profileLock,
                       finalization, scans, stream, clash>>

\* "artifact_finalized": another finalization or abort came first.
refuseChunk(a) ==
    /\ upload[a].pc = "sending" /\ Len(chunks[a]) < Len(upload[a].doc)
    /\ RowFree(a) /\ artifact[a].status # "quarantined"
    /\ upload' = [upload EXCEPT ![a].pc = "aborting"]
    /\ UNCHANGED <<artifact, chunks, bound, scanner, attempts, profileLock,
                   finalization, scans, stream, clash, faults>>

\* The owner's connection breaks, or fewer bytes arrive than were declared.
interruptUpload(a) ==
    /\ upload[a].pc \in {"sending", "finalizing"} /\ faults < MaxFaults
    /\ upload' = [upload EXCEPT ![a].pc = "aborting"]
    /\ faults' = faults + 1
    /\ UNCHANGED <<artifact, chunks, bound, scanner, attempts, profileLock,
                   finalization, scans, stream, clash>>

\* rejectArtifact on a row the transaction has locked.
Rejected(a) == [artifact EXCEPT ![a].status = "rejected"]

\* abortArtifact waits for the row; a finalization that has published wins.
abortArtifact(a) ==
    /\ upload[a].pc = "aborting" /\ RowFree(a)
    /\ artifact' = IF artifact[a].status = "quarantined" THEN Rejected(a) ELSE artifact
    /\ upload' = [upload EXCEPT ![a].pc = "ended"]
    /\ UNCHANGED <<chunks, bound, scanner, attempts, profileLock, finalization,
                   scans, stream, clash, faults>>

\* The abort itself gets lost: the quarantined artifact stays.
loseAbort(a) ==
    /\ upload[a].pc = "aborting" /\ faults < MaxFaults
    /\ upload' = [upload EXCEPT ![a].pc = "ended"]
    /\ faults' = faults + 1
    /\ UNCHANGED <<artifact, chunks, bound, scanner, attempts, profileLock,
                   finalization, scans, stream, clash>>

(***************************************************************************)
(* finalizeArtifact: the row stays locked until the verdict is applied     *)
(***************************************************************************)

\* createDocumentInspector: the content of the declared kind, no test marker.
InspectionPassed(a) == Marker \notin Range(chunks[a])

activeExternalScanBinding == scanner = "active"

PublishedRow(a, external) ==
    [artifact EXCEPT ![a].status = "published", ![a].sha256 = chunks[a],
                     ![a].external = external]

FreeScans == {i \in ScanIds : scans[i].pc = "idle"}
\* A fresh command, signed and posted to the gateway.
SendScan(a, i) ==
    scans' = [scans EXCEPT ![i] = [NoScan EXCEPT !.pc = "sent", !.artifact = {a}, !.sha256 = chunks[a]]]
\* The uploads whose route waits for the answer of a finalization.
Answered(a) == IF upload[a].pc = "finalizing" THEN [upload EXCEPT ![a].pc = "ended"] ELSE upload

\* finalizeArtifact up to its verdict, or up to the scan command it sends.  It
\* is asked for by the route after the last chunk and by the owner at any time
\* (api/owner/artifacts/finalize), for a finished artifact too.
finalizeArtifact(a) ==
    /\ Exists(a) /\ RowFree(a)
    /\ \/ upload[a].pc = "sending" /\ Len(chunks[a]) = Len(upload[a].doc)
       \/ artifact[a].status = "quarantined"
    /\ LET asked == IF upload[a].pc = "sending" /\ Len(chunks[a]) = Len(upload[a].doc)
                    THEN [upload EXCEPT ![a].pc = "finalizing"] ELSE upload
           ended == IF asked[a].pc = "finalizing" THEN [asked EXCEPT ![a].pc = "ended"] ELSE asked
           fits == chunks[a] # <<>> /\ Len(chunks[a]) = artifact[a].expected
       IN  \/ /\ artifact[a].status # "quarantined"
              /\ upload' = ended
              /\ UNCHANGED <<artifact, finalization, scans>>
           \/ /\ artifact[a].status = "quarantined" /\ ~(fits /\ InspectionPassed(a))
              /\ artifact' = Rejected(a) /\ upload' = ended
              /\ UNCHANGED <<finalization, scans>>
           \/ /\ artifact[a].status = "quarantined" /\ fits /\ InspectionPassed(a)
              /\ ~activeExternalScanBinding
              /\ artifact' = PublishedRow(a, FALSE) /\ upload' = ended
              /\ UNCHANGED <<finalization, scans>>
           \/ /\ artifact[a].status = "quarantined" /\ fits /\ InspectionPassed(a)
              /\ activeExternalScanBinding /\ FreeScans # {}
              /\ SendScan(a, Min(FreeScans))
              /\ finalization' = [finalization EXCEPT ![a] = [pc |-> "scanning", scan |-> Min(FreeScans)]]
              /\ upload' = asked
              /\ UNCHANGED artifact
    /\ UNCHANGED <<chunks, bound, scanner, attempts, profileLock, stream, clash,
                   faults>>

\* Mutant: an answer that is no verdict does not stop the publication.
finishScan_Unavailable(a, verdict) ==
    artifact' = IF verdict \in {"clean", "failed"} THEN PublishedRow(a, TRUE) ELSE Rejected(a)

\* The client takes a verdict from a completed scan only.
validateResponse(answer) ==
    IF answer \in {"clean", "malicious", "suspicious"} THEN answer ELSE "failed"

\* What the answer of the gateway makes of the artifact: without a verdict it
\* stays quarantined for a later finalization.
finishScan(a, verdict) ==
    artifact' = CASE verdict = "clean" -> PublishedRow(a, TRUE)
                  [] verdict \in {"malicious", "suspicious"} -> Rejected(a)
                  [] OTHER -> artifact

\* The engine gets the gateway's answer, or none within 305 seconds.
receiveVerdict(a) ==
    LET i == finalization[a].scan
    IN  /\ finalization[a].pc = "scanning"
        /\ \/ /\ scans[i].pc = "committed"
              /\ finishScan(a, validateResponse(scans[i].verdict))
              /\ UNCHANGED faults
           \/ /\ faults < MaxFaults
              /\ faults' = faults + 1
              /\ finishScan(a, "failed")
        /\ finalization' = [finalization EXCEPT ![a] = NoFinalization]
        /\ upload' = Answered(a)
        /\ UNCHANGED <<chunks, bound, scanner, attempts, profileLock, scans,
                       stream, clash>>

(***************************************************************************)
(* The gateway's scan                                                      *)
(***************************************************************************)

Fails(i) == scans' = [scans EXCEPT ![i].pc = "answered", ![i].verdict = "failed"]

\* The source row and the binding are read; the artifact may be finalized by
\* then, because the engine may have given up waiting.
scan(i) ==
    /\ scans[i].pc = "sent"
    /\ LET a == CHOOSE b \in Artifacts : b \in scans[i].artifact
       IN  IF artifact[a].status = "quarantined" /\ activeExternalScanBinding
           THEN scans' = [scans EXCEPT ![i].pc = "streaming"]
           ELSE Fails(i)
    /\ UNCHANGED <<artifact, chunks, bound, scanner, attempts, profileLock, upload,
                   finalization, stream, clash, faults>>

\* One chunk goes to the scanner, or the transport fails on the way.
streamArtifactChunks(i) ==
    LET a == CHOOSE b \in Artifacts : b \in scans[i].artifact
        next == Len(scans[i].sent)
    IN  /\ scans[i].pc = "streaming" /\ next < Len(scans[i].sha256)
        /\ \/ /\ next < Len(chunks[a])
              /\ scans' = [scans EXCEPT ![i].sent = Append(@, chunks[a][next + 1])]
              /\ UNCHANGED faults
           \/ /\ faults < MaxFaults
              /\ faults' = faults + 1
              /\ Fails(i)
        /\ UNCHANGED <<artifact, chunks, bound, scanner, attempts, profileLock,
                       upload, finalization, stream, clash>>

\* The digest of what was streamed must be the commanded one, and the scanner
\* must name it in its verdict.
validateScannerResponse(i) ==
    /\ scans[i].pc = "streaming" /\ Len(scans[i].sent) = Len(scans[i].sha256)
    /\ \/ /\ scans[i].sent = scans[i].sha256
          /\ \E verdict \in {"clean", "malicious", "suspicious"} :
                scans' = [scans EXCEPT ![i].pc = "answered", ![i].verdict = verdict]
          /\ UNCHANGED faults
       \/ /\ faults < MaxFaults
          /\ faults' = faults + 1
          /\ Fails(i)
    /\ UNCHANGED <<artifact, chunks, bound, scanner, attempts, profileLock, upload,
                   finalization, stream, clash>>

\* Mutant: a foreign key makes the insert lock the artifact row.
insertAttempt_ForeignKey(i) ==
    /\ scans[i].pc = "answered" /\ \A a \in scans[i].artifact : RowFree(a)
    /\ attempts' = attempts \cup {[id |-> i, artifact |-> scans[i].artifact,
                        sha256 |-> scans[i].sha256, verdict |-> scans[i].verdict]}
    /\ scans' = [scans EXCEPT ![i].pc = "committed"]
    /\ UNCHANGED <<artifact, chunks, bound, scanner, profileLock, upload,
                   finalization, stream, clash, faults>>

\* The attempt is recorded while the engine holds the artifact row, which is why
\* the table has no foreign key to it.
insertAttempt(i) ==
    /\ scans[i].pc = "answered"
    /\ attempts' = attempts \cup {[id |-> i, artifact |-> scans[i].artifact,
                        sha256 |-> scans[i].sha256, verdict |-> scans[i].verdict]}
    /\ scans' = [scans EXCEPT ![i].pc = "committed"]
    /\ UNCHANGED <<artifact, chunks, bound, scanner, profileLock, upload,
                   finalization, stream, clash, faults>>

(***************************************************************************)
(* Bindings and streams                                                    *)
(***************************************************************************)

\* resolveWorkflowArtifactBindings and persistWorkflowArtifactBindings, in the
\* transaction that publishes a workflow revision.
resolveWorkflowArtifactBindings(a) ==
    /\ Published(a)
    /\ bound' = bound \cup {[artifact |-> a, sha256 |-> artifact[a].sha256]}
    /\ UNCHANGED <<artifact, chunks, scanner, attempts, profileLock, upload,
                   finalization, scans, stream, clash, faults>>

\* openOwnerArtifact, or openParticipantArtifact of an artifact bound into the
\* participant's workflow revision.
openArtifact(a, participant) ==
    /\ stream.pc = "idle" /\ Published(a)
    /\ participant => \E b \in bound : b.artifact = a
    /\ stream' = [pc |-> "open", artifact |-> {a}, participant |-> participant,
                  got |-> <<>>, chunkCount |-> Len(chunks[a])]
    /\ UNCHANGED <<artifact, chunks, bound, scanner, attempts, profileLock, upload,
                   finalization, scans, clash, faults>>

\* pull: one chunk per call, each authorized again and checked against its
\* digest, until chunkCount of them were delivered.
streamEngineArtifact ==
    LET next == Len(stream.got)
        a == CHOOSE b \in Artifacts : b \in stream.artifact
    IN  /\ stream.pc = "open"
        /\ IF next >= stream.chunkCount
           THEN stream' = [stream EXCEPT !.pc = "closed"]
           ELSE stream' = [stream EXCEPT !.got = Append(@, chunks[a][next + 1])]
        /\ UNCHANGED <<artifact, chunks, bound, scanner, attempts, profileLock,
                       upload, finalization, scans, clash, faults>>

\* The reader's access ends between two chunks, or an answer is lost.
interruptStream ==
    /\ stream.pc = "open"
    /\ stream' = [stream EXCEPT !.pc = "error"]
    /\ UNCHANGED <<artifact, chunks, bound, scanner, attempts, profileLock, upload,
                   finalization, scans, clash, faults>>

\* The tenant disables its scanner (product store).
disableScanner ==
    /\ scanner = "active"
    /\ scanner' = "disabled"
    /\ UNCHANGED <<artifact, chunks, bound, attempts, profileLock, upload,
                   finalization, scans, stream, clash, faults>>

GatewayStep(i) ==
    scan(i) \/ streamArtifactChunks(i) \/ validateScannerResponse(i) \/ insertAttempt(i)

ArtifactNext ==
    \/ \E a \in Artifacts :
          \/ \E doc \in Docs, r \in {{}} \cup {{b} : b \in Artifacts} : assertArtifactCapacity(a, doc, r)
          \/ createArtifact(a) \/ appendChunk(a) \/ refuseChunk(a)
          \/ interruptUpload(a) \/ abortArtifact(a) \/ loseAbort(a)
          \/ finalizeArtifact(a) \/ receiveVerdict(a)
          \/ resolveWorkflowArtifactBindings(a)
          \/ \E participant \in BOOLEAN : openArtifact(a, participant)
    \/ \E i \in ScanIds : GatewayStep(i)
    \/ streamEngineArtifact \/ interruptStream \/ disableScanner

ArtifactSpec == ArtifactInit /\ [][ArtifactNext]_artifactVars

\* Transactions of the engine and the gateway that can go on do go on.
ArtifactFairness ==
    /\ \A a \in Artifacts : WF_artifactVars(receiveVerdict(a))
    /\ \A i \in ScanIds : WF_artifactVars(GatewayStep(i))

(***************************************************************************)
(* Properties                                                              *)
(***************************************************************************)

(* createArtifact never meets the unique constraint of a family's revisions,  *)
(* although the revision is a plain maximum read earlier in its transaction:  *)
(* two uploads that replace one document are ordered by the profile lock.  By *)
(* the same lock the declared bytes of a tenant stay within its quota.        *)
RevisionsNeverClash == ~clash /\ UsedBytes <= ByteQuota

(* Whatever a stream has delivered is the beginning of what was published, a  *)
(* closed stream is all of it, a binding names that content, and no byte of   *)
(* it escaped inspection: the declared length, no test marker, and, when the  *)
(* artifact was published through the scanner, a recorded clean verdict on    *)
(* exactly this digest, whatever finalizations timed out or raced an abort.   *)
DeliveredAsScanned ==
    /\ \A a \in Artifacts : Published(a) =>
          /\ artifact[a].sha256 = chunks[a] /\ Len(chunks[a]) = artifact[a].expected
          /\ Marker \notin Range(chunks[a])
          /\ artifact[a].external => \E t \in attempts :
                t.artifact = {a} /\ t.sha256 = chunks[a] /\ t.verdict = "clean"
    /\ \A b \in bound : b.sha256 = chunks[b.artifact]
    /\ \A a \in stream.artifact :
          /\ Published(a) /\ IsPrefix(stream.got, artifact[a].sha256)
          /\ stream.pc = "closed" => stream.got = artifact[a].sha256

(* A finalization that waits for the scanner while it holds the artifact row  *)
(* comes to an end even when nothing times out: the gateway needs no lock the *)
(* engine holds.                                                              *)
FinalizationEnds ==
    \A a \in Artifacts : finalization[a].pc = "scanning" ~> finalization[a].pc = "none"
=============================================================================

------------------------------ MODULE MCContent ------------------------------
(***************************************************************************)
(* What requesters and participants meet: documents, workflows, telemetry, *)
(* reports and the participant's own pages, each part explored by itself:  *)
(* the parts share no state, so one behaviour exercises one of them.       *)
(***************************************************************************)
EXTENDS Artifacts, WorkflowControl, ActivityRules, TelemetryRecorder, TelemetryCredit,
        Reports, EvidenceBundle, MCAccess

VARIABLE part

MCDocs == {<<"x", "y">>, <<"eicar">>}
MCJumps == {-2, 2, 5}

authoringVars == <<artifactVars, controlVars, walkVars>>
telemetryVars == <<recorderVars, creditVars>>
readingVars == <<disclosureVars, bundleVars, accessVars>>
MCVars == <<part, authoringVars, telemetryVars, readingVars>>

\* A part that is not explored has one initial state.
MCInit ==
    /\ part \in {"artifacts", "drafts", "members", "rules", "recorder", "credit", "reports",
                 "bundle", "page", "export"}
    /\ part = "artifacts" \/ (part # "artifacts" /\ scanner = "none")
    /\ part = "rules" \/ (part # "rules" /\ workflow = <<>>
                          /\ score = [earned |-> 0, total |-> 1, passing |-> 0])
    /\ part = "recorder" \/ (part # "recorder" /\ kind = "media")
    /\ part = "bundle" \/ (part # "bundle"
                           /\ copy = buildEvidenceBundle(CHOOSE r \in Records : TRUE))
    /\ part = "page" \/ (part # "page" /\ activityStatus = "available"
          /\ terms = [scheduledFor |-> 0, expiresAt |-> MaxTime, postCompletion |-> "content_always",
                      retention |-> CHOOSE r \in Retentions : TRUE])
    /\ ArtifactInit /\ ControlInit /\ WalkInit /\ RecorderInit /\ CreditInit
    /\ ReportsInit /\ BundleInit /\ AccessInit

AuthoringNext ==
    \/ part = "artifacts" /\ ArtifactNext /\ UNCHANGED <<controlVars, walkVars>>
    \/ /\ part \in {"drafts", "members"} /\ UNCHANGED <<artifactVars, walkVars>>
       /\ \/ part = "drafts" /\ DraftNext
          \/ part = "members" /\ MemberNext
    \/ part = "rules" /\ WalkNext /\ UNCHANGED <<artifactVars, controlVars>>

TelemetryNext ==
    \/ part = "recorder" /\ RecorderNext /\ UNCHANGED creditVars
    \/ part = "credit" /\ CreditNext /\ UNCHANGED recorderVars

ReadingNext ==
    \/ part = "reports" /\ ReportsNext /\ UNCHANGED <<bundleVars, accessVars>>
    \/ part = "bundle" /\ BundleNext /\ UNCHANGED <<disclosureVars, accessVars>>
    \/ /\ part \in {"page", "export"} /\ UNCHANGED <<disclosureVars, bundleVars>>
       /\ \/ tickDay
          \/ part = "page" /\ RecordPage
          \/ part = "export" /\ DataExport

MCNext ==
    /\ UNCHANGED part
    /\ \/ AuthoringNext /\ UNCHANGED <<telemetryVars, readingVars>>
       \/ TelemetryNext /\ UNCHANGED <<authoringVars, readingVars>>
       \/ ReadingNext /\ UNCHANGED <<authoringVars, telemetryVars>>

MCSpec == MCInit /\ [][MCNext]_MCVars /\ ArtifactFairness /\ RecorderFairness
=============================================================================

-------------------------- MODULE ParticipantAccess --------------------------
(***************************************************************************)
(* What a participant is shown of one request, by whom and until when: the *)
(* history page, the receipt, the documents and the data export, decided   *)
(* by five pieces of code from the request, its access policy and its      *)
(* retention (lifecycle-store.mjs, evidence-store.mjs), while the request  *)
(* goes through its workflow, is completed, revoked or expires and the     *)
(* retention worker closes the content, the history and the delivery of    *)
(* the export.  The documents are those of one activity of the workflow.   *)
(*                                                                         *)
(* Time is in days.  A deadline of Never stands for null.                  *)
(***************************************************************************)
EXTENDS Naturals, FiniteSets, FiniteSetsExt, Sequences

CONSTANTS
    MaxTime,        \* bound: days
    Retentions,     \* retention policies: [mode, days, historyDays]
    Organizations,  \* tenants with records of the participant
    DeliveryDays,   \* how long an export is delivered
    ReviewDays,     \* how long a data request lives
    ExportChunks,   \* chunks of the export
    MaxDownloads    \* bound: downloads and documents opened

Never == 2 * MaxTime + DeliveryDays + ReviewDays

ASSUME AccessAssumption ==
    /\ {MaxTime, DeliveryDays, ReviewDays, MaxDownloads} \subseteq Nat
    /\ ExportChunks \in Nat \ {0}
    /\ \A r \in Retentions : /\ r.mode \in {"indefinite", "request_expiration", "days_after_terminal"}
                             /\ r.days \in Nat /\ r.historyDays \in Nat

VARIABLES
    day,            \* the engine's clock
    status,         \* participant_assignment.status
    activityStatus, \* activity_instance.status of the documents' activity
    terms,          \* [scheduledFor, expiresAt, postCompletion, retention]
    lifecycle,      \* record_lifecycle_state
    shown,          \* what the history page showed last: {} or {entry}
    viewing,        \* the document stream: chunks served, or Closed
    disclosed,      \* disclosures of content of the completed request
    review,         \* organization -> its decision on the data request
    delivery,       \* {} or {the export}
    download,       \* the participant's download of it
    served,         \* export chunks served: [sequence, at]
    downloads       \* documents and exports opened

recordVars == <<status, activityStatus, terms, lifecycle>>
pageVars == <<shown, viewing, disclosed>>
exportVars == <<review, delivery, download, served>>
accessVars == <<day, recordVars, pageVars, exportVars, downloads>>

Policies == {"receipt_only", "content_until_expiration", "content_always"}
Decisions == {"denied", "approved", "approved_with_telemetry"}
Closed == [open |-> FALSE, got |-> 0]
Earliest(a, b) == IF a < b THEN a ELSE b

-----------------------------------------------------------------------------
(* The record.                                                             *)

\* Both deadlines run from the end of the request; until there is one, from
\* its expiration.
calculateRetentionDeadlines(r, expiresAt, terminalAt) ==
    [contentExpiresAt |-> CASE r.mode = "indefinite" -> Never
                            [] r.mode = "request_expiration" -> expiresAt
                            [] OTHER -> terminalAt + r.days,
     historyExpiresAt |-> terminalAt + r.historyDays]

AccessInit ==
    /\ day = 0
    /\ \E scheduled \in 0..1, expires \in 2..MaxTime, policy \in Policies, r \in Retentions :
         LET dates == calculateRetentionDeadlines(r, expires, expires)
         IN  /\ terms = [scheduledFor |-> scheduled, expiresAt |-> expires,
                         postCompletion |-> policy, retention |-> r]
             /\ lifecycle = [contentActive |-> TRUE, historyActive |-> TRUE,
                             contentExpiresAt |-> dates.contentExpiresAt,
                             historyExpiresAt |-> dates.historyExpiresAt]
    /\ status = "issued"
    /\ activityStatus \in {"available", "pending"}
    /\ shown = {} /\ viewing = Closed /\ disclosed = {}
    /\ review = [o \in Organizations |-> "pending"]
    /\ delivery = {} /\ download = Closed /\ served = {} /\ downloads = 0

assertAssignmentAvailable ==
    /\ status \notin {"revoked", "expired"}
    /\ day < terms.expiresAt
    /\ terms.scheduledFor <= day

\* A response completes the activity that is available, leads to the next one
\* and skips those between.
respondToWorkflowActivity ==
    /\ status = "issued" /\ assertAssignmentAvailable
    /\ \/ activityStatus = "pending" /\ activityStatus' \in {"available", "skipped"}
       \/ activityStatus = "available" /\ activityStatus' = "completed"
    /\ UNCHANGED <<day, status, terms, lifecycle, pageVars, exportVars, downloads>>

\* The response that leads nowhere skips what is pending and completes the
\* request.  anchorRecordLifecycle: the deadlines run from now; what was the
\* content deadline before stands for the request's expiration.
complete ==
    /\ status = "issued" /\ assertAssignmentAvailable
    /\ status' = "completed"
    /\ activityStatus' = CASE activityStatus = "pending" -> "skipped"
                           [] activityStatus = "available" -> "completed"
                           [] OTHER -> activityStatus
    /\ LET before == IF lifecycle.contentExpiresAt = Never THEN day ELSE lifecycle.contentExpiresAt
           dates == calculateRetentionDeadlines(terms.retention, before, day)
       IN  lifecycle' = [lifecycle EXCEPT !.contentExpiresAt = dates.contentExpiresAt,
                                          !.historyExpiresAt = dates.historyExpiresAt]
    /\ UNCHANGED <<day, terms, pageVars, exportVars, downloads>>

\* The owner revokes the request, or the worker's sweep finds it expired.
close ==
    /\ status = "issued"
    /\ status' \in {"revoked"} \cup (IF terms.expiresAt <= day THEN {"expired"} ELSE {})
    /\ UNCHANGED <<day, activityStatus, terms, lifecycle, pageVars, exportVars, downloads>>

dueContent == lifecycle.contentExpiresAt <= day

\* The retention worker, whenever it gets to it.
expireContent ==
    /\ lifecycle.contentActive /\ dueContent
    /\ lifecycle' = [lifecycle EXCEPT !.contentActive = FALSE]
    /\ UNCHANGED <<day, status, activityStatus, terms, pageVars, exportVars, downloads>>

\* One thing at a time, the content first.
expireHistoryOf ==
    /\ ~(lifecycle.contentActive /\ dueContent)
    /\ lifecycle.historyActive /\ lifecycle.historyExpiresAt <= day
    /\ lifecycle' = [lifecycle EXCEPT !.historyActive = FALSE]
    /\ UNCHANGED <<day, status, activityStatus, terms, pageVars, exportVars, downloads>>

-----------------------------------------------------------------------------
(* What the participant is shown of the record.                            *)

assertLifecycleContentAvailable ==
    lifecycle.contentActive /\ day < lifecycle.contentExpiresAt
assertLifecycleHistoryAvailable ==
    lifecycle.historyActive /\ day < lifecycle.historyExpiresAt

\* The access policy as the document routes read it; before the completion the
\* workflow must have come to the activity of the documents.
assertParticipantContentAccess ==
    IF status = "completed"
    THEN \/ terms.postCompletion = "content_always"
         \/ terms.postCompletion = "content_until_expiration" /\ day < terms.expiresAt
    ELSE assertAssignmentAvailable /\ activityStatus \in {"available", "completed"}

DocumentOpens == assertLifecycleContentAvailable /\ assertParticipantContentAccess

\* Mutant: the retention of the content is not looked at.
participantHistoryContentAccess_Policy ==
    [available |-> IF status = "completed" THEN terms.postCompletion # "receipt_only"
                   ELSE status \notin {"expired", "revoked"},
     deadline |-> terms.expiresAt]

\* The access policy and the retention as the history page reads them.
participantHistoryContentAccess ==
    LET completed == status = "completed"
        policyAllows == IF completed THEN terms.postCompletion # "receipt_only"
                        ELSE status \notin {"expired", "revoked"}
        policyDeadline == IF completed /\ terms.postCompletion # "content_until_expiration"
                          THEN Never ELSE terms.expiresAt
        deadline == Earliest(policyDeadline, lifecycle.contentExpiresAt)
    IN  [available |-> /\ policyAllows
                       /\ lifecycle.contentActive /\ day < lifecycle.contentExpiresAt
                       /\ day < deadline,
         deadline |-> deadline]

participantHistoryProjection ==
    [completed |-> status = "completed", access |-> participantHistoryContentAccess]

\* The page lists what is not expired yet, and for each entry whether its
\* content is available, and until when.
listParticipantHistory ==
    /\ shown' = IF assertLifecycleHistoryAvailable THEN {participantHistoryProjection} ELSE {}
    /\ UNCHANGED <<day, recordVars, viewing, disclosed, exportVars, downloads>>

Disclosed(where) ==
    disclosed' = IF status # "completed" THEN disclosed
                 ELSE disclosed \cup {[where |-> where, retained |-> assertLifecycleContentAvailable,
                                       allowed |-> assertParticipantContentAccess]}

\* The receipt of a completed request, with the activities of its workflow when
\* the access policy allows them.
participantReceipt ==
    /\ status = "completed" /\ assertLifecycleHistoryAvailable
    /\ IF assertParticipantContentAccess THEN Disclosed("receipt") ELSE UNCHANGED disclosed
    /\ UNCHANGED <<day, recordVars, shown, viewing, exportVars, downloads>>

openParticipantArtifact ==
    /\ DocumentOpens /\ ~viewing.open /\ downloads < MaxDownloads
    /\ viewing' = [open |-> TRUE, got |-> 0]
    /\ downloads' = downloads + 1
    /\ Disclosed("document")
    /\ UNCHANGED <<day, recordVars, shown, exportVars>>

\* Each chunk is authorized anew; a refusal breaks the stream.
readParticipantArtifactChunk ==
    /\ viewing.open
    /\ IF DocumentOpens /\ viewing.got < ExportChunks
       THEN viewing' = [viewing EXCEPT !.got = @ + 1] /\ Disclosed("document")
       ELSE viewing' = Closed /\ UNCHANGED disclosed
    /\ UNCHANGED <<day, recordVars, shown, exportVars, downloads>>

-----------------------------------------------------------------------------
(* The data export: what it holds and how long it is delivered.            *)

\* The events of a record by their actor, and the fields a payload may have.
Sources == {"participant", "organization", "worker"}
Excluded == {"answerKey", "content"}
Technical == {"clientContext", "requestContext"}
Fields == Excluded \cup Technical \cup {"response"}

sanitizeParticipantValue(fields, telemetry) ==
    fields \ (Excluded \cup (IF telemetry THEN {} ELSE Technical))

\* Only the participant's own payloads are handed out.
participantDataEvent(actor, telemetry) ==
    IF actor = "participant" THEN sanitizeParticipantValue(Fields, telemetry) ELSE {}

\* What of one record goes into the export, telemetry only where it was approved.
loadParticipantDataRecord(o, telemetry) ==
    UNION {{[organization |-> o, actor |-> a, field |-> f] : f \in participantDataEvent(a, telemetry)} :
           a \in Sources}

\* The worker builds the export when the last review is in, from the scopes that
\* were approved; it is delivered for DeliveryDays, and no longer than the
\* request lives.
persistParticipantDataExport(parts) ==
    {[parts |-> parts, deleted |-> FALSE, createdAt |-> day,
      expiresAt |-> Min({day + DeliveryDays, ReviewDays})]}

reviewScope(o, decision) ==
    /\ review[o] = "pending" /\ day < ReviewDays
    /\ review' = [review EXCEPT ![o] = decision]
    /\ UNCHANGED <<day, recordVars, pageVars, delivery, download, served, downloads>>

Approved == {o \in Organizations : review[o] \in {"approved", "approved_with_telemetry"}}

buildParticipantDataExport ==
    UNION {loadParticipantDataRecord(o, review[o] = "approved_with_telemetry") : o \in Approved}

prepareExport ==
    /\ delivery = {} /\ Approved # {} /\ day < ReviewDays
    /\ \A o \in Organizations : review[o] # "pending"
    /\ delivery' = persistParticipantDataExport(buildParticipantDataExport)
    /\ UNCHANGED <<day, recordVars, pageVars, review, download, served, downloads>>

participantDataExport(e) == ~e.deleted /\ day < e.expiresAt

\* The request must be alive and ready, the export not expired.
openParticipantDataExport ==
    /\ \E e \in delivery : participantDataExport(e)
    /\ day < ReviewDays /\ ~download.open /\ downloads < MaxDownloads
    /\ download' = [open |-> TRUE, got |-> 0]
    /\ downloads' = downloads + 1
    /\ UNCHANGED <<day, recordVars, pageVars, review, delivery, served>>

\* A chunk asks for the export's own deadline only; the last one records the
\* download, anything else breaks the stream.
readParticipantDataExportChunk ==
    /\ download.open
    /\ LET granted == download.got < ExportChunks /\ \E e \in delivery : participantDataExport(e)
       IN  /\ download' = IF granted /\ download.got + 1 < ExportChunks
                          THEN [download EXCEPT !.got = @ + 1] ELSE Closed
           /\ served' = IF granted THEN served \cup {[sequence |-> download.got, at |-> day]} ELSE served
    /\ UNCHANGED <<day, recordVars, pageVars, review, delivery, downloads>>

\* expire_participant_data_export deletes the chunks at the export's deadline.
expireExport ==
    /\ \E e \in delivery : ~e.deleted /\ e.expiresAt <= day
    /\ delivery' = {[e EXCEPT !.deleted = TRUE, !.parts = {}] : e \in delivery}
    /\ UNCHANGED <<day, recordVars, pageVars, review, download, served, downloads>>

tickDay ==
    /\ day < MaxTime
    /\ day' = day + 1
    /\ UNCHANGED <<recordVars, pageVars, exportVars, downloads>>

RecordPage ==
    \/ respondToWorkflowActivity \/ complete \/ close \/ expireContent \/ expireHistoryOf
    \/ listParticipantHistory \/ participantReceipt
    \/ openParticipantArtifact \/ readParticipantArtifactChunk

DataExport ==
    \/ \E o \in Organizations, d \in Decisions : reviewScope(o, d)
    \/ prepareExport \/ openParticipantDataExport \/ readParticipantDataExportChunk
    \/ expireExport

AccessNext == tickDay \/ RecordPage \/ DataExport

AccessSpec == AccessInit /\ [][AccessNext]_accessVars

-----------------------------------------------------------------------------
(* Properties.                                                             *)

(* The history page and the document routes, which decide separately, agree:  *)
(* what opens is called available while the entry is listed, and what the     *)
(* page calls available opens, but for two conditions the page does not       *)
(* have: the request is to begin later, or, before it is completed, its       *)
(* workflow has not come to the documents or has passed them by.              *)
HistoryHonest ==
    assertLifecycleHistoryAvailable =>
        /\ participantHistoryContentAccess.available =>
             \/ DocumentOpens
             \/ day < terms.scheduledFor
             \/ status # "completed" /\ activityStatus \in {"pending", "skipped"}
        /\ DocumentOpens => participantHistoryContentAccess.available

(* A deadline the page has shown for the content of a completed request is    *)
(* kept: until then the documents open, whatever the worker has closed since. *)
DeadlineKept ==
    \A entry \in shown :
        entry.completed /\ entry.access.available /\ day < entry.access.deadline => DocumentOpens

(* No chunk of the export is served once either window is over, the days it   *)
(* is delivered from its creation or the life of the request, although        *)
(* reading a chunk looks at the deadline of the export only; and the export   *)
(* holds nothing of an organization that did not approve, no telemetry        *)
(* without its approval and no other party's data.                            *)
DeliveredAsApproved ==
    /\ \A s \in served : s.at < ReviewDays /\ \E e \in delivery : s.at < e.createdAt + DeliveryDays
    /\ \A e \in delivery : \A part \in e.parts :
         /\ part.organization \in Approved /\ part.actor = "participant"
         /\ part.field \notin Excluded
         /\ part.field \in Technical => review[part.organization] = "approved_with_telemetry"

(* What the participant is told and given of the request is honest: the page   *)
(* about the content, now and until the deadline it showed, and the export     *)
(* about what was approved and for how long.                                   *)
AccessHonest == HistoryHonest /\ DeadlineKept /\ DeliveredAsApproved

(* Content availability is an intersection: whatever shows the content of a   *)
(* completed request shows it only while its access policy allows it and its  *)
(* retention keeps it.                                                        *)
ContentIntersection == \A d \in disclosed : d.allowed /\ d.retained
=============================================================================

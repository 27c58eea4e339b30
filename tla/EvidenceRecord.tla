--------------------------- MODULE EvidenceRecord ---------------------------
(***************************************************************************)
(* One tenant's evidence records: a request, its participant assignment,   *)
(* the activities of the published workflow it was issued from, the        *)
(* interaction sessions of the participant, the responses, and the         *)
(* hash-chained evidence events that a completed record seals in its       *)
(* manifest (services/engine/evidence-store.mjs, evidence-events.mjs, the  *)
(* participant telemetry stores and the worker's lifecycle sweep).         *)
(*                                                                         *)
(* Every handler runs in one transaction that first locks the assignment   *)
(* and the request row FOR UPDATE, so each is one action; a handler that   *)
(* throws is rolled back and is no step.  The outbox the handlers also     *)
(* write is the module NotificationOutbox.                                 *)
(***************************************************************************)
EXTENDS Integers, Sequences, FiniteSets

CONSTANTS
  Records,      \* request_instance rows with their single assignment
  Principals,   \* V.Sign principals whose verified email is the intended one
  Sessions,     \* gateway sessions
  Owner,        \* the principal of a gateway session
  Workflows,    \* workflow revisions requests are issued from
  Plan,         \* the activities of a revision; << >> for a plain terms request
  Outcomes,     \* response outcomes a branch can compare
  Commands,     \* client supplied command identifiers
  None,         \* SQL null
  MaxEvents     \* bound: optional evidence events are recorded below this length

ActivityTypes == {"terms_response", "document_review", "external_media"}

\* A destination of a branch: an ordinal, or 0 for the terminal outcome (null).
Ordinals(w) == 1 .. Len(Plan[w])

\* "default" is None when the author declared no defaultTo.
ASSUME PlanAssumption ==
  /\ Owner \in [Sessions -> Principals]
  /\ None \notin Principals \cup Records
  /\ DOMAIN Plan = Workflows
  /\ \A w \in Workflows :
       /\ Len(Plan[w]) \in Nat
       /\ DOMAIN Plan[w] = Ordinals(w)
       /\ \A n \in Ordinals(w) :
            LET a == Plan[w][n]
                Forward == {0} \cup {d \in Ordinals(w) : d > n}
            IN  /\ a.type \in ActivityTypes
                /\ DOMAIN a.cases \subseteq Outcomes
                /\ \A o \in DOMAIN a.cases : a.cases[o] \in Forward
                /\ a.default \in Forward \cup {None}

ASSUME BoundAssumption == MaxEvents \in Nat

VARIABLES
  request,       \* status, workflow revision, and whether scheduledFor / expiresAt passed
  assignment,    \* status and bound principal
  activity,      \* status of each activity_instance, by ordinal
  interactions,  \* interaction_session rows in the order they were opened
  answers,       \* response revisions (saved and submitted) in the order recorded
  accesses,      \* document_artifact_access_event: <<ordinal, principal>>
  playback,      \* ordinals whose latest media summary says completionMet
  ledger,        \* evidence_event rows and the evidence_chain_head row
  manifest,      \* evidence_manifest with its seal
  commands,      \* idempotency keys of request_lifecycle_event
  reissuedFrom   \* reissuedFromRequestId

vars == <<request, assignment, activity, interactions, answers, accesses,
          playback, ledger, manifest, commands, reissuedFrom>>

-----------------------------------------------------------------------------
(* Rows *)

Open == {"scheduled", "issued", "in_progress"}
Closed == {"completed", "revoked", "expired"}
Actors == Principals \cup {"requester", "vasi-worker"}

Types ==
  {"request.scheduled", "request.issued", "request.revoked", "request.reissued",
   "request.expired", "participant.opened", "participant.responded",
   "activity.response.saved", "activity.response.submitted", "activity.completed",
   "document.presented", "media.telemetry.recorded",
   "activity.interaction.recorded", "participant.context.recorded"}

\* What the canonical event data says, besides its place in the chain.
Facts == [type : Types, ordinal : Nat, actor : Actors]

\* SHA-256 of the canonical event data, idealised: it determines the event and,
\* through previousHash, everything before it.
Hashes == Seq(Facts)
GENESIS_HASH == <<>>
EventRows == [sequence : Nat, fact : Facts, previousHash : Hashes]
EventHash(e) == Append(e.previousHash, e.fact)

Fact(type, n, actor) == [type |-> type, ordinal |-> n, actor |-> actor]

NoLedger == [events |-> <<>>, lastSequence |-> 0, lastHash |-> GENESIS_HASH]

appendEvent(l, fact) ==
  LET e == [sequence |-> l.lastSequence + 1, fact |-> fact, previousHash |-> l.lastHash]
  IN  [events |-> Append(l.events, e), lastSequence |-> e.sequence, lastHash |-> EventHash(e)]

\* Mutant: the worker changes the request without an event.
WorkerEventDropped(l, type) == l

\* The worker has its own copy of the same append.
appendWorkerEvent(l, type) ==
  LET e == [sequence |-> l.lastSequence + 1,
            fact |-> Fact(type, 0, "vasi-worker"), previousHash |-> l.lastHash]
  IN  [events |-> Append(l.events, e), lastSequence |-> e.sequence, lastHash |-> EventHash(e)]

NoManifest == [sealed |-> FALSE, eventHashes |-> <<>>, outcome |-> {}]

-----------------------------------------------------------------------------
(* Guards the handlers share *)

Status(r) == request[r].status

authorizeParticipant(r, p) == assignment[r].principal \in {None, p}

assertAssignmentAvailable(r) ==
  /\ "revoked" \notin {assignment[r].status, Status(r)}
  /\ "expired" \notin {assignment[r].status, Status(r)}
  /\ ~request[r].lapsed
  /\ request[r].due

\* Mutant: only the dates are looked at.
AvailableByDates(r) == ~request[r].lapsed /\ request[r].due

\* The stricter form of the telemetry stores, which also refuse a completed record.
assertActivityAvailable(r) ==
  /\ assertAssignmentAvailable(r)
  /\ "completed" \notin {assignment[r].status, Status(r)}

currentActivity(r) ==
  CHOOSE n \in DOMAIN activity[r] :
    /\ activity[r][n] = "available"
    /\ \A k \in 1 .. n - 1 : activity[r][k] # "available"

HasCurrentActivity(r) == \E n \in DOMAIN activity[r] : activity[r][n] = "available"

OpenInteraction(r, i, p) ==
  /\ i \in DOMAIN interactions[r]
  /\ interactions[r][i].principal = p
  /\ interactions[r][i].open

\* A response command is new: commandId is unique over every record.
FreshCommand(c) == \A r \in Records : \A k \in DOMAIN answers[r] : answers[r][k].command # c

Room(r) == Len(ledger[r].events) < MaxEvents

Present(r, n, p) == <<n, p>> \in accesses[r]

-----------------------------------------------------------------------------
(* The branch taken after an activity *)

evaluateNextActivity(w, n, outcome) ==
  LET a == Plan[w][n] IN
  IF outcome \in DOMAIN a.cases THEN a.cases[outcome]
  ELSE IF a.default # None THEN a.default
  ELSE IF n < Len(Plan[w]) THEN n + 1 ELSE 0

\* Mutant: a terminal outcome leaves the bypassed activities pending.
AdvanceWithoutFinalSkip(rows, n, target) ==
  [k \in DOMAIN rows |->
     IF k = n THEN "completed"
     ELSE IF rows[k] # "pending" THEN rows[k]
     ELSE IF k = target THEN "available"
     ELSE IF k < target THEN "skipped"
     ELSE "pending"]

\* The activity rows after n was completed and the branch led to target.
AdvanceActivities(rows, n, target) ==
  [k \in DOMAIN rows |->
     IF k = n THEN "completed"
     ELSE IF rows[k] # "pending" THEN rows[k]
     ELSE IF k = target THEN "available"
     ELSE IF target = 0 \/ k < target THEN "skipped"
     ELSE "pending"]

-----------------------------------------------------------------------------
(* Verification and sealing *)

\* The event types for which the verifier demands an authentication evaluation.
AssuranceTypes ==
  {"activity.response.saved", "activity.response.submitted", "document.presented",
   "media.telemetry.recorded", "participant.opened", "participant.responded"}

verifyEventChain(l, m) ==
  /\ l.events # <<>>
  /\ \A k \in DOMAIN l.events :
       /\ l.events[k].sequence = k
       /\ l.events[k].previousHash =
            IF k = 1 THEN GENESIS_HASH ELSE EventHash(l.events[k - 1])
  /\ m.eventHashes = [k \in DOMAIN l.events |-> EventHash(l.events[k])]

verifyAuthenticationAssuranceEvidence(l, p) ==
  \A k \in DOMAIN l.events :
    l.events[k].fact.type \in AssuranceTypes => l.events[k].fact.actor = p

\* Only the manifest of a workflow record carries the assurance evidence.
verifyEvidenceRecord(w, l, m, p) ==
  /\ verifyEventChain(l, m)
  /\ Plan[w] # <<>> => verifyAuthenticationAssuranceEvidence(l, p)

Submitted(rows) == {k \in DOMAIN rows : rows[k].state = "submitted"}

buildWorkflowManifest(l, rows) ==
  [sealed |-> TRUE,
   eventHashes |-> [k \in DOMAIN l.events |-> EventHash(l.events[k])],
   outcome |-> {<<rows[k].ordinal, rows[k].outcome>> : k \in Submitted(rows)}]

\* Mutant: the request row is not completed with its assignment.
SealAssignmentOnly(r, i, p, l, rows) ==
  LET m == buildWorkflowManifest(l, rows) IN
  /\ verifyEvidenceRecord(request[r].workflow, l, m, p)
  /\ interactions' = [interactions EXCEPT ![r][i].open = FALSE]
  /\ assignment' = [assignment EXCEPT ![r].status = "completed"]
  /\ manifest' = [manifest EXCEPT ![r] = m]
  /\ UNCHANGED request

\* The statements every completion ends with: the interaction, the assignment
\* and the request are closed, the manifest is built over all events, sealed,
\* and verified before the commit.
CompleteAndSeal(r, i, p, l, rows) ==
  LET m == buildWorkflowManifest(l, rows) IN
  /\ verifyEvidenceRecord(request[r].workflow, l, m, p)
  /\ interactions' = [interactions EXCEPT ![r][i].open = FALSE]
  /\ assignment' = [assignment EXCEPT ![r].status = "completed"]
  /\ request' = [request EXCEPT ![r].status = "completed"]
  /\ manifest' = [manifest EXCEPT ![r] = m]

-----------------------------------------------------------------------------
(* Issuing *)

Unissued == [status |-> "none", workflow |-> None, due |-> FALSE, lapsed |-> FALSE]

NewRequest(w, st) == [status |-> st, workflow |-> w, due |-> st = "issued", lapsed |-> FALSE]

NewActivities(w) == [n \in Ordinals(w) |-> IF n = 1 THEN "available" ELSE "pending"]

\* A terms request is issued at once; a published workflow may be scheduled.
issueRequest(r, w, scheduled) ==
  LET st == IF scheduled THEN "scheduled" ELSE "issued" IN
  /\ Status(r) = "none"
  /\ scheduled => Plan[w] # <<>>
  /\ request' = [request EXCEPT ![r] = NewRequest(w, st)]
  /\ assignment' = [assignment EXCEPT ![r].status = st]
  /\ activity' = [activity EXCEPT ![r] = NewActivities(w)]
  /\ ledger' = [ledger EXCEPT ![r] =
                  appendEvent(NoLedger, Fact(IF scheduled THEN "request.scheduled"
                                             ELSE "request.issued", 0, "requester"))]
  /\ UNCHANGED <<interactions, answers, accesses, playback, manifest, commands, reissuedFrom>>

-----------------------------------------------------------------------------
(* The participant *)

\* The rows after session s of p opened the record: an open interaction of p is
\* kept when it is of the same session and otherwise closed and replaced.
SameSession(r, s) ==
  \E i \in DOMAIN interactions[r] :
    OpenInteraction(r, i, Owner[s]) /\ interactions[r][i].session = s

Superseded(r, p) ==
  [i \in DOMAIN interactions[r] |->
     [interactions[r][i] EXCEPT !.open = @ /\ interactions[r][i].principal # p]]

openAssignment(r, s) ==
  LET p == Owner[s]
      binds == assignment[r].principal = None
      released(st) == IF Status(r) = "scheduled" THEN "issued" ELSE st
  IN
  /\ assignment[r].status \notin {"none", "completed"}
  /\ authorizeParticipant(r, p)
  /\ assertAssignmentAvailable(r)
  /\ Plan[request[r].workflow] # <<>> => HasCurrentActivity(r)
  /\ request' = [request EXCEPT ![r].status =
                   IF binds /\ released(@) = "issued" THEN "in_progress" ELSE released(@)]
  /\ assignment' = [assignment EXCEPT ![r] =
                      IF binds THEN [status |-> "in_progress", principal |-> p]
                      ELSE [assignment[r] EXCEPT !.status = released(assignment[r].status)]]
  /\ \/ /\ SameSession(r, s)
        /\ UNCHANGED <<interactions, ledger>>
     \/ /\ ~SameSession(r, s)
        /\ Room(r)
        /\ interactions' = [interactions EXCEPT ![r] =
                              Append(Superseded(r, p),
                                     [principal |-> p, session |-> s, open |-> TRUE])]
        /\ ledger' = [ledger EXCEPT ![r] = appendEvent(@, Fact("participant.opened", 0, p))]
  /\ UNCHANGED <<activity, answers, accesses, playback, manifest, commands, reissuedFrom>>

\* The guards respond takes before it looks at the kind of request.
MayRespond(r, i, p, c) ==
  /\ assignment[r].status \notin {"none", "completed"}
  /\ authorizeParticipant(r, p)
  /\ assertAssignmentAvailable(r)
  /\ OpenInteraction(r, i, p)
  /\ FreshCommand(c)

Answer(n, c, st, o, i) ==
  [ordinal |-> n, command |-> c, state |-> st, outcome |-> o, interaction |-> i]

\* The single response of a terms request completes and seals it.
respond(r, i, p, c, o) ==
  LET l == appendEvent(ledger[r], Fact("participant.responded", 0, p))
      rows == Append(answers[r], Answer(0, c, "submitted", o, i))
  IN
  /\ MayRespond(r, i, p, c)
  /\ Plan[request[r].workflow] = <<>>
  /\ answers' = [answers EXCEPT ![r] = rows]
  /\ ledger' = [ledger EXCEPT ![r] = l]
  /\ CompleteAndSeal(r, i, p, l, rows)
  /\ UNCHANGED <<activity, accesses, playback, commands, reissuedFrom>>

\* respondToWorkflowActivity with the intent "save".
saveActivityResponse(r, i, p, c, o) ==
  LET n == currentActivity(r) IN
  /\ MayRespond(r, i, p, c)
  /\ HasCurrentActivity(r)
  /\ Room(r)
  /\ answers' = [answers EXCEPT ![r] = Append(@, Answer(n, c, "saved", o, i))]
  /\ ledger' = [ledger EXCEPT ![r] = appendEvent(@, Fact("activity.response.saved", n, p))]
  /\ UNCHANGED <<request, assignment, activity, interactions, accesses, playback,
                 manifest, commands, reissuedFrom>>

\* What a submission of activity n needs beside a valid response.
assertSubmittable(r, n, p, method) ==
  /\ Plan[request[r].workflow][n].type = "document_review" => Present(r, n, p)
  /\ (Plan[request[r].workflow][n].type = "external_media" /\ method = "playback")
        => n \in playback[r]

\* respondToWorkflowActivity with the intent "submit": the activity is
\* completed, the branch evaluated, and the record sealed when it is terminal.
submitActivityResponse(r, i, p, c, o, method) ==
  LET n == currentActivity(r)
      target == evaluateNextActivity(request[r].workflow, n, o)
      rows == Append(answers[r], Answer(n, c, "submitted", o, i))
      l == appendEvent(appendEvent(ledger[r], Fact("activity.response.submitted", n, p)),
                       Fact("activity.completed", n, p))
  IN
  /\ MayRespond(r, i, p, c)
  /\ HasCurrentActivity(r)
  /\ assertSubmittable(r, n, p, method)
  /\ target # 0 => activity[r][target] = "pending"
  /\ answers' = [answers EXCEPT ![r] = rows]
  /\ activity' = [activity EXCEPT ![r] = AdvanceActivities(@, n, target)]
  /\ ledger' = [ledger EXCEPT ![r] = l]
  /\ \/ /\ target = 0
        /\ CompleteAndSeal(r, i, p, l, rows)
     \/ /\ target # 0
        /\ UNCHANGED <<request, assignment, interactions, manifest>>
  /\ UNCHANGED <<accesses, playback, commands, reissuedFrom>>

\* A document is presented or downloaded.  No interaction and no binding is
\* needed; a completed record only gets the access row, when its policy still
\* shows the content.
openParticipantArtifact(r, n, p) ==
  /\ Status(r) # "none"
  /\ n \in DOMAIN activity[r]
  /\ Plan[request[r].workflow][n].type = "document_review"
  /\ authorizeParticipant(r, p)
  /\ accesses' = [accesses EXCEPT ![r] = @ \cup {<<n, p>>}]
  /\ \/ /\ "completed" \in {Status(r), assignment[r].status}
        /\ UNCHANGED ledger
     \/ /\ "completed" \notin {Status(r), assignment[r].status}
        /\ assertAssignmentAvailable(r)
        /\ activity[r][n] \in {"available", "completed"}
        /\ Room(r)
        /\ ledger' = [ledger EXCEPT ![r] = appendEvent(@, Fact("document.presented", n, p))]
  /\ UNCHANGED <<request, assignment, activity, interactions, answers, playback,
                 manifest, commands, reissuedFrom>>

\* What the three telemetry handlers require before they accept a batch.
MayReport(r, n, i, p) ==
  /\ Status(r) # "none"
  /\ n \in DOMAIN activity[r]
  /\ i \in DOMAIN interactions[r] /\ interactions[r][i].principal = p
  /\ authorizeParticipant(r, p)
  /\ assertActivityAvailable(r)
  /\ activity[r][n] = "available"
  /\ interactions[r][i].open
  /\ Room(r)

\* A media telemetry batch: the summary is recalculated over all batches, and
\* only its playback.completionMet matters to a submission.
recordMediaEvents(r, n, i, p, met) ==
  /\ MayReport(r, n, i, p)
  /\ Plan[request[r].workflow][n].type = "external_media"
  /\ playback' = [playback EXCEPT ![r] = IF met THEN @ \cup {n} ELSE @ \ {n}]
  /\ ledger' = [ledger EXCEPT ![r] = appendEvent(@, Fact("media.telemetry.recorded", n, p))]
  /\ UNCHANGED <<request, assignment, activity, interactions, answers, accesses,
                 manifest, commands, reissuedFrom>>

recordInteractionEvents(r, n, i, p) ==
  /\ MayReport(r, n, i, p)
  /\ ledger' = [ledger EXCEPT ![r] = appendEvent(@, Fact("activity.interaction.recorded", n, p))]
  /\ UNCHANGED <<request, assignment, activity, interactions, answers, accesses, playback,
                 manifest, commands, reissuedFrom>>

recordParticipantContext(r, n, i, p) ==
  /\ MayReport(r, n, i, p)
  /\ ledger' = [ledger EXCEPT ![r] = appendEvent(@, Fact("participant.context.recorded", n, p))]
  /\ UNCHANGED <<request, assignment, activity, interactions, answers, accesses, playback,
                 manifest, commands, reissuedFrom>>

-----------------------------------------------------------------------------
(* The requester and the production stop *)

Revoked(r, type) ==
  /\ request' = [request EXCEPT ![r].status = "revoked"]
  /\ assignment' = [assignment EXCEPT ![r].status = "revoked"]
  /\ ledger' = [ledger EXCEPT ![r] = appendEvent(@, Fact(type, 0, "requester"))]

revokeRequest(r, c) ==
  /\ c \notin commands
  /\ Status(r) \in Open
  /\ Revoked(r, "request.revoked")
  /\ commands' = commands \cup {c}
  /\ UNCHANGED <<activity, interactions, answers, accesses, playback, manifest, reissuedFrom>>

\* The old record is revoked and a new one issued from the same revision in one
\* transaction; issuePublishedRequest refuses a terms request.
reissueRequest(r, c, new) ==
  LET w == request[r].workflow IN
  /\ c \notin commands
  /\ Status(r) \in Open
  /\ Status(new) = "none"
  /\ Plan[w] # <<>>
  /\ request' = [request EXCEPT ![r].status = "revoked", ![new] = NewRequest(w, "issued")]
  /\ assignment' = [assignment EXCEPT ![r].status = "revoked", ![new].status = "issued"]
  /\ activity' = [activity EXCEPT ![new] = NewActivities(w)]
  /\ ledger' = [ledger EXCEPT
                  ![r] = appendEvent(@, Fact("request.reissued", 0, "requester")),
                  ![new] = appendEvent(NoLedger, Fact("request.issued", 0, "requester"))]
  /\ reissuedFrom' = [reissuedFrom EXCEPT ![new] = r]
  /\ commands' = commands \cup {c}
  /\ UNCHANGED <<interactions, answers, accesses, playback, manifest>>

remindRequest(r, c) ==
  /\ c \notin commands
  /\ Status(r) \in Open
  /\ commands' = commands \cup {c}
  /\ UNCHANGED <<request, assignment, activity, interactions, answers, accesses, playback,
                 ledger, manifest, reissuedFrom>>

\* A tenant production stop revokes every open record in one transaction.
stopTenantProduction ==
  LET open == {r \in Records : Status(r) \in Open} IN
  /\ open # {}
  /\ request' = [r \in Records |->
                   IF r \in open THEN [request[r] EXCEPT !.status = "revoked"] ELSE request[r]]
  /\ assignment' = [r \in Records |->
                      IF r \in open THEN [assignment[r] EXCEPT !.status = "revoked"]
                      ELSE assignment[r]]
  /\ ledger' = [r \in Records |->
                  IF r \in open
                  THEN appendEvent(ledger[r], Fact("request.revoked", 0, "requester"))
                  ELSE ledger[r]]
  /\ UNCHANGED <<activity, interactions, answers, accesses, playback, manifest,
                 commands, reissuedFrom>>

-----------------------------------------------------------------------------
(* Time and the worker *)

ReachSchedule(r) ==
  /\ Status(r) = "scheduled"
  /\ ~request[r].due
  /\ request' = [request EXCEPT ![r].due = TRUE]
  /\ UNCHANGED <<assignment, activity, interactions, answers, accesses, playback, ledger,
                 manifest, commands, reissuedFrom>>

Lapse(r) ==
  /\ Status(r) # "none"
  /\ request[r].due
  /\ ~request[r].lapsed
  /\ request' = [request EXCEPT ![r].lapsed = TRUE]
  /\ UNCHANGED <<assignment, activity, interactions, answers, accesses, playback, ledger,
                 manifest, commands, reissuedFrom>>

\* Mutant: the sweep forgets records that are in progress.
AdvanceUnopened(r) ==
  LET next == IF request[r].lapsed THEN "expired" ELSE "issued" IN
  /\ \/ Status(r) = "scheduled" /\ request[r].due
     \/ Status(r) \in {"scheduled", "issued"} /\ request[r].lapsed
  /\ request' = [request EXCEPT ![r].status = next]
  /\ assignment' = [assignment EXCEPT ![r].status = next]
  /\ ledger' = [ledger EXCEPT ![r] = appendWorkerEvent(@, IF next = "expired" THEN "request.expired"
                                                    ELSE "request.issued")]
  /\ UNCHANGED <<activity, interactions, answers, accesses, playback, manifest,
                 commands, reissuedFrom>>

\* The worker's sweep: expiry comes before issuing a scheduled record.
advanceOneLifecycle(r) ==
  LET next == IF request[r].lapsed THEN "expired" ELSE "issued" IN
  /\ \/ Status(r) = "scheduled" /\ request[r].due
     \/ Status(r) \in Open /\ request[r].lapsed
  /\ request' = [request EXCEPT ![r].status = next]
  /\ assignment' = [assignment EXCEPT ![r].status = next]
  /\ ledger' = [ledger EXCEPT ![r] = appendWorkerEvent(@, IF next = "expired" THEN "request.expired"
                                                    ELSE "request.issued")]
  /\ UNCHANGED <<activity, interactions, answers, accesses, playback, manifest,
                 commands, reissuedFrom>>

-----------------------------------------------------------------------------

Init ==
  /\ request = [r \in Records |-> Unissued]
  /\ assignment = [r \in Records |-> [status |-> "none", principal |-> None]]
  /\ activity = [r \in Records |-> <<>>]
  /\ interactions = [r \in Records |-> <<>>]
  /\ answers = [r \in Records |-> <<>>]
  /\ accesses = [r \in Records |-> {}]
  /\ playback = [r \in Records |-> {}]
  /\ ledger = [r \in Records |-> NoLedger]
  /\ manifest = [r \in Records |-> NoManifest]
  /\ commands = {}
  /\ reissuedFrom = [r \in Records |-> None]

Issuing == \E r \in Records, w \in Workflows, sch \in BOOLEAN : issueRequest(r, w, sch)

Responding(r) ==
  \E i \in DOMAIN interactions[r], p \in Principals, c \in Commands, o \in Outcomes :
    \/ respond(r, i, p, c, o)
    \/ saveActivityResponse(r, i, p, c, o)
    \/ \E method \in {"playback", "acknowledgement"} :
         submitActivityResponse(r, i, p, c, o, method)

Reporting(r) ==
  \E n \in DOMAIN activity[r], p \in Principals :
    \/ openParticipantArtifact(r, n, p)
    \/ \E i \in DOMAIN interactions[r] :
         \/ \E met \in BOOLEAN : recordMediaEvents(r, n, i, p, met)
         \/ recordInteractionEvents(r, n, i, p)
         \/ recordParticipantContext(r, n, i, p)

Requesting(r) ==
  \E c \in Commands :
    \/ revokeRequest(r, c)
    \/ remindRequest(r, c)
    \/ \E new \in Records : reissueRequest(r, c, new)

Next ==
  \/ Issuing
  \/ stopTenantProduction
  \/ \E r \in Records :
       \/ \E s \in Sessions : openAssignment(r, s)
       \/ Responding(r)
       \/ Reporting(r)
       \/ Requesting(r)
       \/ ReachSchedule(r)
       \/ Lapse(r)
       \/ advanceOneLifecycle(r)

Spec == Init /\ [][Next]_vars

\* Time passes, and the worker's sweep takes the earliest expired record at
\* every poll; nothing is assumed of participants and requesters.
FairSpec ==
  /\ Spec
  /\ \A r \in Records :
       /\ WF_vars(ReachSchedule(r))
       /\ WF_vars(Lapse(r))
       /\ WF_vars(advanceOneLifecycle(r))
-----------------------------------------------------------------------------
(* Properties *)

Statuses == {"none"} \cup Open \cup Closed

TypeOK ==
  /\ request \in [Records -> [status : Statuses, workflow : Workflows \cup {None},
                              due : BOOLEAN, lapsed : BOOLEAN]]
  /\ assignment \in [Records -> [status : Statuses, principal : Principals \cup {None}]]
  /\ activity \in [Records -> Seq({"pending", "available", "completed", "skipped"})]
  /\ interactions \in [Records -> Seq([principal : Principals, session : Sessions,
                                       open : BOOLEAN])]
  /\ answers \in [Records -> Seq([ordinal : Nat, command : Commands,
                                  state : {"saved", "submitted"}, outcome : Outcomes,
                                  interaction : Nat])]
  /\ accesses \in [Records -> SUBSET (Nat \X Principals)]
  /\ playback \in [Records -> SUBSET Nat]
  /\ ledger \in [Records -> [events : Seq(EventRows), lastSequence : Nat, lastHash : Hashes]]
  /\ manifest \in [Records -> [sealed : BOOLEAN, eventHashes : Seq(Hashes),
                               outcome : SUBSET (Nat \X Outcomes)]]
  /\ commands \in SUBSET Commands
  /\ reissuedFrom \in [Records -> Records \cup {None}]

Issued(r) == Status(r) # "none"
HasWorkflow(r) == Issued(r) /\ Plan[request[r].workflow] # <<>>

\* The request and its assignment never disagree, and a record is bound to a
\* principal exactly from the moment it is in progress: no sweep of the worker,
\* revocation or completion leaves one of the two rows behind.
StatusesAgree ==
  \A r \in Records :
    /\ assignment[r].status = Status(r)
    /\ Status(r) \in {"none", "scheduled", "issued"} => assignment[r].principal = None
    /\ Status(r) \in {"in_progress", "completed"} => assignment[r].principal # None

\* The chain of every record is gapless, each event names the hash of the one
\* before it, and the chain head row is the last event, whichever of the engine's
\* and the worker's two append routines wrote it: a record can always be sealed.
ChainLinked ==
  \A r \in Records :
    Issued(r) =>
      /\ verifyEventChain(ledger[r], buildWorkflowManifest(ledger[r], answers[r]))
      /\ ledger[r].lastSequence = Len(ledger[r].events)
      /\ ledger[r].lastHash = EventHash(ledger[r].events[Len(ledger[r].events)])

\* A record is completed exactly when it is sealed, and the rows stored now still
\* verify against the sealed manifest: nothing was appended, answered or rebound
\* after the seal.
SealedRecordVerifies ==
  \A r \in Records :
    /\ Status(r) = "completed" <=> manifest[r].sealed
    /\ manifest[r].sealed =>
         /\ verifyEvidenceRecord(request[r].workflow, ledger[r], manifest[r],
                                 assignment[r].principal)
         /\ manifest[r] = buildWorkflowManifest(ledger[r], answers[r])

\* The activity that is reached when the k-th response is recorded: the first one,
\* what the last submission led to, or the one of the last draft.
Reached(w, rows, k) ==
  IF k = 1 THEN 1
  ELSE IF rows[k - 1].state = "submitted"
       THEN evaluateNextActivity(w, rows[k - 1].ordinal, rows[k - 1].outcome)
       ELSE rows[k - 1].ordinal

\* The activities a participant went through are the path evaluateNextActivity
\* gives for the submitted outcomes: every revision, saved or submitted, is of the
\* activity that was reached, exactly the submitted ones are completed, the
\* bypassed ones skipped, one is available while the path goes on, and the record
\* is completed exactly when the path ends.
ProgressFollowsBranches ==
  \A r \in Records :
    HasWorkflow(r) =>
      LET w == request[r].workflow
          here == Reached(w, answers[r], Len(answers[r]) + 1)
      IN  /\ \A k \in DOMAIN answers[r] : answers[r][k].ordinal = Reached(w, answers[r], k)
          /\ activity[r] =
               [n \in Ordinals(w) |->
                  IF \E k \in Submitted(answers[r]) : answers[r][k].ordinal = n THEN "completed"
                  ELSE IF n = here THEN "available"
                  ELSE IF here = 0 \/ n < here THEN "skipped" ELSE "pending"]
          /\ here = 0 <=> Status(r) = "completed"

\* At most one interaction session of a record is open, it is the newest one and
\* of the bound principal, and a completed record has none: a response cannot be
\* attached to a browser session that was superseded.
OneLiveInteraction ==
  \A r \in Records : \A i \in DOMAIN interactions[r] :
    interactions[r][i].open =>
      /\ i = Len(interactions[r])
      /\ interactions[r][i].principal = assignment[r].principal
      /\ Status(r) # "completed"

ResponseTypes ==
  {"activity.response.saved", "activity.response.submitted", "participant.responded"}
ResponseType(a) ==
  CASE a.state = "saved" -> "activity.response.saved"
    [] a.state = "submitted" /\ a.ordinal = 0 -> "participant.responded"
    [] OTHER -> "activity.response.submitted"
EventsOf(l, types) == {e \in DOMAIN l.events : l.events[e].fact.type \in types}

\* told[k] is the place in the chain of the event of the k-th revision.
Tells(l, rows, told) ==
  /\ \A j, k \in DOMAIN rows : j < k => told[j] < told[k]
  /\ EventsOf(l, ResponseTypes) = {told[k] : k \in DOMAIN rows}
  /\ \A k \in DOMAIN rows :
       /\ l.events[told[k]].fact.type = ResponseType(rows[k])
       /\ l.events[told[k]].fact.ordinal = rows[k].ordinal

\* The evidence chain tells every response exactly once and in order: its
\* response events are the recorded revisions, and its activity.completed events
\* directly follow the submitted ones.
ChainTellsAnswers ==
  \A r \in Records :
    \E told \in [DOMAIN answers[r] -> EventsOf(ledger[r], ResponseTypes)] :
      /\ Tells(ledger[r], answers[r], told)
      /\ HasWorkflow(r) =>
           /\ EventsOf(ledger[r], {"activity.completed"}) =
                {told[k] + 1 : k \in Submitted(answers[r])}
           /\ \A k \in Submitted(answers[r]) :
                ledger[r].events[told[k] + 1].fact.ordinal = answers[r][k].ordinal

\* A completed document review was preceded, in the chain, by a presentation of
\* that document to the very principal the record is bound to.
PresentedBeforeReview ==
  \A r \in Records :
    HasWorkflow(r) =>
      \A n \in Ordinals(request[r].workflow) :
        (/\ Plan[request[r].workflow][n].type = "document_review"
         /\ activity[r][n] = "completed") =>
          \E k, j \in DOMAIN ledger[r].events :
            /\ k < j
            /\ ledger[r].events[k].fact = Fact("document.presented", n, assignment[r].principal)
            /\ ledger[r].events[j].fact =
                 Fact("activity.response.submitted", n, assignment[r].principal)

ParticipantTypes ==
  (AssuranceTypes \ {"document.presented"}) \cup
  {"activity.completed", "activity.interaction.recorded", "participant.context.recorded"}

\* Every opening, response and telemetry event of a record, whenever it was
\* recorded, is of the one principal the record is bound to.
OnlyParticipantActs ==
  \A r \in Records : \A k \in DOMAIN ledger[r].events :
    ledger[r].events[k].fact.type \in ParticipantTypes =>
      ledger[r].events[k].fact.actor = assignment[r].principal

\* The documentation's stronger form: all material evidence of the participant is
\* of the bound principal, document presentations included, which is also what
\* the verifier demands of a sealed record.
MaterialEvidenceBound ==
  \A r \in Records :
    assignment[r].principal # None =>
      verifyAuthenticationAssuranceEvidence(ledger[r], assignment[r].principal)

\* A record reissued as another one is revoked, its chain ends with the reissue,
\* it was issued from the same revision, and it was reissued only once.
ReissueLinks ==
  \A new \in Records :
    reissuedFrom[new] # None =>
      LET old == reissuedFrom[new] IN
      /\ Status(old) = "revoked"
      /\ ledger[old].events[Len(ledger[old].events)].fact.type = "request.reissued"
      /\ request[old].workflow = request[new].workflow
      /\ \A other \in Records : reissuedFrom[other] = old => other = new

\* The tables of a record agree with one another at every commit: statuses, chain,
\* activities, sessions, answers and reissues, whoever acts in whatever order.
RecordSound ==
  /\ TypeOK /\ StatusesAgree /\ ChainLinked /\ ProgressFollowsBranches
  /\ OneLiveInteraction /\ ChainTellsAnswers /\ PresentedBeforeReview
  /\ OnlyParticipantActs /\ ReissueLinks

\* Nothing changes a record once it is completed, revoked or expired: no late
\* response, telemetry batch, sweep or production stop adds to it.
ClosedRecordFrozen ==
  [][\A r \in Records :
       Status(r) \in Closed =>
         /\ request'[r].status = request[r].status
         /\ assignment'[r] = assignment[r]
         /\ activity'[r] = activity[r]
         /\ interactions'[r] = interactions[r]
         /\ answers'[r] = answers[r]
         /\ ledger'[r] = ledger[r]
         /\ manifest'[r] = manifest[r]]_vars

\* Every change of a record's status, binding, sessions, responses or activities
\* is witnessed by an event appended to its chain in the same transaction.
ChangesAreWitnessed ==
  [][\A r \in Records :
       (\/ request'[r].status # request[r].status
        \/ assignment'[r] # assignment[r]
        \/ activity'[r] # activity[r]
        \/ interactions'[r] # interactions[r]
        \/ answers'[r] # answers[r]
        \/ manifest'[r] # manifest[r])
       => ledger'[r].lastSequence > ledger[r].lastSequence]_vars

\* Every issued record is eventually completed, revoked or expired: the worker's
\* sweep closes what the participant and the requester leave open.
RecordsClose == \A r \in Records : Status(r) \in Open ~> Status(r) \in Closed
=============================================================================

------------------------- MODULE NotificationOutbox -------------------------
(***************************************************************************)
(* The notification outbox of the VASI engine: the engine's request and    *)
(* data-request handlers queue encrypted jobs, the worker's poll loop       *)
(* claims and delivers them, and the integration gateway contacts the       *)
(* provider inside one PostgreSQL transaction that holds row locks on the   *)
(* job, on the job's source and on the tenant's admission.                 *)
(*                                                                         *)
(* Every PostgreSQL transaction that contacts nobody is one action; the    *)
(* gateway's delivery and the sealing of a completed request, which other  *)
(* transactions overlap, are several.  Time is abstracted to "elapsed"     *)
(* flags: availableAt of a waiting job, lockedAt of a running one.         *)
(***************************************************************************)
EXTENDS Naturals, FiniteSets

CONSTANTS
    Workers,        \* worker processes
    Requests,       \* workflow request instances
    DataRequests,   \* participant data requests, one organization scope each
    Jobs,           \* outbox jobs, named by their idempotency key
    SourceOf,       \* job -> the request or data request it is about
    TypeOf,         \* job -> notificationType
    NoJob,          \* a worker without a job
    Bindings,       \* the states the tenant's delivery binding may be in
    MaxAttempts,    \* outbox_job.maxAttempts
    MaxAborts,      \* bound: worker polls and gateway transactions cut short
    AttemptCap      \* bound: claims of one job

InvitationTypes == {"request.issued", "request.reminder"}
RequestTypes == InvitationTypes \cup {"request.completed"}
DataTypes == {"participant_data.ready", "participant_data.denied",
              "participant_data.preparation_failed", "participant_data.expired"}

\* usable: a verified, admitted, allowlisted provider; disabled: the built-in
\* "disabled" adapter; unavailable: no binding, or one that fails a check;
\* not_admitted: the tenant has no production admission.
BindingStates == {"usable", "disabled", "unavailable", "not_admitted"}

ASSUME ConstantsAssumption ==
    /\ MaxAttempts \in 1..20
    /\ MaxAborts \in Nat
    /\ AttemptCap \in Nat
    /\ Requests \cap DataRequests = {}
    /\ NoJob \notin Jobs
    /\ Bindings \subseteq BindingStates
    /\ "usable" \in Bindings

ASSUME JobsAssumption ==
    /\ SourceOf \in [Jobs -> Requests \cup DataRequests]
    /\ TypeOf \in [Jobs -> RequestTypes \cup DataTypes]
    /\ \A j \in Jobs : SourceOf[j] \in Requests <=> TypeOf[j] \in RequestTypes

VARIABLES
    request,        \* request_instance.status
    sealing,        \* completion transactions: the attempts their capture time covers
    dataRequest,    \* participant_data_request, its scope and its export
    binding,        \* integration binding and admission of the tenant
    job,            \* outbox_job rows
    attempts,       \* notification_delivery_attempt rows
    gatewayRows,    \* integration_gateway_attempt rows
    terminalEvents, \* data jobs with a "...:terminal" event in their request's chain
    worker,         \* the poll loop of each worker
    calls,          \* delivery commands sent to the gateway
    transactions,   \* gateway transactions that are at their provider
    accepted,       \* jobs whose notification a provider accepted
    aborts          \* polls and gateway transactions cut short so far

engineVars == <<request, sealing, dataRequest, binding>>
gatewayVars == <<gatewayRows, transactions, accepted>>
vars == <<request, sealing, dataRequest, binding, job, attempts, gatewayRows,
          terminalEvents, worker, calls, transactions, accepted, aborts>>

-----------------------------------------------------------------------------
(* Rows and their types *)

OpenStatuses == {"scheduled", "issued", "in_progress"}
ClosedStatuses == {"completed", "revoked", "expired"}
RequestStatuses == {"absent"} \cup OpenStatuses \cup ClosedStatuses
DataStatuses == {"absent", "pending_review", "approved", "denied", "ready",
                 "preparation_failed", "expired"}
ScopeStatuses == {"pending_review", "approved", "denied"}
WaitingStatuses == {"pending", "participant_pending"}
TerminalStatuses == {"completed", "failed"}
Outcomes == {"delivered", "suppressed", "failed"}
Adapters == {"provider", "disabled", "notification", "engine", "unavailable"}
Deliveries == [adapter : Adapters, outcome : Outcomes]
NoDelivery == [adapter |-> "none", outcome |-> "none"]

JobRows == [status : {"absent", "running"} \cup WaitingStatuses \cup TerminalStatuses,
            attempts : Nat, elapsed : BOOLEAN,
            envelope : {"none", "encrypted", "redacted"},
            result : {"none"} \cup Outcomes]
AttemptRows == [job : Jobs, attempt : Nat, adapter : Adapters, outcome : Outcomes]
Commands == [job : Jobs, attempt : Nat]
Transactions == [job : Jobs, attempt : Nat, answer : {"none"} \cup Outcomes]

NoCapture == [open |-> FALSE, covers |-> {}]

PollSteps == {"polling", "dispatch", "calling", "recording"}
WorkerRows == [at : PollSteps, job : Jobs \cup {NoJob}, attempt : Nat,
               envelope : {"none", "encrypted", "redacted"},
               delivery : Deliveries \cup {NoDelivery}]

IsDataJob(j) == SourceOf[j] \in DataRequests
JobsOf(s) == {j \in Jobs : SourceOf[j] = s}
Terminal(j) == job[j].status \in TerminalStatuses

WaitingStatus(j) == IF IsDataJob(j) THEN "participant_pending" ELSE "pending"

workflowStatusAllows(type, status) ==
    IF type \in InvitationTypes THEN status \in OpenStatuses
    ELSE status = "completed"

participantDataStatusAllows(type, status, scope) ==
    \/ type = "participant_data.ready" /\ status = "ready" /\ scope = "approved"
    \/ type = "participant_data.denied" /\ status \in {"ready", "denied"} /\ scope = "denied"
    \/ type = "participant_data.preparation_failed" /\ status = "preparation_failed"
                                                    /\ scope = "approved"
    \/ type = "participant_data.expired" /\ status = "expired" /\ scope = "approved"

SourceAllows(j) ==
    IF IsDataJob(j)
    THEN participantDataStatusAllows(TypeOf[j], dataRequest[SourceOf[j]].status,
                                     dataRequest[SourceOf[j]].scope)
    ELSE workflowStatusAllows(TypeOf[j], request[SourceOf[j]])

-----------------------------------------------------------------------------
(* Row locks.  A gateway transaction at its provider holds FOR SHARE on its *)
(* job, on the job's source and on the admission pointer until it commits   *)
(* or rolls back; a completion holds FOR UPDATE on its request row.         *)

JobLocked(j) == \E t \in transactions : t.job = j
\* Mutant: the gateway reads the source's status without FOR SHARE.
SourceLocked_NoShare(s) == FALSE
SourceLocked(s) == \E t \in transactions : SourceOf[t.job] = s
AdmissionLocked == transactions # {}
CompletionHolds(s) == s \in Requests /\ sealing[s].open

CanUpdateRequest(r) == ~SourceLocked(r) /\ ~CompletionHolds(r)
CanUpdateData(d) == ~SourceLocked(d)

-----------------------------------------------------------------------------
(* Row updates shared by several handlers *)

NewJob(j) == [status |-> WaitingStatus(j), attempts |-> 0, elapsed |-> FALSE,
              envelope |-> "encrypted", result |-> "none"]

\* INSERT ... ON CONFLICT ("idempotencyKey") DO NOTHING
Queue(rows, S) ==
    [j \in Jobs |-> IF j \in S /\ rows[j].status = "absent" THEN NewJob(j) ELSE rows[j]]

Suppressed(row) ==
    [row EXCEPT !.status = "completed", !.envelope = "redacted", !.result = "suppressed"]

Suppress(S) == [j \in Jobs |-> IF j \in S THEN Suppressed(job[j]) ELSE job[j]]

PendingInvitations(r) ==
    {j \in JobsOf(r) : job[j].status = "pending" /\ TypeOf[j] \in InvitationTypes}

suppressPendingRequestNotifications(r) == Suppress(PendingInvitations(r))

-----------------------------------------------------------------------------
(* The delivery evidence a completed request seals *)

\* NOTIFICATION_ADAPTERS of the domain package; "provider" stands for
\* microsoft_graph, smtp and webhook.
SealableAdapters == {"provider", "disabled", "notification"}

LastAttempt(rows) == {a \in rows : \A b \in rows : b.attempt <= a.attempt}

\* validateNotificationDeliveryEvidence, over the job rows at the seal and
\* the attempts whose completedAt is not after the capture time.
DeliveryEvidenceValid(r, rows, visible) ==
    \A j \in JobsOf(r) :
        LET own == {a \in visible : a.job = j} IN
        /\ \A a \in own : a.adapter \in SealableAdapters /\ a.attempt \in 1..20
        /\ rows[j].status = "completed" /\ rows[j].result = "delivered" =>
               \E a \in LastAttempt(own) : a.outcome = "delivered"
        /\ rows[j].status = "failed" =>
               \A a \in LastAttempt(own) : a.outcome = "failed"

\* Attempts that are recorded, or whose worker already took their completedAt.
CompletedAttempts ==
    attempts \cup
    {[job |-> worker[w].job, attempt |-> worker[w].attempt,
      adapter |-> worker[w].delivery.adapter, outcome |-> worker[w].delivery.outcome] :
        w \in {v \in Workers : worker[v].at = "recording"}}

-----------------------------------------------------------------------------
(* The engine's handlers *)

\* issuePublishedRequest; N is what the workflow's notification policy asks for.
IssueRequest(r, status, N) ==
    /\ request[r] = "absent"
    /\ request' = [request EXCEPT ![r] = status]
    /\ job' = Queue(job, N)
    /\ UNCHANGED <<sealing, dataRequest, binding, attempts, gatewayVars, terminalEvents,
                   worker, calls, aborts>>

\* openAssignment by the participant (a scheduled request is first issued)
OpenAssignment(r) ==
    /\ request[r] \in {"scheduled", "issued"}
    /\ CanUpdateRequest(r)
    /\ request' = [request EXCEPT ![r] = "in_progress"]
    /\ UNCHANGED <<sealing, dataRequest, binding, job, attempts, gatewayVars,
                   terminalEvents, worker, calls, aborts>>

\* applyRequestAction: revoke (a reissue revokes and issues another request)
RevokeRequest(r) ==
    /\ request[r] \in OpenStatuses
    /\ CanUpdateRequest(r)
    /\ request' = [request EXCEPT ![r] = "revoked"]
    /\ job' = suppressPendingRequestNotifications(r)
    /\ UNCHANGED <<sealing, dataRequest, binding, attempts, gatewayVars, terminalEvents,
                   worker, calls, aborts>>

\* applyRequestAction: remind
RemindRequest(r, j) ==
    /\ request[r] \in OpenStatuses
    /\ CanUpdateRequest(r)
    /\ j \in JobsOf(r) /\ TypeOf[j] = "request.reminder" /\ job[j].status = "absent"
    /\ job' = Queue(job, {j})
    /\ UNCHANGED <<engineVars, attempts, gatewayVars, terminalEvents, worker, calls, aborts>>

\* The final response locks the request and takes completedAt ...
BeginCompletion(r) ==
    /\ request[r] = "in_progress"
    /\ CanUpdateRequest(r)
    /\ sealing' = [sealing EXCEPT ![r] = [open |-> TRUE, covers |-> CompletedAttempts]]
    /\ UNCHANGED <<request, dataRequest, binding, job, attempts, gatewayVars,
                   terminalEvents, worker, calls, aborts>>

SealInput(r) ==
    DeliveryEvidenceValid(r, suppressPendingRequestNotifications(r),
                          attempts \cap sealing[r].covers)

\* ... and later suppresses, snapshots the deliveries, seals and queues the notice N.
SealCompletion(r, N) ==
    /\ sealing[r].open
    /\ SealInput(r)
    /\ request' = [request EXCEPT ![r] = "completed"]
    /\ sealing' = [sealing EXCEPT ![r] = NoCapture]
    /\ job' = Queue(suppressPendingRequestNotifications(r), N)
    /\ UNCHANGED <<dataRequest, binding, attempts, gatewayVars, terminalEvents, worker,
                   calls, aborts>>

\* An invalid snapshot throws: the participant's response is rolled back.
RollBackCompletion(r) ==
    /\ sealing[r].open
    /\ ~SealInput(r)
    /\ sealing' = [sealing EXCEPT ![r] = NoCapture]
    /\ UNCHANGED <<request, dataRequest, binding, job, attempts, gatewayVars,
                   terminalEvents, worker, calls, aborts>>

\* createParticipantDataRequest
CreateDataRequest(d) ==
    /\ dataRequest[d].status = "absent"
    /\ dataRequest' = [dataRequest EXCEPT ![d].status = "pending_review"]
    /\ UNCHANGED <<request, sealing, binding, job, attempts, gatewayVars, terminalEvents,
                   worker, calls, aborts>>

\* reviewDataRequest of the organization that holds the scope
ReviewDataRequest(d, decision) ==
    /\ dataRequest[d].scope = "pending_review" /\ dataRequest[d].status = "pending_review"
    /\ CanUpdateData(d)
    /\ dataRequest' = [dataRequest EXCEPT ![d].status = decision, ![d].scope = decision]
    /\ UNCHANGED <<request, sealing, binding, job, attempts, gatewayVars, terminalEvents,
                   worker, calls, aborts>>

\* An owner or an administrator changes the binding or the admission; both
\* update rows of which the gateway holds the admission pointer FOR SHARE.
ChangeBinding(b) ==
    /\ b # binding
    /\ ("not_admitted" \in {b, binding}) => ~AdmissionLocked
    /\ binding' = b
    /\ UNCHANGED <<request, sealing, dataRequest, job, attempts, gatewayVars,
                   terminalEvents, worker, calls, aborts>>

-----------------------------------------------------------------------------
(* The worker's poll loop.  A poll runs the sweeps in a fixed order, each in *)
(* its own transaction, then claims and delivers one job; an exception ends  *)
(* the poll where it is.  The model lets a polling worker take the sweeps    *)
(* and the claim in any order and any number: the code's orders, cut short   *)
(* or not, are among them.                                                   *)

Polling(w) == worker[w].at = "polling"

Settle(w, delivery) ==
    worker' = [worker EXCEPT ![w] = [@ EXCEPT !.at = "recording", !.delivery = delivery]]

IdleWorker == [at |-> "polling", job |-> NoJob, attempt |-> 0, envelope |-> "none",
               delivery |-> NoDelivery]

\* Mutant: stale-lock recovery forgets the jobs of data requests.
StaleJobs_WorkflowOnly ==
    {j \in Jobs : job[j].status = "running" /\ job[j].elapsed /\ ~IsDataJob(j)}

StaleJobs == {j \in Jobs : job[j].status = "running" /\ job[j].elapsed}

RecoverStaleJobs(w) ==
    /\ Polling(w)
    /\ StaleJobs # {} /\ \A j \in StaleJobs : ~JobLocked(j)
    /\ job' = [j \in Jobs |-> IF j \in StaleJobs
                              THEN [job[j] EXCEPT !.status = WaitingStatus(j)]
                              ELSE job[j]]
    /\ UNCHANGED <<engineVars, attempts, gatewayVars, terminalEvents, worker, calls, aborts>>

\* advanceOneLifecycle: one request whose start or expiry is due
AdvanceOneLifecycle(w) ==
    /\ Polling(w)
    /\ \E r \in Requests :
        /\ CanUpdateRequest(r)
        /\ \/ /\ request[r] = "scheduled"
              /\ request' = [request EXCEPT ![r] = "issued"]
              /\ job' = job
           \/ /\ request[r] \in OpenStatuses
              /\ request' = [request EXCEPT ![r] = "expired"]
              /\ job' = suppressPendingRequestNotifications(r)
    /\ UNCHANGED <<sealing, dataRequest, binding, attempts, gatewayVars, terminalEvents,
                   worker, calls, aborts>>

ExpireOneParticipantDataRequest(w) ==
    /\ Polling(w)
    /\ \E d \in DataRequests :
        /\ dataRequest[d].status \notin {"absent", "expired"}
        /\ CanUpdateData(d)
        /\ dataRequest' = [dataRequest EXCEPT ![d].status = "expired"]
    /\ UNCHANGED <<request, sealing, binding, job, attempts, gatewayVars, terminalEvents,
                   worker, calls, aborts>>

ObsoleteInvitations ==
    UNION {PendingInvitations(r) : r \in {s \in Requests : request[s] \in ClosedStatuses}}

SuppressObsoleteJobs(w) ==
    /\ Polling(w)
    /\ ObsoleteInvitations # {}
    /\ job' = Suppress(ObsoleteInvitations)
    /\ UNCHANGED <<engineVars, attempts, gatewayVars, terminalEvents, worker, calls, aborts>>

SuppressOneObsoleteParticipantDataJob(w) ==
    /\ Polling(w)
    /\ \E j \in Jobs :
        /\ job[j].status = "participant_pending" /\ ~SourceAllows(j)
        /\ job' = Suppress({j})
        /\ terminalEvents' = terminalEvents \cup {j}
    /\ UNCHANGED <<engineVars, attempts, gatewayVars, worker, calls, aborts>>

\* prepareOne: the export of an approved request, or its size limit
PrepareOneExport(w) ==
    /\ Polling(w)
    /\ \E d \in DataRequests :
        /\ dataRequest[d].status = "approved" /\ ~dataRequest[d].export
        /\ CanUpdateData(d)
        /\ \/ dataRequest' = [dataRequest EXCEPT ![d] = [@ EXCEPT !.status = "ready", !.export = TRUE]]
           \/ dataRequest' = [dataRequest EXCEPT ![d].status = "preparation_failed"]
    /\ UNCHANGED <<request, sealing, binding, job, attempts, gatewayVars, terminalEvents,
                   worker, calls, aborts>>

\* A notice that is due and not queued yet
QueueOneParticipantDataNotification(w) ==
    /\ Polling(w)
    /\ \E j \in Jobs :
        /\ IsDataJob(j) /\ job[j].status = "absent" /\ SourceAllows(j)
        /\ TypeOf[j] = "participant_data.expired" => dataRequest[SourceOf[j]].export
        /\ CanUpdateData(SourceOf[j])
        /\ job' = Queue(job, {j})
    /\ UNCHANGED <<engineVars, attempts, gatewayVars, terminalEvents, worker, calls, aborts>>

Claimable ==
    {j \in Jobs : /\ job[j].status \in WaitingStatuses /\ job[j].elapsed
                  /\ SourceAllows(j) /\ ~JobLocked(j) /\ job[j].attempts < AttemptCap}

ClaimJob(w) ==
    /\ Polling(w)
    /\ \E j \in Claimable :
        /\ job' = [job EXCEPT ![j].status = "running", ![j].elapsed = FALSE,
                              ![j].attempts = @ + 1]
        /\ worker' = [worker EXCEPT ![w] = [at |-> "dispatch", job |-> j,
                          attempt |-> job[j].attempts + 1,
                          envelope |-> job[j].envelope, delivery |-> NoDelivery]]
    /\ UNCHANGED <<engineVars, attempts, gatewayVars, terminalEvents, calls, aborts>>

\* deliverJob up to the signed call: the eligibility read, decryption, dispatch
DispatchJob(w) ==
    /\ worker[w].at = "dispatch"
    /\ LET j == worker[w].job IN
       \/ /\ IsDataJob(j) /\ ~SourceAllows(j)
          /\ Settle(w, [adapter |-> "engine", outcome |-> "suppressed"])
          /\ calls' = calls
       \/ /\ IsDataJob(j) => SourceAllows(j)
          /\ worker[w].envelope = "redacted"
          /\ Settle(w, [adapter |-> "notification", outcome |-> "failed"])
          /\ calls' = calls
       \/ /\ IsDataJob(j) => SourceAllows(j)
          /\ worker[w].envelope = "encrypted"
          /\ calls' = calls \cup {[job |-> j, attempt |-> worker[w].attempt]}
          /\ worker' = [worker EXCEPT ![w].at = "calling"]
    /\ UNCHANGED <<engineVars, job, attempts, gatewayVars, terminalEvents, aborts>>

\* Mutant: the answer to an earlier attempt is taken for this one's.
ReceiveAnswer_AnyAttempt(w) ==
    /\ worker[w].at = "calling"
    /\ \E a \in gatewayRows :
        /\ a.job = worker[w].job
        /\ Settle(w, [adapter |-> a.adapter, outcome |-> a.outcome])
    /\ UNCHANGED <<engineVars, job, attempts, gatewayVars, terminalEvents, calls, aborts>>

ReceiveAnswer(w) ==
    /\ worker[w].at = "calling"
    /\ \E a \in gatewayRows :
        /\ a.job = worker[w].job /\ a.attempt = worker[w].attempt
        /\ Settle(w, [adapter |-> a.adapter, outcome |-> a.outcome])
    /\ UNCHANGED <<engineVars, job, attempts, gatewayVars, terminalEvents, calls, aborts>>

\* The 15 second timeout, a lost answer or a rejected call
CallFails(w) ==
    /\ worker[w].at = "calling"
    /\ Settle(w, [adapter |-> "notification", outcome |-> "failed"])
    /\ UNCHANGED <<engineVars, job, attempts, gatewayVars, terminalEvents, calls, aborts>>

\* terminal and nextStatus of deliverJob, from the attempt the worker claimed
IsTerminal(w) ==
    worker[w].delivery.outcome # "failed" \/ worker[w].attempt >= MaxAttempts

NextStatus(w) ==
    IF ~IsTerminal(w) THEN WaitingStatus(worker[w].job)
    ELSE IF worker[w].delivery.outcome = "failed" THEN "failed" ELSE "completed"

\* A terminal job's payload is replaced by { redacted: true }.
NextEnvelope(w) == IF IsTerminal(w) THEN "redacted" ELSE job[worker[w].job].envelope

\* The command id "participant-data-notification:<job>:terminal" is unique.
TerminalEventConflict(w) ==
    IsTerminal(w) /\ IsDataJob(worker[w].job) /\ worker[w].job \in terminalEvents

\* The transaction that ends deliverJob.  Its update names the job's id only;
\* a second terminal event of a data job rolls it back (it takes two workers).
RecordDelivery(w) ==
    LET j == worker[w].job IN
    /\ worker[w].at = "recording"
    /\ ~JobLocked(j)
    /\ IF TerminalEventConflict(w)
       THEN UNCHANGED <<attempts, job, terminalEvents>>
       ELSE /\ attempts' = attempts \cup
                  {[job |-> j, attempt |-> worker[w].attempt,
                    adapter |-> worker[w].delivery.adapter,
                    outcome |-> worker[w].delivery.outcome]}
            /\ job' = [job EXCEPT ![j] =
                  [@ EXCEPT !.status = NextStatus(w), !.elapsed = FALSE,
                            !.result = worker[w].delivery.outcome, !.envelope = NextEnvelope(w)]]
            /\ terminalEvents' = IF IsTerminal(w) /\ IsDataJob(j)
                                 THEN terminalEvents \cup {j} ELSE terminalEvents
    /\ worker' = [worker EXCEPT ![w] = IdleWorker]
    /\ UNCHANGED <<engineVars, gatewayVars, calls, aborts>>

\* The process dies, or a query of the poll fails: the poll and its claim are lost.
AbortPoll(w) ==
    /\ aborts < MaxAborts
    /\ ~Polling(w)
    /\ worker' = [worker EXCEPT ![w] = IdleWorker]
    /\ aborts' = aborts + 1
    /\ UNCHANGED <<engineVars, job, attempts, gatewayVars, terminalEvents, calls>>

\* availableAt comes, or a lock grows ten minutes old
Elapse(j) ==
    /\ job[j].status \in {"running"} \cup WaitingStatuses
    /\ ~job[j].elapsed
    /\ job' = [job EXCEPT ![j].elapsed = TRUE]
    /\ UNCHANGED <<engineVars, attempts, gatewayVars, terminalEvents, worker, calls, aborts>>

-----------------------------------------------------------------------------
(* The integration gateway.  A command may arrive late or more than once.   *)

\* The advisory lock and the lookup of an earlier attempt row
FirstArrival(c) ==
    /\ \A t \in transactions : ~(t.job = c.job /\ t.attempt = c.attempt)
    /\ \A a \in gatewayRows : ~(a.job = c.job /\ a.attempt = c.attempt)

\* Mutant: the gateway compares the attempt and forgets the status.
JobCurrent_AnyStatus(c) == job[c.job].attempts = c.attempt

\* assertNotificationJobCurrent
JobCurrent(c) == job[c.job].status = "running" /\ job[c.job].attempts = c.attempt

\* The FOR SHARE of a source row waits for a completion that holds it
SourceReadable(c) == JobCurrent(c) => ~CompletionHolds(SourceOf[c.job])

\* What the gateway records without contacting a provider
Refusal(c) ==
    CASE ~JobCurrent(c) -> [adapter |-> "unavailable", outcome |-> "failed"]
      [] JobCurrent(c) /\ ~SourceAllows(c.job) ->
             [adapter |-> "unavailable", outcome |-> "suppressed"]
      [] JobCurrent(c) /\ SourceAllows(c.job) /\ binding = "not_admitted" ->
             [adapter |-> "unavailable", outcome |-> "suppressed"]
      [] JobCurrent(c) /\ SourceAllows(c.job) /\ binding = "unavailable" ->
             [adapter |-> "unavailable", outcome |-> "failed"]
      [] JobCurrent(c) /\ SourceAllows(c.job) /\ binding = "disabled" ->
             [adapter |-> "disabled", outcome |-> "suppressed"]

MayContact(c) == JobCurrent(c) /\ SourceAllows(c.job) /\ binding = "usable"

GatewayRefuses(c) ==
    /\ FirstArrival(c) /\ SourceReadable(c) /\ ~MayContact(c)
    /\ gatewayRows' = gatewayRows \cup
          {[job |-> c.job, attempt |-> c.attempt,
            adapter |-> Refusal(c).adapter, outcome |-> Refusal(c).outcome]}
    /\ UNCHANGED <<engineVars, job, attempts, terminalEvents, worker, calls, transactions,
                   accepted, aborts>>

GatewayContacts(c) ==
    /\ FirstArrival(c) /\ SourceReadable(c) /\ MayContact(c)
    /\ transactions' = transactions \cup
          {[job |-> c.job, attempt |-> c.attempt, answer |-> "none"]}
    /\ UNCHANGED <<engineVars, job, attempts, gatewayRows, terminalEvents, worker, calls,
                   accepted, aborts>>

\* The provider accepts, rejects, or accepts and its answer is lost.
ProviderAnswers(t, answer, took) ==
    /\ t.answer = "none"
    /\ answer = "delivered" => took
    /\ transactions' = (transactions \ {t}) \cup {[t EXCEPT !.answer = answer]}
    /\ accepted' = IF took THEN accepted \cup {t.job} ELSE accepted
    /\ UNCHANGED <<engineVars, job, attempts, gatewayRows, terminalEvents, worker, calls,
                   aborts>>

GatewayCommits(t) ==
    /\ t.answer # "none"
    /\ gatewayRows' = gatewayRows \cup
          {[job |-> t.job, attempt |-> t.attempt, adapter |-> "provider",
            outcome |-> t.answer]}
    /\ transactions' = transactions \ {t}
    /\ UNCHANGED <<engineVars, job, attempts, terminalEvents, worker, calls, accepted,
                   aborts>>

\* The gateway or its connection dies: the transaction rolls back.
GatewayAborts(t) ==
    /\ aborts < MaxAborts
    /\ aborts' = aborts + 1
    /\ transactions' = transactions \ {t}
    /\ UNCHANGED <<engineVars, job, attempts, gatewayRows, terminalEvents, worker, calls,
                   accepted>>

-----------------------------------------------------------------------------
Init ==
    /\ request = [r \in Requests |-> "absent"]
    /\ sealing = [r \in Requests |-> NoCapture]
    /\ dataRequest = [d \in DataRequests |->
                         [status |-> "absent", scope |-> "pending_review", export |-> FALSE]]
    /\ binding = "usable"
    /\ job = [j \in Jobs |-> [status |-> "absent", attempts |-> 0, elapsed |-> FALSE,
                               envelope |-> "none", result |-> "none"]]
    /\ attempts = {} /\ gatewayRows = {} /\ terminalEvents = {}
    /\ worker = [w \in Workers |-> IdleWorker]
    /\ calls = {} /\ transactions = {} /\ accepted = {} /\ aborts = 0

EngineStep ==
    \/ \E r \in Requests :
        \/ \E status \in {"scheduled", "issued"},
              N \in SUBSET {j \in JobsOf(r) : TypeOf[j] \in InvitationTypes} :
                IssueRequest(r, status, N)
        \/ OpenAssignment(r)
        \/ RevokeRequest(r)
        \/ \E j \in JobsOf(r) : RemindRequest(r, j)
        \/ BeginCompletion(r)
        \/ \E N \in SUBSET {j \in JobsOf(r) : TypeOf[j] = "request.completed"} :
                SealCompletion(r, N)
        \/ RollBackCompletion(r)
    \/ \E d \in DataRequests :
        \/ CreateDataRequest(d)
        \/ \E decision \in {"approved", "denied"} : ReviewDataRequest(d, decision)
    \/ \E b \in Bindings : ChangeBinding(b)

PollStep(w) ==
    \/ RecoverStaleJobs(w)
    \/ AdvanceOneLifecycle(w)
    \/ ExpireOneParticipantDataRequest(w)
    \/ SuppressObsoleteJobs(w)
    \/ SuppressOneObsoleteParticipantDataJob(w)
    \/ PrepareOneExport(w)
    \/ QueueOneParticipantDataNotification(w)
    \/ ClaimJob(w)

DeliverStep(w) ==
    \/ DispatchJob(w)
    \/ ReceiveAnswer(w)
    \/ CallFails(w)
    \/ RecordDelivery(w)

\* An open gateway transaction moves on: the provider call has a timeout.
GatewayFinishes ==
    \E t \in transactions :
        \/ \E answer \in {"delivered", "failed"}, took \in BOOLEAN :
                ProviderAnswers(t, answer, took)
        \/ GatewayCommits(t)

Next ==
    \/ EngineStep
    \/ \E w \in Workers : PollStep(w) \/ DeliverStep(w) \/ AbortPoll(w)
    \/ \E j \in Jobs : Elapse(j)
    \/ \E c \in calls : GatewayRefuses(c) \/ GatewayContacts(c)
    \/ GatewayFinishes
    \/ \E t \in transactions : GatewayAborts(t)

Spec == Init /\ [][Next]_vars

\* The poll loop never stops: every poll recovers stale locks, sweeps and claims,
\* and a claimed job is delivered.  An opened completion transaction ends, the
\* provider call times out, and time passes.
Fairness ==
    /\ \A w \in Workers :
        /\ WF_vars(DeliverStep(w))
        /\ SF_vars(RecoverStaleJobs(w))
        /\ SF_vars(SuppressObsoleteJobs(w))
        /\ SF_vars(SuppressOneObsoleteParticipantDataJob(w))
        /\ SF_vars(ClaimJob(w))
    /\ \A r \in Requests : WF_vars(RollBackCompletion(r) \/ SealCompletion(r, {}))
    /\ \A j \in Jobs : WF_vars(Elapse(j))
    /\ WF_vars(GatewayFinishes)

FairSpec == Spec /\ Fairness

-----------------------------------------------------------------------------
(* What a job's owner is promised *)

JobPhase(j) ==
    IF job[j].status = "absent" THEN "absent"
    ELSE IF Terminal(j) THEN job[j].result ELSE "open"

Promise == INSTANCE NotificationPromise WITH phase <- [j \in Jobs |-> JobPhase(j)]

\* With one worker the outbox implements NotificationPromise: a queued job
\* settles once and for good, as delivered only after a provider accepted it,
\* and a provider accepts only jobs that are still open (deliverJob's final
\* transaction, recoverStaleJobs and the sweeps against the gateway's locks).
PromiseKept == Promise!Spec

\* Every row and every worker holds values of its type.
TypeOK ==
    /\ request \in [Requests -> RequestStatuses]
    /\ sealing \in [Requests -> [open : BOOLEAN, covers : SUBSET AttemptRows]]
    /\ dataRequest \in [DataRequests -> [status : DataStatuses, scope : ScopeStatuses,
                                         export : BOOLEAN]]
    /\ binding \in Bindings
    /\ job \in [Jobs -> JobRows]
    /\ attempts \subseteq AttemptRows
    /\ gatewayRows \subseteq AttemptRows
    /\ terminalEvents \subseteq Jobs
    /\ worker \in [Workers -> WorkerRows]
    /\ calls \subseteq Commands
    /\ transactions \subseteq Transactions
    /\ accepted \subseteq Jobs
    /\ aborts \in 0..MaxAborts

\* While the gateway is at a provider, the job is the exact running attempt,
\* its request or data request still allows the notice and the tenant is
\* admitted: no revocation, completion, expiry, production stop, retry or
\* recovery gets between the gateway's checks and the provider call.
ContactIsCurrent ==
    \A t \in transactions :
        /\ job[t.job].status = "running" /\ job[t.job].attempts = t.attempt
        /\ SourceAllows(t.job)
        /\ binding # "not_admitted"

\* A delivery attempt recorded as delivered is backed by a gateway attempt of
\* the same number, and the provider did accept the notification.
DeliveredIsBacked ==
    \A a \in attempts : a.outcome = "delivered" => a \in gatewayRows /\ a.job \in accepted

\* No two attempt rows of a job share a number, and none is ahead of the job's
\* own count: the unique keys of both attempt tables never reject a record.
AttemptsNumbered ==
    /\ \A a, b \in attempts : a.job = b.job /\ a.attempt = b.attempt => a = b
    /\ \A a, b \in gatewayRows : a.job = b.job /\ a.attempt = b.attempt => a = b
    /\ \A a \in attempts \cup gatewayRows : a.attempt <= job[a.job].attempts

\* A job keeps its encrypted envelope exactly as long as it can still be
\* claimed: terminal jobs are redacted, and no worker claims a redacted job.
EnvelopeLifetime ==
    /\ \A j \in Jobs : Terminal(j) <=> job[j].envelope = "redacted"
    /\ \A w \in Workers : worker[w].job # NoJob => worker[w].envelope = "encrypted"

\* A data job has its terminal event in the participant-data chain exactly
\* when it is terminal (deliverJob and the sweep write both in one transaction).
TerminalEventsMatch ==
    \A j \in Jobs : IsDataJob(j) => (Terminal(j) <=> j \in terminalEvents)

\* A job's final state agrees with its last attempt: validateJob demands it
\* of every job a completed request seals.
StatusMatchesLedger ==
    \A j \in Jobs :
        LET last == LastAttempt({a \in attempts : a.job = j}) IN
        /\ Terminal(j) /\ job[j].result = "delivered" => \E a \in last : a.outcome = "delivered"
        /\ job[j].status = "failed" => \E a \in last : a.outcome = "failed"

\* The retry budget: only a poll that was cut short gives a job a claim beyond
\* maxAttempts (recoverStaleJobs leaves the attempt count alone).
AttemptBudget == \A j \in Jobs : job[j].attempts <= MaxAttempts + aborts

\* What a reader of the notification tables may rely on: a delivery is backed by
\* the provider, attempts are numbered and within budget, and status, envelope
\* and terminal event agree with them, wherever a worker or the gateway stopped.
LedgerSound ==
    /\ TypeOK /\ DeliveredIsBacked /\ AttemptsNumbered /\ AttemptBudget
    /\ EnvelopeLifetime /\ TerminalEventsMatch /\ StatusMatchesLedger

\* "At completion, the engine snapshots every bounded notification job ... and
\* every immutable adapter attempt completed by that time": an attempt of a
\* request that can still be completed is one the snapshot accepts.
AttemptsSealable ==
    \A a \in attempts :
        ~IsDataJob(a.job) /\ request[SourceOf[a.job]] \in OpenStatuses
            => a.adapter \in SealableAdapters

\* The delivery snapshot never makes the final response roll back.
CompletionSeals == \A r \in Requests : sealing[r].open => SealInput(r)

\* Every queued job is settled in the end: delivered, suppressed or failed.
JobsSettle == \A j \in Jobs : (job[j].status # "absent") ~> Terminal(j)
=============================================================================

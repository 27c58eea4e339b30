---------------------- MODULE NotificationOutboxProofs ----------------------
(***************************************************************************)
(* Type correctness of the outbox and the guarantee that the gateway never *)
(* contacts a provider for a stale job, for any number of workers,         *)
(* requests, data requests and jobs; with one worker, that the tables of   *)
(* the deliveries agree and that the outbox implements the promise of      *)
(* NotificationPromise; and what of those tables any number of workers     *)
(* leave standing.                                                         *)
(***************************************************************************)
EXTENDS NotificationOutbox, TLAPS

\* A worker past its claim holds a job, and one that records has a delivery.
WorkersBusy ==
    \A w \in Workers :
        /\ worker[w].at # "polling" => worker[w].job \in Jobs
        /\ worker[w].at = "recording" => worker[w].delivery \in Deliveries

\* A completion and a gateway contact exclude each other on the request row.
LocksExclusive ==
    \A r \in Requests : sealing[r].open => ~SourceLocked(r)

Inv == TypeOK /\ WorkersBusy /\ LocksExclusive /\ ContactIsCurrent

-----------------------------------------------------------------------------
(* Types of the row operators *)

\* Queueing jobs gives rows of the type.
LEMMA QueueType ==
    ASSUME NEW rows \in [Jobs -> JobRows], NEW S
    PROVE  Queue(rows, S) \in [Jobs -> JobRows]
  BY DEF Queue, NewJob, JobRows, WaitingStatus, WaitingStatuses, TerminalStatuses, Outcomes

\* A suppressed row is a row of the type.
LEMMA SuppressedType ==
    ASSUME NEW row \in JobRows
    PROVE  Suppressed(row) \in JobRows
  BY DEF Suppressed, JobRows, TerminalStatuses, Outcomes

\* Suppressing jobs gives rows of the type.
LEMMA SuppressType ==
    ASSUME job \in [Jobs -> JobRows], NEW S
    PROVE  Suppress(S) \in [Jobs -> JobRows]
  BY SuppressedType DEF Suppress

\* Queueing leaves every row that exists as it is.
LEMMA QueueKeeps ==
    ASSUME NEW rows, NEW S, NEW j \in Jobs, rows[j].status # "absent"
    PROVE  Queue(rows, S)[j] = rows[j]
  BY DEF Queue

\* A suppression leaves the jobs outside its set as they are.
LEMMA SuppressKeeps ==
    ASSUME NEW S, NEW j \in Jobs, j \notin S
    PROVE  Suppress(S)[j] = job[j]
  BY DEF Suppress

-----------------------------------------------------------------------------
(* Type correctness *)

\* The attempts a request captures when it completes are rows of the type.
LEMMA CapturedType ==
    ASSUME TypeOK, WorkersBusy
    PROVE  CompletedAttempts \subseteq AttemptRows
  BY DEF CompletedAttempts, TypeOK, WorkerRows, WorkersBusy, AttemptRows, Deliveries

\* The operations of the engine keep the types.
LEMMA EngineType ==
    ASSUME TypeOK, WorkersBusy, EngineStep
    PROVE  TypeOK'
  <1>1. ASSUME NEW r \in Requests, NEW status \in {"scheduled", "issued"}, NEW N, IssueRequest(r, status, N)
        PROVE TypeOK'
    BY <1>1, QueueType DEF IssueRequest, TypeOK, engineVars, gatewayVars,
       RequestStatuses, OpenStatuses, ClosedStatuses, DataStatuses, ScopeStatuses
  <1>2. ASSUME NEW r \in Requests, OpenAssignment(r) PROVE TypeOK'
    BY <1>2 DEF OpenAssignment, TypeOK, engineVars, gatewayVars,
       RequestStatuses, OpenStatuses, ClosedStatuses, DataStatuses, ScopeStatuses
  <1>3. ASSUME NEW r \in Requests, RevokeRequest(r) PROVE TypeOK'
    BY <1>3, SuppressType DEF RevokeRequest, suppressPendingRequestNotifications, TypeOK,
       engineVars, gatewayVars,
       RequestStatuses, OpenStatuses, ClosedStatuses, DataStatuses, ScopeStatuses
  <1>4. ASSUME NEW r \in Requests, NEW j \in JobsOf(r), RemindRequest(r, j) PROVE TypeOK'
    BY <1>4, QueueType DEF RemindRequest, TypeOK, engineVars, gatewayVars,
       RequestStatuses, OpenStatuses, ClosedStatuses, DataStatuses, ScopeStatuses
  <1>5. ASSUME NEW r \in Requests, BeginCompletion(r) PROVE TypeOK'
    BY <1>5, CapturedType DEF BeginCompletion, TypeOK, engineVars, gatewayVars,
       RequestStatuses, OpenStatuses, ClosedStatuses, DataStatuses, ScopeStatuses
  <1>6. ASSUME NEW r \in Requests, NEW N, SealCompletion(r, N) PROVE TypeOK'
    BY <1>6, QueueType, SuppressType DEF SealCompletion,
       suppressPendingRequestNotifications, NoCapture, TypeOK, engineVars, gatewayVars,
       RequestStatuses, OpenStatuses, ClosedStatuses, DataStatuses, ScopeStatuses
  <1>7. ASSUME NEW r \in Requests, RollBackCompletion(r) PROVE TypeOK'
    BY <1>7 DEF RollBackCompletion, NoCapture, TypeOK, engineVars, gatewayVars,
       RequestStatuses, OpenStatuses, ClosedStatuses, DataStatuses, ScopeStatuses
  <1>8. ASSUME NEW d \in DataRequests, CreateDataRequest(d) PROVE TypeOK'
    BY <1>8, ZenonT(60) DEF CreateDataRequest, TypeOK, engineVars, gatewayVars,
       RequestStatuses, OpenStatuses, ClosedStatuses, DataStatuses, ScopeStatuses
  <1>9. ASSUME NEW d \in DataRequests, NEW decision \in {"approved", "denied"}, ReviewDataRequest(d, decision)
        PROVE TypeOK'
    BY <1>9 DEF ReviewDataRequest, TypeOK, engineVars, gatewayVars,
       RequestStatuses, OpenStatuses, ClosedStatuses, DataStatuses, ScopeStatuses
  <1>10. ASSUME NEW b \in Bindings, ChangeBinding(b) PROVE TypeOK'
    BY <1>10 DEF ChangeBinding, TypeOK, engineVars, gatewayVars,
       RequestStatuses, OpenStatuses, ClosedStatuses, DataStatuses, ScopeStatuses
  <1> QED
    BY <1>1, <1>2, <1>3, <1>4, <1>5, <1>6, <1>7, <1>8, <1>9, <1>10 DEF EngineStep

\* A worker that learns the outcome of a delivery keeps its type.
LEMMA SettleType ==
    ASSUME TypeOK, NEW w \in Workers, NEW delivery \in Deliveries, Settle(w, delivery)
    PROVE  worker' \in [Workers -> WorkerRows]
  <1>1. [worker[w] EXCEPT !.at = "recording", !.delivery = delivery] \in WorkerRows
    BY ZenonT(60) DEF TypeOK, WorkerRows, PollSteps
  <1> QED
    BY <1>1 DEF Settle, TypeOK

\* The steps of a worker keep the types.
LEMMA WorkerType ==
    ASSUME TypeOK, WorkersBusy, NEW w \in Workers,
           PollStep(w) \/ DeliverStep(w) \/ AbortPoll(w)
    PROVE  TypeOK'
  <1>1. CASE RecoverStaleJobs(w)
    <2>1. ASSUME NEW j \in Jobs PROVE [job[j] EXCEPT !.status = WaitingStatus(j)] \in JobRows
      BY DEF TypeOK, JobRows, WaitingStatus, WaitingStatuses
    <2>2. job' \in [Jobs -> JobRows]
      BY <1>1, <2>1 DEF RecoverStaleJobs, TypeOK
    <2> QED
      BY <1>1, <2>2 DEF RecoverStaleJobs, TypeOK, engineVars, gatewayVars
  <1>2. CASE AdvanceOneLifecycle(w)
    <2>1. request' \in [Requests -> RequestStatuses]
      BY <1>2 DEF AdvanceOneLifecycle, TypeOK, RequestStatuses, OpenStatuses, ClosedStatuses
    <2>2. job' \in [Jobs -> JobRows]
      BY <1>2, SuppressType
      DEF AdvanceOneLifecycle, TypeOK, suppressPendingRequestNotifications
    <2> QED
      BY <1>2, <2>1, <2>2 DEF AdvanceOneLifecycle, TypeOK, gatewayVars
  <1>3. CASE ExpireOneParticipantDataRequest(w)
    BY <1>3 DEF ExpireOneParticipantDataRequest, RequestStatuses, OpenStatuses,
       ClosedStatuses, DataStatuses, ScopeStatuses, TypeOK, engineVars, gatewayVars
  <1>4. CASE SuppressObsoleteJobs(w)
    BY <1>4, SuppressType DEF SuppressObsoleteJobs, TypeOK, engineVars, gatewayVars
  <1>5. CASE SuppressOneObsoleteParticipantDataJob(w)
    BY <1>5, SuppressType DEF SuppressOneObsoleteParticipantDataJob, TypeOK, engineVars,
       gatewayVars
  <1>6. CASE PrepareOneExport(w)
    <2>1. PICK d \in DataRequests :
            \/ dataRequest' = [dataRequest EXCEPT ![d] = [@ EXCEPT !.status = "ready", !.export = TRUE]]
            \/ dataRequest' = [dataRequest EXCEPT ![d].status = "preparation_failed"]
      BY <1>6 DEF PrepareOneExport
    <2>2. dataRequest' \in [DataRequests -> [status : DataStatuses, scope : ScopeStatuses,
                                             export : BOOLEAN]]
      <3>1. dataRequest[d] \in [status : DataStatuses, scope : ScopeStatuses, export : BOOLEAN]
        BY DEF TypeOK
      <3>2. /\ [dataRequest[d] EXCEPT !.status = "ready", !.export = TRUE]
                  \in [status : DataStatuses, scope : ScopeStatuses, export : BOOLEAN]
            /\ [dataRequest[d] EXCEPT !.status = "preparation_failed"]
                  \in [status : DataStatuses, scope : ScopeStatuses, export : BOOLEAN]
        BY <3>1 DEF DataStatuses
      <3> QED
        BY <2>1, <3>2 DEF TypeOK
    <2> QED
      BY <1>6, <2>2 DEF PrepareOneExport, TypeOK, gatewayVars
  <1>7. CASE QueueOneParticipantDataNotification(w)
    BY <1>7, QueueType DEF QueueOneParticipantDataNotification, TypeOK, engineVars, gatewayVars
  <1>8. CASE ClaimJob(w)
    BY <1>8 DEF ClaimJob, Claimable, WorkerRows, NoDelivery, PollSteps, JobRows,
       WaitingStatus, WaitingStatuses, TerminalStatuses, Outcomes, TypeOK, engineVars,
       gatewayVars
  <1>9. CASE DispatchJob(w)
    <2>1. worker' \in [Workers -> WorkerRows]
      <3>1. ASSUME worker' = [worker EXCEPT ![w].at = "calling"]
            PROVE  worker' \in [Workers -> WorkerRows]
        BY <3>1 DEF TypeOK, WorkerRows, PollSteps
      <3> QED
        BY <1>9, <3>1, SettleType DEF DispatchJob, Deliveries, Adapters, Outcomes
    <2>2. calls' \subseteq Commands
      <3>1. worker[w].job \in Jobs /\ worker[w].attempt \in Nat
        BY <1>9 DEF DispatchJob, WorkersBusy, TypeOK, WorkerRows
      <3> QED
        BY <1>9, <3>1 DEF DispatchJob, TypeOK, Commands
    <2> QED
      BY <1>9, <2>1, <2>2 DEF DispatchJob, TypeOK, engineVars, gatewayVars
  <1>10. CASE ReceiveAnswer(w)
    <2>1. worker' \in [Workers -> WorkerRows]
      BY <1>10, SettleType DEF ReceiveAnswer, TypeOK, AttemptRows, Deliveries
    <2> QED
      BY <1>10, <2>1 DEF ReceiveAnswer, TypeOK, engineVars, gatewayVars
  <1>11. CASE CallFails(w)
    <2>1. worker' \in [Workers -> WorkerRows]
      BY <1>11, SettleType DEF CallFails, Deliveries, Adapters, Outcomes
    <2> QED
      BY <1>11, <2>1 DEF CallFails, TypeOK, engineVars, gatewayVars
  <1>12. CASE RecordDelivery(w)
    <2> DEFINE j == worker[w].job
               row == [job |-> j, attempt |-> worker[w].attempt,
                       adapter |-> worker[w].delivery.adapter,
                       outcome |-> worker[w].delivery.outcome]
    <2>1. j \in Jobs /\ worker[w].delivery \in Deliveries
      BY <1>12 DEF RecordDelivery, WorkersBusy
    <2>2. row \in AttemptRows
      BY <2>1 DEF TypeOK, WorkerRows, AttemptRows, Deliveries
    <2>3. NextStatus(w) \in {"pending", "participant_pending", "failed", "completed"}
      BY DEF NextStatus, WaitingStatus
    <2>4. job' \in [Jobs -> JobRows]
      <3>1. worker[w].delivery.outcome \in Outcomes
        BY <2>1 DEF Deliveries
      <3>2. job[j] \in JobRows /\ NextEnvelope(w) \in {"none", "encrypted", "redacted"}
        BY <2>1 DEF TypeOK, JobRows, NextEnvelope
      <3> HIDE DEF j
      <3>3. [job[j] EXCEPT !.status = NextStatus(w), !.elapsed = FALSE,
                           !.result = worker[w].delivery.outcome,
                           !.envelope = NextEnvelope(w)] \in JobRows
        BY <2>3, <3>1, <3>2 DEF JobRows, WaitingStatuses, TerminalStatuses
      <3>4. CASE TerminalEventConflict(w)
        BY <1>12, <3>4 DEF RecordDelivery, TypeOK
      <3>5. CASE ~TerminalEventConflict(w)
        <4>1. job' = [job EXCEPT ![j] =
               [job[j] EXCEPT !.status = NextStatus(w), !.elapsed = FALSE,
                              !.result = worker[w].delivery.outcome,
                              !.envelope = NextEnvelope(w)]]
          BY <1>12, <3>5 DEF RecordDelivery, j
        <4> QED
          BY <2>1, <3>3, <4>1 DEF TypeOK
      <3> QED
        BY <3>4, <3>5
    <2>5. worker' \in [Workers -> WorkerRows]
      BY <1>12 DEF RecordDelivery, TypeOK, IdleWorker, WorkerRows, PollSteps
    <2>6. attempts' \subseteq AttemptRows /\ terminalEvents' \subseteq Jobs
      BY <1>12, <2>1, <2>2 DEF RecordDelivery, TypeOK
    <2> QED
      BY <1>12, <2>4, <2>5, <2>6 DEF RecordDelivery, TypeOK, engineVars, gatewayVars
  <1>14. CASE AbortPoll(w)
    BY <1>14, ConstantsAssumption DEF AbortPoll, IdleWorker, WorkerRows, PollSteps, TypeOK,
       engineVars, gatewayVars
  <1> QED
    BY <1>1, <1>2, <1>3, <1>4, <1>5, <1>6, <1>7, <1>8, <1>9, <1>10, <1>11, <1>12,
       <1>14 DEF PollStep, DeliverStep

\* The steps of the gateway keep the types.
LEMMA GatewayType ==
    ASSUME TypeOK,
           \/ \E c \in calls : GatewayRefuses(c) \/ GatewayContacts(c)
           \/ GatewayFinishes
           \/ \E t \in transactions : GatewayAborts(t)
    PROVE  TypeOK'
  <1>1. ASSUME NEW c \in calls, GatewayRefuses(c) PROVE TypeOK'
    <2>1. c.job \in Jobs /\ c.attempt \in Nat
      BY <1>1 DEF TypeOK, Commands
    <2>2. ~MayContact(c) /\ binding \in BindingStates
      BY <1>1, ConstantsAssumption DEF GatewayRefuses, TypeOK
    <2>3. Refusal(c) \in [adapter : {"unavailable", "disabled"}, outcome : {"failed", "suppressed"}]
      BY <2>2, SMTT(30) DEF Refusal, MayContact, BindingStates
    <2>4. [job |-> c.job, attempt |-> c.attempt,
           adapter |-> Refusal(c).adapter, outcome |-> Refusal(c).outcome] \in AttemptRows
      BY <2>1, <2>3 DEF AttemptRows, Adapters, Outcomes
    <2> QED
      BY <1>1, <2>4 DEF GatewayRefuses, TypeOK, engineVars
  <1>2. ASSUME NEW c \in calls, GatewayContacts(c) PROVE TypeOK'
    BY <1>2 DEF GatewayContacts, Commands, Transactions, TypeOK, engineVars, gatewayVars
  <1>3. ASSUME NEW t \in transactions, NEW answer \in {"delivered", "failed"},
              NEW took \in BOOLEAN, ProviderAnswers(t, answer, took) PROVE TypeOK'
    BY <1>3 DEF ProviderAnswers, Transactions, Outcomes, TypeOK, engineVars, gatewayVars
  <1>4. ASSUME NEW t \in transactions, GatewayCommits(t) PROVE TypeOK'
    BY <1>4 DEF GatewayCommits, Transactions, AttemptRows, Adapters, TypeOK, engineVars,
       gatewayVars
  <1>5. ASSUME NEW t \in transactions, GatewayAborts(t) PROVE TypeOK'
    BY <1>5, ConstantsAssumption DEF GatewayAborts, TypeOK, engineVars, gatewayVars
  <1> QED
    BY <1>1, <1>2, <1>3, <1>4, <1>5 DEF GatewayFinishes

\* Every step of the system keeps the types.
LEMMA TypeStep == TypeOK /\ WorkersBusy /\ [Next]_vars => TypeOK'
  <1> SUFFICES ASSUME TypeOK, WorkersBusy, [Next]_vars PROVE TypeOK'
    OBVIOUS
  <1>1. ASSUME NEW j \in Jobs, Elapse(j) PROVE TypeOK'
    BY <1>1, ZenonT(60) DEF Elapse, TypeOK, JobRows, engineVars, gatewayVars
  <1>2. CASE UNCHANGED vars
    BY <1>2 DEF vars, TypeOK
  <1> QED
    BY <1>1, <1>2, EngineType, WorkerType, GatewayType DEF Next

-----------------------------------------------------------------------------
(* A provider is contacted only for the current attempt of a live source *)

\* The source of a job still allows it when its row has not changed.
LEMMA SourceKept ==
    ASSUME NEW j \in Jobs, SourceAllows(j),
           SourceOf[j] \in Requests => request'[SourceOf[j]] = request[SourceOf[j]],
           SourceOf[j] \in DataRequests => dataRequest'[SourceOf[j]] = dataRequest[SourceOf[j]]
    PROVE  SourceAllows(j)'
  BY JobsAssumption, ConstantsAssumption DEF SourceAllows, IsDataJob

\* A step that starts no contact keeps the contacts current when it leaves
\* their job rows, their source rows and the admission alone.
LEMMA ContactKept ==
    ASSUME TypeOK, ContactIsCurrent, transactions' = transactions,
           binding' = binding \/ binding' # "not_admitted" \/ transactions = {},
           \A t \in transactions :
              /\ job'[t.job].status = job[t.job].status
              /\ job'[t.job].attempts = job[t.job].attempts
              /\ SourceOf[t.job] \in Requests =>
                    request'[SourceOf[t.job]] = request[SourceOf[t.job]]
              /\ SourceOf[t.job] \in DataRequests =>
                    dataRequest'[SourceOf[t.job]] = dataRequest[SourceOf[t.job]]
    PROVE  ContactIsCurrent'
  <1>1. \A t \in transactions : t.job \in Jobs
    BY DEF TypeOK, Transactions
  <1>2. \A t \in transactions : SourceAllows(t.job)'
    BY <1>1, SourceKept DEF ContactIsCurrent
  <1> QED
    BY <1>2 DEF ContactIsCurrent

\* Neither a queueing nor a suppression touches a job that is at a provider.
LEMMA RunningKept ==
    ASSUME TypeOK, ContactIsCurrent, NEW t \in transactions
    PROVE  /\ t.job \in Jobs
           /\ \A S : Queue(job, S)[t.job] = job[t.job]
           /\ \A r : suppressPendingRequestNotifications(r)[t.job] = job[t.job]
           /\ \A r, S : Queue(suppressPendingRequestNotifications(r), S)[t.job] = job[t.job]
           /\ Suppress(ObsoleteInvitations)[t.job] = job[t.job]
  <1>1. t.job \in Jobs /\ job[t.job].status = "running"
    BY DEF TypeOK, Transactions, ContactIsCurrent
  <1>2. \A r : t.job \notin PendingInvitations(r)
    BY <1>1 DEF PendingInvitations
  <1>3. t.job \notin ObsoleteInvitations
    BY <1>2 DEF ObsoleteInvitations
  <1>4. \A r : suppressPendingRequestNotifications(r)[t.job] = job[t.job]
    BY <1>1, <1>2, SuppressKeeps DEF suppressPendingRequestNotifications
  <1>5. Suppress(ObsoleteInvitations)[t.job] = job[t.job]
    BY <1>1, <1>3, SuppressKeeps
  <1>6. \A r, S : Queue(suppressPendingRequestNotifications(r), S)[t.job] = job[t.job]
    BY <1>1, <1>4 DEF Queue
  <1> QED
    BY <1>1, <1>4, <1>5, <1>6 DEF Queue

\* A contact's request is open or completed, its data request exists.
LEMMA ContactSource ==
    ASSUME TypeOK, ContactIsCurrent, NEW t \in transactions
    PROVE  /\ SourceOf[t.job] \in Requests =>
                 request[SourceOf[t.job]] \in OpenStatuses \cup {"completed"}
           /\ SourceOf[t.job] \in DataRequests =>
                 dataRequest[SourceOf[t.job]].status \notin {"absent", "pending_review"}
  BY JobsAssumption, ConstantsAssumption
  DEF ContactIsCurrent, SourceAllows, IsDataJob, workflowStatusAllows,
      participantDataStatusAllows, TypeOK, Transactions

\* The operations of the engine do not make an open provider contact stale.
LEMMA EngineContact ==
    ASSUME Inv, EngineStep
    PROVE  ContactIsCurrent'
  <1> USE DEF Inv
  <1>1. ASSUME NEW r \in Requests, NEW status, NEW N, IssueRequest(r, status, N)
        PROVE ContactIsCurrent'
    BY <1>1, ContactKept, RunningKept, ContactSource
    DEF IssueRequest, TypeOK, gatewayVars, OpenStatuses
  <1>2. ASSUME NEW r \in Requests, OpenAssignment(r) PROVE ContactIsCurrent'
    BY <1>2, ContactKept, RunningKept, ContactSource
    DEF OpenAssignment, TypeOK, gatewayVars, CanUpdateRequest, SourceLocked
  <1>3. ASSUME NEW r \in Requests, RevokeRequest(r) PROVE ContactIsCurrent'
    BY <1>3, ContactKept, RunningKept, ContactSource
    DEF RevokeRequest, TypeOK, gatewayVars, CanUpdateRequest, SourceLocked
  <1>4. ASSUME NEW r \in Requests, NEW j \in JobsOf(r), RemindRequest(r, j)
        PROVE ContactIsCurrent'
    BY <1>4, ContactKept, RunningKept, ContactSource
    DEF RemindRequest, TypeOK, gatewayVars, engineVars
  <1>5. ASSUME NEW r \in Requests, BeginCompletion(r) PROVE ContactIsCurrent'
    BY <1>5, ContactKept, RunningKept, ContactSource
    DEF BeginCompletion, TypeOK, gatewayVars
  <1>6. ASSUME NEW r \in Requests, NEW N, SealCompletion(r, N) PROVE ContactIsCurrent'
    BY <1>6, ContactKept, RunningKept, ContactSource
    DEF SealCompletion, TypeOK, gatewayVars, LocksExclusive, SourceLocked
  <1>7. ASSUME NEW r \in Requests, RollBackCompletion(r) PROVE ContactIsCurrent'
    BY <1>7, ContactKept, RunningKept, ContactSource
    DEF RollBackCompletion, TypeOK, gatewayVars
  <1>8. ASSUME NEW d \in DataRequests, CreateDataRequest(d) PROVE ContactIsCurrent'
    BY <1>8, ContactKept, RunningKept, ContactSource
    DEF CreateDataRequest, TypeOK, gatewayVars
  <1>9. ASSUME NEW d \in DataRequests, NEW decision, ReviewDataRequest(d, decision)
        PROVE ContactIsCurrent'
    BY <1>9, ContactKept, RunningKept, ContactSource
    DEF ReviewDataRequest, TypeOK, gatewayVars, CanUpdateData, SourceLocked
  <1>10. ASSUME NEW b \in Bindings, ChangeBinding(b) PROVE ContactIsCurrent'
    BY <1>10, ContactKept, RunningKept, ContactSource
    DEF ChangeBinding, TypeOK, gatewayVars, AdmissionLocked
  <1> QED
    BY <1>1, <1>2, <1>3, <1>4, <1>5, <1>6, <1>7, <1>8, <1>9, <1>10 DEF EngineStep

\* The steps of a worker do not make an open provider contact stale.
LEMMA WorkerContact ==
    ASSUME Inv, NEW w \in Workers, PollStep(w) \/ DeliverStep(w) \/ AbortPoll(w)
    PROVE  ContactIsCurrent'
  <1> USE DEF Inv
  <1>1. CASE RecoverStaleJobs(w)
    BY <1>1, ContactKept, RunningKept DEF RecoverStaleJobs, TypeOK, gatewayVars, JobLocked,
       engineVars
  <1>2. CASE AdvanceOneLifecycle(w)
    BY <1>2, ContactKept, RunningKept DEF AdvanceOneLifecycle, TypeOK, gatewayVars,
       CanUpdateRequest, SourceLocked
  <1>3. CASE ExpireOneParticipantDataRequest(w)
    BY <1>3, ContactKept, RunningKept DEF ExpireOneParticipantDataRequest, TypeOK,
       gatewayVars, CanUpdateData, SourceLocked
  <1>4. CASE SuppressObsoleteJobs(w)
    BY <1>4, ContactKept, RunningKept DEF SuppressObsoleteJobs, TypeOK, gatewayVars, engineVars
  <1>5. CASE SuppressOneObsoleteParticipantDataJob(w)
    BY <1>5, ContactKept, RunningKept DEF SuppressOneObsoleteParticipantDataJob, TypeOK,
       gatewayVars, Suppress, ContactIsCurrent, engineVars
  <1>6. CASE PrepareOneExport(w)
    BY <1>6, ContactKept, RunningKept DEF PrepareOneExport, TypeOK, gatewayVars,
       CanUpdateData, SourceLocked
  <1>7. CASE QueueOneParticipantDataNotification(w)
    BY <1>7, ContactKept, RunningKept DEF QueueOneParticipantDataNotification, TypeOK,
       gatewayVars, engineVars
  <1>8. CASE ClaimJob(w)
    BY <1>8, ContactKept, RunningKept DEF ClaimJob, TypeOK, gatewayVars, Claimable,
       WaitingStatuses, JobLocked, engineVars
  <1>9. CASE DispatchJob(w)
    BY <1>9, ContactKept, RunningKept DEF DispatchJob, TypeOK, gatewayVars, engineVars
  <1>10. CASE ReceiveAnswer(w)
    BY <1>10, ContactKept, RunningKept DEF ReceiveAnswer, TypeOK, gatewayVars, engineVars
  <1>11. CASE CallFails(w)
    BY <1>11, ContactKept, RunningKept DEF CallFails, TypeOK, gatewayVars, engineVars
  <1>12. CASE RecordDelivery(w)
    BY <1>12, ContactKept, RunningKept DEF RecordDelivery, TypeOK, gatewayVars, JobLocked,
       engineVars
  <1>14. CASE AbortPoll(w)
    BY <1>14, ContactKept, RunningKept DEF AbortPoll, TypeOK, gatewayVars, engineVars
  <1> QED
    BY <1>1, <1>2, <1>3, <1>4, <1>5, <1>6, <1>7, <1>8, <1>9, <1>10, <1>11, <1>12,
       <1>14 DEF PollStep, DeliverStep

\* The gateway opens a contact only for a current job, and keeps the open ones current.
LEMMA GatewayContact ==
    ASSUME Inv,
           \/ \E c \in calls : GatewayRefuses(c) \/ GatewayContacts(c)
           \/ GatewayFinishes
           \/ \E t \in transactions : GatewayAborts(t)
    PROVE  ContactIsCurrent'
  <1> USE DEF Inv
  <1>1. ASSUME NEW c \in calls, GatewayRefuses(c) PROVE ContactIsCurrent'
    BY <1>1, ContactKept DEF GatewayRefuses, engineVars
  <1>2. ASSUME transactions' \subseteq transactions, UNCHANGED <<engineVars, job>>
        PROVE  ContactIsCurrent'
    BY <1>2 DEF ContactIsCurrent, engineVars, SourceAllows
  <1>3. ASSUME NEW c \in calls, GatewayContacts(c) PROVE ContactIsCurrent'
    <2> DEFINE new == [job |-> c.job, attempt |-> c.attempt, answer |-> "none"]
    <2>1. /\ transactions' = transactions \cup {new}
          /\ UNCHANGED <<request, dataRequest, binding, job>>
      BY <1>3 DEF GatewayContacts, engineVars
    <2>2. /\ job[new.job].status = "running" /\ job[new.job].attempts = new.attempt
          /\ SourceAllows(new.job) /\ binding # "not_admitted"
      BY <1>3 DEF GatewayContacts, MayContact, JobCurrent
    <2> QED
      BY <2>1, <2>2 DEF ContactIsCurrent, SourceAllows
  <1>4. ASSUME NEW t \in transactions, NEW answer, NEW took, ProviderAnswers(t, answer, took)
        PROVE  ContactIsCurrent'
    <2> DEFINE new == [t EXCEPT !.answer = answer]
    <2>1. new.job = t.job /\ new.attempt = t.attempt
      BY DEF TypeOK, Transactions
    <2>2. /\ transactions' = (transactions \ {t}) \cup {new}
          /\ UNCHANGED <<request, dataRequest, binding, job>>
      BY <1>4 DEF ProviderAnswers, engineVars
    <2> QED
      BY <2>1, <2>2, ZenonT(60) DEF ContactIsCurrent, SourceAllows
  <1>5. ASSUME NEW t \in transactions, GatewayCommits(t) \/ GatewayAborts(t)
        PROVE  ContactIsCurrent'
    BY <1>2, <1>5 DEF GatewayCommits, GatewayAborts
  <1> QED
    BY <1>1, <1>3, <1>4, <1>5 DEF GatewayFinishes

\* Every step leaves a worker past its claim with its job and its delivery.
LEMMA BusyStep ==
    ASSUME Inv, [Next]_vars
    PROVE  WorkersBusy'
  <1> USE DEF Inv
  <1>1. ASSUME worker' = worker PROVE WorkersBusy'
    BY <1>1 DEF WorkersBusy
  <1>2. ASSUME NEW w \in Workers, worker' = [worker EXCEPT ![w] = IdleWorker]
        PROVE  WorkersBusy'
    BY <1>2 DEF WorkersBusy, TypeOK, IdleWorker
  <1>3. ASSUME NEW w \in Workers, NEW delivery \in Deliveries, Settle(w, delivery),
               worker[w].at # "polling"
        PROVE  WorkersBusy'
    BY <1>3 DEF WorkersBusy, Settle, TypeOK, WorkerRows
  <1>4. ASSUME NEW w \in Workers, ClaimJob(w) PROVE WorkersBusy'
    BY <1>4 DEF ClaimJob, Claimable, WorkersBusy, TypeOK
  <1>5. ASSUME NEW w \in Workers, DispatchJob(w) PROVE WorkersBusy'
    <2>1. CASE worker' = [worker EXCEPT ![w].at = "calling"]
      BY <1>5, <2>1 DEF DispatchJob, WorkersBusy, TypeOK, WorkerRows
    <2> QED
      BY <1>3, <1>5, <2>1 DEF DispatchJob, Deliveries, Adapters, Outcomes
  <1>6. ASSUME NEW w \in Workers, ReceiveAnswer(w) PROVE WorkersBusy'
    BY <1>3, <1>6 DEF ReceiveAnswer, TypeOK, AttemptRows, Deliveries
  <1>7. ASSUME NEW w \in Workers, CallFails(w) PROVE WorkersBusy'
    BY <1>3, <1>7 DEF CallFails, Deliveries, Adapters, Outcomes
  <1>8. ASSUME NEW w \in Workers, RecordDelivery(w) \/ AbortPoll(w)
        PROVE  WorkersBusy'
    BY <1>2, <1>8 DEF RecordDelivery, AbortPoll
  <1>9. CASE EngineStep
    BY <1>1, <1>9 DEF EngineStep, IssueRequest, OpenAssignment, RevokeRequest, RemindRequest,
       BeginCompletion, SealCompletion, RollBackCompletion, CreateDataRequest,
       ReviewDataRequest, ChangeBinding
  <1>10. ASSUME NEW w \in Workers, PollStep(w) PROVE WorkersBusy'
    BY <1>1, <1>4, <1>10 DEF PollStep, RecoverStaleJobs, AdvanceOneLifecycle,
       ExpireOneParticipantDataRequest, SuppressObsoleteJobs,
       SuppressOneObsoleteParticipantDataJob, PrepareOneExport,
       QueueOneParticipantDataNotification
  <1>11. ASSUME \/ \E j \in Jobs : Elapse(j)
                \/ \E c \in calls : GatewayRefuses(c) \/ GatewayContacts(c)
                \/ GatewayFinishes
                \/ \E t \in transactions : GatewayAborts(t)
                \/ UNCHANGED vars
         PROVE  WorkersBusy'
    BY <1>1, <1>11 DEF Elapse, GatewayRefuses, GatewayContacts, GatewayFinishes,
       ProviderAnswers, GatewayCommits, GatewayAborts, vars
  <1> QED
    BY <1>5, <1>6, <1>7, <1>8, <1>9, <1>10, <1>11 DEF Next, DeliverStep

\* Every step keeps completions and contacts apart on a request row.
LEMMA LocksStep ==
    ASSUME Inv, [Next]_vars
    PROVE  LocksExclusive'
  <1> USE DEF Inv
  <1>1. ASSUME sealing' = sealing,
               \A t \in transactions' : \E u \in transactions : u.job = t.job
        PROVE  LocksExclusive'
    BY <1>1 DEF LocksExclusive, SourceLocked
  <1>2. CASE EngineStep
    <2>1. ASSUME NEW r \in Requests, BeginCompletion(r) PROVE LocksExclusive'
      BY <2>1 DEF BeginCompletion, CanUpdateRequest, LocksExclusive, SourceLocked, TypeOK,
         gatewayVars
    <2>2. ASSUME NEW r \in Requests, sealing' = [sealing EXCEPT ![r] = NoCapture],
                 transactions' = transactions
          PROVE  LocksExclusive'
      BY <2>2 DEF LocksExclusive, SourceLocked, NoCapture, TypeOK
    <2> QED
      BY <1>1, <1>2, <2>1, <2>2 DEF EngineStep, IssueRequest, OpenAssignment, RevokeRequest,
         RemindRequest, SealCompletion, RollBackCompletion, CreateDataRequest,
         ReviewDataRequest, ChangeBinding, engineVars, gatewayVars
  <1>3. ASSUME NEW w \in Workers, PollStep(w) \/ DeliverStep(w) \/ AbortPoll(w)
        PROVE  LocksExclusive'
    BY <1>1, <1>3 DEF PollStep, RecoverStaleJobs, AdvanceOneLifecycle,
       ExpireOneParticipantDataRequest, SuppressObsoleteJobs,
       SuppressOneObsoleteParticipantDataJob, PrepareOneExport,
       QueueOneParticipantDataNotification, ClaimJob, DeliverStep, DispatchJob,
       ReceiveAnswer, CallFails, RecordDelivery, AbortPoll,
       engineVars, gatewayVars
  <1>4. ASSUME NEW c \in calls, GatewayContacts(c) PROVE LocksExclusive'
    BY <1>4 DEF GatewayContacts, MayContact, SourceReadable, CompletionHolds, LocksExclusive,
       SourceLocked, engineVars
  <1>5. ASSUME NEW t \in transactions, NEW answer, NEW took, ProviderAnswers(t, answer, took)
        PROVE  LocksExclusive'
    <2>1. [t EXCEPT !.answer = answer].job = t.job
      BY DEF TypeOK, Transactions
    <2> QED
      BY <1>1, <1>5, <2>1 DEF ProviderAnswers, engineVars
  <1>6. ASSUME \/ \E j \in Jobs : Elapse(j)
               \/ \E c \in calls : GatewayRefuses(c)
               \/ \E t \in transactions : GatewayCommits(t) \/ GatewayAborts(t)
               \/ UNCHANGED vars
        PROVE  LocksExclusive'
    BY <1>1, <1>6 DEF Elapse, GatewayRefuses, GatewayCommits, GatewayAborts, vars,
       engineVars, gatewayVars
  <1> QED
    BY <1>2, <1>3, <1>4, <1>5, <1>6 DEF Next, GatewayFinishes

\* Every step of the system keeps the contacts current.
LEMMA ContactStep ==
    ASSUME Inv, [Next]_vars
    PROVE  ContactIsCurrent'
  <1>1. ASSUME NEW j \in Jobs, Elapse(j) PROVE ContactIsCurrent'
    BY <1>1, ContactKept DEF Inv, Elapse, TypeOK, JobRows, engineVars, gatewayVars
  <1>2. CASE UNCHANGED vars
    BY <1>2, ContactKept DEF Inv, vars
  <1> QED
    BY <1>1, <1>2, EngineContact, WorkerContact, GatewayContact DEF Next

-----------------------------------------------------------------------------
\* The invariant holds of an empty outbox.
LEMMA InitInv == Init => Inv
  <1> SUFFICES ASSUME Init PROVE Inv
    OBVIOUS
  <1> USE ConstantsAssumption, JobsAssumption
  <1>1. TypeOK
    BY DEF Init, TypeOK, RequestStatuses, DataStatuses, ScopeStatuses, NoCapture,
           JobRows, WorkerRows, IdleWorker, PollSteps
  <1>2. WorkersBusy /\ LocksExclusive /\ ContactIsCurrent
    BY DEF Init, WorkersBusy, LocksExclusive, ContactIsCurrent, IdleWorker, NoCapture
  <1> QED
    BY <1>1, <1>2 DEF Inv

\* The inductive invariant is one: TypeOK and ContactIsCurrent need the two
\* facts about busy workers and exclusive locks besides them.
THEOREM Invariance == Spec => []Inv
  <1>1. Inv /\ [Next]_vars => Inv'
    BY TypeStep, BusyStep, LocksStep, ContactStep DEF Inv
  <1> QED
    BY InitInv, <1>1, PTL DEF Spec

\* Every row of the outbox, of the attempt tables and of the sources, and the
\* poll loop's own state, stays within its type under every handler.
THEOREM TypeCorrect == Spec => []TypeOK
  <1>1. Inv => TypeOK
    BY DEF Inv
  <1> QED
    BY <1>1, Invariance, PTL

\* However many workers, requests, data requests and jobs there are, while the
\* gateway is at a provider the job is the exact running attempt, its source
\* still allows the notice and the tenant is admitted (the FOR SHARE locks of
\* assertNotificationJobCurrent against every handler that writes those rows).
THEOREM ContactsStayCurrent == Spec => []ContactIsCurrent
  <1>1. Inv => ContactIsCurrent
    BY DEF Inv
  <1> QED
    BY <1>1, Invariance, PTL

-----------------------------------------------------------------------------
(* One worker: the ledger of the deliveries, and the promise it keeps.      *)

\* What the deployment runs; a second worker may settle a job twice.
OneWorker == \A v, w \in Workers : v = w

\* The attempt row the worker is about to record.
Recorded(w) == [job |-> worker[w].job, attempt |-> worker[w].attempt,
                adapter |-> worker[w].delivery.adapter, outcome |-> worker[w].delivery.outcome]

\* A job that can still be claimed without another abort is below its budget.
Open(j) == job[j].status \in {"running"} \cup WaitingStatuses
Held(j) == \E w \in Workers : worker[w].job = j

Budgeted(j) ==
    /\ job[j].attempts <= MaxAttempts + aborts
    /\ Open(j) /\ ~(job[j].status = "running" /\ Held(j)) => job[j].attempts < MaxAttempts + aborts

\* A row agrees with itself and with its terminal event.
RowStands(j) ==
    /\ job[j].status = "absent" => job[j].attempts = 0
    /\ Terminal(j) <=> job[j].envelope = "redacted"
    /\ Open(j) => job[j].envelope = "encrypted"
    /\ Terminal(j) => job[j].result \in Outcomes
    /\ IsDataJob(j) => (Terminal(j) <=> j \in terminalEvents)

Last(j) == LastAttempt({a \in attempts : a.job = j})

\* No attempt and no command is ahead of the row, a running job's own attempt is not recorded yet,
\* and a settled job says what its last attempt says.
NumbersStand(j) ==
    /\ \A a \in attempts \cup gatewayRows \cup calls : a.job = j => a.attempt <= job[j].attempts
    /\ job[j].status = "running" => \A a \in attempts : a.job = j => a.attempt < job[j].attempts
    /\ Terminal(j) /\ job[j].result = "delivered" => \E a \in Last(j) : a.outcome = "delivered"
    /\ job[j].status = "failed" => \E a \in Last(j) : a.outcome = "failed"

\* While the only worker has a job, nobody takes it away.
ClaimStands(w) ==
    /\ Polling(w) => worker[w].job = NoJob
    /\ ~Polling(w) => /\ job[worker[w].job].status = "running"
                      /\ job[worker[w].job].attempts = worker[w].attempt
                      /\ worker[w].envelope = "encrypted"
    /\ worker[w].at = "recording" /\ worker[w].delivery.outcome = "delivered" =>
          Recorded(w) \in gatewayRows

SameAttempt(a, b) == a.job = b.job /\ a.attempt = b.attempt

\* The two attempt tables and the gateway's transactions.
TablesStand ==
    /\ \A a, b \in attempts : SameAttempt(a, b) => a = b
    /\ \A a, b \in gatewayRows : SameAttempt(a, b) => a = b
    /\ \A s, t \in transactions : SameAttempt(s, t) => s = t
    /\ \A t \in transactions, a \in gatewayRows : ~SameAttempt(t, a)
    /\ \A a \in attempts : a.outcome = "delivered" => a \in gatewayRows
    /\ \A a \in gatewayRows : a.outcome = "delivered" => a.job \in accepted
    /\ \A t \in transactions : t.answer = "delivered" => t.job \in accepted

LedgerInv ==
    /\ Inv /\ TablesStand
    /\ \A j \in Jobs : Budgeted(j) /\ RowStands(j) /\ NumbersStand(j)
    /\ \A w \in Workers : ClaimStands(w)


\* Every step of the system keeps the invariant.
LEMMA InvStep == Inv /\ [Next]_vars => Inv'
  BY TypeStep, BusyStep, LocksStep, ContactStep DEF Inv

\* The invariant says what a reader of the tables may rely on.
LEMMA LedgerFollows == LedgerInv => LedgerSound
  <1> SUFFICES ASSUME LedgerInv PROVE LedgerSound
    OBVIOUS
  <1>1. TypeOK
    BY DEF LedgerInv, Inv
  <1>2. DeliveredIsBacked
    BY DEF LedgerInv, TablesStand, DeliveredIsBacked
  <1>3. AttemptsNumbered
    <2>1. \A a \in attempts \cup gatewayRows : a.job \in Jobs
      BY <1>1 DEF TypeOK, AttemptRows
    <2>2. \A a \in attempts \cup gatewayRows : a.attempt <= job[a.job].attempts
      BY <2>1 DEF LedgerInv, NumbersStand
    <2> QED
      BY <2>2 DEF LedgerInv, TablesStand, SameAttempt, AttemptsNumbered
  <1>4. AttemptBudget
    BY DEF LedgerInv, Budgeted, AttemptBudget
  <1>5. EnvelopeLifetime
    BY DEF LedgerInv, RowStands, ClaimStands, EnvelopeLifetime
  <1>6. TerminalEventsMatch
    BY DEF LedgerInv, RowStands, TerminalEventsMatch
  <1>7. StatusMatchesLedger
    BY DEF LedgerInv, NumbersStand, Last, StatusMatchesLedger
  <1> QED
    BY <1>1, <1>2, <1>3, <1>4, <1>5, <1>6, <1>7 DEF LedgerSound

\* The ledger stands in an empty outbox.
LEMMA LedgerInit == Init => LedgerInv
  <1> SUFFICES ASSUME Init PROVE LedgerInv
    OBVIOUS
  <1>1. Inv
    BY InitInv
  <1>2. MaxAttempts \in Nat /\ MaxAttempts >= 1
    BY ConstantsAssumption
  <1>3. ASSUME NEW j \in Jobs PROVE Budgeted(j) /\ RowStands(j) /\ NumbersStand(j)
    BY <1>2, <1>3 DEF Init, Budgeted, RowStands, NumbersStand, Open, Terminal, TerminalStatuses, WaitingStatuses
  <1>4. \A w \in Workers : ClaimStands(w)
    BY DEF Init, ClaimStands, Polling, IdleWorker
  <1>5. TablesStand
    BY DEF Init, TablesStand
  <1> QED
    BY <1>1, <1>3, <1>4, <1>5 DEF LedgerInv

\* How a step of the engine, of a sweep, of the recovery or of the clock may rewrite a row.
Moved(j) ==
    \/ job'[j] = job[j] /\ (j \in terminalEvents' <=> j \in terminalEvents)
    \/ /\ job[j].status = "absent" /\ job'[j] = NewJob(j)
       /\ j \in terminalEvents' <=> j \in terminalEvents
    \/ /\ job[j].status \in WaitingStatuses /\ job'[j] = Suppressed(job[j])
       /\ IsDataJob(j) => j \in terminalEvents'
    \/ /\ Open(j) /\ job'[j] = [job[j] EXCEPT !.elapsed = TRUE]
       /\ j \in terminalEvents' <=> j \in terminalEvents
    \/ /\ job[j].status = "running" /\ ~Held(j) /\ job'[j] = [job[j] EXCEPT !.status = WaitingStatus(j)]
       /\ j \in terminalEvents' <=> j \in terminalEvents

\* What such a rewriting does to the columns.
LEMMA MovedColumns ==
    ASSUME LedgerInv, NEW j \in Jobs, Moved(j)
    PROVE  /\ job'[j].attempts = job[j].attempts
           /\ Terminal(j) => job'[j] = job[j]
           /\ job'[j].status = "running" => job[j].status = "running"
           /\ job[j].status = "running" /\ Held(j) => job'[j].status = "running"
           /\ job[j].status # "absent" => job'[j].status # "absent"
           /\ job'[j].status \in TerminalStatuses /\ ~Terminal(j) =>
                 job'[j].status = "completed" /\ job'[j].result = "suppressed"
           /\ RowStands(j)'
  <1>1. job[j] \in JobRows /\ RowStands(j)
    BY DEF LedgerInv, Inv, TypeOK
  <1> USE DEF RowStands, Open, Terminal, TerminalStatuses, WaitingStatuses, WaitingStatus, Outcomes
  <1>2. CASE job'[j] = job[j] /\ (j \in terminalEvents' <=> j \in terminalEvents)
    BY <1>1, <1>2
  <1>3. CASE /\ job[j].status = "absent" /\ job'[j] = NewJob(j)
             /\ j \in terminalEvents' <=> j \in terminalEvents
    BY <1>1, <1>3 DEF NewJob
  <1>4. CASE /\ job[j].status \in WaitingStatuses /\ job'[j] = Suppressed(job[j])
             /\ IsDataJob(j) => j \in terminalEvents'
    <2>1. /\ job'[j].status = "completed" /\ job'[j].envelope = "redacted" /\ job'[j].result = "suppressed"
          /\ job'[j].attempts = job[j].attempts
      BY <1>1, <1>4 DEF Suppressed, JobRows
    <2> QED
      BY <1>1, <1>4, <2>1
  <1>5. CASE /\ Open(j) /\ job'[j] = [job[j] EXCEPT !.elapsed = TRUE]
             /\ j \in terminalEvents' <=> j \in terminalEvents
    <2>1. /\ job'[j].status = job[j].status /\ job'[j].envelope = job[j].envelope
          /\ job'[j].result = job[j].result /\ job'[j].attempts = job[j].attempts
      BY <1>1, <1>5 DEF JobRows
    <2> QED
      BY <1>1, <1>5, <2>1
  <1>6. CASE /\ job[j].status = "running" /\ ~Held(j) /\ job'[j] = [job[j] EXCEPT !.status = WaitingStatus(j)]
             /\ j \in terminalEvents' <=> j \in terminalEvents
    <2>1. /\ job'[j].status = WaitingStatus(j) /\ job'[j].envelope = job[j].envelope
          /\ job'[j].result = job[j].result /\ job'[j].attempts = job[j].attempts
      BY <1>1, <1>6 DEF JobRows
    <2> QED
      BY <1>1, <1>6, <2>1
  <1> QED
    BY <1>2, <1>3, <1>4, <1>5, <1>6 DEF Moved

\* A step that only rewrites rows so.
LEMMA RowsMove ==
    ASSUME LedgerInv, Inv', \A j \in Jobs : Moved(j),
           UNCHANGED <<attempts, gatewayRows, worker, calls, transactions, accepted, aborts>>
    PROVE  LedgerInv'
  <1>0. MaxAttempts \in Nat /\ MaxAttempts >= 1 /\ aborts \in Nat
    BY ConstantsAssumption DEF LedgerInv, Inv, TypeOK
  <1>1. ASSUME NEW j \in Jobs PROVE Budgeted(j)' /\ RowStands(j)' /\ NumbersStand(j)'
    <2>1. /\ job[j] \in JobRows /\ Budgeted(j) /\ NumbersStand(j) /\ Moved(j) /\ RowStands(j)
          /\ job[j].attempts \in Nat
      BY DEF LedgerInv, Inv, TypeOK, JobRows
    <2>2. /\ job'[j].attempts = job[j].attempts
          /\ Terminal(j) => job'[j] = job[j]
          /\ job'[j].status = "running" => job[j].status = "running"
          /\ job[j].status = "running" /\ Held(j) => job'[j].status = "running"
          /\ job'[j].status \in TerminalStatuses /\ ~Terminal(j) =>
                job'[j].status = "completed" /\ job'[j].result = "suppressed"
          /\ RowStands(j)'
      BY <2>1, MovedColumns
    <2>3. Held(j)' <=> Held(j)
      BY DEF Held
    <2>4. job[j].status \in {"absent", "running"} \cup WaitingStatuses \cup TerminalStatuses
      BY <2>1 DEF JobRows
    <2>5. Budgeted(j)'
      <3>1. CASE job[j].status = "absent"
        BY <1>0, <2>1, <2>2, <3>1 DEF Budgeted, RowStands
      <3>2. CASE Open(j)
        BY <1>0, <2>1, <2>2, <2>3, <3>2 DEF Budgeted, Open
      <3>3. CASE Terminal(j)
        BY <2>1, <2>2, <2>3, <3>3 DEF Budgeted, Open
      <3> QED
        BY <2>4, <3>1, <3>2, <3>3 DEF Open, Terminal
    <2>6. Last(j)' = Last(j)
      BY DEF Last, LastAttempt
    <2>7. NumbersStand(j)'
      <3>1. \A a \in (attempts \cup gatewayRows \cup calls)' : a.job = j => a.attempt <= job'[j].attempts
        BY <2>1, <2>2 DEF NumbersStand
      <3>2. job'[j].status = "running" => \A a \in attempts' : a.job = j => a.attempt < job'[j].attempts
        BY <2>1, <2>2 DEF NumbersStand
      <3>3. CASE Terminal(j)
        BY <2>1, <2>2, <2>6, <3>1, <3>2, <3>3 DEF NumbersStand, Terminal
      <3>4. CASE ~Terminal(j)
        BY <2>1, <2>2, <2>6, <3>1, <3>2, <3>4 DEF NumbersStand, Terminal, TerminalStatuses
      <3> QED
        BY <3>3, <3>4
    <2> QED
      BY <2>2, <2>5, <2>7
  <1>2. ASSUME NEW w \in Workers PROVE ClaimStands(w)'
    <2>1. ClaimStands(w) /\ (~Polling(w) => worker[w].job \in Jobs) /\ worker'[w] = worker[w]
      BY DEF LedgerInv, Inv, WorkersBusy, Polling
    <2>2. CASE Polling(w)
      BY <2>1, <2>2 DEF ClaimStands, Polling
    <2>3. CASE ~Polling(w)
      <3>1. Held(worker[w].job) /\ Moved(worker[w].job) /\ job[worker[w].job].status = "running"
        BY <2>1, <2>3 DEF Held, ClaimStands
      <3>2. job'[worker[w].job].status = "running" /\ job'[worker[w].job].attempts = job[worker[w].job].attempts
        BY <2>1, <2>3, <3>1, MovedColumns
      <3> QED
        BY <2>1, <2>3, <3>2 DEF ClaimStands, Polling, Recorded
    <2> QED
      BY <2>2, <2>3
  <1>3. TablesStand'
    BY DEF LedgerInv, TablesStand, SameAttempt
  <1> QED
    BY <1>1, <1>2, <1>3 DEF LedgerInv

\* The other tables stay as they are.
OnlyMoves ==
    /\ \A j \in Jobs : Moved(j)
    /\ UNCHANGED <<attempts, gatewayRows, worker, calls, transactions, accepted, aborts>>

\* A queueing rewrites rows so.
LEMMA QueueMoves ==
    ASSUME Inv, NEW S, job' = Queue(job, S), terminalEvents' = terminalEvents
    PROVE  \A j \in Jobs : Moved(j)
  BY DEF Queue, Moved

\* A suppression of waiting invitations, and a queueing after it.
LEMMA SuppressMoves ==
    ASSUME Inv, NEW S, NEW N, job' = Queue(Suppress(S), N), terminalEvents' = terminalEvents,
           \A j \in S : job[j].status = "pending" /\ ~IsDataJob(j)
    PROVE  \A j \in Jobs : Moved(j)
  <1> SUFFICES ASSUME NEW j \in Jobs PROVE Moved(j)
    OBVIOUS
  <1>1. Suppress(S)[j] = IF j \in S THEN Suppressed(job[j]) ELSE job[j]
    BY DEF Suppress
  <1>2. job'[j] = IF j \in N /\ Suppress(S)[j].status = "absent" THEN NewJob(j) ELSE Suppress(S)[j]
    BY DEF Queue
  <1>3. CASE j \in S
    <2>1. Suppressed(job[j]).status = "completed"
      BY DEF Suppressed, Inv, TypeOK, JobRows
    <2> QED
      BY <1>1, <1>2, <1>3, <2>1 DEF Moved, WaitingStatuses
  <1>4. CASE j \notin S
    BY <1>1, <1>2, <1>4 DEF Moved
  <1> QED
    BY <1>3, <1>4

\* The invitations that are suppressed wait, and are those of requests.
LEMMA InvitationsWait ==
    /\ \A r \in Requests : \A j \in PendingInvitations(r) : job[j].status = "pending" /\ ~IsDataJob(j)
    /\ \A j \in ObsoleteInvitations : job[j].status = "pending" /\ ~IsDataJob(j)
    /\ \A S : Queue(Suppress(S), {}) = Suppress(S)
  <1>1. ASSUME NEW r \in Requests, NEW j \in PendingInvitations(r)
        PROVE  job[j].status = "pending" /\ ~IsDataJob(j)
    BY <1>1, ConstantsAssumption DEF PendingInvitations, JobsOf, IsDataJob
  <1>2. \A j \in ObsoleteInvitations : job[j].status = "pending" /\ ~IsDataJob(j)
    BY <1>1 DEF ObsoleteInvitations
  <1>3. ASSUME NEW S PROVE Queue(Suppress(S), {}) = Suppress(S)
    BY DEF Queue, Suppress
  <1> QED
    BY <1>1, <1>2, <1>3

\* The engine's handlers only queue and suppress.
LEMMA EngineMoves ==
    ASSUME Inv, EngineStep
    PROVE  OnlyMoves
  <1>1. UNCHANGED <<attempts, gatewayRows, worker, calls, transactions, accepted, aborts, terminalEvents>>
    BY DEF EngineStep, IssueRequest, OpenAssignment, RevokeRequest, RemindRequest,
       BeginCompletion, SealCompletion, RollBackCompletion, CreateDataRequest,
       ReviewDataRequest, ChangeBinding, engineVars, gatewayVars
  <1>2. \/ job' = job
        \/ \E S : job' = Queue(job, S)
        \/ \E r \in Requests : \E N : job' = Queue(Suppress(PendingInvitations(r)), N)
    BY InvitationsWait DEF EngineStep, IssueRequest, OpenAssignment, RevokeRequest, RemindRequest,
       BeginCompletion, SealCompletion, RollBackCompletion, CreateDataRequest,
       ReviewDataRequest, ChangeBinding, engineVars, gatewayVars, suppressPendingRequestNotifications
  <1>3. \A j \in Jobs : Moved(j)
    <2>1. CASE job' = job
      BY <1>1, <2>1 DEF Moved
    <2>2. CASE \E S : job' = Queue(job, S)
      BY <1>1, <2>2, QueueMoves
    <2>3. CASE \E r \in Requests : \E N : job' = Queue(Suppress(PendingInvitations(r)), N)
      BY <1>1, <2>3, InvitationsWait, SuppressMoves
    <2> QED
      BY <1>2, <2>1, <2>2, <2>3
  <1> QED
    BY <1>1, <1>3 DEF OnlyMoves

\* With one worker, a poll that sweeps or recovers finds no job claimed.
LEMMA NobodyHolds ==
    ASSUME OneWorker, LedgerInv, NEW w \in Workers, Polling(w)
    PROVE  \A j \in Jobs : ~Held(j)
  BY ConstantsAssumption DEF OneWorker, LedgerInv, ClaimStands, Held

\* The sweeps.
LEMMA SweepMoves ==
    ASSUME Inv, NEW w \in Workers, PollStep(w), ~ClaimJob(w), ~RecoverStaleJobs(w)
    PROVE  OnlyMoves
  <1>1. UNCHANGED <<attempts, gatewayRows, worker, calls, transactions, accepted, aborts>>
    BY DEF PollStep, AdvanceOneLifecycle, ExpireOneParticipantDataRequest,
       SuppressObsoleteJobs, SuppressOneObsoleteParticipantDataJob, PrepareOneExport,
       QueueOneParticipantDataNotification, engineVars, gatewayVars
  <1>2. CASE \/ AdvanceOneLifecycle(w) \/ ExpireOneParticipantDataRequest(w) \/ SuppressObsoleteJobs(w)
             \/ PrepareOneExport(w) \/ QueueOneParticipantDataNotification(w)
    <2>1. terminalEvents' = terminalEvents
      BY <1>2 DEF AdvanceOneLifecycle, ExpireOneParticipantDataRequest, SuppressObsoleteJobs,
         PrepareOneExport, QueueOneParticipantDataNotification
    <2>2. \/ job' = job
          \/ \E S : job' = Queue(job, S)
          \/ \E r \in Requests : job' = Queue(Suppress(PendingInvitations(r)), {})
          \/ job' = Queue(Suppress(ObsoleteInvitations), {})
      BY <1>2, InvitationsWait DEF AdvanceOneLifecycle, ExpireOneParticipantDataRequest, SuppressObsoleteJobs,
         PrepareOneExport, QueueOneParticipantDataNotification, suppressPendingRequestNotifications
    <2>3. \A j \in Jobs : Moved(j)
      <3>1. CASE job' = job
        BY <2>1, <3>1 DEF Moved
      <3>2. CASE \E S : job' = Queue(job, S)
        BY <2>1, <3>2, QueueMoves
      <3>3. CASE \E r \in Requests : job' = Queue(Suppress(PendingInvitations(r)), {})
        BY <2>1, <3>3, InvitationsWait, SuppressMoves
      <3>4. CASE job' = Queue(Suppress(ObsoleteInvitations), {})
        BY <2>1, <3>4, InvitationsWait, SuppressMoves
      <3> QED
        BY <2>2, <3>1, <3>2, <3>3, <3>4
    <2> QED
      BY <1>1, <2>3 DEF OnlyMoves
  <1>3. CASE SuppressOneObsoleteParticipantDataJob(w)
    <2>1. PICK i \in Jobs : /\ job[i].status = "participant_pending" /\ job' = Suppress({i})
                            /\ terminalEvents' = terminalEvents \cup {i}
      BY <1>3 DEF SuppressOneObsoleteParticipantDataJob
    <2>2. \A j \in Jobs : Moved(j)
      BY <2>1 DEF Suppress, Moved, WaitingStatuses
    <2> QED
      BY <1>1, <2>2 DEF OnlyMoves
  <1> QED
    BY <1>2, <1>3 DEF PollStep

\* The recovery, when nobody works on the jobs it takes back.
LEMMA RecoveryMoves ==
    ASSUME OneWorker, LedgerInv, NEW w \in Workers, RecoverStaleJobs(w)
    PROVE  OnlyMoves
  <1>1. UNCHANGED <<attempts, gatewayRows, worker, calls, transactions, accepted, aborts>>
    BY DEF RecoverStaleJobs, gatewayVars
  <1>2. \A j \in Jobs : ~Held(j)
    BY NobodyHolds DEF RecoverStaleJobs
  <1>3. \A j \in Jobs : Moved(j)
    BY <1>2 DEF RecoverStaleJobs, StaleJobs, Moved
  <1> QED
    BY <1>1, <1>3 DEF OnlyMoves

\* Time passes.
LEMMA ClockMoves ==
    ASSUME Inv, NEW i \in Jobs, Elapse(i)
    PROVE  OnlyMoves
  <1>1. /\ UNCHANGED <<attempts, gatewayRows, worker, calls, transactions, accepted, aborts, terminalEvents>>
        /\ Open(i) /\ job' = [job EXCEPT ![i].elapsed = TRUE] /\ job \in [Jobs -> JobRows]
    BY DEF Elapse, engineVars, gatewayVars, Open, Inv, TypeOK
  <1>2. \A j \in Jobs : Moved(j)
    BY <1>1 DEF Moved
  <1> QED
    BY <1>1, <1>2 DEF OnlyMoves

\* A claim: the only worker takes a waiting job below its budget.
LEMMA ClaimLedger ==
    ASSUME OneWorker, LedgerInv, Inv', NEW w \in Workers, ClaimJob(w)
    PROVE  LedgerInv'
  <1>0. /\ MaxAttempts \in Nat /\ aborts \in Nat /\ job \in [Jobs -> JobRows] /\ worker \in [Workers -> WorkerRows]
        /\ NoJob \notin Jobs
    BY ConstantsAssumption DEF LedgerInv, Inv, TypeOK
  <1>1. PICK i \in Claimable :
          /\ job' = [job EXCEPT ![i].status = "running", ![i].elapsed = FALSE, ![i].attempts = @ + 1]
          /\ worker' = [worker EXCEPT ![w] = [at |-> "dispatch", job |-> i,
                            attempt |-> job[i].attempts + 1,
                            envelope |-> job[i].envelope, delivery |-> NoDelivery]]
    BY DEF ClaimJob
  <1>2. /\ i \in Jobs /\ job[i].status \in WaitingStatuses /\ job[i] \in JobRows /\ job[i].attempts \in Nat
    BY <1>0, <1>1 DEF Claimable, JobRows
  <1>3. /\ job'[i].status = "running" /\ job'[i].attempts = job[i].attempts + 1
        /\ job'[i].envelope = job[i].envelope /\ job'[i].result = job[i].result
        /\ \A j \in Jobs \ {i} : job'[j] = job[j]
    BY <1>0, <1>1, <1>2 DEF JobRows
  <1>4. worker'[w].job = i /\ worker'[w].at = "dispatch" /\ worker'[w].attempt = job[i].attempts + 1
        /\ worker'[w].envelope = job[i].envelope
    BY <1>0, <1>1
  <1>5. UNCHANGED <<attempts, gatewayRows, terminalEvents, calls, transactions, accepted, aborts>>
    BY DEF ClaimJob, gatewayVars
  <1>6. (\A j \in Jobs : ~Held(j)) /\ \A v \in Workers : v = w
    BY NobodyHolds DEF ClaimJob, OneWorker
  <1>7. \A j \in Jobs : Held(j)' <=> j = i
    BY <1>4, <1>6 DEF Held
  <1>8. ASSUME NEW j \in Jobs PROVE Budgeted(j)' /\ RowStands(j)' /\ NumbersStand(j)'
    <2>1. Budgeted(j) /\ RowStands(j) /\ NumbersStand(j) /\ Last(j)' = Last(j)
      BY <1>5 DEF LedgerInv, Last, LastAttempt
    <2>2. CASE j = i
      <3>1. job[i].attempts < MaxAttempts + aborts
        BY <1>2, <2>1, <2>2 DEF Budgeted, Open, WaitingStatuses
      <3>2. Budgeted(i)'
        BY <1>0, <1>2, <1>3, <1>5, <1>7, <3>1 DEF Budgeted
      <3>3. RowStands(i)'
        BY <1>2, <1>3, <1>5, <2>1, <2>2 DEF RowStands, Open, Terminal, TerminalStatuses, WaitingStatuses
      <3>4. \A a \in attempts \cup gatewayRows \cup calls : a.attempt \in Nat
        BY DEF LedgerInv, Inv, TypeOK, AttemptRows, Commands
      <3>5. NumbersStand(i)'
        BY <1>2, <1>3, <1>5, <2>1, <2>2, <3>4 DEF NumbersStand, Terminal, TerminalStatuses
      <3> QED
        BY <2>2, <3>2, <3>3, <3>5
    <2>3. CASE j # i
      <3>1. job'[j] = job[j] /\ ~Held(j) /\ ~Held(j)'
        BY <1>3, <1>6, <1>7, <2>3
      <3> QED
        BY <1>5, <2>1, <3>1 DEF Budgeted, RowStands, NumbersStand, Open, Terminal
    <2> QED
      BY <2>2, <2>3
  <1>9. ASSUME NEW v \in Workers PROVE ClaimStands(v)'
    <2>1. v = w /\ RowStands(i)
      BY <1>2, <1>6 DEF LedgerInv
    <2>2. job[i].envelope = "encrypted"
      BY <1>2, <2>1 DEF RowStands, Open
    <2> QED
      BY <1>3, <1>4, <2>1, <2>2 DEF ClaimStands, Polling
  <1>10. TablesStand'
    BY <1>5 DEF LedgerInv, TablesStand, SameAttempt
  <1> QED
    BY <1>8, <1>9, <1>10 DEF LedgerInv

\* The worker goes on with the job it has.
LEMMA GoesOn ==
    ASSUME OneWorker, LedgerInv, Inv', NEW w \in Workers, ~Polling(w),
           UNCHANGED <<job, attempts, gatewayRows, terminalEvents, transactions, accepted, aborts>>,
           worker'[w].job = worker[w].job, worker'[w].attempt = worker[w].attempt,
           worker'[w].envelope = worker[w].envelope, worker'[w].at # "polling",
           worker'[w].at = "recording" /\ worker'[w].delivery.outcome = "delivered" =>
              Recorded(w)' \in gatewayRows,
           calls' = calls \/ calls' = calls \cup {[job |-> worker[w].job, attempt |-> worker[w].attempt]}
    PROVE  LedgerInv'
  <1>1. \A v \in Workers : v = w
    BY DEF OneWorker
  <1>2. /\ worker[w].job \in Jobs /\ job[worker[w].job].status = "running"
        /\ job[worker[w].job].attempts = worker[w].attempt /\ worker[w].envelope = "encrypted"
        /\ worker[w].attempt \in Nat
    BY DEF LedgerInv, Inv, WorkersBusy, ClaimStands, Polling, TypeOK, WorkerRows
  <1>3. ASSUME NEW j \in Jobs PROVE Budgeted(j)' /\ RowStands(j)' /\ NumbersStand(j)'
    <2>1. Budgeted(j) /\ RowStands(j) /\ NumbersStand(j) /\ Last(j)' = Last(j)
      BY DEF LedgerInv, Last, LastAttempt
    <2>2. Held(j)' <=> Held(j)
      BY <1>1 DEF Held
    <2>3. \A c \in calls' : c.job = j => c.attempt <= job[j].attempts
      BY <1>2, <2>1 DEF NumbersStand
    <2> QED
      BY <2>1, <2>2, <2>3 DEF Budgeted, RowStands, NumbersStand, Open, Terminal
  <1>4. \A v \in Workers : ClaimStands(v)'
    BY <1>1, <1>2 DEF ClaimStands, Polling
  <1>5. TablesStand'
    BY DEF LedgerInv, TablesStand, SameAttempt
  <1> QED
    BY <1>3, <1>4, <1>5 DEF LedgerInv

\* Settling keeps the job and the attempt of the claim.
LEMMA SettleColumns ==
    ASSUME TypeOK, NEW w \in Workers, NEW delivery, Settle(w, delivery)
    PROVE  /\ worker'[w].job = worker[w].job /\ worker'[w].attempt = worker[w].attempt
           /\ worker'[w].envelope = worker[w].envelope /\ worker'[w].at = "recording"
           /\ worker'[w].delivery = delivery
  <1>1. worker \in [Workers -> WorkerRows] /\ worker[w] \in WorkerRows
    BY DEF TypeOK
  <1> QED
    BY <1>1 DEF Settle, WorkerRows

\* Calling the gateway keeps the ledger.
LEMMA DispatchLedger ==
    ASSUME OneWorker, LedgerInv, Inv', NEW w \in Workers, DispatchJob(w)
    PROVE  LedgerInv'
  <1>1. /\ ~Polling(w) /\ TypeOK
        /\ UNCHANGED <<job, attempts, gatewayRows, terminalEvents, transactions, accepted, aborts>>
    BY DEF DispatchJob, Polling, gatewayVars, LedgerInv, Inv
  <1>2. ASSUME NEW delivery, Settle(w, delivery), delivery.outcome # "delivered", calls' = calls
        PROVE  LedgerInv'
    BY <1>1, <1>2, SettleColumns, GoesOn
  <1>3. CASE Settle(w, [adapter |-> "engine", outcome |-> "suppressed"]) /\ calls' = calls
    BY <1>2, <1>3
  <1>4. CASE Settle(w, [adapter |-> "notification", outcome |-> "failed"]) /\ calls' = calls
    BY <1>2, <1>4
  <1>5. CASE /\ calls' = calls \cup {[job |-> worker[w].job, attempt |-> worker[w].attempt]}
             /\ worker' = [worker EXCEPT ![w].at = "calling"]
    <2>1. /\ worker'[w].job = worker[w].job /\ worker'[w].attempt = worker[w].attempt
          /\ worker'[w].envelope = worker[w].envelope /\ worker'[w].at = "calling"
      BY <1>1, <1>5 DEF TypeOK, WorkerRows
    <2> QED
      BY <1>1, <1>5, <2>1, GoesOn
  <1> QED
    BY <1>3, <1>4, <1>5 DEF DispatchJob

\* The answer of this very attempt, or none.
LEMMA AnswerLedger ==
    ASSUME OneWorker, LedgerInv, Inv', NEW w \in Workers, ReceiveAnswer(w) \/ CallFails(w)
    PROVE  LedgerInv'
  <1>1. /\ ~Polling(w) /\ TypeOK
        /\ UNCHANGED <<job, attempts, gatewayRows, terminalEvents, transactions, accepted, aborts, calls>>
    BY DEF ReceiveAnswer, CallFails, Polling, gatewayVars, LedgerInv, Inv
  <1>2. CASE CallFails(w)
    <2>1. Settle(w, [adapter |-> "notification", outcome |-> "failed"])
      BY <1>2 DEF CallFails
    <2> QED
      BY <1>1, <2>1, SettleColumns, GoesOn
  <1>3. CASE ReceiveAnswer(w)
    <2>1. PICK a \in gatewayRows : /\ a.job = worker[w].job /\ a.attempt = worker[w].attempt
                                   /\ Settle(w, [adapter |-> a.adapter, outcome |-> a.outcome])
      BY <1>3 DEF ReceiveAnswer
    <2>2. a = [job |-> a.job, attempt |-> a.attempt, adapter |-> a.adapter, outcome |-> a.outcome]
      BY <1>1 DEF TypeOK, AttemptRows
    <2>3. Recorded(w)' = a
      BY <1>1, <2>1, <2>2, SettleColumns DEF Recorded
    <2> QED
      BY <1>1, <2>1, <2>3, SettleColumns, GoesOn
  <1> QED
    BY <1>2, <1>3

\* A poll that is lost leaves its job running, with one more abort to its budget.
LEMMA AbortLedger ==
    ASSUME OneWorker, LedgerInv, Inv', NEW w \in Workers, AbortPoll(w)
    PROVE  LedgerInv'
  <1>1. /\ UNCHANGED <<job, attempts, gatewayRows, terminalEvents, transactions, accepted, calls>>
        /\ aborts' = aborts + 1 /\ worker' = [worker EXCEPT ![w] = IdleWorker]
    BY DEF AbortPoll, gatewayVars
  <1>2. MaxAttempts \in Nat /\ aborts \in Nat /\ job \in [Jobs -> JobRows] /\ worker \in [Workers -> WorkerRows]
    BY ConstantsAssumption DEF LedgerInv, Inv, TypeOK
  <1>3. ASSUME NEW j \in Jobs PROVE Budgeted(j)' /\ RowStands(j)' /\ NumbersStand(j)'
    <2>1. Budgeted(j) /\ RowStands(j) /\ NumbersStand(j) /\ Last(j)' = Last(j) /\ job[j].attempts \in Nat
      BY <1>1, <1>2 DEF LedgerInv, Last, LastAttempt, JobRows
    <2> QED
      BY <1>1, <1>2, <2>1 DEF Budgeted, RowStands, NumbersStand, Open, Terminal
  <1>4. \A v \in Workers : ClaimStands(v)'
    BY <1>1, <1>2 DEF OneWorker, ClaimStands, Polling, IdleWorker
  <1>5. TablesStand'
    BY <1>1 DEF LedgerInv, TablesStand, SameAttempt
  <1> QED
    BY <1>3, <1>4, <1>5 DEF LedgerInv

\* The end of a delivery: one attempt row, the last of its job, and what the row then says.
LEMMA RecordColumns ==
    ASSUME LedgerInv, NEW w \in Workers, RecordDelivery(w)
    PROVE  /\ worker[w].job \in Jobs /\ job[worker[w].job].status = "running"
           /\ job[worker[w].job].attempts = worker[w].attempt
           /\ attempts' = attempts \cup {Recorded(w)}
           /\ job'[worker[w].job].status = NextStatus(w)
           /\ job'[worker[w].job].attempts = worker[w].attempt
           /\ job'[worker[w].job].result = worker[w].delivery.outcome
           /\ job'[worker[w].job].envelope = IF IsTerminal(w) THEN "redacted" ELSE "encrypted"
           /\ \A j \in Jobs \ {worker[w].job} : job'[j] = job[j]
           /\ terminalEvents' = IF IsTerminal(w) /\ IsDataJob(worker[w].job)
                                THEN terminalEvents \cup {worker[w].job} ELSE terminalEvents
  <1> DEFINE j == worker[w].job
  <1>1. /\ j \in Jobs /\ job[j].status = "running" /\ job[j].attempts = worker[w].attempt
        /\ job \in [Jobs -> JobRows] /\ job[j] \in JobRows /\ RowStands(j)
    BY DEF RecordDelivery, LedgerInv, Inv, WorkersBusy, ClaimStands, Polling, TypeOK
  <1>2. ~TerminalEventConflict(w) /\ job[j].envelope = "encrypted"
    BY <1>1 DEF TerminalEventConflict, RowStands, Terminal, TerminalStatuses, Open
  <1>3. /\ attempts' = attempts \cup {Recorded(w)}
        /\ job' = [job EXCEPT ![j] =
              [@ EXCEPT !.status = NextStatus(w), !.elapsed = FALSE,
                        !.result = worker[w].delivery.outcome, !.envelope = NextEnvelope(w)]]
        /\ terminalEvents' = IF IsTerminal(w) /\ IsDataJob(j) THEN terminalEvents \cup {j} ELSE terminalEvents
    BY <1>2 DEF RecordDelivery, Recorded
  <1>4. NextEnvelope(w) = IF IsTerminal(w) THEN "redacted" ELSE "encrypted"
    BY <1>2 DEF NextEnvelope
  <1> HIDE DEF j
  <1>5. /\ job'[j].status = NextStatus(w) /\ job'[j].attempts = job[j].attempts
        /\ job'[j].result = worker[w].delivery.outcome /\ job'[j].envelope = NextEnvelope(w)
        /\ \A i \in Jobs \ {j} : job'[i] = job[i]
    BY <1>1, <1>3 DEF JobRows
  <1> QED
    BY <1>1, <1>3, <1>4, <1>5 DEF j

\* Recording a delivery keeps the ledger: the row, the attempt and the terminal event
\* are written together.
LEMMA RecordLedger ==
    ASSUME OneWorker, LedgerInv, Inv', NEW w \in Workers, RecordDelivery(w)
    PROVE  LedgerInv'
  <1>0. PICK i : i = worker[w].job
    OBVIOUS
  <1>1. /\ i \in Jobs /\ job[i].status = "running" /\ job[i].attempts = worker[w].attempt
        /\ attempts' = attempts \cup {Recorded(w)}
        /\ job'[i].status = NextStatus(w) /\ job'[i].attempts = worker[w].attempt
        /\ job'[i].result = worker[w].delivery.outcome
        /\ job'[i].envelope = IF IsTerminal(w) THEN "redacted" ELSE "encrypted"
        /\ \A j \in Jobs \ {i} : job'[j] = job[j]
        /\ terminalEvents' = IF IsTerminal(w) /\ IsDataJob(i) THEN terminalEvents \cup {i} ELSE terminalEvents
    BY <1>0, RecordColumns
  <1>2. /\ UNCHANGED <<gatewayRows, transactions, accepted, calls, aborts>>
        /\ worker' = [worker EXCEPT ![w] = IdleWorker] /\ worker[w].at = "recording"
    BY DEF RecordDelivery, gatewayVars
  <1>3. /\ MaxAttempts \in Nat /\ aborts \in Nat /\ worker \in [Workers -> WorkerRows]
        /\ worker[w].attempt \in Nat /\ worker[w].delivery.outcome \in Outcomes
        /\ Recorded(w).job = i /\ Recorded(w).attempt = worker[w].attempt
        /\ Recorded(w).outcome = worker[w].delivery.outcome
        /\ attempts \subseteq AttemptRows
    BY <1>0, <1>2, ConstantsAssumption
       DEF LedgerInv, Inv, TypeOK, WorkerRows, WorkersBusy, Deliveries, Recorded
  <1>4. (\A v \in Workers : v = w) /\ ClaimStands(w)
    BY DEF OneWorker, LedgerInv
  <1>5. /\ IsTerminal(w) => job'[i].status \in TerminalStatuses
        /\ ~IsTerminal(w) => job'[i].status \in WaitingStatuses /\ worker[w].attempt < MaxAttempts
        /\ job'[i].status = "failed" => worker[w].delivery.outcome = "failed"
    BY <1>1, <1>3 DEF NextStatus, IsTerminal, TerminalStatuses, WaitingStatuses, WaitingStatus
  <1>6. \A j \in Jobs : ~Held(j)' /\ (j # i => ~Held(j))
    BY <1>0, <1>2, <1>3, <1>4, ConstantsAssumption DEF Held, IdleWorker
  <1>7. ASSUME NEW j \in Jobs, j # i PROVE Budgeted(j)' /\ RowStands(j)' /\ NumbersStand(j)'
    <2>1. Budgeted(j) /\ RowStands(j) /\ NumbersStand(j)
      BY DEF LedgerInv
    <2>2. {a \in attempts' : a.job = j} = {a \in attempts : a.job = j}
      BY <1>1, <1>3, <1>7
    <2>3. Last(j)' = Last(j)
      BY <2>2 DEF Last, LastAttempt
    <2>4. job'[j] = job[j] /\ ~Held(j)' /\ ~Held(j) /\ (j \in terminalEvents' <=> j \in terminalEvents)
      BY <1>1, <1>6, <1>7
    <2>5. Budgeted(j)' /\ RowStands(j)'
      BY <1>2, <2>1, <2>4 DEF Budgeted, RowStands, Open, Terminal
    <2>6. \A a \in attempts' : a.job = j => a \in attempts
      BY <2>2
    <2> QED
      BY <1>2, <2>1, <2>3, <2>4, <2>5, <2>6 DEF NumbersStand, Terminal
  <1>8. Budgeted(i)' /\ RowStands(i)'
    <2>1. Budgeted(i) /\ RowStands(i)
      BY <1>1 DEF LedgerInv
    <2>2. Budgeted(i)'
      <3>1. CASE IsTerminal(w)
        BY <1>1, <1>2, <1>5, <2>1, <3>1 DEF Budgeted, Open, TerminalStatuses, WaitingStatuses
      <3>2. CASE ~IsTerminal(w)
        BY <1>1, <1>2, <1>3, <1>5, <3>2 DEF Budgeted
      <3> QED
        BY <3>1, <3>2
    <2>3. RowStands(i)'
      <3>1. CASE IsTerminal(w)
        BY <1>1, <1>3, <1>5, <3>1 DEF RowStands, Open, Terminal, TerminalStatuses, WaitingStatuses
      <3>2. CASE ~IsTerminal(w)
        BY <1>1, <1>5, <2>1, <3>2 DEF RowStands, Open, Terminal, TerminalStatuses, WaitingStatuses
      <3> QED
        BY <3>1, <3>2
    <2> QED
      BY <2>2, <2>3
  <1>9. NumbersStand(i)'
    <2>1. NumbersStand(i) /\ \A a \in attempts : a.job = i => a.attempt < worker[w].attempt /\ a.attempt \in Nat
      BY <1>1, <1>3 DEF LedgerInv, NumbersStand, AttemptRows
    <2>2. Recorded(w) \in Last(i)'
      BY <1>1, <1>3, <2>1 DEF Last, LastAttempt
    <2>3. \A a \in (attempts \cup gatewayRows \cup calls)' : a.job = i => a.attempt <= job'[i].attempts
      BY <1>1, <1>2, <1>3, <2>1 DEF NumbersStand
    <2>4. job'[i].status # "running"
      BY <1>5 DEF TerminalStatuses, WaitingStatuses
    <2> QED
      BY <1>1, <1>3, <1>5, <2>2, <2>3, <2>4 DEF NumbersStand, Terminal
  <1>10. \A v \in Workers : ClaimStands(v)'
    BY <1>2, <1>3, <1>4 DEF ClaimStands, Polling, IdleWorker
  <1>11. TablesStand'
    <2>1. TablesStand /\ NumbersStand(i)
      BY <1>1 DEF LedgerInv
    <2>2. \A a \in attempts : a.job = i => a.attempt # worker[w].attempt
      BY <1>1, <1>3, <2>1 DEF NumbersStand, AttemptRows
    <2>3. Recorded(w).outcome = "delivered" => Recorded(w) \in gatewayRows
      BY <1>2, <1>3, <1>4 DEF ClaimStands
    <2>4. \A a, b \in attempts' : SameAttempt(a, b) => a = b
      BY <1>1, <1>3, <2>1, <2>2 DEF TablesStand, SameAttempt
    <2> QED
      BY <1>1, <1>2, <2>1, <2>3, <2>4 DEF TablesStand, SameAttempt
  <1> QED
    BY <1>7, <1>8, <1>9, <1>10, <1>11 DEF LedgerInv

\* A step of the gateway, and what it may do to the tables.
GatewayStep ==
    \/ \E c \in calls : GatewayRefuses(c) \/ GatewayContacts(c)
    \/ GatewayFinishes
    \/ \E t \in transactions : GatewayAborts(t)

TablesGrow ==
    /\ UNCHANGED <<job, attempts, terminalEvents, worker, calls>>
    /\ gatewayRows \subseteq gatewayRows' /\ accepted \subseteq accepted' /\ aborts <= aborts'
    /\ \A a \in gatewayRows' \ gatewayRows : a.attempt <= job[a.job].attempts
    /\ TablesStand'

\* The gateway's refusals, contacts and commits do no more than that.
LEMMA GatewayTables ==
    ASSUME Inv, TablesStand, \A c \in calls : c.attempt <= job[c.job].attempts, GatewayStep
    PROVE  TablesGrow
  <1>1. /\ TablesStand /\ aborts \in Nat /\ calls \subseteq Commands /\ transactions \subseteq Transactions
        /\ gatewayRows \subseteq AttemptRows /\ ContactIsCurrent
    BY DEF Inv, TypeOK
  <1>2. ASSUME NEW c \in calls, GatewayRefuses(c) PROVE TablesGrow
    <2> DEFINE new == [job |-> c.job, attempt |-> c.attempt,
                       adapter |-> Refusal(c).adapter, outcome |-> Refusal(c).outcome]
    <2>1. /\ gatewayRows' = gatewayRows \cup {new} /\ FirstArrival(c)
          /\ UNCHANGED <<job, attempts, terminalEvents, worker, calls, transactions, accepted, aborts>>
      BY <1>2 DEF GatewayRefuses
    <2>2. Refusal(c).outcome # "delivered"
      <3>1. binding \in {"usable", "disabled", "unavailable", "not_admitted"} /\ ~MayContact(c)
        BY <1>2, ConstantsAssumption DEF GatewayRefuses, Inv, TypeOK, BindingStates
      <3> QED
        BY <3>1 DEF Refusal, MayContact
    <2>3. new.job = c.job /\ new.attempt = c.attempt /\ new.outcome # "delivered"
      BY <2>2
    <2> HIDE DEF new
    <2>4. c.attempt <= job[c.job].attempts
      OBVIOUS
    <2>5. TablesStand'
      BY <1>1, <2>1, <2>3 DEF TablesStand, SameAttempt, FirstArrival
    <2> QED
      BY <1>1, <2>1, <2>3, <2>4, <2>5 DEF TablesGrow
  <1>3. ASSUME NEW c \in calls, GatewayContacts(c) PROVE TablesGrow
    <2> DEFINE new == [job |-> c.job, attempt |-> c.attempt, answer |-> "none"]
    <2>1. /\ transactions' = transactions \cup {new} /\ FirstArrival(c)
          /\ UNCHANGED <<job, attempts, terminalEvents, worker, calls, gatewayRows, accepted, aborts>>
      BY <1>3 DEF GatewayContacts
    <2>2. new.job = c.job /\ new.attempt = c.attempt /\ new.answer = "none"
      OBVIOUS
    <2> HIDE DEF new
    <2>3. TablesStand'
      BY <1>1, <2>1, <2>2 DEF TablesStand, SameAttempt, FirstArrival
    <2> QED
      BY <1>1, <2>1, <2>3 DEF TablesGrow
  <1>4. ASSUME NEW t \in transactions, NEW answer \in {"delivered", "failed"}, NEW took \in BOOLEAN,
               ProviderAnswers(t, answer, took)
        PROVE  TablesGrow
    <2> DEFINE new == [t EXCEPT !.answer = answer]
    <2>1. /\ transactions' = (transactions \ {t}) \cup {new} /\ accepted \subseteq accepted'
          /\ answer = "delivered" => t.job \in accepted'
          /\ UNCHANGED <<job, attempts, terminalEvents, worker, calls, gatewayRows, aborts>>
      BY <1>4 DEF ProviderAnswers
    <2>2. new.job = t.job /\ new.attempt = t.attempt /\ new.answer = answer
      BY <1>1 DEF Transactions
    <2> HIDE DEF new
    <2>3. TablesStand'
      BY <1>1, <2>1, <2>2 DEF TablesStand, SameAttempt
    <2> QED
      BY <1>1, <2>1, <2>3 DEF TablesGrow
  <1>5. ASSUME NEW t \in transactions, GatewayCommits(t) PROVE TablesGrow
    <2> DEFINE new == [job |-> t.job, attempt |-> t.attempt, adapter |-> "provider", outcome |-> t.answer]
    <2>1. /\ gatewayRows' = gatewayRows \cup {new} /\ transactions' = transactions \ {t}
          /\ UNCHANGED <<job, attempts, terminalEvents, worker, calls, accepted, aborts>>
      BY <1>5 DEF GatewayCommits
    <2>2. new.job = t.job /\ new.attempt = t.attempt /\ new.outcome = t.answer
      OBVIOUS
    <2> HIDE DEF new
    <2>3. TablesStand'
      BY <1>1, <2>1, <2>2 DEF TablesStand, SameAttempt
    <2>4. t.attempt <= job[t.job].attempts
      BY <1>1 DEF ContactIsCurrent, Transactions
    <2> QED
      BY <1>1, <2>1, <2>2, <2>3, <2>4 DEF TablesGrow
  <1>6. ASSUME NEW t \in transactions, GatewayAborts(t) PROVE TablesGrow
    <2>1. /\ transactions' = transactions \ {t} /\ aborts' = aborts + 1
          /\ UNCHANGED <<job, attempts, terminalEvents, worker, calls, gatewayRows, accepted>>
      BY <1>6 DEF GatewayAborts
    <2>2. TablesStand'
      BY <1>1, <2>1 DEF TablesStand, SameAttempt
    <2> QED
      BY <1>1, <2>1, <2>2 DEF TablesGrow
  <1> QED
    BY <1>2, <1>3, <1>4, <1>5, <1>6 DEF GatewayStep, GatewayFinishes

\* A step of the gateway: rows of its own table, within the numbers of the jobs.
LEMMA GatewayMoves ==
    ASSUME LedgerInv, Inv', UNCHANGED <<job, attempts, terminalEvents, worker, calls>>,
           aborts' \in Nat, aborts <= aborts', gatewayRows \subseteq gatewayRows', TablesStand',
           \A a \in gatewayRows' \ gatewayRows : a.attempt <= job[a.job].attempts
    PROVE  LedgerInv'
  <1>1. MaxAttempts \in Nat /\ aborts \in Nat
    BY ConstantsAssumption DEF LedgerInv, Inv, TypeOK
  <1>2. ASSUME NEW j \in Jobs PROVE Budgeted(j)' /\ RowStands(j)' /\ NumbersStand(j)'
    <2>1. Budgeted(j) /\ RowStands(j) /\ NumbersStand(j) /\ Last(j)' = Last(j) /\ job[j].attempts \in Nat
      BY DEF LedgerInv, Last, LastAttempt, Inv, TypeOK, JobRows
    <2>2. Held(j)' <=> Held(j)
      BY DEF Held
    <2>3. Budgeted(j)'
      BY <1>1, <2>1, <2>2 DEF Budgeted, Open
    <2> QED
      BY <2>1, <2>3 DEF RowStands, NumbersStand, Open, Terminal
  <1>3. \A w \in Workers : ClaimStands(w)'
    BY DEF LedgerInv, ClaimStands, Polling, Recorded
  <1> QED
    BY <1>2, <1>3 DEF LedgerInv

\* The steps of the gateway keep the ledger.
LEMMA GatewayLedger ==
    ASSUME LedgerInv, Inv', GatewayStep
    PROVE  LedgerInv'
  <1>1. \A c \in calls : c.attempt <= job[c.job].attempts
    BY DEF LedgerInv, NumbersStand, Inv, TypeOK, Commands
  <1>2. TablesGrow /\ aborts' \in Nat
    BY <1>1, GatewayTables DEF LedgerInv, Inv, TypeOK
  <1> QED
    BY <1>2, GatewayMoves DEF TablesGrow

\* A step of the outbox moves rows only, or is one of a delivery.
LEMMA LedgerStep ==
    ASSUME OneWorker, LedgerInv, [Next]_vars
    PROVE  LedgerInv'
  <1>1. Inv /\ Inv'
    BY InvStep DEF LedgerInv
  <1>2. CASE OnlyMoves
    BY <1>1, <1>2, RowsMove DEF OnlyMoves
  <1>3. CASE UNCHANGED vars
    BY <1>2, <1>3 DEF vars, OnlyMoves, Moved
  <1>4. ASSUME NEW w \in Workers, PollStep(w) \/ DeliverStep(w) \/ AbortPoll(w) PROVE LedgerInv'
    BY <1>1, <1>2, <1>4, SweepMoves, RecoveryMoves, ClaimLedger, DispatchLedger, AnswerLedger, RecordLedger, AbortLedger
       DEF DeliverStep
  <1> QED
    BY <1>1, <1>2, <1>3, <1>4, EngineMoves, ClockMoves, GatewayLedger DEF Next, GatewayStep

\* With one worker the attempt tables, the rows, their envelopes and their terminal events agree
\* after every step, wherever a poll or a gateway transaction was cut short, for any number of
\* requests, data requests, jobs, attempts and aborts.
THEOREM LedgerIsSound == ASSUME OneWorker PROVE Spec => []LedgerSound
  <1>1. LedgerInv /\ [Next]_vars => LedgerInv'
    BY LedgerStep
  <1> QED
    BY LedgerInit, LedgerFollows, <1>1, PTL DEF Spec

-----------------------------------------------------------------------------
(* The refinement: what a step is for NotificationPromise.                  *)

\* The phase of a job after a step that rewrites its row.
LEMMA PhaseMoves ==
    ASSUME LedgerInv, NEW j \in Jobs, Moved(j)
    PROVE  \/ JobPhase(j)' = JobPhase(j)
           \/ JobPhase(j) = "absent" /\ JobPhase(j)' = "open"
           \/ JobPhase(j) = "open" /\ JobPhase(j)' = "suppressed"
  <1>1. job[j] \in JobRows
    BY DEF LedgerInv, Inv, TypeOK
  <1> USE DEF JobPhase, Terminal, TerminalStatuses, WaitingStatuses, WaitingStatus, Open
  <1>2. CASE job'[j] = job[j]
    BY <1>2
  <1>3. CASE job[j].status = "absent" /\ job'[j] = NewJob(j)
    BY <1>3 DEF NewJob
  <1>4. CASE job[j].status \in WaitingStatuses /\ job'[j] = Suppressed(job[j])
    <2>1. job'[j].status = "completed" /\ job'[j].result = "suppressed"
      BY <1>1, <1>4 DEF Suppressed, JobRows
    <2> QED
      BY <1>4, <2>1
  <1>5. CASE Open(j) /\ job'[j] = [job[j] EXCEPT !.elapsed = TRUE]
    <2>1. job'[j].status = job[j].status /\ job'[j].result = job[j].result
      BY <1>1, <1>5 DEF JobRows
    <2> QED
      BY <1>5, <2>1
  <1>6. CASE job[j].status = "running" /\ job'[j] = [job[j] EXCEPT !.status = WaitingStatus(j)]
    <2>1. job'[j].status = WaitingStatus(j)
      BY <1>1, <1>6 DEF JobRows
    <2> QED
      BY <1>6, <2>1
  <1> QED
    BY <1>2, <1>3, <1>4, <1>5, <1>6 DEF Moved

\* A step of the promise, with the phases of the outbox.
LEMMA Simulation ==
    ASSUME OneWorker, LedgerInv, [Next]_vars
    PROVE  [Promise!Next]_<<[j \in Jobs |-> JobPhase(j)], accepted>>
  <1> DEFINE phase == [j \in Jobs |-> JobPhase(j)]
  <1>1. ASSUME accepted' = accepted,
               \A j \in Jobs : \/ JobPhase(j)' = JobPhase(j)
                               \/ JobPhase(j) = "absent" /\ JobPhase(j)' = "open"
                               \/ JobPhase(j) = "open" /\ JobPhase(j)' \in {"suppressed", "failed"}
                               \/ JobPhase(j) = "open" /\ JobPhase(j)' = "delivered" /\ j \in accepted
        PROVE  Promise!Next
    BY <1>1 DEF Promise!Next, Promise!Advance
  <1>2. ASSUME accepted' = accepted, job' = job PROVE Promise!Next
    BY <1>1, <1>2 DEF JobPhase, Terminal
  <1>3. ASSUME OnlyMoves PROVE Promise!Next
    BY <1>1, <1>3, PhaseMoves DEF OnlyMoves
  <1>4. ASSUME NEW w \in Workers, ClaimJob(w) PROVE Promise!Next
    <2>1. PICK i \in Claimable :
            job' = [job EXCEPT ![i].status = "running", ![i].elapsed = FALSE, ![i].attempts = @ + 1]
      BY <1>4 DEF ClaimJob
    <2>2. i \in Jobs /\ job[i].status \in WaitingStatuses /\ job \in [Jobs -> JobRows]
      BY DEF Claimable, LedgerInv, Inv, TypeOK
    <2>3. job'[i].status = "running" /\ \A j \in Jobs \ {i} : job'[j] = job[j]
      BY <2>1, <2>2 DEF JobRows
    <2>4. \A j \in Jobs : JobPhase(j)' = JobPhase(j)
      BY <2>2, <2>3 DEF JobPhase, Terminal, TerminalStatuses, WaitingStatuses
    <2>5. accepted' = accepted
      BY <1>4 DEF ClaimJob, gatewayVars
    <2> QED
      BY <1>1, <2>4, <2>5
  <1>5. ASSUME NEW w \in Workers, RecordDelivery(w) PROVE Promise!Next
    <2>0. PICK i : i = worker[w].job
      OBVIOUS
    <2>1. /\ i \in Jobs /\ job[i].status = "running"
          /\ job'[i].status = NextStatus(w) /\ job'[i].result = worker[w].delivery.outcome
          /\ \A j \in Jobs \ {i} : job'[j] = job[j]
      BY <1>5, <2>0, RecordColumns
    <2>2. accepted' = accepted /\ worker[w].at = "recording"
      BY <1>5 DEF RecordDelivery, gatewayVars
    <2>3. worker[w].delivery.outcome \in {"delivered", "suppressed", "failed"}
      BY <2>2 DEF LedgerInv, Inv, WorkersBusy, Deliveries, Outcomes
    <2>4. worker[w].delivery.outcome = "delivered" => i \in accepted
      BY <2>0, <2>2 DEF LedgerInv, ClaimStands, TablesStand, Recorded
    <2>5. JobPhase(i) = "open"
      BY <2>1 DEF JobPhase, Terminal, TerminalStatuses
    <2>6. JobPhase(i)' \in {"open", worker[w].delivery.outcome}
      BY <2>1 DEF JobPhase, Terminal, TerminalStatuses, NextStatus, WaitingStatus
    <2>7. \A j \in Jobs \ {i} : JobPhase(j)' = JobPhase(j)
      BY <2>1 DEF JobPhase, Terminal
    <2> QED
      BY <1>1, <2>2, <2>3, <2>4, <2>5, <2>6, <2>7
  <1>6. ASSUME NEW w \in Workers, DispatchJob(w) \/ ReceiveAnswer(w) \/ CallFails(w) \/ AbortPoll(w)
        PROVE  Promise!Next
    BY <1>2, <1>6 DEF DispatchJob, ReceiveAnswer, CallFails, AbortPoll, gatewayVars
  <1>7. ASSUME NEW t \in transactions, NEW answer, NEW took \in BOOLEAN, ProviderAnswers(t, answer, took)
        PROVE  Promise!Next
    <2>1. job' = job /\ accepted' = IF took THEN accepted \cup {t.job} ELSE accepted
      BY <1>7 DEF ProviderAnswers
    <2>2. t.job \in Jobs /\ job[t.job].status = "running"
      BY DEF LedgerInv, Inv, TypeOK, Transactions, ContactIsCurrent
    <2>3. JobPhase(t.job) = "open"
      BY <2>2 DEF JobPhase, Terminal, TerminalStatuses
    <2>4. CASE took
      <3>1. phase' = phase
        BY <2>1 DEF JobPhase, Terminal
      <3>2. phase[t.job] = "open" /\ accepted' = accepted \cup {t.job}
        BY <2>1, <2>2, <2>3, <2>4
      <3> QED
        BY <2>2, <3>1, <3>2 DEF Promise!Next
    <2>5. CASE ~took
      BY <1>2, <2>1, <2>5
    <2> QED
      BY <2>4, <2>5
  <1>8. ASSUME \/ \E c \in calls : GatewayRefuses(c) \/ GatewayContacts(c)
               \/ \E t \in transactions : GatewayCommits(t) \/ GatewayAborts(t)
        PROVE  Promise!Next
    BY <1>2, <1>8 DEF GatewayRefuses, GatewayContacts, GatewayCommits, GatewayAborts
  <1>9. CASE UNCHANGED vars
    BY <1>2, <1>9 DEF vars
  <1>10. ASSUME NEW w \in Workers, PollStep(w) \/ DeliverStep(w) \/ AbortPoll(w) PROVE Promise!Next
    <2>1. CASE ClaimJob(w)
      BY <1>4, <2>1
    <2>2. CASE PollStep(w) /\ ~ClaimJob(w)
      <3>1. OnlyMoves
        BY <2>2, SweepMoves, RecoveryMoves DEF LedgerInv
      <3> QED
        BY <1>3, <3>1
    <2>3. CASE RecordDelivery(w)
      BY <1>5, <2>3
    <2>4. CASE DispatchJob(w) \/ ReceiveAnswer(w) \/ CallFails(w) \/ AbortPoll(w)
      BY <1>6, <2>4
    <2> QED
      BY <1>10, <2>1, <2>2, <2>3, <2>4 DEF DeliverStep
  <1> QED
    BY <1>3, <1>7, <1>8, <1>9, <1>10, EngineMoves, ClockMoves DEF Next, GatewayFinishes, LedgerInv

\* With one worker the outbox implements NotificationPromise, step by step: whatever requests, data
\* requests, sweeps, retries, recoveries and gateway transactions do, a queued job settles once and
\* for good, and as delivered only after a provider accepted it while it was open.
THEOREM PromiseIsKept == ASSUME OneWorker PROVE Spec => PromiseKept
  <1>1. Init => Promise!Init
    BY DEF Init, Promise!Init, JobPhase
  <1>2. LedgerInv /\ [Next]_vars => [Promise!Next]_<<[j \in Jobs |-> JobPhase(j)], accepted>>
    BY Simulation
  <1>3. LedgerInv /\ [Next]_vars => LedgerInv'
    BY LedgerStep
  <1> QED
    BY LedgerInit, <1>1, <1>2, <1>3, PTL DEF Spec, PromiseKept, Promise!Spec

-----------------------------------------------------------------------------
(* Any number of workers: what of the ledger does not need a single one.    *)

\* The promise to a reader of the tables that survives a second worker: an attempt called
\* delivered has the gateway's own row and an acceptance of the provider behind it, attempts are
\* numbered once in each table and never ahead of their job, and a settled job has no envelope
\* left, has its terminal event, and says delivered only of a notification a provider accepted.
SharedLedger ==
    /\ DeliveredIsBacked /\ AttemptsNumbered
    /\ \A j \in Jobs : Terminal(j) =>
          /\ job[j].envelope = "redacted"
          /\ IsDataJob(j) => j \in terminalEvents
          /\ job[j].result = "delivered" => j \in accepted

\* The part of a row that a late worker cannot undo.
RowCloses(j) ==
    /\ job[j].status = "absent" => job[j].attempts = 0
    /\ Terminal(j) => job[j].envelope = "redacted" /\ (IsDataJob(j) => j \in terminalEvents)
    /\ job[j].result = "delivered" => j \in accepted

\* A worker past its claim has the attempt to itself, however long ago its job was taken back.
AttemptIsOwn(w) ==
    ~Polling(w) =>
        /\ worker[w].attempt <= job[worker[w].job].attempts
        /\ \A a \in attempts : ~SameAttempt(a, worker[w])
        /\ \A v \in Workers : ~Polling(v) /\ SameAttempt(worker[v], worker[w]) => v = w
        /\ worker[w].at = "recording" /\ worker[w].delivery.outcome = "delivered" =>
              Recorded(w) \in gatewayRows

NumbersReached == \A a \in attempts \cup gatewayRows \cup calls : a.attempt <= job[a.job].attempts

SharedInv ==
    /\ Inv /\ TablesStand /\ NumbersReached
    /\ \A j \in Jobs : RowCloses(j)
    /\ \A w \in Workers : AttemptIsOwn(w)

\* The invariant says what survives.
LEMMA SharedFollows == SharedInv => SharedLedger
  <1> SUFFICES ASSUME SharedInv PROVE SharedLedger
    OBVIOUS
  <1>1. DeliveredIsBacked
    BY DEF SharedInv, TablesStand, DeliveredIsBacked
  <1>2. AttemptsNumbered
    BY DEF SharedInv, TablesStand, NumbersReached, SameAttempt, AttemptsNumbered
  <1> QED
    BY <1>1, <1>2 DEF SharedInv, RowCloses, SharedLedger

\* The shared ledger stands in an empty outbox.
LEMMA SharedInit == Init => SharedInv
  <1> SUFFICES ASSUME Init PROVE SharedInv
    OBVIOUS
  <1>1. Inv
    BY InitInv
  <1>2. TablesStand /\ NumbersReached
    BY DEF Init, TablesStand, NumbersReached
  <1>3. ASSUME NEW j \in Jobs PROVE RowCloses(j)
    BY DEF Init, RowCloses, Terminal, TerminalStatuses
  <1>4. ASSUME NEW w \in Workers PROVE AttemptIsOwn(w)
    BY DEF Init, AttemptIsOwn, Polling, IdleWorker
  <1> QED
    BY <1>1, <1>2, <1>3, <1>4 DEF SharedInv

\* A row rewritten as OnlyMoves says, or taken back from a worker that may still have it.
Shifted(j) ==
    \/ Moved(j)
    \/ /\ job[j].status = "running" /\ job'[j] = [job[j] EXCEPT !.status = WaitingStatus(j)]
       /\ j \in terminalEvents' <=> j \in terminalEvents

\* What such a rewriting does to the columns.
LEMMA ShiftedColumns ==
    ASSUME TypeOK, NEW j \in Jobs, RowCloses(j), Shifted(j), accepted' = accepted
    PROVE  job'[j].attempts = job[j].attempts /\ RowCloses(j)'
  <1>1. job[j] \in JobRows
    BY DEF TypeOK
  <1> USE DEF RowCloses, Open, Terminal, TerminalStatuses, WaitingStatuses, WaitingStatus
  <1>2. CASE job'[j] = job[j] /\ (j \in terminalEvents' <=> j \in terminalEvents)
    BY <1>2
  <1>3. CASE /\ job[j].status = "absent" /\ job'[j] = NewJob(j)
             /\ j \in terminalEvents' <=> j \in terminalEvents
    BY <1>3 DEF NewJob
  <1>4. CASE /\ job[j].status \in WaitingStatuses /\ job'[j] = Suppressed(job[j])
             /\ IsDataJob(j) => j \in terminalEvents'
    <2>1. /\ job'[j].status = "completed" /\ job'[j].envelope = "redacted" /\ job'[j].result = "suppressed"
          /\ job'[j].attempts = job[j].attempts
      BY <1>1, <1>4 DEF Suppressed, JobRows
    <2> QED
      BY <1>4, <2>1
  <1>5. CASE /\ Open(j) /\ job'[j] = [job[j] EXCEPT !.elapsed = TRUE]
             /\ j \in terminalEvents' <=> j \in terminalEvents
    <2>1. /\ job'[j].status = job[j].status /\ job'[j].envelope = job[j].envelope
          /\ job'[j].result = job[j].result /\ job'[j].attempts = job[j].attempts
      BY <1>1, <1>5 DEF JobRows
    <2> QED
      BY <1>5, <2>1
  <1>6. CASE /\ job[j].status = "running" /\ job'[j] = [job[j] EXCEPT !.status = WaitingStatus(j)]
             /\ j \in terminalEvents' <=> j \in terminalEvents
    <2>1. /\ job'[j].status = WaitingStatus(j) /\ job'[j].envelope = job[j].envelope
          /\ job'[j].result = job[j].result /\ job'[j].attempts = job[j].attempts
      BY <1>1, <1>6 DEF JobRows
    <2> QED
      BY <1>6, <2>1
  <1> QED
    BY <1>2, <1>3, <1>4, <1>5, <1>6 DEF Shifted, Moved

\* A step that only rewrites rows so leaves every attempt with its worker.
LEMMA RowsShift ==
    ASSUME SharedInv, Inv', \A j \in Jobs : Shifted(j),
           UNCHANGED <<attempts, gatewayRows, worker, calls, transactions, accepted>>
    PROVE  SharedInv'
  <1>1. TypeOK /\ \A j \in Jobs : job'[j].attempts = job[j].attempts /\ RowCloses(j)'
    BY ShiftedColumns DEF SharedInv, Inv
  <1>2. \A a \in attempts \cup gatewayRows \cup calls : a.job \in Jobs
    BY <1>1 DEF TypeOK, AttemptRows, Commands
  <1>3. NumbersReached'
    BY <1>1, <1>2 DEF SharedInv, NumbersReached
  <1>4. ASSUME NEW w \in Workers PROVE AttemptIsOwn(w)'
    <2>1. AttemptIsOwn(w) /\ (~Polling(w) => worker[w].job \in Jobs)
      BY DEF SharedInv, Inv, WorkersBusy, Polling
    <2> QED
      BY <1>1, <2>1 DEF AttemptIsOwn, Polling, Recorded, SameAttempt
  <1>5. TablesStand'
    BY DEF SharedInv, TablesStand, SameAttempt
  <1> QED
    BY <1>1, <1>3, <1>4, <1>5 DEF SharedInv

\* The recovery takes jobs back, also from a worker that is only slow.
LEMMA RecoveryShared ==
    ASSUME SharedInv, Inv', NEW w \in Workers, RecoverStaleJobs(w)
    PROVE  SharedInv'
  <1>1. UNCHANGED <<attempts, gatewayRows, worker, calls, transactions, accepted, terminalEvents>>
    BY DEF RecoverStaleJobs, gatewayVars
  <1>2. \A j \in Jobs : Shifted(j)
    BY <1>1 DEF RecoverStaleJobs, StaleJobs, Shifted, Moved
  <1> QED
    BY <1>1, <1>2, RowsShift

\* A claim takes a number no attempt, row, command or worker has.
LEMMA ClaimShared ==
    ASSUME SharedInv, Inv', NEW w \in Workers, ClaimJob(w)
    PROVE  SharedInv'
  <1>0. /\ job \in [Jobs -> JobRows] /\ worker \in [Workers -> WorkerRows]
        /\ attempts \subseteq AttemptRows /\ gatewayRows \subseteq AttemptRows /\ calls \subseteq Commands
    BY DEF SharedInv, Inv, TypeOK
  <1>1. PICK i \in Claimable :
          /\ job' = [job EXCEPT ![i].status = "running", ![i].elapsed = FALSE, ![i].attempts = @ + 1]
          /\ worker' = [worker EXCEPT ![w] = [at |-> "dispatch", job |-> i,
                            attempt |-> job[i].attempts + 1,
                            envelope |-> job[i].envelope, delivery |-> NoDelivery]]
    BY DEF ClaimJob
  <1>2. /\ i \in Jobs /\ job[i] \in JobRows /\ job[i].attempts \in Nat
    BY <1>0, <1>1 DEF Claimable, JobRows
  <1>3. /\ job'[i].status = "running" /\ job'[i].attempts = job[i].attempts + 1
        /\ job'[i].result = job[i].result
        /\ \A j \in Jobs \ {i} : job'[j] = job[j]
    BY <1>0, <1>1, <1>2 DEF JobRows
  <1>4. /\ worker'[w].job = i /\ worker'[w].at = "dispatch" /\ worker'[w].attempt = job[i].attempts + 1
        /\ \A v \in Workers \ {w} : worker'[v] = worker[v]
    BY <1>0, <1>1
  <1>5. UNCHANGED <<attempts, gatewayRows, terminalEvents, calls, transactions, accepted>>
    BY DEF ClaimJob, gatewayVars
  <1>6. \A j \in Jobs : job[j].attempts \in Nat /\ job'[j].attempts \in Nat /\ job[j].attempts <= job'[j].attempts
    BY <1>0, <1>2, <1>3 DEF JobRows
  <1>7. \A a \in attempts \cup gatewayRows \cup calls : a.job \in Jobs /\ a.attempt \in Nat
    BY <1>0 DEF AttemptRows, Commands
  <1>8. NumbersReached'
    BY <1>5, <1>6, <1>7 DEF SharedInv, NumbersReached
  <1>9. ASSUME NEW j \in Jobs PROVE RowCloses(j)'
    BY <1>3, <1>5 DEF SharedInv, RowCloses, Terminal, TerminalStatuses
  <1>10. ASSUME NEW v \in Workers \ {w}, ~Polling(v)
         PROVE  /\ worker[v].job \in Jobs /\ worker[v].attempt \in Nat
                /\ worker[v].attempt <= job[worker[v].job].attempts
                /\ ~SameAttempt(worker[v], worker'[w])
    <2>1. /\ worker[v].job \in Jobs /\ worker[v].attempt \in Nat
          /\ worker[v].attempt <= job[worker[v].job].attempts
      BY <1>0, <1>10 DEF SharedInv, Inv, WorkersBusy, Polling, AttemptIsOwn, WorkerRows
    <2> QED
      BY <1>2, <1>4, <2>1 DEF SameAttempt
  <1>11. ASSUME NEW v \in Workers PROVE AttemptIsOwn(v)'
    <2>1. CASE v = w
      <3>1. \A a \in attempts : ~SameAttempt(a, worker'[w])
        BY <1>2, <1>4, <1>7 DEF SharedInv, NumbersReached, SameAttempt
      <3>2. \A u \in Workers : ~Polling(u)' /\ SameAttempt(worker'[u], worker'[w]) => u = w
        BY <1>4, <1>10 DEF Polling
      <3> QED
        BY <1>2, <1>3, <1>4, <1>5, <2>1, <3>1, <3>2 DEF AttemptIsOwn, SameAttempt
    <2>2. CASE v # w /\ ~Polling(v)
      <3>1. AttemptIsOwn(v) /\ worker'[v] = worker[v] /\ worker[v].attempt <= job'[worker[v].job].attempts
        BY <1>4, <1>6, <1>10, <2>2 DEF SharedInv
      <3>2. \A u \in Workers : ~Polling(u)' /\ SameAttempt(worker'[u], worker'[v]) => u = v
        BY <1>4, <1>10, <2>2, <3>1 DEF Polling, AttemptIsOwn, SameAttempt
      <3> QED
        BY <1>5, <2>2, <3>1, <3>2 DEF AttemptIsOwn, Recorded, Polling, SameAttempt
    <2>3. CASE v # w /\ Polling(v)
      BY <1>4, <2>3 DEF AttemptIsOwn, Polling
    <2> QED
      BY <2>1, <2>2, <2>3
  <1>12. TablesStand'
    BY <1>5 DEF SharedInv, TablesStand, SameAttempt
  <1> QED
    BY <1>8, <1>9, <1>11, <1>12 DEF SharedInv

\* A worker goes on with the attempt it has.
LEMMA GoesOnShared ==
    ASSUME SharedInv, Inv', NEW w \in Workers, ~Polling(w), NEW row,
           UNCHANGED <<job, attempts, gatewayRows, terminalEvents, transactions, accepted>>,
           worker' = [worker EXCEPT ![w] = row],
           row.job = worker[w].job, row.attempt = worker[w].attempt,
           row.at = "recording" /\ row.delivery.outcome = "delivered" => Recorded(w)' \in gatewayRows,
           calls' = calls \/ calls' = calls \cup {[job |-> worker[w].job, attempt |-> worker[w].attempt]}
    PROVE  SharedInv'
  <1>1. worker'[w] = row /\ \A v \in Workers \ {w} : worker'[v] = worker[v]
    BY DEF SharedInv, Inv, TypeOK
  <1>2. AttemptIsOwn(w)
    BY DEF SharedInv
  <1>3. NumbersReached'
    BY <1>2 DEF SharedInv, NumbersReached, AttemptIsOwn
  <1>4. \A j \in Jobs : RowCloses(j)'
    BY DEF SharedInv, RowCloses, Terminal
  <1>5. ASSUME NEW v \in Workers PROVE AttemptIsOwn(v)'
    <2>1. \A u \in Workers : (~Polling(u)' => ~Polling(u)) /\ worker'[u].job = worker[u].job
                             /\ worker'[u].attempt = worker[u].attempt
      BY <1>1 DEF Polling
    <2>2. CASE v = w
      BY <1>1, <1>2, <2>1, <2>2 DEF AttemptIsOwn, SameAttempt
    <2>3. CASE v # w
      <3>1. AttemptIsOwn(v) /\ worker'[v] = worker[v]
        BY <1>1, <2>3 DEF SharedInv
      <3> QED
        BY <2>1, <3>1 DEF AttemptIsOwn, SameAttempt, Polling, Recorded
    <2> QED
      BY <2>2, <2>3
  <1>6. TablesStand'
    BY DEF SharedInv, TablesStand, SameAttempt
  <1> QED
    BY <1>3, <1>4, <1>5, <1>6 DEF SharedInv

\* Settling an attempt that is not called delivered, or is delivered by the gateway's own row.
LEMMA SettleShared ==
    ASSUME SharedInv, Inv', NEW w \in Workers, ~Polling(w), NEW delivery, Settle(w, delivery),
           UNCHANGED <<job, attempts, gatewayRows, terminalEvents, transactions, accepted, calls>>,
           delivery.outcome = "delivered" => Recorded(w)' \in gatewayRows
    PROVE  SharedInv'
  <1> DEFINE row == [worker[w] EXCEPT !.at = "recording", !.delivery = delivery]
  <1>1. worker[w] \in WorkerRows
    BY DEF SharedInv, Inv, TypeOK
  <1>2. /\ worker' = [worker EXCEPT ![w] = row] /\ row.job = worker[w].job
        /\ row.attempt = worker[w].attempt /\ row.delivery = delivery
    BY <1>1 DEF Settle, WorkerRows
  <1> HIDE DEF row
  <1> QED
    BY <1>2, GoesOnShared

\* Calling the gateway and taking its answer to this very attempt keep the shared ledger.
LEMMA DispatchShared ==
    ASSUME SharedInv, Inv', NEW w \in Workers, DispatchJob(w)
    PROVE  SharedInv'
  <1>1. /\ ~Polling(w) /\ worker \in [Workers -> WorkerRows]
        /\ UNCHANGED <<job, attempts, gatewayRows, terminalEvents, transactions, accepted>>
    BY DEF DispatchJob, Polling, gatewayVars, SharedInv, Inv, TypeOK
  <1>2. ASSUME NEW delivery, Settle(w, delivery), delivery.outcome # "delivered", calls' = calls
        PROVE  SharedInv'
    BY <1>1, <1>2, SettleShared
  <1>3. CASE Settle(w, [adapter |-> "engine", outcome |-> "suppressed"]) /\ calls' = calls
    BY <1>2, <1>3
  <1>4. CASE Settle(w, [adapter |-> "notification", outcome |-> "failed"]) /\ calls' = calls
    BY <1>2, <1>4
  <1>5. CASE /\ calls' = calls \cup {[job |-> worker[w].job, attempt |-> worker[w].attempt]}
             /\ worker' = [worker EXCEPT ![w].at = "calling"]
    <2> DEFINE row == [worker[w] EXCEPT !.at = "calling"]
    <2>1. /\ worker' = [worker EXCEPT ![w] = row] /\ row.job = worker[w].job
          /\ row.attempt = worker[w].attempt /\ row.at = "calling"
      BY <1>1, <1>5 DEF WorkerRows
    <2> HIDE DEF row
    <2> QED
      BY <1>1, <1>5, <2>1, GoesOnShared
  <1> QED
    BY <1>3, <1>4, <1>5 DEF DispatchJob

\* The answer of this very attempt, or none.
LEMMA AnswerShared ==
    ASSUME SharedInv, Inv', NEW w \in Workers, ReceiveAnswer(w) \/ CallFails(w)
    PROVE  SharedInv'
  <1>1. /\ ~Polling(w) /\ TypeOK
        /\ UNCHANGED <<job, attempts, gatewayRows, terminalEvents, transactions, accepted, calls>>
    BY DEF ReceiveAnswer, CallFails, Polling, gatewayVars, SharedInv, Inv
  <1>2. CASE CallFails(w)
    <2>1. Settle(w, [adapter |-> "notification", outcome |-> "failed"])
      BY <1>2 DEF CallFails
    <2> QED
      BY <1>1, <2>1, SettleShared
  <1>3. CASE ReceiveAnswer(w)
    <2>1. PICK a \in gatewayRows : /\ a.job = worker[w].job /\ a.attempt = worker[w].attempt
                                   /\ Settle(w, [adapter |-> a.adapter, outcome |-> a.outcome])
      BY <1>3 DEF ReceiveAnswer
    <2>2. a = [job |-> a.job, attempt |-> a.attempt, adapter |-> a.adapter, outcome |-> a.outcome]
      BY <1>1 DEF TypeOK, AttemptRows
    <2>3. Recorded(w)' = a
      BY <1>1, <2>1, <2>2, SettleColumns DEF Recorded
    <2> QED
      BY <1>1, <2>1, <2>3, SettleShared
  <1> QED
    BY <1>2, <1>3

\* A worker that gives up its attempt, with the attempt recorded or not.
LEMMA LetsGo ==
    ASSUME SharedInv, NEW w \in Workers, worker' = [worker EXCEPT ![w] = IdleWorker],
           \A j \in Jobs : job'[j].attempts = job[j].attempts,
           gatewayRows' = gatewayRows,
           \A a \in attempts' \ attempts : ~Polling(w) /\ SameAttempt(a, worker[w])
    PROVE  \A v \in Workers : AttemptIsOwn(v)'
  <1> SUFFICES ASSUME NEW v \in Workers PROVE AttemptIsOwn(v)'
    OBVIOUS
  <1>1. worker'[w] = IdleWorker /\ \A u \in Workers \ {w} : worker'[u] = worker[u]
    BY DEF SharedInv, Inv, TypeOK
  <1>2. Polling(w)'
    BY <1>1 DEF Polling, IdleWorker
  <1>3. CASE v = w
    BY <1>2, <1>3 DEF AttemptIsOwn
  <1>4. CASE v # w /\ Polling(v)
    BY <1>1, <1>4 DEF AttemptIsOwn, Polling
  <1>5. CASE v # w /\ ~Polling(v)
    <2>1. /\ worker'[v] = worker[v] /\ AttemptIsOwn(v) /\ AttemptIsOwn(w) /\ worker[v].job \in Jobs
      BY <1>1, <1>5 DEF SharedInv, Inv, WorkersBusy, Polling
    <2>2. \A a \in attempts' : ~SameAttempt(a, worker[v])
      <3> SUFFICES ASSUME NEW a \in attempts', SameAttempt(a, worker[v]) PROVE FALSE
        OBVIOUS
      <3>1. a \notin attempts
        BY <1>5, <2>1 DEF AttemptIsOwn
      <3>2. ~Polling(w) /\ SameAttempt(worker[v], worker[w])
        BY <3>1 DEF SameAttempt
      <3> QED
        BY <1>5, <2>1, <3>2 DEF AttemptIsOwn
    <2>3. \A u \in Workers : ~Polling(u)' /\ SameAttempt(worker'[u], worker'[v]) => u = v
      BY <1>1, <1>2, <1>5, <2>1 DEF AttemptIsOwn, Polling
    <2> QED
      BY <1>5, <2>1, <2>2, <2>3 DEF AttemptIsOwn, Polling, Recorded, SameAttempt
  <1> QED
    BY <1>3, <1>4, <1>5

\* A poll that is lost.
LEMMA AbortShared ==
    ASSUME SharedInv, Inv', NEW w \in Workers, AbortPoll(w)
    PROVE  SharedInv'
  <1>1. /\ UNCHANGED <<job, attempts, gatewayRows, terminalEvents, transactions, accepted, calls>>
        /\ worker' = [worker EXCEPT ![w] = IdleWorker]
    BY DEF AbortPoll, gatewayVars
  <1>2. \A v \in Workers : AttemptIsOwn(v)'
    BY <1>1, LetsGo
  <1> QED
    BY <1>1, <1>2 DEF SharedInv, NumbersReached, RowCloses, Terminal, TablesStand, SameAttempt

\* Recording, whatever the row has become: a second terminal event of a data job is refused, and a
\* late failure may reopen the row but never its envelope.
LEMMA RecordShared ==
    ASSUME SharedInv, Inv', NEW w \in Workers, RecordDelivery(w)
    PROVE  SharedInv'
  <1>0. PICK i : i = worker[w].job
    OBVIOUS
  <1>1. /\ worker[w].at = "recording" /\ ~Polling(w) /\ i \in Jobs
        /\ UNCHANGED <<gatewayRows, transactions, accepted, calls>>
        /\ worker' = [worker EXCEPT ![w] = IdleWorker]
        /\ job \in [Jobs -> JobRows] /\ job[i] \in JobRows
        /\ AttemptIsOwn(w) /\ TablesStand
    BY <1>0 DEF RecordDelivery, gatewayVars, SharedInv, Inv, WorkersBusy, Polling, TypeOK
  <1>2. CASE TerminalEventConflict(w)
    <2>1. UNCHANGED <<attempts, job, terminalEvents>>
      BY <1>2 DEF RecordDelivery
    <2>2. \A v \in Workers : AttemptIsOwn(v)'
      BY <1>1, <2>1, LetsGo
    <2> QED
      BY <1>1, <2>1, <2>2 DEF SharedInv, NumbersReached, RowCloses, Terminal, TablesStand, SameAttempt
  <1>3. CASE ~TerminalEventConflict(w)
    <2>1. /\ attempts' = attempts \cup {Recorded(w)}
          /\ job' = [job EXCEPT ![i] =
                [@ EXCEPT !.status = NextStatus(w), !.elapsed = FALSE,
                          !.result = worker[w].delivery.outcome, !.envelope = NextEnvelope(w)]]
          /\ terminalEvents' = IF IsTerminal(w) /\ IsDataJob(i) THEN terminalEvents \cup {i} ELSE terminalEvents
      BY <1>0, <1>3 DEF RecordDelivery, Recorded
    <2>2. /\ job'[i].status = NextStatus(w) /\ job'[i].attempts = job[i].attempts
          /\ job'[i].result = worker[w].delivery.outcome /\ job'[i].envelope = NextEnvelope(w)
          /\ \A j \in Jobs \ {i} : job'[j] = job[j]
      BY <1>1, <2>1 DEF JobRows
    <2>3. /\ Recorded(w).job = i /\ Recorded(w).attempt = worker[w].attempt
          /\ Recorded(w).outcome = worker[w].delivery.outcome
      BY <1>0 DEF Recorded
    <2>4. /\ worker[w].delivery.outcome = "delivered" => Recorded(w) \in gatewayRows /\ i \in accepted
          /\ worker[w].attempt <= job[i].attempts
          /\ \A a \in attempts : ~SameAttempt(a, Recorded(w))
      BY <1>0, <1>1, <2>3 DEF AttemptIsOwn, TablesStand, SameAttempt
    <2>5. \A j \in Jobs : job'[j].attempts = job[j].attempts
      BY <2>2
    <2>6. \A v \in Workers : AttemptIsOwn(v)'
      <3>1. \A a \in attempts' \ attempts : SameAttempt(a, worker[w])
        BY <1>0, <2>1, <2>3 DEF SameAttempt
      <3> QED
        BY <1>1, <2>5, <3>1, LetsGo
    <2>7. ASSUME NEW j \in Jobs PROVE RowCloses(j)'
      <3>1. RowCloses(j)
        BY DEF SharedInv
      <3>2. CASE j # i
        BY <1>1, <2>1, <2>2, <3>1, <3>2 DEF RowCloses, Terminal
      <3>3. CASE j = i
        <4>1. NextStatus(w) # "absent"
          BY DEF NextStatus, WaitingStatus
        <4>2. NextStatus(w) \in TerminalStatuses => IsTerminal(w)
          BY DEF NextStatus, WaitingStatus, TerminalStatuses
        <4>3. NextStatus(w) \in TerminalStatuses => /\ NextEnvelope(w) = "redacted"
                                                    /\ IsDataJob(i) => i \in terminalEvents'
          BY <2>1, <4>2 DEF NextEnvelope
        <4> QED
          BY <1>1, <2>2, <2>4, <3>3, <4>1, <4>3 DEF RowCloses, Terminal
      <3> QED
        BY <3>2, <3>3
    <2>8. NumbersReached'
      <3>1. \A a \in attempts \cup gatewayRows \cup calls : a.job \in Jobs
        BY DEF SharedInv, Inv, TypeOK, AttemptRows, Commands
      <3> QED
        BY <1>1, <2>1, <2>3, <2>4, <2>5, <3>1 DEF SharedInv, NumbersReached
    <2>9. TablesStand'
      <3>1. \A a, b \in attempts' : SameAttempt(a, b) => a = b
        BY <1>1, <2>1, <2>4 DEF TablesStand, SameAttempt
      <3>2. \A a \in attempts' : a.outcome = "delivered" => a \in gatewayRows
        BY <1>1, <2>1, <2>3, <2>4 DEF TablesStand
      <3> QED
        BY <1>1, <3>1, <3>2 DEF TablesStand, SameAttempt
    <2> QED
      BY <2>6, <2>7, <2>8, <2>9 DEF SharedInv
  <1> QED
    BY <1>2, <1>3

\* The steps of the gateway keep the shared ledger.
LEMMA GatewayShared ==
    ASSUME SharedInv, Inv', GatewayStep
    PROVE  SharedInv'
  <1>1. TablesGrow
    BY GatewayTables DEF SharedInv, NumbersReached
  <1>2. NumbersReached'
    BY <1>1 DEF SharedInv, NumbersReached, TablesGrow
  <1>3. \A j \in Jobs : RowCloses(j)'
    BY <1>1 DEF SharedInv, RowCloses, Terminal, TablesGrow
  <1>4. \A w \in Workers : AttemptIsOwn(w)'
    BY <1>1 DEF SharedInv, AttemptIsOwn, Polling, Recorded, SameAttempt, TablesGrow
  <1> QED
    BY <1>1, <1>2, <1>3, <1>4 DEF SharedInv, TablesGrow

\* Every step keeps the shared ledger.
LEMMA SharedStep ==
    ASSUME SharedInv, [Next]_vars
    PROVE  SharedInv'
  <1>1. Inv /\ Inv'
    BY InvStep DEF SharedInv
  <1>2. CASE OnlyMoves
    BY <1>1, <1>2, RowsShift DEF OnlyMoves, Shifted
  <1>3. CASE UNCHANGED vars
    BY <1>2, <1>3 DEF vars, OnlyMoves, Moved
  <1>4. ASSUME NEW w \in Workers, PollStep(w) \/ DeliverStep(w) \/ AbortPoll(w) PROVE SharedInv'
    BY <1>1, <1>2, <1>4, SweepMoves, RecoveryShared, ClaimShared, DispatchShared, AnswerShared, RecordShared,
       AbortShared DEF DeliverStep
  <1> QED
    BY <1>1, <1>2, <1>3, <1>4, EngineMoves, ClockMoves, GatewayShared DEF Next, GatewayStep

\* However many workers poll at once, and however late one of them records an attempt whose job was
\* taken back (recoverStaleJobs against the final update of deliverJob), what the tables call
\* delivered was delivered, attempts are numbered once, and a settled row is redacted and has its
\* terminal event.
THEOREM LedgerOfManyWorkers == Spec => []SharedLedger
  <1>1. SharedInv /\ [Next]_vars => SharedInv'
    BY SharedStep
  <1> QED
    BY SharedInit, SharedFollows, <1>1, PTL DEF Spec

==============================================================================

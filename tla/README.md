# VASI verification project

TLA+ models of VASI: the evidence engine, its worker and its integration gateway, the
parts of the web front that keep state, and the commands with which operators run an
installation. They are checked with TLC on small instances and, for the results listed under
[Proofs](#proofs), proved with TLAPS for every value of the constants.

1. [The system](#the-system) - components, state, operations, interaction
2. [Modules and their source](#modules-and-their-source)
3. [Runs](#runs) - what each shows, its bounds
4. [Fairness](#fairness)
5. [Proofs](#proofs)
6. [Where code and documents disagree](#where-code-and-documents-disagree)
7. [Observations](#observations)
8. [What is not modelled](#what-is-not-modelled)
9. [Plan](#plan)

To run: `tlc -config Outbox.cfg MCOutbox` (`PROJECT.json` names the module of every
`.cfg`), `tlapm NotificationOutboxProofs.tla`.

## The system

VASI issues requests of an organization (the *tenant*) to a participant, records
what the participant does as a hash-chained list of evidence events, seals the
finished record, tells the participant by notification, and keeps or destroys the
record according to a retention policy. Durable state of the evidence side is in one PostgreSQL
schema, `vasi_engine`; accounts, invitations and the administrator audit are in the web front's own.

| process | code | what it changes |
|---|---|---|
| engine | `services/engine` | everything a person asks for: issue, open, respond, revoke, reissue, edit and publish, upload, decide gates, stop production, place holds, request data, export |
| worker | `services/worker` | one poll loop: recover, advance lifecycles, expire, sweep, prepare exports, queue notices, retain and purge, claim and deliver one job |
| integration gateway | `services/integration-gateway` | contacts providers and the malware scanner, records one attempt row per command |
| web front | `src/` | authenticates people, forwards signed commands, provisions companies, invites, keeps the administrator audit; its pages queue telemetry |
| operator commands | `scripts/`, `packages/` | stage, activate and migrate releases; back up and keep custody; settings; transfer a tenant; spool alerts; gate evidence |

The components, the state each keeps and what makes each correct:

| component | state | operations | correct when |
|---|---|---|---|
| notification outbox | `outbox_job`, the attempt tables, terminal events of data requests | queue, claim, dispatch, record, retry, recover, suppress, redact | a participant is contacted only while the job and its source allow it; "delivered" means a provider accepted; nothing is left open for ever |
| integration gateway | its attempt rows, transactions in flight | replay check, job/source/admission check, provider call, scan, commit | one contact per attempt, under locks that keep its reasons true |
| evidence record | request, assignment, activities, interactions, responses, accesses, `evidence_event`, `evidence_chain_head`, manifest | issue, open, respond (draft, submit), consent, open document, telemetry, context, seal, revoke, reissue, expire | the chain tells everything that happened, verifies when sealed, and never changes afterwards |
| tenant production | admission pointer and revisions, profile pointer, request statuses, stop commands | decide gate, issue, reissue, revoke, respond, configure quota, stop | a stop leaves nothing open, quotas hold, only known pairs of handlers deadlock |
| product configuration | profile, gate and binding revisions, configuration chain, readiness exports | save, decide, bind, export, verify offline | a dossier tells one state of the configuration, and its verification refuses any other |
| retention | policy revisions, `record_lifecycle_state`, lifecycle chain, holds, tombstones | bind, anchor, place and release hold, expire, archive, purge | held records are never purged, purged ones are sealed and due under their own policy |
| participant data and history | request, scopes, export and chunks; nothing for the history | create, review, prepare, download, expire; list, receipt, open document | an export contains what every organization approved and nothing else, for a limited time; page and routes agree |
| artifacts | document families, upload chunks, scan attempts | upload, finalize, scan, publish, abort, stream | revisions never clash; what is published and delivered was scanned as stored; a finalization ends |
| activity telemetry | queue and pending batch of the page; batches, events, summaries | emit, flush, resume, record, summarise | what is recorded is a prefix of what was emitted, is brought in, verifies, and credits no more than happened |
| workflow control | drafts, revisions, memberships, grants | load, save, publish, set member, claim | no edit is lost, every walk of an accepted document ends in a defined outcome |
| reports and bundles | exports, chunks, downloads, a bundle's files | generate, stream, purge, verify publicly and offline | a reader gets complete, verified bytes or an error; a bundle that verifies is one that was built |
| company provisioning | command and draft in the tab, company receipts, invitations | submit, retry, provision, invite | one company per command, and the page's words are true, a refusal for the quota until the quota is raised |
| administrator audit | sign-in methods, audit chain | disconnect, disable, enable, reset | the audit tells what happened or says it does not know; somebody can still sign in |
| release host | staged trees, `current` link, containers, migrations | stage, activate, roll back, migrate | what runs is what was staged and its schema fits, whatever is killed |
| alert spool | pending, overflow and acknowledged files | record, acknowledge, prune, status | no reported alert is lost, the spool stays bounded |
| backups and custody | backup directories, packages, locks | cycle, prune, package, verify | retention never deletes the last good one, readiness is true |
| settings | bootstrap file, encrypted settings | init, set, rotate, rebind | no command leaves settings unreadable or in the wrong database |
| tenant transfer | archive, import receipts | export, import | an archive is one snapshot, an import happens once and contacts nobody |
| service front | calls and assertions of the web front, signed requests, remembered request ids, assertion rows | sign, forward, authenticate, run, answer, clean up | a command runs once on an assertion that is in time, the answer is true, a fresh call passes |
| rate limits | windows of two public routes | consume, prune | no window lets more through than its maximum, whatever interleaves |
| pilot evidence | folders, descriptors, manifests, approvals | create, verify, import, verify all | what verifies is the evidence that was approved |

Processes interact through rows, with HTTP between page, web front, engine, worker and
gateway: a caller gives up after a limit while the callee goes on. What is hard
follows from that: a transaction of one process decides on rows another process is
about to change, an answer may be lost, late or given twice, and a command on a host may be killed
between two file operations. The hazards in `PROJECT.json` name every place with its line.

## Modules and their source

`PROJECT.json` maps every definition to its lines; this section says how to read
the correspondence.

**Conventions.** A PostgreSQL transaction that locks all it depends on before it
writes is one action. Where another transaction can, or must not, come between
what it read and what it writes, it is several actions, and the rows it holds
meanwhile are guards of the others (`SourceLocked`, `RowLocked`, `locks`). A handler
that throws is rolled back and is no step, unless others can see that it began.
Time is a flag per deadline: passed or not. A definition named `Original_Variant`,
or introduced by a comment "Mutant", is a plausible bug used to show that a
property can fail; no specification uses one.

### NotificationOutbox, NotificationPromise

`services/worker/worker.mjs`, `notification-lifecycle.mjs`,
`integration-gateway-client.mjs`, `services/integration-gateway/store.mjs`,
`services/engine/participant-data-notifications.mjs`, and the parts of
`evidence-store.mjs` that queue, suppress and seal notices.

- `job[j]` is the `outbox_job` row, named by its idempotency key; `attempts` and
  `gatewayRows` are the two attempt tables; `worker[w]` is where a poll is, with the
  job it claimed as local variables; `calls` are commands in the network, never
  removed, so that one may arrive late or twice; `transactions` are gateway
  transactions at their provider, with FOR SHARE locks on job, source and admission.
- The poll's steps are actions in any order (`PollStep`), an over-approximation of the
  loop's fixed order; delivery (`ClaimJob`, `DispatchJob`, `ReceiveAnswer` or `CallFails`,
  `RecordDelivery`) is sequential. `AbortPoll` is a crash or an exception
  anywhere; at most `MaxAborts` of these and of `GatewayAborts` happen.
- A completion is two steps: `BeginCompletion` takes the row lock and `completedAt`,
  `SealCompletion` reads the attempts and validates them, `RollBackCompletion` is what
  happens when the validation throws.
- Adapters are what the sealing step tells apart: a provider, `disabled`,
  `notification` and `engine` (local), `unavailable`.
- Left out: the legacy jobs without `notificationType`, the 32-job limit, message
  bodies. A data request has one organization scope here (several in Retention).
- NotificationPromise is the abstract specification: absent, open, then settled
  once as delivered, suppressed or failed; delivered only what was accepted.
  `PromiseKept` is the refinement, with `JobPhase` as the mapping.

`PromiseKept`, `LedgerSound` and `JobsSettle` are claimed for one worker, which is what the
deployment runs. With two, the unfenced final update of `deliverJob` can reopen a
job its successor settled. `TypeOK` and `ContactIsCurrent` are proved for any number. The branch of
`RecordDelivery` in which the terminal event already exists with another content
needs two workers; only the proofs reach it. `PromiseKept` and `LedgerSound` are proved for one worker
(`OneWorker`) and any number of everything else; what two workers cannot break is proved as `LedgerOfManyWorkers`. After a lost
poll, recovery may hand out attempt `maxAttempts + 1`; `AttemptBudget`, a part of `LedgerSound`, states the bound
the code keeps.

### EvidenceRecord

`services/engine/evidence-store.mjs`, `evidence-events.mjs`, `media-store.mjs`,
`interaction-store.mjs`, `context-store.mjs`, the worker's `advanceOneLifecycle`,
`packages/evidence-verifier`, and the branch evaluation of `packages/engine-domain`.

- Every participant handler starts with `for update` on assignment and request, so
  it is one action. `ledger[r]` has the events and, separately, the chain head: the
  worker appends through its own code (`appendWorkerEvent`), and `ChainLinked` says the
  two agree.
- A hash is the sequence of facts it covers: injective, nothing more.
- `Plan` gives a published workflow its activities, each with its branch cases; 0 is
  the terminal outcome. The media summary's `completionMet` is a free choice.
- Authentication assurance only refuses commands, which is no step, but its part in
  the seal is modelled (`verifyAuthenticationAssuranceEvidence`).
- `due` and `lapsed` flags for `scheduledFor` and `expiresAt`: one clock for engine, worker
  and database.
- `MaxEvents` stops only optional events (telemetry, drafts, context, documents), so a
  record can always be finished.

### TenantProduction

`product-store.mjs` (stop, decide, configure), `tenant-admission.mjs`,
`tenant-policy.mjs`, the issue, reissue, revoke and response paths of `evidence-store.mjs`, and the
delivery of `integration-gateway/store.mjs`, one step per lock.

- `txn[t]` is what a connection is doing and which lock it asks for next (`Asks`);
  `locks` is the lock table; writes become visible at `commit`, as in READ COMMITTED.
- Request and assignment are two rows and two locks: a participant's command takes the assignment first
  (`assignmentForHandle`, `of a, r`), an operator's action and the stop the request first (`of r, a`), a delivery the
  request only. `ReissueRoute` and `Follows` are the routes of the handlers through their locks. A reminder locks what a revocation
  locks; the worker's expiry selects with `skip locked` and never waits.
- `rollback` stands for refusals, errors, and rows whose recheck after a lock wait
  (EvalPlanQual) fails; `BreakDeadlock` is PostgreSQL's deadlock detection.
- Updating an integration binding takes the same locks as an issue in the same order
  and is not a kind of its own.

### Retention

`services/engine/lifecycle-store.mjs`, `services/worker/retention-worker.mjs`,
`packages/engine-domain/lifecycle.mjs`, and the two SECURITY DEFINER functions of
`database/engine-lifecycle-governance.sql`.

- Three transactions are two steps. Placing a hold locks the lifecycle row and inserts
  later; a purge locks the row, looks at the blockers, and deletes in a function that
  looks again; creating a data request reads the assignments *without* a lock and
  inserts later. Everything else is one step.
- The lifecycle chain is its last event (`head`); the tombstone is the head it sealed.
  The `purge.due` event and status are only visible inside the purge transaction.
- Deadlines are days after the terminal event; `Fall` makes those of one day due
  together. The worker takes the record whose task ranks first; ties, which the code
  breaks by deadline, are a free choice.
- `NextDay` (the day after a blocked evaluation) comes only when nothing is ready: a day
  is far longer than a poll. Revocation and expiry of a record disable a completion
  or reissue and change no deadline; they are left to EvidenceRecord.
- A policy gives each horizon days, none, or (content only) the request's expiration;
  `PoliciesAssumption` is what `normalizeRetentionPolicy` accepts.

### ParticipantAccess

`lifecycle-store.mjs` (history, data export), `evidence-store.mjs` (receipt, documents) and the
export builder. Five places decide separately what a participant is shown; `AccessHonest` says that what
the page promises is what the routes do, and that an export is delivered as approved and only
within both of its windows, the days of its delivery and the life of the request. `activityStatus` is that of the one activity with
documents: before completion they open only once the workflow has come to it. Time is in days; downloads are chunk by chunk and race expiry.

### Artifacts

`artifact-store.mjs`, the upload route of the web front, the scan of the gateway and its store. The route,
the engine's finalization and the gateway's scan are three processes; each may go on after
the one that asked has given up. A digest is the byte sequence it is taken of. Family revisions
are taken under the lock of the family (`RevisionsNeverClash`); the scan attempt may be
recorded inside or after the upload's transaction.

### WorkflowControl, ActivityRules

`workflow-store.mjs`, and `engine-domain/workflow.mjs` and `activities.mjs`. A draft is the set of edits that
went into it, so that a lost edit is visible. A publication compares the draft's version only if its caller names one, which the consoles do.
Membership changes and claims are read-committed transactions in steps: what one has read may be outdated when it commits.
`crossed` is a history of that, which `OwnersRemain` has as its condition; `OwnerAlwaysRemains`, without it, is false. ActivityRules has the validator, the outcome of a
response, the score and the next activity as operators, with walks over every small accepted
document; `RulesSound` compares them with their definition by exact fractions and by paths.

### TelemetryRecorder, TelemetryCredit

The three recorder hooks of the page, `interaction-store.mjs`, `media-store.mjs`, `context-store.mjs`, the telemetry part
of the verifier; and the two summary loops of `engine-domain`. The recorder is modelled with its
queue, its one pending batch, timers, the farewell of a closing page, and a network that loses and delays.
TelemetryCredit runs the loops beside what really happened at the page, second by second, and `CreditHonest` compares.

### Reports, EvidenceBundle

`report-store.mjs`, `artifact-stream.ts`, `evidence-bundle`, `evidence-reporting`, `evidence-verifier`. Generation, streaming and
purge are read-committed transactions in steps. A bundle is a set of entries under a sealed
index; a copy loses, gains or swaps entries before it is verified.

### ProductConfig, PilotEvidence

`product-store.mjs` and `readiness-dossier`; `pilot-gate-evidence`, `pilot-admission-evidence` and the manifest import of the page.
The export reads a repeatable-read snapshot and then locks the head of the chain, which
fails if the chain grew (`Serializable`). Evidence folders are read file by file while operators
edit them; a directory's modification time does not tell an edit in place.

### CompanyProvisioning, AdminAudit

The provisioning form, its route, `provisionTenant` and the invitation service; `admin-audit` and the account
commands. Every hop may lose its answer; the tab keeps draft and command until an answer
settles them. The tenant quota is read from the installation profile, which an administrator may revise at any time (`setTenantQuota`). An audit command records "started", then the change, then an outcome; a call into the identity
library that throws may or may not have had its effect.

### ReleaseHost, AlertSpool, BackupCustody, Installation, TenantTransfer

The scripts of the same names. A file operation that others can see is a step; a command may be
killed between any two, which leaves its files and its lock. `flock` is released by the kernel, lock
files and directories are not. Encryption is ideal: what is encrypted opens under its key only.

### RateLimits, ServiceFront

The consume statements of the two public routes, and the way of a command from the web front through the private ingress
into the engine: `actor-assertion`, `service-auth`, the engine's server, its replay rows and the worker's cleanup of them.

- A rate statement reads the clock, locks and writes its rows one after the other, and commits; a second statement
  waits for the row and sees what the first wrote. `granted` and `ended` are histories: what a window accepted, and the
  end of the last window that ran its course since the row was pruned while being renewed.
- The clocks of front, engine and database differ by `ClockOffsets`. The ingress runs on the engine's host
  and has its clock. A request may be lost, delayed or delivered again; a restart forgets the request ids the
  engine remembers, after which only the assertion's row stands between a repetition and a second run.
- `FrontAssumption` is the relation of the code's constants (30 s, 60 s, 5 s, 15 s, 120 s).

## Runs

| run | instance | distinct states | shows |
|---|---|---|---|
| `outbox` | one worker; a reminder and a completion notice, or the notices of a data request; 2 attempts, one abort, fair | 139 000 | the outbox implements NotificationPromise; contacts are current; ledgers agree; every job settles |
| `record` | one record of a branching plan from two sessions, three commands; or two records, a reissue and two principals; fair | 237 000 | sealed records verify, closed ones stay, changes are witnessed, records close |
| `lifecycle` | two records, a hold, two policies, one revision; or two organizations and one data request; one abort, fair | 333 000 | holds, tombstones, policies, reviews; purges happen and requests expire |
| `operations` | thirteen parts: spool, release, backups, custody, installation, transfer, provisioning, configuration, audit, evidence, limits, calls, production | 852 000 | an invariant for each module, two for the audit, four for stop, quota, admission and deadlocks |
| `content` | ten parts: artifacts, drafts, members, rules, recorder, credit, reports, bundle, page, export; fair | 428 000 | nine invariants; a finalization ends, the recorder drains |

Seven further runs are expected to be violated; see
[below](#where-code-and-documents-disagree).

**Parts and scenarios.** Modules that share no variable are explored by one run, one part per
behaviour: interleaving them would multiply states and show nothing, since no property
relates them. A part that is not explored has one initial state and does not move. In `outbox`,
`record` and `lifecycle` a scenario restricts which bounded supplies a behaviour uses (which jobs
are queued, which sessions and commands occur). A scenario leaves out only steps of people and of
faults, of which no fairness is assumed, so that the liveness properties mean what they say.

The properties, by what could go wrong:

- *Stale decisions.* `ContactIsCurrent`: while a provider is being contacted, the job is
  that very running attempt, the source still allows the notice and the tenant is
  admitted. `IssuedUnderAdmission`, `QuotaRespected`, `StopLeavesNothingOpen`: what an issue
  or reissue checked is still so when it commits. `HoldBlocksPurge`: whichever of placement
  and purge began first. `PurgeFollowsPolicy`: by the policy the record was issued with.
  `DossierTrue`: the snapshot of an export. `SignInRemains`: two administrators remove
  different sign-in methods at once. `ControlSound`: a save on top of a draft others have saved, and
  an owner, until a membership change commits between what another has read and its commit. `DeadlocksAreInversions`: which
  handlers can wait for one another. `FrontSound`: a request id, an assertion or a
  window looked at by one clock and used by another.
- *Agreement of separately written state.* `LedgerSound` (delivered is backed, attempts are
  numbered, status, envelope and terminal events match), `RecordSound` (statuses, chain, answers, progress,
  interactions, reissue links), `TombstoneSealsChain`, `ExportIsReviewed`, `RevisionsNeverClash`, `DeliveredAsScanned`,
  `TelemetrySound`, `AccessHonest`.
- *What a step may never do.* `ClosedRecordFrozen`, `ChangesAreWitnessed`.
- *What a verifier accepts.* `SealedRecordVerifies`, `VerifiedIsBuilt`, `PilotEvidenceSound`, `DisclosureSound`.
- *What is told.* `AuditTellsTruth`, `ProvisioningHonest`, `CreditHonest`.
- *What a kill leaves.* `SpoolSound`, `ReleaseSound`, `BackupsSound`, `TransferSound`, `SettingsKept`.
- *What must happen.* `JobsSettle`, `RecordsClose`, `RetentionEnds`, `FinalizationEnds`, `RecorderDrains`.

**Bounds.** Two of each thing that races (sessions, principals, records, organizations, editors,
cycles, operators, commands, connections plus a third that both can wait for) are enough for every hazard listed, as
each is a conflict between two actors over one row, file or chain. One abort or kill reaches every
crash point, followed by the recovery and a retry (the spool has two, as the second may hit what the
first left); `AttemptCap` is no less than what
one abort and `MaxAttempts` claims can use, so it never cuts a behaviour of the checked instances short.
`MaxTransactions` = 6 lets three connections run twice, which an issue, a stop and a
re-admission by the single gate need. `MaxRevision` in Retention is the one policy change that
could leak into records issued before it. `MaxEmitted` is one above `EventLimit`, so the limit is met, and
`MaxNetworkFaults` = 2 loses an answer and its repetition. `MaxSeconds` is twice the credited gap, so that
a silence too long to be credited has credited time before and after it. `Totals` and `Percents` include the scores at which rounding to
whole percents could differ. `MaxPending` = 2, `MaxAcknowledged` = 1 and four failures fill the spool, overflow and
prune. `MCOffsets` = {-1, 1, 2} has a clock within the tolerance on either side and one beyond it. `MaxCount` = 3 is the saturation
of a counter column, one above the largest limit. `MaxChanges` = 3 lets two membership changes overlap with a claim. Two revisions of the quota lower and raise it again between the calls of a command. Symmetry is used only in `production_lock_order`, over connections. `CHECK_DEADLOCK FALSE` is set
where all bounded supplies can be used up, which is every run.

Each property of a passing run has a mutant in `PROJECT.json` that TLC finds violating it.

## Fairness

- The worker loops for ever and survives failing polls (`runWorker` catches and continues), so its steps are
  weakly fair. In NotificationOutbox the sweeps, recovery and claim compete in one loop that
  visits each in every round, so each is strongly fair; in Retention the loop's order
  is explicit and one WF on the worker suffices.
- Time passes: WF on every flag that a clock sets.
- A gateway transaction ends (`GatewayFinishes`): provider calls have timeouts, and PostgreSQL
  rolls back the transaction of a lost connection. A completion and a hold placement
  end for the same reason.
- Nothing is assumed of people: no fairness on issue, open, respond, review or release.
- Aborts are bounded. Without that, an outage that never ends defeats every liveness property.
- A scan that the gateway has begun goes on to its end, and the engine receives its verdict or times
  out after 305 s: WF on `GatewayStep` and `receiveVerdict`, none on people.
- A connected page goes on emitting heartbeats, its timers fire and messages arrive unless one of
  boundedly many faults loses them: WF on `emit` (not for context snapshots, which have no heartbeat), `flush` and `Deliver`. `RecorderDrains` asks
  only of a page that stays connected to an open activity.
- No fairness is assumed of operator commands; the operations run checks safety only.

## Proofs

All of these are checked by TLAPS with no assumption but the named `ASSUME`s of the modules.

**NotificationOutboxProofs.** `TypeCorrect` and `ContactsStayCurrent`, for any number of
workers, requests, data requests and jobs. `ContactIsCurrent` alone is not inductive: that
the job is still the running attempt depends on nobody touching a locked job, and that a
new contact is current on what the gateway checked when it began. The invariant is
`TypeOK` with `ContactIsCurrent`; the argument is that every action that changes a job's status or
attempts requires the job not to be locked, every change of a source's status requires
the source not to be locked, and every change of the binding that no transaction is at a
provider. The proof has one step per action and a lemma per fact it keeps.

`LedgerIsSound` and `PromiseIsKept` assume `OneWorker`, which is false of two workers for the reason given above. `LedgerSound` compares tables at rest and
says nothing of a delivery under way, so `LedgerInv` adds: every recorded and every gateway attempt is a number its job has
used (`NumbersStand`), a job's attempts are within `maxAttempts` plus the aborts (`Budgeted`), status, envelope, result and
terminal event of a row go together (`RowStands`), an attempt has one row in each table and
one transaction, and what is delivered is in the gateway's table and was accepted by a provider (`TablesStand`), and the job of a busy worker is running the attempt the worker claimed, unrecorded so far (`ClaimStands`). Most steps only queue, suppress or
hand back a row (`OnlyMoves`), which one lemma settles for both theorems; claim, dispatch, answer, record and the gateway have one each. The refinement (`Simulation`)
maps every step to a step of the promise or a stutter: `RecordDelivery` settles an open job, `ProviderAnswers` accepts one.

`LedgerOfManyWorkers` says what is left of the ledger with any number of workers (`SharedLedger`). A worker whose job was taken back while it was slow still has
its attempt number to itself (`AttemptIsOwn`): a claim takes a number above every recorded, commanded or claimed one. So attempts stay numbered once, and one called
delivered has the gateway's row and an acceptance behind it. What a late `RecordDelivery` leaves is a settled row that is redacted, has its terminal event and says
delivered only of an accepted notification (`RowCloses`). The other direction is lost: the late update can give a job that was settled a waiting status again, its
envelope already redacted and its terminal event already written. With two workers `AttemptBudget`, `EnvelopeLifetime`, `TerminalEventsMatch`, `StatusMatchesLedger` and
`PromiseKept` are therefore false, and the theorems that state them keep `OneWorker`.

**TenantProductionProofs.** `TypeCorrect`, `StopIsComplete`, `OnlyIssuedAdmitted`, `WithinQuota`,
`ClosedStays`, for any number of connections, requests, gates, stop commands and quotas. The
argument is two-phase locking: the inductive invariant `Inv` conjoins `ProductionTypeOK`,
`LocksExclude` (no two holders of conflicting modes), for every transaction
`OfTransaction` (what it has looked at is still true while it holds the lock under which it
looked) and `NewIsFresh`, and `StopLeavesNothingOpen`. `WritesUnderLocks` shows that every
commit writes only under an exclusive lock, so no other transaction's observation is disturbed;
`StatusWriters` and `OpeningIsIssue` then give the action properties. Without `OfTransaction` a commit
knows nothing about the admission it checked some steps earlier.

`DeadlockNeedsInversion` adds `InOrder` to it: a transaction holds only locks of stages it has passed. Without a participant's command
and a delivery, a waiter waits for one that is further on, whose own wait is further on again; only two production stops could
wait for each other's rows, and the admission lock lets one stop at a time reach them (`OneStopLocks`). A participant's command or a delivery
closes a cycle only with a handler that takes its two locks the other way round: the theorem names the pairs, and
`production_lock_order` shows such a deadlock.

**RetentionProofs.** `TypeCorrect`, `HeldIsKept`, `PurgedIsSealed`, `SourceIsKept`, `PolicyIsFollowed`
and `ExportsAreReviewed`, for any number of records, organizations, policies, holds and data
requests. `HoldBlocksPurge` says nothing about a placement or a purge under way, so it is
strengthened: the two never hold the row lock of one record together (`LockExcludes`), and what
they have locked, or what is held, is alive (`LockedIsLive`). With that, no event is appended to
the chain of a purged record. For the policy, `DeadlinesBound` ties the deadlines to the snapshot and makes
archival due no later than deletion, and `PurgeIsDue` carries what the worker selected to the end of the
purge transaction. For exports, `ReviewsDone` says that approval leaves no scope to review. `IInv` is
the conjunction; each part has its own step lemma, with a step per action that touches its variables.

**EvidenceRecordProofs.** `RecordIsSound`, `SealedVerifies`, `ClosedIsFrozen`, `ChangesWitnessed`, for any
plans, records, sessions and principals. `RecordSound` says what the tables have in common at a commit and
cannot tell what the next commit will find: `RecordInv` adds, per record (`Whole`), which events the chain must hold for the rows to be as they
are, that the chain is linked, that what was sealed stands, and between records `ReissueLinks` (`RecordInvariant`, a lemma of the others). `SealedRecordVerifies` needs all
of it: each check of the verifier is a lemma from the part that guarantees it.

**ConsoleProofs.** `SignInIsKept` and `AuditIsTrue` from `AuditInv` (for each command `Audited`: what its phases in the audit say about where it is
and what it has changed); `PilotEvidenceIsSound` from `PilotInv` (`DigestsMade`, `StampsTell`: a directory whose
stamp is unchanged has the files that were read); `DossierIsTrue` from `ConfigInv`, whose parts are functions of the
log, so that a snapshot is a prefix of which the same is said; `ProvisioningIsHonest` from `ProvisioningInv` (`CommandsStand`, `RefusalsStand`,
`MailsStand`: which receipts and invitations a submission may still meet; the refusals for the quota stand until it is raised).

**ContentProofs.** `ControlIsSound` from `DraftInv` (an editor whose version is the draft's has the draft's document) and `MemberInv` (`ReadStands`: until one transaction commits across another, what each
has read is still so);
`DisclosureIsSound` from `ReportsInv` (`PurgeStands` excludes a generation that would outlive the purge); `DeliveredIsScanned` and
`RevisionsDoNotClash` from `ArtifactInv`, in which `ScanStands` says which bytes a scan under way was given and
`RevisionsStand` that a revision taken under the family's lock is still the next, and `QuotaStands` that what an upload under the lock
has checked still fits: the declared lengths, counted as the chunks of all artifacts, grow only by the upload that is created. `CreditIsHonest` is from `CreditInv`, which relates the loops to what
happened: `PresenceStands` says that the loop knows the page as it is, that it owes at most what happened since its last event (`Owed`), and
nothing after a silence longer than the credited gap; `PlaybackStands` that a sample is of the last heartbeat interval (`Fit`), and that
what is credited beyond what was played is paid for by skips (`Paid`), with a debt for a skip no event has told of yet (`Debt`).
`RecordIsPrefix` is from `RecorderInv`: the queue holds session after session without a gap (`QueueStands`), the page waits for one batch at most, its
only one (`WaitStands`), and at most one batch is unrecorded, which goes on where the engine's events end while the queue goes on where it ends
(`FrontStands`). The invariant is an operator of page, wire and tables (`Reported`), so that a step such as the farewell of a page, which emits, cuts
and sends, is proved in parts. `TelemetryIsSound` adds `BooksInv`: every recorded event is in one batch and within the limit (`BatchesBooked`), the
chain names every batch once (`LinksBooked`) and every revision of the summary, the last of which is of all events (`SummariesBooked`), and
a context snapshot goes out by itself (`Single`), without which the chain would name fewer events than there are. Only the batch handlers
write the books, and `RowsAdded` counts what a batch adds to them.
`RulesAreSound` is from `RulesInv`: the document is an accepted one, the answers so far are on activities before the current one, in order, and each
is a judgement that its activity may give; that the next activity lies ahead is a lemma about `nextActivity`, and
fairness of the score a lemma about division. `VerifiedBundleIsBuilt` is from `BundleInv`: whatever happens to a copy, its entries remain a set, and the record and the
two control files in it come from bundles that were built; the digests they name leave no choice for the rest.

**EntryProofs.** `RatesAreKept` from `RateInv` (a locked row's draft continues its committed row; `WindowStands` ties row,
`granted` and `ended`); `FrontIsSound` from `FrontInv` (`SeenStand`: the ids remembered are ids drawn; `RequestStands`: a request was signed for a call
under way, and the only one of its call has met neither its own id nor its own row; `RunStands`: a row taken in
time is there until its assertion runs out, by the database's clock; `LateInv`: whoever ran late did so on an assertion run out by that clock); `AccessIsHonest` from `AccessInv`. Both rate and front specifications are hypotheses of `FrontIsSound`, since
`FrontSound` includes the limits; their variables are disjoint.

**HostProofs.** `ReleaseIsSound` from `ReleaseInv` (`ActivationInv`: what link, container and command tell of an activation
under way; `MigrationInv`: a migrating command has seen every earlier migration); `TransferIsSound` from `TransferInv`; `SettingsAreKept`, an
action property and an invariant, from `InstallationInv` (`SessionStands`: the command that creates the file is alone until the file has its record, every other one
has the file's key, and a database that was validated stays readable; `TrailStands`: the version is counted by the trail); `BackupsAreSound` from `CopiesInv` = `BackupInv`, `CustodyInv` and `KeysStand`, a counting
argument: what is spoilt is at most what has rotted, so of `Retain` copies enough are good, and retention removes only the
earliest. It uses the least element of a set of naturals, which follows from the library's well-foundedness theorems. `SpoolIsSound` from `SpoolInv` (`RecordStands`: the failure being recorded has no record yet, and what is reported is at most
what is pending, overflowed or answered; `LimitsStand`: a move beyond the limit for each acknowledgement that was killed).

What the proofs changed in the model. The limits of a rate window must lie below the saturation of its column
(`RateAssumption`), since a window at the saturation would accept for ever; an interrupted renewal after a pruning needed the
history `ended` to say that windows do not overlap; the spool counts what was acknowledged when it is (`answered`), where a sum over the
entries said the same. The byte quota and the verifier's numbers of events are stated as the number of chunks and of rows, which is the sum the
code takes and can be reasoned about without induction; the document a tenant starts with is within its quota, as it was stored under it.
Assumptions that were tacit are stated and evaluated by the runs:
`"credential"` is no provider, there is a draft, a gate and a content, legacy releases are well-formed, required settings
are settings, at least two backups are retained (the code enforces 2), one of the playback rates is the fastest, a batch holds an event, the event limit is a number,
the digests of packages can be ordered, no report or document of a bundle has the path of a control file (`BundleAssumption`), points are at least 1 and
thresholds not negative (`RulesAssumption`).

`TypeCorrect`, `ClosedStays`, `SourceIsKept`, `LedgerOfManyWorkers`, `RatesAreKept` and `RecordIsPrefix` have no run of their own:
the first three are proved for every instance and need none, the others are part of a property that has one.

Only model-checked: liveness (`JobsSettle`, `RecordsClose`, `RetentionEnds`, `FinalizationEnds`, `RecorderDrains`).

`RequestBlocksPurge` and the other properties of the next section are false.

## Where code and documents disagree

| run | what happens |
|---|---|
| `outbox_adapters` | An attempt refused for want of a usable binding is stored with adapter `unavailable`, which the validator that seals the record rejects: the participant's final response is rolled back, every time. |
| `outbox_seal_race` | A delivery recorded after a completion took its capture time is visible as a job status without an attempt; the seal fails and the response is rolled back (a repetition succeeds). |
| `record_binding` | A document can be opened before the assignment is bound, by another principal with the intended e-mail; once another principal is bound, the record can never be sealed. |
| `production_lock_order` | A delivery locks the request row before the admission pointer, the production stop the other way round; a participant's command locks the assignment before the request, the stop, a reissue and a revocation the other way round. PostgreSQL may abort the emergency stop. |
| `last_owner` | Two owners who remove each other at the same time each count the other one, since neither sees the other's change before its commit: both succeed, and the company has no owner ("A company must retain at least one active owner", `src/lib/engine-response.ts:33`). |
| `retention_race` | A data request reads its assignments without locks, so it can come to include a record purged meanwhile; if approved, it makes every poll of the worker fail before retention and delivery until it expires. |
| `receipt_content` | The receipt of a completed request shows the activities of its workflow by the access policy alone, also after the retention of the content has expired, which the history page and the document routes refuse. |

`PROJECT.json` quotes the document each contradicts. In two more places a passing run states what the code keeps, and a document says more:

- *Administrator audit.* `docs/architecture/identity-administration-audit.md:35-41` promises exactly one outcome of a started command, and
  `failed` only "when a known local transaction rolled back". If the acknowledgement of the commit is lost,
  `disableManualPassword` throws although the change and its "succeeded" are committed, and the route writes "failed" beside it
  (`api/admin/users/[userId]/route.ts:152-157`; `admin-audit-chain.sql:124` is unique per command and phase only). `AuditTellsTruth` allows
  the pair in that case alone, and says that "succeeded" is then the true one. A command cut off by a crash has no outcome.
- *Reuse of an assertion.* `docs/architecture/private-engine-boundary.md:61-63` says "reuse is rejected even through a newly signed service
  request". The replay row that rejects it is deleted by the worker when the database's clock is past the assertion's
  expiry (`worker.mjs:51`), while the engine checks the expiry by its own clock and before the row is inserted. If the database's clock is ahead of the
  engine's, or a request is slow between the two, a row is gone, or comes late, while another delivery of the same call
  still passes: the command runs twice. `CommandOnce`, a part of `FrontSound`, says that this happens only to an assertion the database holds to be run out.

One more is not modelled. `docs/architecture/productized-tenancy-and-integrations.md:106-108` says that member grants "fail atomically before their
configured limit is exceeded". `setMember` asks for capacity only if the email is not active already (`workflow-store.mjs:269-280`) and does not lock
what it looked at, so the quota is exceeded by one when that member is disabled and the place given to another before it writes.

## Observations

Met while modelling. They are noted here and not stated as properties, because no document of
the repository promises otherwise or because the effect is small.

- Alert spool: acknowledged entries are pruned by name, in which an overflow entry sorts last. A
  `record` killed before its rename leaves `.record.XXXXXX` under `pending/`, which counts and makes `next` and `status` fail.
- Backups: a rotten oldest backup blocks retention; custody retention counts packages. A `set` racing a `rebind` writes to
  the old database; a killed `init` leaves a bootstrap file that cannot be used.
- Uploads: the web front cuts chunks of 262144 bytes while the engine's limits are settings. An owner may be
  told 502 although the finalization published. A malicious verdict that arrives after the engine's timeout does not
  block a later clean retry.
- Memberships: a grant is claimed from an unlocked read, so that a removed member may come back as what the grant said before. A publication that
  names no draft version (`workflow-store.mjs:148`) may publish what its caller has not seen; the consoles always name one.
- A score can pass slightly below its threshold when the total is 200 or more, by rounding. The workflow status `archived` is never set.
- Telemetry: a failed last flush of a disconnected page is not retried until it resumes; a farewell
  during a flush sends nothing; at the event limit the refused batch blocks the queue; context snapshots are
  retried only with the next one; a paused seek of the YouTube player emits nothing.
- Provisioning: a 401 or 403 on a retry counts as a definite rejection and clears the retry record
  (`company-provisioning-retry.ts:98`), so the next submission may be refused because of the company of the first; a
  command's invitation revoked by a newer one is replayed as `delivery_failed`.
- Readiness: a dossier is refused when any binding, disabled ones included, uses an adapter no longer allowed; a
  serialization error of the export is not retried.
- Audit: a crashed command stays incomplete for ever.
- History calls content available for a request that has not begun, and for documents of an activity the workflow has not come to or has
  skipped (`evidence-store.mjs:1877` refuses both); under `days_after_terminal` the shown deadline
  moves earlier at completion.
- Pilot evidence: a file edited in place after it was read, while others are being read, is not noticed; a
  manifest cut short by a kill blocks its re-creation until removed.

## What is not modelled

- Cryptography, canonical JSON, message and document formats: idealised or left out.
- Requester projections and operations counts, which only read; pages without state of their own.
- HTTP framing, and the database gateway, which forwards TCP connections. The signatures themselves are ideal. The integration
  gateway's check of its callers is the engine's, and is modelled once.
- Sessions and protocols of the authentication library.
- Assurance scripts and probes: one-shot checks without state. Restoring a database from a backup.
- Digests typed by hand in the approval form (only the import of a manifest is modelled).
- The two-clock case of `worker.mjs:272`: the sweep selects by the database clock and decides by
  the worker's own, so a slow worker clock can set a record in progress back to issued. One clock is assumed.
- The lock order of completion and purge (`retention-worker.mjs:79`): a deadlock there is broken by PostgreSQL and both retry.
- What happens to the row of a reissued request after its reissue is purged: the code
  keeps it for good (`engine-lifecycle-governance.sql:391`), and no document says otherwise.
- Liveness under fairness, and recursive operators, are out of TLAPS's reach and stay with TLC.

## Plan

Done: the modules and proofs above; every safety invariant and action property that a passing run checks is a theorem. What is
left is breadth: the components listed as partly or not modelled, the rest of the record's verifier first.

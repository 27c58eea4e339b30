------------------------------ MODULE Retention ------------------------------
(***************************************************************************)
(* Retention of evidence records: the policy a record is bound to when it  *)
(* is issued, the deadlines counted from its end, legal holds, participant *)
(* data requests and their exports, and the worker that expires, archives  *)
(* and finally purges.  services/engine/lifecycle-store.mjs,               *)
(* services/worker/retention-worker.mjs and the two SECURITY DEFINER       *)
(* functions of database/engine-lifecycle-governance.sql.                  *)
(*                                                                         *)
(* A handler that locks all it reads before it writes is one step.  Three  *)
(* transactions are two steps, because what they looked at can change (or  *)
(* must be kept from changing) before they commit: placing a hold, creating *)
(* a data request, and a purge.  Time is a set of flags: a deadline is due  *)
(* or not, a window has closed or not.                                     *)
(***************************************************************************)
EXTENDS Naturals

CONSTANTS
    Records,        \* requests, each with its one assignment
    Tenants,        \* requesting organizations
    Policies,       \* normalized retention policies
    Holds,          \* legal holds, by placementCommandId
    DataRequests,   \* participant data requests, by commandId
    MaxRevision,    \* bound: revisions of the retention profile
    MaxAborts,      \* bound: polls of the worker that die half way
    Expiration,     \* the content mode request_expiration
    None            \* a null, in a policy and elsewhere

Horizons == {"content", "history", "archive", "delete"}

\* A policy gives each horizon its days after the terminal event, or none; the
\* mode of content access is "indefinite", days, or the request's expiration.
\* normalizeRetentionPolicy refuses a deletion before archival.
ASSUME PoliciesAssumption ==
    /\ Policies # {}
    /\ \A p \in Policies :
        /\ p \in [Horizons -> Nat \union {None, Expiration}]
        /\ \A h \in Horizons \ {"content"} : p[h] # Expiration
        /\ p["archive"] # None /\ p["delete"] # None => p["archive"] <= p["delete"]
ASSUME NoneAssumption ==
    /\ None \notin Records \union Tenants \union Nat
    /\ Expiration \notin Nat \union {None}

VARIABLES
    policy, revision,           \* the active revision of the retention profile
    life,                       \* "none", "open", "closed" (completed, reissued) or "purged"
    past,                       \* terminalAt has passed
    tenant, origin,             \* the issuing tenant; reissuedFromRequestId
    row,                        \* the request_instance row exists
    bound,                      \* policySnapshot
    deadline, due,              \* the deadlines, in days after terminalAt; those passed
    applied,                    \* contentStatus, historyStatus, evidenceStatus moved
    tried,                      \* lastEvaluatedAt less than a day ago
    head, tombstone,            \* the last lifecycle event; the one the tombstone seals
    hold,                       \* legal_hold and legal_hold_release rows
    status, matched, scope,     \* participant_data_request and its scopes
    late,                       \* its windows that have closed
    export, chunks,             \* the records its export holds; "none", "stored", "deleted"
    phase, purging, aborts      \* where the worker's poll is

policyVars == <<policy, revision>>
recordVars == <<life, past, tenant, origin, row, bound, deadline, due>>
stateVars == <<applied, tried, tombstone>>
requestVars == <<status, matched, scope, late, export, chunks>>
workerVars == <<phase, purging, aborts>>
vars == <<policyVars, recordVars, stateVars, head, hold, requestVars, workerVars>>

\* Statuses in which a data request keeps the records it matched from being purged.
Active == {"pending_review", "approved", "partially_approved", "ready"}

\* The event is appended under the lock of the chain head, which then names it.
appendLifecycleEvent(r, e) == head' = [head EXCEPT ![r] = e]

-----------------------------------------------------------------------------
(* The profile, and the life of a record *)

updatePolicy ==
    /\ revision < MaxRevision
    /\ \E p \in Policies : policy' = p
    /\ revision' = revision + 1
    /\ UNCHANGED <<recordVars, stateVars, head, hold, requestVars, workerVars>>

\* The deadlines a policy gives, counted from the terminal event.
calculateRetentionDeadlines(p) == [h \in {x \in Horizons : p[x] # None} |-> p[h]]

\* The record issued under the active revision; reissuedFrom is None for a new one.
bindRecordLifecycle(r, t, reissuedFrom) ==
    /\ life[r] = "none"
    /\ tenant' = [tenant EXCEPT ![r] = t]
    /\ row' = [row EXCEPT ![r] = TRUE]
    /\ origin' = [origin EXCEPT ![r] = reissuedFrom]
    /\ bound' = [bound EXCEPT ![r] = policy]
    /\ deadline' = [deadline EXCEPT ![r] = calculateRetentionDeadlines(policy)]
    /\ appendLifecycleEvent(r, "policy.bound")
    /\ UNCHANGED <<policyVars, past, due, stateVars, hold, requestVars, workerVars>>

issueRequest(r, t) ==
    /\ bindRecordLifecycle(r, t, None)
    /\ life' = [life EXCEPT ![r] = "open"]

\* A reissue revokes the request it replaces, whose own deadlines stay as they were.
reissue(from, r) ==
    /\ life[from] = "open"
    /\ bindRecordLifecycle(r, tenant[from], from)
    /\ life' = [life EXCEPT ![r] = "open", ![from] = "closed"]

\* Mutant of RowLocked: placing a hold reads the row without FOR UPDATE.
RowLocked_NoHold(r) == purging = r

\* The row lock on record_lifecycle_state that a placement or the purge holds.
RowLocked(r) == purging = r \/ \E h \in Holds : hold[h] = [state |-> "placing", of |-> r]

\* Mutant of anchorRecordLifecycle: the active revision, not the snapshot.
Anchor_ActivePolicy(r) ==
    /\ life[r] = "open" /\ ~past[r]
    /\ ~RowLocked(r)
    /\ life' = [life EXCEPT ![r] = "closed"]
    /\ past' = [past EXCEPT ![r] = TRUE]
    /\ deadline' = [deadline EXCEPT ![r] = calculateRetentionDeadlines(policy)]
    /\ appendLifecycleEvent(r, "terminal.anchored")
    /\ UNCHANGED <<policyVars, tenant, origin, row, bound, due, stateVars, hold,
                   requestVars, workerVars>>

\* Completion counts the deadlines of the bound policy from completedAt.
anchorRecordLifecycle(r) ==
    /\ life[r] = "open" /\ ~past[r]
    /\ ~RowLocked(r)
    /\ life' = [life EXCEPT ![r] = "closed"]
    /\ past' = [past EXCEPT ![r] = TRUE]
    /\ deadline' = [deadline EXCEPT ![r] = calculateRetentionDeadlines(bound[r])]
    /\ appendLifecycleEvent(r, "terminal.anchored")
    /\ UNCHANGED <<policyVars, tenant, origin, row, bound, due, stateVars, hold,
                   requestVars, workerVars>>

\* expiresAt of a request passes.
Lapse(r) ==
    /\ life[r] \in {"open", "closed"} /\ ~past[r]
    /\ past' = [past EXCEPT ![r] = TRUE]
    /\ UNCHANGED <<policyVars, life, tenant, origin, row, bound, deadline, due, stateVars,
                   head, hold, requestVars, workerVars>>

\* The next deadline passes, with those of the same day; the expiration of a
\* request that was completed before it can come at any time after that.
Coming(r) == DOMAIN deadline[r] \ due[r]
SameDay(r, h) == {x \in Coming(r) : deadline[r][x] = deadline[r][h]}
Fall(r, h) ==
    /\ life[r] \in {"open", "closed"} /\ past[r]
    /\ h \in Coming(r)
    /\ deadline[r][h] # Expiration =>
          \A x \in Coming(r) : deadline[r][x] # Expiration => deadline[r][h] <= deadline[r][x]
    /\ due' = [due EXCEPT ![r] = @ \union SameDay(r, h)]
    /\ UNCHANGED <<policyVars, life, past, tenant, origin, row, bound, deadline, stateVars,
                   head, hold, requestVars, workerVars>>

-----------------------------------------------------------------------------
(* Legal holds *)

\* commandHold, place: the lifecycle row is read and locked ...
BeginHold(h, r) ==
    /\ hold[h].state = "none"
    /\ life[r] \in {"open", "closed"} /\ ~RowLocked(r)
    /\ hold' = [hold EXCEPT ![h] = [state |-> "placing", of |-> r]]
    /\ UNCHANGED <<policyVars, recordVars, stateVars, head, requestVars, workerVars>>

\* ... then the hold and its event are committed,
CommitHold(h) ==
    /\ hold[h].state = "placing"
    /\ hold' = [hold EXCEPT ![h] = [state |-> "active", of |-> hold[h].of]]
    /\ appendLifecycleEvent(hold[h].of, "hold.placed")
    /\ UNCHANGED <<policyVars, recordVars, stateVars, requestVars, workerVars>>

\* or the transaction fails and leaves nothing (a retry is another hold).
RollBackHold(h) ==
    /\ hold[h].state = "placing"
    /\ hold' = [hold EXCEPT ![h] = [state |-> "failed", of |-> hold[h].of]]
    /\ UNCHANGED <<policyVars, recordVars, stateVars, head, requestVars, workerVars>>

\* commandHold, release: a separate row, under a lock on the hold.
releaseHold(h) ==
    /\ hold[h].state = "active"
    /\ hold' = [hold EXCEPT ![h] = [state |-> "released", of |-> hold[h].of]]
    /\ appendLifecycleEvent(hold[h].of, "hold.released")
    /\ UNCHANGED <<policyVars, recordVars, stateVars, requestVars, workerVars>>

-----------------------------------------------------------------------------
(* Participant data requests *)

\* The assignments of the participant are read, without a lock ...
BeginDataRequest(d) ==
    /\ status[d] = "none"
    /\ status' = [status EXCEPT ![d] = "creating"]
    /\ matched' = [matched EXCEPT ![d] = {r \in Records : life[r] \in {"open", "closed"}}]
    /\ UNCHANGED <<policyVars, recordVars, stateVars, head, hold, scope, late, export, chunks,
                   workerVars>>

\* ... and the request is inserted with one scope per organization.
createParticipantDataRequest(d) ==
    /\ status[d] = "creating"
    /\ scope' = [scope EXCEPT ![d] =
                    [t \in Tenants |-> IF \E r \in matched[d] : tenant[r] = t
                                       THEN "pending_review" ELSE "none"]]
    /\ status' = [status EXCEPT ![d] = IF matched[d] = {} THEN "approved" ELSE "pending_review"]
    /\ UNCHANGED <<policyVars, recordVars, stateVars, head, hold, matched, late, export, chunks,
                   workerVars>>

\* Mutant of RequestStatus: the first approval decides.
RequestStatus_FirstApproval(s) ==
    IF \E t \in Tenants : s[t] = "approved" THEN "approved"
    ELSE IF \E t \in Tenants : s[t] = "pending_review" THEN "pending_review" ELSE "denied"

\* The status of a request whose scopes are s: decided once no scope is pending.
RequestStatus(s) ==
    LET Some(v) == \E t \in Tenants : s[t] = v IN
    IF Some("pending_review") THEN "pending_review"
    ELSE IF Some("approved") /\ Some("denied") THEN "partially_approved"
    ELSE IF Some("approved") THEN "approved" ELSE "denied"

reviewDataRequest(d, t, decision) ==
    /\ scope[d][t] = "pending_review"
    /\ "review" \notin late[d] /\ status[d] # "expired"
    /\ scope' = [scope EXCEPT ![d] = [@ EXCEPT ![t] = decision]]
    /\ status' = [status EXCEPT ![d] = RequestStatus(scope'[d])]
    /\ UNCHANGED <<policyVars, recordVars, stateVars, head, hold, matched, late, export, chunks,
                   workerVars>>

\* expiresAt of the request passes; its export's expiresAt is never later.
CloseReview(d) ==
    /\ status[d] \notin {"none", "creating", "expired"} /\ "review" \notin late[d]
    /\ late' = [late EXCEPT ![d] = {"review", "delivery"}]
    /\ UNCHANGED <<policyVars, recordVars, stateVars, head, hold, status, matched, scope, export,
                   chunks, workerVars>>

\* expiresAt of the export passes.
CloseDelivery(d) ==
    /\ status[d] = "ready" /\ "delivery" \notin late[d]
    /\ late' = [late EXCEPT ![d] = @ \union {"delivery"}]
    /\ UNCHANGED <<policyVars, recordVars, stateVars, head, hold, status, matched, scope, export,
                   chunks, workerVars>>

-----------------------------------------------------------------------------
(* The worker: one step of each kind per poll, in this order *)

\* Mutant of Expirable: only requests that could still be delivered expire.
Expirable_ActiveOnly(d) ==
    /\ status[d] \in Active
    /\ IF chunks[d] # "none" THEN "delivery" \in late[d] ELSE "review" \in late[d]

\* expireOneParticipantDataRequest: the export by its own window, a request
\* without one by the review window.
Expirable(d) ==
    /\ status[d] \notin {"none", "creating", "expired"}
    /\ IF chunks[d] # "none" THEN "delivery" \in late[d] ELSE "review" \in late[d]

expireOneParticipantDataRequest ==
    /\ phase = "expire"
    /\ phase' = "prepare"
    /\ \/ \E d \in DataRequests :
            /\ Expirable(d)
            /\ status' = [status EXCEPT ![d] = "expired"]
            /\ chunks' = [chunks EXCEPT ![d] = IF @ = "none" THEN @ ELSE "deleted"]
       \/ /\ \A d \in DataRequests : ~Expirable(d)
          /\ UNCHANGED <<status, chunks>>
    /\ UNCHANGED <<policyVars, recordVars, stateVars, head, hold, matched, scope, late, export,
                   purging, aborts>>

\* prepareOne: an approved request without an export.
Preparable(d) ==
    /\ status[d] \in {"approved", "partially_approved"}
    /\ "review" \notin late[d] /\ chunks[d] = "none"

\* The records of the approved scopes.
buildParticipantDataExport(d) == {r \in matched[d] : scope[d][tenant[r]] = "approved"}

\* The export is stored, or found too large.  A record that is gone ends the poll.
prepareOne ==
    /\ phase = "prepare"
    /\ \/ \E d \in DataRequests :
            /\ Preparable(d)
            /\ \/ /\ \A r \in buildParticipantDataExport(d) : life[r] # "purged"
                  /\ \/ /\ status' = [status EXCEPT ![d] = "ready"]
                        /\ export' = [export EXCEPT ![d] = buildParticipantDataExport(d)]
                        /\ chunks' = [chunks EXCEPT ![d] = "stored"]
                     \/ /\ status' = [status EXCEPT ![d] = "preparation_failed"]
                        /\ UNCHANGED <<export, chunks>>
                  /\ phase' = "retain"
               \/ /\ \E r \in buildParticipantDataExport(d) : life[r] = "purged"
                  /\ phase' = "expire"
                  /\ UNCHANGED <<status, export, chunks>>
       \/ /\ \A d \in DataRequests : ~Preparable(d)
          /\ phase' = "retain"
          /\ UNCHANGED <<status, export, chunks>>
    /\ UNCHANGED <<policyVars, recordVars, stateVars, head, hold, matched, scope, late, purging,
                   aborts>>

\* What is to do for a record, and which of it comes first.
Ready(r) ==
    IF life[r] \in {"open", "closed"}
    THEN {s \in due[r] : IF s = "delete" THEN r \notin tried ELSE s \notin applied[r]}
    ELSE {}
Rank == [content |-> 0, history |-> 1, archive |-> 2, delete |-> 3]
Event == [content |-> "content.expired", history |-> "history.expired",
          archive |-> "evidence.archived", delete |-> "record.purged"]

\* The unlocked record whose next task ranks first, and that task.
Selected(r, s) ==
    /\ s \in Ready(r) /\ ~RowLocked(r)
    /\ \A q \in Records : RowLocked(q) \/ \A t \in Ready(q) : Rank[s] <= Rank[t]

activeHold(r) == \E h \in Holds : hold[h] = [state |-> "active", of |-> r]
activeDataRequest(r) ==
    \E d \in DataRequests : r \in matched[d] /\ status[d] \in Active /\ "review" \notin late[d]
purgeBlockers(r) == activeHold(r) \/ activeDataRequest(r)

\* Expiry of content or history, archival: the status and its event.
ApplyHorizon ==
    /\ phase = "retain"
    /\ phase' = "expire"
    /\ \E r \in Records, s \in Horizons \ {"delete"} :
        /\ Selected(r, s)
        /\ applied' = [applied EXCEPT ![r] = @ \union {s}]
        /\ tried' = tried \ {r}
        /\ appendLifecycleEvent(r, Event[s])
    /\ UNCHANGED <<policyVars, recordVars, tombstone, hold, requestVars, purging, aborts>>

\* A due deletion that something blocks is looked at again a day later.
BlockPurge ==
    /\ phase = "retain"
    /\ phase' = "expire"
    /\ \E r \in Records :
        /\ Selected(r, "delete")
        /\ purgeBlockers(r)
        /\ tried' = tried \union {r}
        /\ appendLifecycleEvent(r, "purge.blocked")
    /\ UNCHANGED <<policyVars, recordVars, applied, tombstone, hold, requestVars, purging, aborts>>

\* Nothing blocks it: the transaction goes on with the row locked ...
BeginPurge ==
    /\ phase = "retain"
    /\ phase' = "purge"
    /\ \E r \in Records :
        /\ Selected(r, "delete")
        /\ ~purgeBlockers(r)
        /\ purging' = r
    /\ UNCHANGED <<policyVars, recordVars, stateVars, head, hold, requestVars, aborts>>

\* The request rows left: the request's own only while a reissue still names it.
RowsAfterPurge(r) == [row EXCEPT ![r] = \E q \in Records \ {r} : row[q] /\ origin[q] = r]

\* Mutant of SealedHead: the tombstone is built before the event is appended.
SealedHead_Before(r) == head[r]

\* lifecycleHeadHash of the tombstone: the head after record.purged.
SealedHead(r) == head'[r]

\* ... appends purge.due and record.purged and seals the tombstone over that head;
\* the database function checks the blockers again and deletes.
purge_record_for_retention ==
    /\ phase = "purge"
    /\ phase' = "expire"
    /\ purging' = None
    /\ LET r == purging IN
       \/ /\ ~purgeBlockers(r)
          /\ appendLifecycleEvent(r, "record.purged")
          /\ tombstone' = [tombstone EXCEPT ![r] = SealedHead(r)]
          /\ life' = [life EXCEPT ![r] = "purged"]
          /\ row' = RowsAfterPurge(r)
       \/ /\ purgeBlockers(r)
          /\ UNCHANGED <<head, tombstone, life, row>>
    /\ UNCHANGED <<policyVars, past, tenant, origin, bound, deadline, due, applied, tried, hold,
                   requestVars, aborts>>

\* No record has anything to do.
RetainNothing ==
    /\ phase = "retain"
    /\ phase' = "expire"
    /\ \A r \in Records : RowLocked(r) \/ Ready(r) = {}
    /\ UNCHANGED <<policyVars, recordVars, stateVars, head, hold, requestVars, purging, aborts>>

\* A crash or a database error ends the poll and rolls its transaction back.
AbortPoll ==
    /\ aborts < MaxAborts
    /\ aborts' = aborts + 1
    /\ phase' = "expire"
    /\ purging' = None
    /\ UNCHANGED <<policyVars, recordVars, stateVars, head, hold, requestVars>>

\* A day passes after an evaluation.  A day is much longer than a poll: what
\* was due has been looked at by then.
NextDay ==
    /\ tried # {}
    /\ \A r \in Records : Ready(r) = {}
    /\ tried' = {}
    /\ UNCHANGED <<policyVars, recordVars, applied, tombstone, head, hold, requestVars, workerVars>>

-----------------------------------------------------------------------------
Init ==
    /\ policy \in Policies /\ revision = 1
    /\ life = [r \in Records |-> "none"]
    /\ past = [r \in Records |-> FALSE]
    /\ tenant = [r \in Records |-> None]
    /\ origin = [r \in Records |-> None]
    /\ row = [r \in Records |-> FALSE]
    /\ bound = [r \in Records |-> None]
    /\ deadline = [r \in Records |-> <<>>]
    /\ due = [r \in Records |-> {}]
    /\ applied = [r \in Records |-> {}]
    /\ tried = {}
    /\ head = [r \in Records |-> "none"]
    /\ tombstone = [r \in Records |-> "none"]
    /\ hold = [h \in Holds |-> [state |-> "none", of |-> None]]
    /\ status = [d \in DataRequests |-> "none"]
    /\ matched = [d \in DataRequests |-> {}]
    /\ scope = [d \in DataRequests |-> [t \in Tenants |-> "none"]]
    /\ late = [d \in DataRequests |-> {}]
    /\ export = [d \in DataRequests |-> {}]
    /\ chunks = [d \in DataRequests |-> "none"]
    /\ phase = "expire" /\ purging = None /\ aborts = 0

RecordStep ==
    \/ \E r \in Records, t \in Tenants : issueRequest(r, t)
    \/ \E from, r \in Records : reissue(from, r)
    \/ \E r \in Records : anchorRecordLifecycle(r)
OwnerStep ==
    \/ updatePolicy
    \/ \E h \in Holds, r \in Records : BeginHold(h, r)
    \/ \E h \in Holds : CommitHold(h) \/ RollBackHold(h) \/ releaseHold(h)
RequestStep ==
    \/ \E d \in DataRequests : BeginDataRequest(d) \/ createParticipantDataRequest(d)
    \/ \E d \in DataRequests, t \in Tenants, v \in {"approved", "denied"} :
          reviewDataRequest(d, t, v)
WorkerStep ==
    \/ expireOneParticipantDataRequest
    \/ prepareOne
    \/ ApplyHorizon \/ BlockPurge \/ BeginPurge \/ RetainNothing
    \/ purge_record_for_retention
TimeStep ==
    \/ \E r \in Records : Lapse(r) \/ \E s \in Horizons : Fall(r, s)
    \/ \E d \in DataRequests : CloseReview(d) \/ CloseDelivery(d)
    \/ NextDay

Next == RecordStep \/ OwnerStep \/ RequestStep \/ WorkerStep \/ TimeStep \/ AbortPoll
Spec == Init /\ [][Next]_vars

\* The worker polls for ever, time passes, and a transaction that holds a row ends.
Fairness ==
    /\ WF_vars(WorkerStep)
    /\ \A r \in Records : WF_vars(Lapse(r)) /\ \A s \in Horizons : WF_vars(Fall(r, s))
    /\ \A d \in DataRequests : WF_vars(CloseReview(d))
    /\ WF_vars(NextDay)
    /\ \A h \in Holds : WF_vars(CommitHold(h) \/ RollBackHold(h))
FairSpec == Spec /\ Fairness
-----------------------------------------------------------------------------
(* Properties *)

Events == {"policy.bound", "terminal.anchored", "content.expired", "history.expired",
           "evidence.archived", "purge.due", "purge.blocked", "record.purged",
           "hold.placed", "hold.released"}

\* The rows of lifecycle-store.mjs have the values their columns allow.
TypeOK ==
    /\ policy \in Policies /\ revision \in Nat
    /\ life \in [Records -> {"none", "open", "closed", "purged"}]
    /\ past \in [Records -> BOOLEAN] /\ row \in [Records -> BOOLEAN]
    /\ tenant \in [Records -> Tenants \union {None}]
    /\ origin \in [Records -> Records \union {None}]
    /\ bound \in [Records -> Policies \union {None}]
    /\ DOMAIN deadline = Records
    /\ \A r \in Records : DOMAIN deadline[r] \subseteq Horizons
    /\ due \in [Records -> SUBSET Horizons]
    /\ applied \in [Records -> SUBSET Horizons]
    /\ tried \subseteq Records
    /\ head \in [Records -> Events \union {"none"}] /\ tombstone \in [Records -> Events \union {"none"}]
    /\ hold \in [Holds -> [state : {"none", "placing", "failed", "active", "released"},
                           of : Records \union {None}]]
    /\ \A h \in Holds : hold[h].state # "none" => hold[h].of \in Records
    /\ status \in [DataRequests -> Active \union
                     {"none", "creating", "denied", "preparation_failed", "expired"}]
    /\ matched \in [DataRequests -> SUBSET Records]
    /\ scope \in [DataRequests -> [Tenants -> {"none", "pending_review", "approved", "denied"}]]
    /\ late \in [DataRequests -> SUBSET {"review", "delivery"}]
    /\ export \in [DataRequests -> SUBSET Records]
    /\ chunks \in [DataRequests -> {"none", "stored", "deleted"}]
    /\ phase \in {"expire", "prepare", "retain", "purge"}
    /\ purging \in Records \union {None}
    /\ phase = "purge" <=> purging # None
    /\ aborts \in Nat

\* No record under an active legal hold is ever purged, whichever of the
\* placement (commandHold) and the purge transaction started first.
HoldBlocksPurge == \A h \in Holds : hold[h].state = "active" => life[hold[h].of] # "purged"

\* The tombstone of a purged record seals the whole of its lifecycle chain:
\* record.purged is the last event, and nothing is appended after it.
TombstoneSealsChain ==
    \A r \in Records :
        IF life[r] = "purged" THEN head[r] = tombstone[r] /\ tombstone[r] = "record.purged"
        ELSE head[r] # "record.purged" /\ tombstone[r] = "none"

\* A record is purged only under the policy it was issued with, whatever the
\* profile says later, and not before the archival that policy asks for.
PurgeFollowsPolicy ==
    \A r \in Records : life[r] = "purged" =>
        /\ bound[r]["delete"] # None
        /\ bound[r]["archive"] # None => "archive" \in applied[r]

\* An export holds exactly the records of the organizations that approved,
\* and exists only once every organization has decided.
ExportIsReviewed ==
    \A d \in DataRequests : chunks[d] # "none" =>
        /\ \A t \in Tenants : scope[d][t] # "pending_review"
        /\ export[d] = {r \in matched[d] : scope[d][tenant[r]] = "approved"}

\* A request row that a reissued request names survives the purge of its own
\* record (the foreign key reissuedFromRequestId never dangles).
ReissueSourceKept ==
    \A r \in Records : row[r] /\ origin[r] # None => row[origin[r]]

\* A record whose deletion is due is purged in the end, unless it is under an
\* active hold: no blocked evaluation, lost poll or data request stops it for good.
PurgesHappen ==
    \A r \in Records : "delete" \in due[r] ~> life[r] = "purged" \/ activeHold(r)

\* Every data request expires in the end, whatever became of it, and with it
\* the content of its export.
RequestsExpire ==
    \A d \in DataRequests :
        status[d] \notin {"none", "creating"} ~> status[d] = "expired" /\ chunks[d] # "stored"

\* Nothing under retention waits for ever.
RetentionEnds == PurgesHappen /\ RequestsExpire

\* "No unexpired participant data request that includes the assignment": item
\* 3 of what a purge requires (docs/architecture/lifecycle-governance-and-participant-data.md).
RequestBlocksPurge ==
    \A r \in Records : life[r] = "purged" => ~activeDataRequest(r)

=============================================================================

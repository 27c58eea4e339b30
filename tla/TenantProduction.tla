-------------------------- MODULE TenantProduction --------------------------
(***************************************************************************)
(* The transactions that meet on a tenant's admission pointer, its profile *)
(* pointer and its request and assignment rows: issuing, reissuing and     *)
(* revoking requests, deciding admission gates, changing quotas,           *)
(* completing a request, the emergency stop of the tenant's production,    *)
(* and the integration gateway delivering a notice (evidence-store.mjs,    *)
(* product-store.mjs, tenant-admission.mjs and tenant-policy.mjs of        *)
(* services/engine, and services/integration-gateway/store.mjs).           *)
(*                                                                         *)
(* Here a handler is a sequence of steps, one per row lock it waits for,   *)
(* because what matters is who holds what when.  Its writes become visible *)
(* with its commit, as in READ COMMITTED.  A request has one assignment,   *)
(* and "for update of a, r" locks the two rows in the order it names them. *)
(***************************************************************************)
EXTENDS Integers, FiniteSets

CONSTANTS
  Txns,             \* database connections
  Requests,         \* request_instance ids, ordered
  AdmissionGates,   \* admission gates
  StopCommands,     \* stop command ids
  Limits,           \* values of quotas.maxActiveRequests
  None,
  MaxRevision,      \* bound on admission revisions
  MaxTransactions   \* bound on transactions begun

ASSUME ProductionAssumption ==
  /\ Requests \subseteq Nat /\ IsFiniteSet(Requests) /\ Limits \subseteq Nat
  /\ AdmissionGates # {} /\ Limits # {}
  /\ MaxRevision \in Nat \ {0} /\ MaxTransactions \in Nat

VARIABLES
  tenantAdmission,  \* the active revision: its number and its approved gates
  limit,       \* quotas.maxActiveRequests of the active profile
  status,      \* committed status of each request
  stops,       \* commands of tenant.production.stopped events
  halted,      \* history: stopped, and not admitted again since
  txn,         \* what each connection is doing
  locks,       \* row and advisory locks held
  begun        \* transactions begun so far

productionVars == <<tenantAdmission, limit, status, stops, halted, txn, locks, begun>>

HandlerKinds == {"issue", "reissue", "stop", "decide", "configure", "respond", "revoke",
                 "deliver"}
Stages == {"begin", "command", "admission", "request", "assignment", "rows", "assignments",
           "profile", "count", "commit"}

\* None is no request, no handler and no stage.
ASSUME NoneAssumption == None \notin Requests /\ None \notin HandlerKinds /\ None \notin Stages

NoTransaction == [kind |-> None, at |-> None, request |-> None, new |-> None, command |-> None,
         gate |-> None, expected |-> 0, limit |-> 0, rows |-> {}, revoke |-> {}]

Admitted == tenantAdmission.approved = AdmissionGates
OpenRequests == {q \in Requests : status[q] = "open"}

-----------------------------------------------------------------------------
(* Locks *)

Pointer(name) == <<name, 0>>
RowOf(q) == <<"request", q>>
AssignmentOf(q) == <<"assignment", q>>
CommandLock(c) == <<"command", c>>
Lock(t, resource, mode) == [txn |-> t, resource |-> resource, mode |-> mode]

Resources == {Pointer("admission"), Pointer("profile")}
               \cup {RowOf(q) : q \in Requests} \cup {AssignmentOf(q) : q \in Requests}
               \cup {CommandLock(c) : c \in StopCommands}

AllLocks == [txn : Txns, resource : Resources, mode : {"share", "update"}]

\* Mutants: one side does not lock the pointer against the other.
UnlockedAdmissionCheck(kind) == IF kind \in {"stop", "decide"} THEN "update" ELSE "none"
SharedStop(kind) == IF kind = "decide" THEN "update" ELSE "share"

\* activeTenantAdmission: FOR UPDATE where it is changed, FOR SHARE where it is
\* only asserted.
AdmissionMode(kind) == IF kind \in {"stop", "decide"} THEN "update" ELSE "share"

\* Mutant: the capacity check does not lock the profile it counts against.
UnlockedProfile(kind) == IF kind = "configure" THEN "update" ELSE "none"

ProfileMode(kind) == "update"

RequestMode(kind) == IF kind = "deliver" THEN "share" ELSE "update"

First(S, q) == q \in S /\ \A p \in S : q <= p

\* Lock l is what transaction t asks for next.
Asks(t, l) ==
  LET x == txn[t] IN
  /\ l.txn = t
  /\ \/ /\ x.at = "command"
        /\ l.resource = CommandLock(x.command) /\ l.mode = "update"
     \/ /\ x.at = "admission"
        /\ l.resource = Pointer("admission") /\ l.mode = AdmissionMode(x.kind)
     \/ /\ x.at = "profile"
        /\ l.resource = Pointer("profile") /\ l.mode = ProfileMode(x.kind)
     \/ /\ x.at = "request"
        /\ l.resource = RowOf(x.request) /\ l.mode = RequestMode(x.kind)
     \/ /\ x.at = "assignment"
        /\ l.resource = AssignmentOf(x.request) /\ l.mode = "update"
     \/ /\ x.at \in {"rows", "assignments"}
        /\ \E q \in x.rows :
             /\ First(x.rows, q)
             /\ l.resource = IF x.at = "rows" THEN RowOf(q) ELSE AssignmentOf(q)
        /\ l.mode = "update"

Requested(t) == {l \in AllLocks : Asks(t, l)}

Conflict(l, n) == l.resource = n.resource /\ "update" \in {l.mode, n.mode}

Waits(t, u) ==
  t # u /\ \E l \in locks, n \in Requested(t) : l.txn = u /\ Conflict(l, n)

Granted(t) == \A u \in Txns : ~Waits(t, u)

Take(t) ==
  /\ Granted(t)
  /\ locks' = locks \cup Requested(t)

\* Commit and rollback end the transaction and release everything it holds.
End(t) ==
  /\ txn' = [txn EXCEPT ![t] = NoTransaction]
  /\ locks' = {l \in locks : l.txn # t}

-----------------------------------------------------------------------------
(* The order in which each handler locks and looks at rows *)

\* Mutant: a reissue locks the old request before the admission pointer.
ReissueRequestFirst ==
  {<<"begin", "request">>, <<"request", "assignment">>, <<"assignment", "admission">>,
   <<"admission", "profile">>, <<"profile", "count">>, <<"count", "commit">>}

ReissueRoute ==
  {<<"begin", "admission">>, <<"admission", "request">>, <<"request", "assignment">>,
   <<"assignment", "profile">>, <<"profile", "count">>, <<"count", "commit">>}

\* A handler of a participant finds the assignment by its handle and locks it
\* before the request (assignmentForHandle); an action of an operator locks the
\* request before the assignment.
Follows(kind, stage, next) ==
  \/ kind = "issue" /\ <<stage, next>> \in
       {<<"begin", "admission">>, <<"admission", "profile">>,
        <<"profile", "count">>, <<"count", "commit">>}
  \/ kind = "reissue" /\ <<stage, next>> \in ReissueRoute
  \/ kind = "stop" /\ <<stage, next>> \in
       {<<"begin", "command">>, <<"command", "admission">>, <<"admission", "rows">>,
        <<"rows", "commit">>}
  \/ kind = "decide" /\ <<stage, next>> \in {<<"begin", "admission">>, <<"admission", "commit">>}
  \/ kind = "configure" /\ <<stage, next>> \in {<<"begin", "profile">>, <<"profile", "commit">>}
  \/ kind = "respond" /\ <<stage, next>> \in
       {<<"begin", "assignment">>, <<"assignment", "request">>, <<"request", "commit">>}
  \/ kind = "revoke" /\ <<stage, next>> \in
       {<<"begin", "request">>, <<"request", "assignment">>, <<"assignment", "commit">>}
  \/ kind = "deliver" /\ <<stage, next>> \in
       {<<"begin", "request">>, <<"request", "admission">>, <<"admission", "commit">>}

\* A connection with the fields x goes on to the next stage of its handler.
GoOn(t, x) ==
  \E next \in Stages :
    /\ Follows(x.kind, x.at, next)
    /\ txn' = [txn EXCEPT ![t] = [x EXCEPT !.at = next]]

Proceed(t) == GoOn(t, txn[t])

Begin(t, x) ==
  /\ txn[t] = NoTransaction
  /\ begun < MaxTransactions
  /\ begun' = begun + 1
  /\ GoOn(t, [x EXCEPT !.at = "begin"])
  /\ UNCHANGED <<tenantAdmission, limit, status, stops, halted, locks>>

issueRequest(t, q) ==
  /\ status[q] = "none"
  /\ \A u \in Txns : txn[u].new # q
  /\ Begin(t, [NoTransaction EXCEPT !.kind = "issue", !.new = q])

\* applyRequestAction, action reissue.
reissueRequest(t, q, new) ==
  /\ status[q] # "none" /\ status[new] = "none"
  /\ \A u \in Txns : txn[u].new # new
  /\ Begin(t, [NoTransaction EXCEPT !.kind = "reissue", !.request = q, !.new = new])

stopTenantProduction(t, c, g, expected) ==
  Begin(t, [NoTransaction EXCEPT !.kind = "stop", !.command = c, !.gate = g,
                        !.expected = expected])

\* updateTenantAdmission; a gate is approved or returned to pending.
decideAdmission(t, g, expected) ==
  Begin(t, [NoTransaction EXCEPT !.kind = "decide", !.gate = g,
                        !.expected = expected])

\* updateTenantProfile: the expected profile revision only refuses more; a refusal is a rollback.
changeQuota(t, n) ==
  Begin(t, [NoTransaction EXCEPT !.kind = "configure", !.limit = n])

\* applyRequestAction, action revoke; a reminder locks the same rows and leaves
\* them as they are.
revokeRequest(t, q) ==
  /\ status[q] # "none"
  /\ Begin(t, [NoTransaction EXCEPT !.kind = "revoke", !.request = q])

\* A participant's command that completes the record.
respond(t, q) ==
  /\ status[q] # "none"
  /\ Begin(t, [NoTransaction EXCEPT !.kind = "respond", !.request = q])

\* The gateway's deliver; the outbox job it locks first is nobody else's here.
deliver(t, q) ==
  /\ status[q] # "none"
  /\ Begin(t, [NoTransaction EXCEPT !.kind = "deliver", !.request = q])

-----------------------------------------------------------------------------
(* The steps of the handlers *)

Unwritten == UNCHANGED <<tenantAdmission, limit, status, stops, halted, begun>>

\* The advisory lock on the command id, then the replay check.
LockCommand(t) ==
  /\ txn[t].at = "command"
  /\ Take(t)
  /\ txn[t].command \notin stops
  /\ Proceed(t)
  /\ Unwritten

\* Issuing, reissuing and delivering assert admission; a stop and a decision
\* compare the expected revision.  A stop then selects the open requests.
LockAdmission(t) ==
  LET x == txn[t] IN
  /\ x.at = "admission"
  /\ Take(t)
  /\ IF x.kind \in {"stop", "decide"} THEN tenantAdmission.revision = x.expected ELSE Admitted
  /\ GoOn(t, [x EXCEPT !.rows = IF x.kind = "stop" THEN OpenRequests ELSE {}])
  /\ Unwritten

\* What a request's status must be once its row is locked: a delivered notice may
\* be that of the completion.
Allows(kind, s) == s = "open" \/ (kind = "deliver" /\ s = "completed")

\* The handler has locked its request and its assignment when it gets this lock.
LastLock(kind) == IF kind \in {"reissue", "revoke"} THEN "assignment" ELSE "request"

\* A request or an assignment is locked, and the status looked at again once
\* both are.
LockRequest(t) ==
  LET x == txn[t] IN
  /\ x.at \in {"request", "assignment"}
  /\ Take(t)
  /\ x.at = LastLock(x.kind) => Allows(x.kind, status[x.request])
  /\ Proceed(t)
  /\ Unwritten

\* The stop's select goes through the open requests in id order: it locks the
\* request row,
LockNextRow(t) ==
  LET x == txn[t] IN
  /\ x.at = "rows" /\ x.rows # {}
  /\ Take(t)
  /\ txn' = [txn EXCEPT ![t] = [x EXCEPT !.at = "assignments"]]
  /\ Unwritten

\* then its assignment, and drops the pair if the request was closed meanwhile.
LockNextAssignment(t) ==
  LET x == txn[t] IN
  /\ x.at = "assignments"
  /\ Take(t)
  /\ \E q \in x.rows :
       /\ First(x.rows, q)
       /\ txn' = [txn EXCEPT ![t] =
                    [x EXCEPT !.at = "rows", !.rows = @ \ {q},
                              !.revoke = IF status[q] = "open" THEN @ \cup {q} ELSE @]]
  /\ Unwritten

RowsLocked(t) ==
  /\ txn[t].at = "rows" /\ txn[t].rows = {}
  /\ Proceed(t)
  /\ UNCHANGED locks
  /\ Unwritten

LockProfile(t) ==
  /\ txn[t].at = "profile"
  /\ Take(t)
  /\ Proceed(t)
  /\ Unwritten

\* assertTenantCapacity: the request a reissue revoked in this transaction no
\* longer counts.
CountActive(t) ==
  /\ txn[t].at = "count"
  /\ Cardinality(OpenRequests \ {txn[t].request}) + 1 <= limit
  /\ Proceed(t)
  /\ UNCHANGED locks
  /\ Unwritten

Committing(t, kind) == txn[t].kind = kind /\ txn[t].at = "commit"

CommitIssue(t) ==
  /\ txn[t].kind \in {"issue", "reissue"} /\ txn[t].at = "commit"
  /\ status' = [q \in Requests |->
                  IF q = txn[t].new THEN "open"
                  ELSE IF q = txn[t].request THEN "revoked" ELSE status[q]]
  /\ End(t)
  /\ UNCHANGED <<tenantAdmission, limit, stops, halted, begun>>

\* A pending admission revision is written only when the gate was approved.
\* The unique index on the command id would refuse a second event.
CommitStop(t) ==
  LET x == txn[t] IN
  /\ Committing(t, "stop")
  /\ x.command \notin stops
  /\ tenantAdmission' = IF x.gate \in tenantAdmission.approved
                  THEN [revision |-> tenantAdmission.revision + 1,
                        approved |-> tenantAdmission.approved \ {x.gate}]
                  ELSE tenantAdmission
  /\ status' = [q \in Requests |-> IF q \in x.revoke THEN "revoked" ELSE status[q]]
  /\ stops' = stops \cup {x.command}
  /\ halted' = TRUE
  /\ End(t)
  /\ UNCHANGED <<limit, begun>>

\* Approving an approved gate again records fresh evidence; a pending gate that
\* stays pending is refused as unchanged.
CommitDecision(t) ==
  LET x == txn[t] IN
  /\ Committing(t, "decide")
  /\ \E approved \in {tenantAdmission.approved \cup {x.gate}, tenantAdmission.approved \ {x.gate}} :
       /\ ~(approved = tenantAdmission.approved /\ x.gate \notin approved)
       /\ tenantAdmission' = [revision |-> tenantAdmission.revision + 1, approved |-> approved]
       /\ halted' = (halted /\ approved # AdmissionGates)
  /\ End(t)
  /\ UNCHANGED <<limit, status, stops, begun>>

CommitProfile(t) ==
  /\ Committing(t, "configure")
  /\ limit' = txn[t].limit
  /\ End(t)
  /\ UNCHANGED <<tenantAdmission, status, stops, halted, begun>>

\* A response completes the request, a revocation revokes it.
CommitClosing(t) ==
  /\ Committing(t, "respond") \/ Committing(t, "revoke")
  /\ status' = [status EXCEPT ![txn[t].request] =
                  IF txn[t].kind = "respond" THEN "completed" ELSE "revoked"]
  /\ End(t)
  /\ UNCHANGED <<tenantAdmission, limit, stops, halted, begun>>

\* The provider answered or timed out, and the gateway records the attempt.
CommitDelivery(t) ==
  /\ Committing(t, "deliver")
  /\ End(t)
  /\ Unwritten

Commit(t) ==
  \/ CommitIssue(t) \/ CommitStop(t) \/ CommitDecision(t)
  \/ CommitProfile(t) \/ CommitClosing(t) \/ CommitDelivery(t)

\* A set of transactions each of which waits for another one of the set.
Deadlocked(S) == S # {} /\ \A t \in S : \E u \in S : Waits(t, u)

\* A handler threw (a failed check, a lost connection) and was rolled back.
rollback(t) ==
  /\ txn[t] # NoTransaction
  /\ End(t)
  /\ Unwritten

\* PostgreSQL aborts a transaction of a deadlock.
BreakDeadlock(t) ==
  /\ \E S \in SUBSET Txns : t \in S /\ Deadlocked(S)
  /\ End(t)
  /\ Unwritten

-----------------------------------------------------------------------------

ProductionInit ==
  /\ tenantAdmission = [revision |-> 1, approved |-> {}]
  /\ limit \in Limits
  /\ status = [q \in Requests |-> "none"]
  /\ stops = {}
  /\ halted = FALSE
  /\ txn = [t \in Txns |-> NoTransaction]
  /\ locks = {}
  /\ begun = 0

Command(t) ==
  \/ \E q \in Requests : \/ issueRequest(t, q) \/ respond(t, q)
                           \/ revokeRequest(t, q) \/ deliver(t, q)
  \/ \E q, new \in Requests : reissueRequest(t, q, new)
  \/ \E g \in AdmissionGates, expected \in 1 .. MaxRevision - 1 :
       \/ decideAdmission(t, g, expected)
       \/ \E c \in StopCommands : stopTenantProduction(t, c, g, expected)
  \/ \E n \in Limits : changeQuota(t, n)

Step(t) ==
  \/ LockCommand(t) \/ LockAdmission(t) \/ LockRequest(t)
  \/ LockNextRow(t) \/ LockNextAssignment(t) \/ RowsLocked(t) \/ LockProfile(t) \/ CountActive(t)
  \/ Commit(t)

ProductionNext == \E t \in Txns : Command(t) \/ Step(t) \/ rollback(t) \/ BreakDeadlock(t)

ProductionSpec == ProductionInit /\ [][ProductionNext]_productionVars

-----------------------------------------------------------------------------
(* Properties *)

Transactions ==
  [kind : HandlerKinds \cup {None}, at : Stages \cup {None},
   request : Requests \cup {None}, new : Requests \cup {None},
   command : StopCommands \cup {None}, gate : AdmissionGates \cup {None},
   expected : 0 .. MaxRevision - 1, limit : Limits \cup {0},
   rows : SUBSET Requests, revoke : SUBSET Requests]

\* Rows, lock table and connections of product-store.mjs keep their types.
ProductionTypeOK ==
  /\ tenantAdmission \in [revision : 1 .. MaxRevision, approved : SUBSET AdmissionGates]
  /\ limit \in Limits
  /\ status \in [Requests -> {"none", "open", "completed", "revoked"}]
  /\ stops \subseteq StopCommands
  /\ halted \in BOOLEAN
  /\ txn \in [Txns -> Transactions]
  /\ locks \subseteq AllLocks
  /\ begun \in 0 .. MaxTransactions

\* After a production stop no request of the tenant is open until every gate is
\* approved again: no issue or reissue that was under way escapes the stop.
StopLeavesNothingOpen == halted => OpenRequests = {} /\ ~Admitted

Opens(q) == status[q] # "open" /\ status'[q] = "open"

\* A request is only ever opened while the tenant is admitted, whatever was
\* decided between the check and the commit.
IssuedUnderAdmission == [][\A q \in Requests : Opens(q) => Admitted]_productionVars

\* Opening a request never takes the tenant above its quota, with concurrent
\* issues, reissues and quota changes.
QuotaRespected ==
  [][\A q \in Requests : Opens(q) => Cardinality(OpenRequests') <= limit]_productionVars

\* A closed request stays as it is: a stop racing a response or a reissue never
\* rewrites the one that committed first.
ClosedRequestsStay ==
  [][\A q \in Requests :
       status[q] \in {"completed", "revoked"} => status'[q] = status[q]]_productionVars

Involves(S, kinds) == \E t \in S : txn[t].kind \in kinds

\* Transactions deadlock in two ways only: a participant's command, which takes
\* the assignment before the request, with a reissue, a revocation or a stop,
\* which take them the other way round; and a delivery, which takes the request
\* before the admission pointer, with a reissue or a stop.  Whatever else takes
\* part, no other handlers deadlock with each other, however many run.
DeadlocksAreInversions ==
  \A S \in SUBSET Txns : Deadlocked(S) =>
    \/ Involves(S, {"respond"}) /\ Involves(S, {"reissue", "revoke", "stop"})
    \/ Involves(S, {"deliver"}) /\ Involves(S, {"reissue", "stop"})

\* A production stop is never part of a deadlock, whatever runs beside it.
StopNeverDeadlocks ==
  \A S \in SUBSET Txns : Deadlocked(S) => \A t \in S : txn[t].kind # "stop"
=============================================================================

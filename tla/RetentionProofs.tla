-------------------------- MODULE RetentionProofs --------------------------
(***************************************************************************)
(* A record under a legal hold is never purged, the tombstone of a purged  *)
(* record seals its whole lifecycle chain, and the request row a reissue   *)
(* names is kept; a record is purged under its own policy, and an export   *)
(* holds what was approved; for any number of records, organizations,      *)
(* policies, holds and data requests.                                      *)
(*                                                                         *)
(* The argument for the first three is the row lock on                     *)
(* record_lifecycle_state: placing a hold and purging exclude each other,  *)
(* and each finds the record alive while it holds the lock.                *)
(***************************************************************************)
EXTENDS Retention, TLAPS

Live(r) == life[r] \in {"open", "closed"}

\* The purge and a placement never hold the lock of one record together.
LockExcludes == \A h \in Holds : hold[h].state = "placing" => hold[h].of # purging

\* What a placement or the purge has locked, and what is held, is alive.
LockedIsLive ==
    /\ \A h \in Holds : hold[h].state \in {"placing", "active"} => Live(hold[h].of)
    /\ purging # None => Live(purging)

\* A record that is alive has its request row; no request is its own reissue.
LiveHasRow == \A r \in Records : (Live(r) => row[r]) /\ origin[r] # r

\* The deadlines are those of the snapshot, nothing is due before the terminal
\* event, and archival is due no later than deletion.
DeadlinesBound ==
    \A r \in Records :
        /\ life[r] # "none" =>
              bound[r] \in Policies /\ deadline[r] = calculateRetentionDeadlines(bound[r])
        /\ life[r] = "none" => ~past[r]
        /\ ~past[r] => due[r] = {}
        /\ due[r] \subseteq DOMAIN deadline[r]
        /\ "delete" \in due[r] /\ "archive" \in DOMAIN deadline[r] => "archive" \in due[r]

\* What is being purged is due for it, and archived if it ever will be.
PurgeIsDue ==
    purging # None =>
        /\ "delete" \in due[purging]
        /\ "archive" \in DOMAIN deadline[purging] => "archive" \in applied[purging]

\* An approved request has no scope left to review, an export belongs to a
\* request that was approved, and matched records stay with their tenants.
ReviewsDone ==
    \A d \in DataRequests :
        /\ status[d] \in {"approved", "partially_approved"} =>
              \A t \in Tenants : scope[d][t] # "pending_review"
        /\ chunks[d] # "none" => status[d] \in {"ready", "expired"}
        /\ \A r \in matched[d] : life[r] # "none"

LockInv == TypeOK /\ LockExcludes /\ LockedIsLive
RowInv == LiveHasRow /\ ReissueSourceKept
PolicyInv == DeadlinesBound /\ PurgeIsDue /\ PurgeFollowsPolicy
ReviewInv == ReviewsDone /\ ExportIsReviewed
IInv == LockInv /\ RowInv /\ TombstoneSealsChain /\ PolicyInv /\ ReviewInv

USE DEF Live
-----------------------------------------------------------------------------
(* What the operators return *)

\* The status computed from the scopes is one of the four review outcomes.
LEMMA ReviewStatus ==
    ASSUME NEW s
    PROVE  RequestStatus(s) \in {"pending_review", "partially_approved", "approved", "denied"}
BY DEF RequestStatus

\* A decided status leaves no scope to review.
LEMMA DecidedStatus ==
    ASSUME NEW s, RequestStatus(s) # "pending_review"
    PROVE  \A t \in Tenants : s[t] # "pending_review"
BY DEF RequestStatus

\* The deadlines are the policy's horizons that are not None.
LEMMA DeadlineFacts ==
    ASSUME NEW p \in Policies
    PROVE  LET c == calculateRetentionDeadlines(p) IN
           /\ DOMAIN c \subseteq Horizons
           /\ \A h \in Horizons : h \in DOMAIN c <=> p[h] # None
           /\ \A h \in DOMAIN c \ {"content"} : c[h] \in Nat
           /\ "archive" \in DOMAIN c /\ "delete" \in DOMAIN c => c["archive"] <= c["delete"]
BY PoliciesAssumption DEF calculateRetentionDeadlines, Horizons

\* Expiry and archival append events of their own, never record.purged.
LEMMA HorizonEvents ==
    ASSUME NEW s \in Horizons \ {"delete"}
    PROVE  Event[s] \in Events \ {"record.purged"}
BY DEF Event, Events, Horizons

\* A purge changes the row of its own request only, and keeps it for a reissue.
LEMMA RowsLeft ==
    ASSUME TypeOK, NEW r \in Records
    PROVE  /\ RowsAfterPurge(r) \in [Records -> BOOLEAN]
           /\ \A q \in Records \ {r} : RowsAfterPurge(r)[q] = row[q]
           /\ \A q \in Records \ {r} : row[q] /\ origin[q] = r => RowsAfterPurge(r)[r]
<1> DEFINE named == \E q \in Records \ {r} : row[q] /\ origin[q] = r
<1>1. row \in [Records -> BOOLEAN] /\ named \in BOOLEAN
  BY DEF TypeOK
<1> HIDE DEF named
<1>2. RowsAfterPurge(r) = [row EXCEPT ![r] = named]
  BY DEF RowsAfterPurge, named
<1>3. RowsAfterPurge(r) \in [Records -> BOOLEAN] /\ RowsAfterPurge(r)[r] = named
  BY <1>1, <1>2
<1>4. \A q \in Records \ {r} : RowsAfterPurge(r)[q] = row[q]
  BY <1>1, <1>2
<1> QED  BY <1>3, <1>4 DEF named
-----------------------------------------------------------------------------
(* Types *)

\* Every action keeps the types of the rows it writes.
LEMMA TypeStep ==
    TypeOK /\ [Next]_vars => TypeOK'
<1> SUFFICES ASSUME TypeOK, [Next]_vars PROVE TypeOK'
  OBVIOUS
<1> USE PoliciesAssumption, NoneAssumption
<1> USE DEF policyVars, recordVars, stateVars, requestVars, workerVars, Active, Events
<1>1. ASSUME NEW r \in Records, NEW t \in Tenants, issueRequest(r, t) PROVE TypeOK'
  BY <1>1
     DEF TypeOK, issueRequest, bindRecordLifecycle, appendLifecycleEvent,
         calculateRetentionDeadlines
<1>2. ASSUME NEW from \in Records, NEW r \in Records, reissue(from, r) PROVE TypeOK'
  BY <1>2
     DEF TypeOK, reissue, bindRecordLifecycle, appendLifecycleEvent,
         calculateRetentionDeadlines
<1>3. ASSUME NEW r \in Records, anchorRecordLifecycle(r) PROVE TypeOK'
  BY <1>3
     DEF TypeOK, anchorRecordLifecycle, appendLifecycleEvent, calculateRetentionDeadlines
<1>4. ASSUME updatePolicy PROVE TypeOK'
  BY <1>4 DEF TypeOK, updatePolicy
<1>5. ASSUME NEW h \in Holds, NEW r \in Records, BeginHold(h, r) PROVE TypeOK'
  BY <1>5 DEF TypeOK, BeginHold
<1>6. ASSUME NEW h \in Holds, CommitHold(h) PROVE TypeOK'
  BY <1>6 DEF TypeOK, CommitHold, appendLifecycleEvent
<1>7. ASSUME NEW h \in Holds, RollBackHold(h) PROVE TypeOK'
  BY <1>7 DEF TypeOK, RollBackHold
<1>8. ASSUME NEW h \in Holds, releaseHold(h) PROVE TypeOK'
  BY <1>8 DEF TypeOK, releaseHold, appendLifecycleEvent
<1>9. ASSUME NEW d \in DataRequests, BeginDataRequest(d) PROVE TypeOK'
  BY <1>9 DEF TypeOK, BeginDataRequest
<1>10. ASSUME NEW d \in DataRequests, createParticipantDataRequest(d) PROVE TypeOK'
  BY <1>10 DEF TypeOK, createParticipantDataRequest
<1>11. ASSUME NEW d \in DataRequests, NEW t \in Tenants, NEW v \in {"approved", "denied"},
              reviewDataRequest(d, t, v)
       PROVE  TypeOK'
  BY ReviewStatus, <1>11 DEF TypeOK, reviewDataRequest
<1>12. ASSUME expireOneParticipantDataRequest PROVE TypeOK'
  <2>1. \/ UNCHANGED <<status, chunks>>
        \/ \E d \in DataRequests :
              /\ status' = [status EXCEPT ![d] = "expired"]
              /\ chunks' = [chunks EXCEPT ![d] = IF @ = "none" THEN @ ELSE "deleted"]
    BY <1>12 DEF expireOneParticipantDataRequest
  <2>2. status' \in [DataRequests -> Active \union
                       {"none", "creating", "denied", "preparation_failed", "expired"}]
    BY <2>1, ZenonT(60) DEF TypeOK
  <2>3. chunks' \in [DataRequests -> {"none", "stored", "deleted"}]
    BY <2>1, ZenonT(60) DEF TypeOK
  <2> QED  BY <1>12, <2>2, <2>3 DEF TypeOK, expireOneParticipantDataRequest
<1>13. ASSUME prepareOne PROVE TypeOK'
  <2>1. \A d \in DataRequests : buildParticipantDataExport(d) \subseteq Records
    BY DEF TypeOK, buildParticipantDataExport
  <2>2. \/ UNCHANGED <<status, export, chunks>>
        \/ \E d \in DataRequests :
              /\ status' = [status EXCEPT ![d] = "preparation_failed"]
              /\ UNCHANGED <<export, chunks>>
        \/ \E d \in DataRequests :
              /\ status' = [status EXCEPT ![d] = "ready"]
              /\ export' = [export EXCEPT ![d] = buildParticipantDataExport(d)]
              /\ chunks' = [chunks EXCEPT ![d] = "stored"]
    BY <1>13 DEF prepareOne
  <2>3. /\ phase # "purge" /\ phase' \in {"expire", "retain"}
        /\ UNCHANGED <<policyVars, recordVars, stateVars, head, hold, matched, scope, late,
                       purging, aborts>>
    BY <1>13 DEF prepareOne
  <2>4. status' \in [DataRequests -> Active \union
                       {"none", "creating", "denied", "preparation_failed", "expired"}]
    BY <2>2, ZenonT(60) DEF TypeOK
  <2>5. export' \in [DataRequests -> SUBSET Records]
    BY <2>1, <2>2 DEF TypeOK
  <2>6. chunks' \in [DataRequests -> {"none", "stored", "deleted"}]
    BY <2>2 DEF TypeOK
  <2> QED  BY <2>3, <2>4, <2>5, <2>6 DEF TypeOK
<1>14. ASSUME ApplyHorizon PROVE TypeOK'
  <2>1. PICK r \in Records, s \in Horizons \ {"delete"} :
          /\ applied' = [applied EXCEPT ![r] = @ \union {s}]
          /\ tried' = tried \ {r}
          /\ head' = [head EXCEPT ![r] = Event[s]]
    BY <1>14 DEF ApplyHorizon, appendLifecycleEvent
  <2> QED  BY <1>14, <2>1, HorizonEvents DEF TypeOK, ApplyHorizon
<1>15. ASSUME BlockPurge PROVE TypeOK'
  BY <1>15 DEF TypeOK, BlockPurge, appendLifecycleEvent
<1>16. ASSUME BeginPurge PROVE TypeOK'
  BY <1>16 DEF TypeOK, BeginPurge
<1>17. ASSUME RetainNothing PROVE TypeOK'
  BY <1>17 DEF TypeOK, RetainNothing
<1>18. ASSUME purge_record_for_retention PROVE TypeOK'
  <2>1. purging \in Records
    BY <1>18 DEF TypeOK, purge_record_for_retention
  <2>2. \/ UNCHANGED <<head, tombstone, life, row>>
        \/ /\ head' = [head EXCEPT ![purging] = "record.purged"]
           /\ tombstone' = [tombstone EXCEPT ![purging] = head'[purging]]
           /\ life' = [life EXCEPT ![purging] = "purged"]
           /\ row' = RowsAfterPurge(purging)
    BY <1>18 DEF purge_record_for_retention, appendLifecycleEvent, SealedHead
  <2>3. row' \in [Records -> BOOLEAN]
    BY <2>1, <2>2, RowsLeft DEF TypeOK
  <2>4. head' \in [Records -> Events \union {"none"}]
    BY <2>1, <2>2, ZenonT(60) DEF TypeOK
  <2>5. tombstone' \in [Records -> Events \union {"none"}]
    <3>1. head'[purging] \in Events \union {"none"}
      BY <2>1, <2>4
    <3> QED  BY <2>1, <2>2, <3>1 DEF TypeOK
  <2>6. life' \in [Records -> {"none", "open", "closed", "purged"}]
    BY <2>1, <2>2 DEF TypeOK
  <2> QED  BY <1>18, <2>3, <2>4, <2>5, <2>6 DEF TypeOK, purge_record_for_retention
<1>19. ASSUME NEW r \in Records, Lapse(r) PROVE TypeOK'
  BY <1>19 DEF TypeOK, Lapse
<1>20. ASSUME NEW r \in Records, NEW s \in Horizons, Fall(r, s) PROVE TypeOK'
  BY <1>20 DEF TypeOK, Fall, SameDay, Coming
<1>21. ASSUME NEW d \in DataRequests, CloseReview(d) PROVE TypeOK'
  BY <1>21 DEF TypeOK, CloseReview
<1>22. ASSUME NEW d \in DataRequests, CloseDelivery(d) PROVE TypeOK'
  BY <1>22 DEF TypeOK, CloseDelivery
<1>23. ASSUME NextDay PROVE TypeOK'
  BY <1>23 DEF TypeOK, NextDay
<1>24. ASSUME AbortPoll PROVE TypeOK'
  BY <1>24 DEF TypeOK, AbortPoll
<1>25. CASE UNCHANGED vars
  BY <1>25 DEF TypeOK, vars
<1> QED
  BY <1>1, <1>2, <1>3, <1>4, <1>5, <1>6, <1>7, <1>8, <1>9, <1>10, <1>11, <1>12, <1>13,
     <1>14, <1>15, <1>16, <1>17, <1>18, <1>19, <1>20, <1>21, <1>22, <1>23, <1>24, <1>25
     DEF Next, RecordStep, OwnerStep, RequestStep, WorkerStep, TimeStep

-----------------------------------------------------------------------------
(* Locks *)

\* The lock on the lifecycle row keeps placements and the purge apart.
LEMMA LockStep ==
    LockInv /\ [Next]_vars => (LockExcludes /\ LockedIsLive)'
<1> SUFFICES ASSUME LockInv, [Next]_vars PROVE (LockExcludes /\ LockedIsLive)'
  OBVIOUS
<1> USE NoneAssumption
<1> USE DEF policyVars, recordVars, stateVars, requestVars, workerVars
<1>1. ASSUME NEW r \in Records, NEW t \in Tenants, issueRequest(r, t)
       PROVE  (LockExcludes /\ LockedIsLive)'
  BY <1>1
     DEF LockInv, LockExcludes, LockedIsLive, TypeOK, issueRequest, bindRecordLifecycle
<1>2. ASSUME NEW from \in Records, NEW r \in Records, reissue(from, r)
       PROVE  (LockExcludes /\ LockedIsLive)'
  BY <1>2 DEF LockInv, LockExcludes, LockedIsLive, TypeOK, reissue, bindRecordLifecycle
<1>3. ASSUME NEW r \in Records, anchorRecordLifecycle(r) PROVE (LockExcludes /\ LockedIsLive)'
  BY <1>3 DEF LockInv, LockExcludes, LockedIsLive, TypeOK, anchorRecordLifecycle
<1>4. ASSUME NEW h \in Holds, NEW r \in Records, BeginHold(h, r)
       PROVE  (LockExcludes /\ LockedIsLive)'
  BY <1>4 DEF LockInv, LockExcludes, LockedIsLive, TypeOK, BeginHold, RowLocked
<1>5. ASSUME NEW h \in Holds, CommitHold(h) PROVE (LockExcludes /\ LockedIsLive)'
  BY <1>5 DEF LockInv, LockExcludes, LockedIsLive, TypeOK, CommitHold
<1>6. ASSUME NEW h \in Holds, RollBackHold(h) PROVE (LockExcludes /\ LockedIsLive)'
  BY <1>6 DEF LockInv, LockExcludes, LockedIsLive, TypeOK, RollBackHold
<1>7. ASSUME NEW h \in Holds, releaseHold(h) PROVE (LockExcludes /\ LockedIsLive)'
  BY <1>7 DEF LockInv, LockExcludes, LockedIsLive, TypeOK, releaseHold
<1>8. ASSUME BeginPurge PROVE (LockExcludes /\ LockedIsLive)'
  BY <1>8
     DEF LockInv, LockExcludes, LockedIsLive, TypeOK, BeginPurge, Selected, Ready, RowLocked
<1>9. ASSUME purge_record_for_retention PROVE (LockExcludes /\ LockedIsLive)'
  BY <1>9
     DEF LockInv, LockExcludes, LockedIsLive, TypeOK, purge_record_for_retention,
         purgeBlockers, activeHold
<1>10. ASSUME AbortPoll PROVE (LockExcludes /\ LockedIsLive)'
  BY <1>10 DEF LockInv, LockExcludes, LockedIsLive, TypeOK, AbortPoll
<1>11. CASE UNCHANGED <<life, hold, purging>>
  BY <1>11 DEF LockInv, LockExcludes, LockedIsLive
<1> QED
  BY <1>1, <1>2, <1>3, <1>4, <1>5, <1>6, <1>7, <1>8, <1>9, <1>10, <1>11
     DEF Next, RecordStep, OwnerStep, RequestStep, WorkerStep, TimeStep, vars, updatePolicy,
         BeginDataRequest, createParticipantDataRequest, reviewDataRequest,
         expireOneParticipantDataRequest, prepareOne, ApplyHorizon, BlockPurge,
         RetainNothing, Lapse, Fall, CloseReview, CloseDelivery, NextDay

-----------------------------------------------------------------------------
(* Rows and chains *)

\* Rows of live records, and of the requests that reissues name, are kept.
LEMMA RowStep ==
    LockInv /\ RowInv /\ [Next]_vars => RowInv'
<1> SUFFICES ASSUME LockInv, RowInv, [Next]_vars PROVE RowInv'
  OBVIOUS
<1> USE NoneAssumption
<1> USE DEF policyVars, recordVars, stateVars, requestVars, workerVars, RowInv
<1>1. ASSUME NEW r \in Records, NEW t \in Tenants, issueRequest(r, t) PROVE RowInv'
  BY <1>1
     DEF RowInv, LiveHasRow, ReissueSourceKept, TypeOK, LockInv, issueRequest,
         bindRecordLifecycle
<1>2. ASSUME NEW from \in Records, NEW r \in Records, reissue(from, r) PROVE RowInv'
  BY <1>2
     DEF RowInv, LiveHasRow, ReissueSourceKept, TypeOK, LockInv, reissue,
         bindRecordLifecycle
<1>3. ASSUME NEW r \in Records, anchorRecordLifecycle(r) PROVE RowInv'
  BY <1>3 DEF RowInv, LiveHasRow, ReissueSourceKept, TypeOK, LockInv, anchorRecordLifecycle
<1>4. ASSUME purge_record_for_retention PROVE RowInv'
  <2>1. purging \in Records /\ Live(purging)
    BY <1>4 DEF LockInv, TypeOK, LockedIsLive, purge_record_for_retention
  <2>2. CASE purgeBlockers(purging)
    BY <1>4, <2>2 DEF purge_record_for_retention, LiveHasRow, ReissueSourceKept
  <2>3. CASE ~purgeBlockers(purging)
    <3>1. /\ row' = RowsAfterPurge(purging) /\ origin' = origin
          /\ life' = [life EXCEPT ![purging] = "purged"]
      BY <1>4, <2>3 DEF purge_record_for_retention
    <3>2. LiveHasRow'
      BY <2>1, <3>1, RowsLeft DEF LiveHasRow, LockInv, TypeOK
    <3>3. ReissueSourceKept'
      <4> SUFFICES ASSUME NEW q \in Records, row'[q], origin[q] # None
                   PROVE  row'[origin[q]]
        BY <3>1 DEF ReissueSourceKept
      <4>1. origin[q] \in Records /\ origin[q] # q
        BY DEF LockInv, TypeOK, LiveHasRow
      <4>2. row[q]
        BY <2>1, <3>1, RowsLeft DEF LiveHasRow, LockInv
      <4>3. row[origin[q]]
        BY <4>2 DEF ReissueSourceKept
      <4> QED  BY <2>1, <3>1, <4>1, <4>2, <4>3, RowsLeft DEF LockInv
    <3> QED  BY <3>2, <3>3
  <2> QED  BY <2>2, <2>3
<1>5. CASE UNCHANGED <<life, row, origin>>
  BY <1>5 DEF LiveHasRow, ReissueSourceKept
<1> QED
  BY <1>1, <1>2, <1>3, <1>4, <1>5
     DEF Next, RecordStep, OwnerStep, RequestStep, WorkerStep, TimeStep, vars, updatePolicy,
         BeginHold, CommitHold, RollBackHold, releaseHold, BeginDataRequest,
         createParticipantDataRequest, reviewDataRequest, expireOneParticipantDataRequest,
         prepareOne, ApplyHorizon, BlockPurge, BeginPurge, RetainNothing, Lapse, Fall,
         CloseReview, CloseDelivery, NextDay, AbortPoll

\* Nothing is appended to the chain of a purged record.
LEMMA SealStep ==
    LockInv /\ TombstoneSealsChain /\ [Next]_vars => TombstoneSealsChain'
<1> SUFFICES ASSUME LockInv, TombstoneSealsChain, [Next]_vars PROVE TombstoneSealsChain'
  OBVIOUS
<1> USE DEF policyVars, recordVars, stateVars, requestVars, workerVars
<1>1. ASSUME NEW r \in Records, NEW t \in Tenants, issueRequest(r, t)
       PROVE  TombstoneSealsChain'
  BY <1>1
     DEF TombstoneSealsChain, TypeOK, LockInv, issueRequest, bindRecordLifecycle,
         appendLifecycleEvent
<1>2. ASSUME NEW from \in Records, NEW r \in Records, reissue(from, r)
       PROVE  TombstoneSealsChain'
  BY <1>2
     DEF TombstoneSealsChain, TypeOK, LockInv, reissue, bindRecordLifecycle,
         appendLifecycleEvent
<1>3. ASSUME NEW r \in Records, anchorRecordLifecycle(r) PROVE TombstoneSealsChain'
  BY <1>3
     DEF TombstoneSealsChain, TypeOK, LockInv, anchorRecordLifecycle, appendLifecycleEvent
<1>4. ASSUME NEW h \in Holds, CommitHold(h) PROVE TombstoneSealsChain'
  BY <1>4
     DEF TombstoneSealsChain, TypeOK, LockInv, LockedIsLive, CommitHold,
         appendLifecycleEvent
<1>5. ASSUME NEW h \in Holds, releaseHold(h) PROVE TombstoneSealsChain'
  BY <1>5
     DEF TombstoneSealsChain, TypeOK, LockInv, LockedIsLive, releaseHold,
         appendLifecycleEvent
<1>6. ASSUME ApplyHorizon PROVE TombstoneSealsChain'
  <2>1. PICK r \in Records, s \in Horizons \ {"delete"} :
          Live(r) /\ head' = [head EXCEPT ![r] = Event[s]]
    BY <1>6 DEF ApplyHorizon, appendLifecycleEvent, Selected, Ready
  <2> QED  BY <1>6, <2>1, HorizonEvents DEF TombstoneSealsChain, TypeOK, LockInv, ApplyHorizon
<1>7. ASSUME BlockPurge PROVE TombstoneSealsChain'
  <2>1. PICK r \in Records : Live(r) /\ head' = [head EXCEPT ![r] = "purge.blocked"]
    BY <1>7 DEF BlockPurge, appendLifecycleEvent, Selected, Ready
  <2> QED  BY <1>7, <2>1 DEF TombstoneSealsChain, TypeOK, LockInv, BlockPurge
<1>8. ASSUME purge_record_for_retention PROVE TombstoneSealsChain'
  <2>1. purging \in Records
    BY <1>8 DEF LockInv, TypeOK, purge_record_for_retention
  <2>2. CASE purgeBlockers(purging)
    BY <1>8, <2>2 DEF purge_record_for_retention, TombstoneSealsChain
  <2>3. CASE ~purgeBlockers(purging)
    <3>1. /\ head' = [head EXCEPT ![purging] = "record.purged"]
          /\ tombstone' = [tombstone EXCEPT ![purging] = head'[purging]]
          /\ life' = [life EXCEPT ![purging] = "purged"]
      BY <1>8, <2>3 DEF purge_record_for_retention, appendLifecycleEvent, SealedHead
    <3> QED  BY <2>1, <3>1 DEF TombstoneSealsChain, LockInv, TypeOK
  <2> QED  BY <2>2, <2>3
<1>9. CASE UNCHANGED <<life, head, tombstone>>
  BY <1>9 DEF TombstoneSealsChain
<1> QED
  BY <1>1, <1>2, <1>3, <1>4, <1>5, <1>6, <1>7, <1>8, <1>9
     DEF Next, RecordStep, OwnerStep, RequestStep, WorkerStep, TimeStep, vars, updatePolicy,
         BeginHold, RollBackHold, BeginDataRequest, createParticipantDataRequest,
         reviewDataRequest, expireOneParticipantDataRequest, prepareOne, BeginPurge,
         RetainNothing, Lapse, Fall, CloseReview, CloseDelivery, NextDay, AbortPoll

\* The policy a record was issued under decides its purge.
LEMMA PolicyStep ==
    LockInv /\ PolicyInv /\ [Next]_vars => PolicyInv'
<1> SUFFICES ASSUME LockInv, PolicyInv, [Next]_vars PROVE PolicyInv'
  OBVIOUS
<1> USE NoneAssumption
<1> USE DEF policyVars, recordVars, stateVars, requestVars, workerVars,
            PolicyInv
<1>1. ASSUME NEW r \in Records, NEW t \in Tenants, issueRequest(r, t) PROVE PolicyInv'
  BY <1>1
     DEF DeadlinesBound, PurgeIsDue, PurgeFollowsPolicy, TypeOK, LockInv, issueRequest,
         bindRecordLifecycle
<1>2. ASSUME NEW from \in Records, NEW r \in Records, reissue(from, r) PROVE PolicyInv'
  BY <1>2
     DEF DeadlinesBound, PurgeIsDue, PurgeFollowsPolicy, TypeOK, LockInv, reissue,
         bindRecordLifecycle
<1>3. ASSUME NEW r \in Records, anchorRecordLifecycle(r) PROVE PolicyInv'
  BY <1>3
     DEF DeadlinesBound, PurgeIsDue, PurgeFollowsPolicy, TypeOK, LockInv,
         anchorRecordLifecycle
<1>4. ASSUME ApplyHorizon PROVE PolicyInv'
  BY <1>4 DEF DeadlinesBound, PurgeIsDue, PurgeFollowsPolicy, TypeOK, LockInv, ApplyHorizon
<1>5. ASSUME BeginPurge PROVE PolicyInv'
  <2>1. PICK r \in Records : Selected(r, "delete") /\ purging' = r
    BY <1>5 DEF BeginPurge
  <2>2. Live(r) /\ "delete" \in due[r]
    BY <2>1 DEF Selected, Ready
  <2>3. "archive" \notin Ready(r)
    BY <2>1 DEF Selected, Rank
  <2>4. "archive" \in due[r] => "archive" \in applied[r]
    BY <2>2, <2>3 DEF Ready
  <2>5. UNCHANGED <<life, past, bound, deadline, due, applied>>
    BY <1>5 DEF BeginPurge
  <2> QED  BY <2>1, <2>2, <2>4, <2>5 DEF DeadlinesBound, PurgeIsDue, PurgeFollowsPolicy
<1>6. ASSUME purge_record_for_retention PROVE PolicyInv'
  <2>1. purging \in Records /\ Live(purging)
    BY <1>6 DEF LockInv, TypeOK, LockedIsLive, purge_record_for_retention
  <2>2. /\ purging' = None
        /\ UNCHANGED <<past, bound, deadline, due, applied>>
        /\ life' = life \/ life' = [life EXCEPT ![purging] = "purged"]
    BY <1>6 DEF purge_record_for_retention
  <2>3. DeadlinesBound'
    BY <2>1, <2>2 DEF DeadlinesBound, LockInv, TypeOK
  <2>4. PurgeFollowsPolicy'
    <3>1. /\ bound[purging]["delete"] # None
          /\ bound[purging]["archive"] # None => "archive" \in applied[purging]
      BY <2>1, DeadlineFacts DEF DeadlinesBound, PurgeIsDue, Horizons
    <3> QED  BY <2>1, <2>2, <3>1 DEF PurgeFollowsPolicy, LockInv, TypeOK
  <2> QED  BY <2>2, <2>3, <2>4 DEF PurgeIsDue
<1>7. ASSUME NEW r \in Records, Lapse(r) PROVE PolicyInv'
  BY <1>7 DEF DeadlinesBound, PurgeIsDue, PurgeFollowsPolicy, TypeOK, LockInv, Lapse
<1>8. ASSUME NEW r \in Records, NEW s \in Horizons, Fall(r, s) PROVE PolicyInv'
  <2>1. /\ Live(r) /\ past[r] /\ s \in Coming(r)
        /\ due' = [due EXCEPT ![r] = @ \union SameDay(r, s)]
        /\ UNCHANGED <<life, past, bound, deadline, applied, purging>>
    BY <1>8 DEF Fall
  <2>2. bound[r] \in Policies /\ deadline[r] = calculateRetentionDeadlines(bound[r])
    BY <2>1 DEF DeadlinesBound
  <2>3. due'[r] = due[r] \union SameDay(r, s) /\ \A q \in Records \ {r} : due'[q] = due[q]
    BY <2>1 DEF LockInv, TypeOK
  <2>4. ASSUME "delete" \in SameDay(r, s), "archive" \in Coming(r)
        PROVE  "archive" \in SameDay(r, s)
    <3>1. /\ deadline[r]["delete"] \in Nat /\ deadline[r]["archive"] \in Nat
          /\ deadline[r]["archive"] <= deadline[r]["delete"]
      BY <2>2, <2>4, DeadlineFacts DEF SameDay, Coming
    <3>2. deadline[r][s] = deadline[r]["delete"]
      BY <2>4 DEF SameDay
    <3>3. deadline[r][s] <= deadline[r]["archive"]
      BY <1>8, <2>4, <3>1, <3>2, NoneAssumption DEF Fall
    <3>4. deadline[r]["archive"] = deadline[r][s]
      BY <3>1, <3>2, <3>3
    <3> QED  BY <2>4, <3>4 DEF SameDay
  <2>5. "delete" \in due'[r] /\ "archive" \in DOMAIN deadline[r] => "archive" \in due'[r]
    BY <2>3, <2>4 DEF DeadlinesBound, SameDay, Coming
  <2>6. due'[r] \subseteq DOMAIN deadline[r]
    BY <2>3 DEF DeadlinesBound, SameDay, Coming
  <2>7. DeadlinesBound'
    BY <2>1, <2>3, <2>5, <2>6 DEF DeadlinesBound
  <2>8. PurgeIsDue'
    BY <2>1, <2>3 DEF PurgeIsDue, LockInv, TypeOK
  <2> QED  BY <2>1, <2>7, <2>8 DEF PurgeFollowsPolicy
<1>9. ASSUME AbortPoll PROVE PolicyInv'
  BY <1>9 DEF DeadlinesBound, PurgeIsDue, PurgeFollowsPolicy, TypeOK, LockInv, AbortPoll
<1>10. CASE UNCHANGED <<life, past, bound, deadline, due, applied, purging>>
  BY <1>10 DEF DeadlinesBound, PurgeIsDue, PurgeFollowsPolicy
<1> QED
  BY <1>1, <1>2, <1>3, <1>4, <1>5, <1>6, <1>7, <1>8, <1>9, <1>10
     DEF Next, RecordStep, OwnerStep, RequestStep, WorkerStep, TimeStep, vars, updatePolicy,
         BeginHold, CommitHold, RollBackHold, releaseHold, BeginDataRequest,
         createParticipantDataRequest, reviewDataRequest, expireOneParticipantDataRequest,
         prepareOne, BlockPurge, RetainNothing, CloseReview, CloseDelivery, NextDay

\* Reviews come before exports.
LEMMA ReviewStep ==
    LockInv /\ ReviewInv /\ [Next]_vars => ReviewInv'
<1> SUFFICES ASSUME LockInv, ReviewInv, [Next]_vars PROVE ReviewInv'
  OBVIOUS
<1> USE DEF policyVars, recordVars, stateVars, requestVars, workerVars,
            ReviewInv
<1>1. ASSUME NEW r \in Records, NEW t \in Tenants, issueRequest(r, t) PROVE ReviewInv'
  BY <1>1
     DEF ReviewsDone, ExportIsReviewed, TypeOK, LockInv, issueRequest, bindRecordLifecycle
<1>2. ASSUME NEW from \in Records, NEW r \in Records, reissue(from, r) PROVE ReviewInv'
  BY <1>2 DEF ReviewsDone, ExportIsReviewed, TypeOK, LockInv, reissue, bindRecordLifecycle
<1>3. ASSUME NEW r \in Records, anchorRecordLifecycle(r) PROVE ReviewInv'
  BY <1>3 DEF ReviewsDone, ExportIsReviewed, TypeOK, LockInv, anchorRecordLifecycle
<1>4. ASSUME NEW d \in DataRequests, BeginDataRequest(d) PROVE ReviewInv'
  BY <1>4 DEF ReviewsDone, ExportIsReviewed, TypeOK, LockInv, BeginDataRequest
<1>5. ASSUME NEW d \in DataRequests, createParticipantDataRequest(d) PROVE ReviewInv'
  BY <1>5 DEF ReviewsDone, ExportIsReviewed, TypeOK, LockInv, createParticipantDataRequest
<1>6. ASSUME NEW d \in DataRequests, NEW t \in Tenants, NEW v \in {"approved", "denied"},
              reviewDataRequest(d, t, v)
       PROVE  ReviewInv'
  <2>1. /\ scope[d][t] = "pending_review"
        /\ scope' = [scope EXCEPT ![d] = [@ EXCEPT ![t] = v]]
        /\ status' = [status EXCEPT ![d] = RequestStatus(scope'[d])]
        /\ UNCHANGED <<life, tenant, matched, export, chunks>>
    BY <1>6 DEF reviewDataRequest
  <2>2. chunks[d] = "none"
    BY <2>1 DEF ExportIsReviewed
  <2>3. /\ status'[d] = RequestStatus(scope'[d])
        /\ \A e \in DataRequests \ {d} : status'[e] = status[e] /\ scope'[e] = scope[e]
    BY <2>1 DEF LockInv, TypeOK
  <2>4. status'[d] # "pending_review" => \A u \in Tenants : scope'[d][u] # "pending_review"
    BY <2>3, DecidedStatus
  <2>5. ReviewsDone'
    BY <2>1, <2>2, <2>3, <2>4 DEF ReviewsDone
  <2>6. ExportIsReviewed'
    BY <2>1, <2>2, <2>3 DEF ExportIsReviewed
  <2> QED  BY <2>5, <2>6
<1>7. ASSUME expireOneParticipantDataRequest PROVE ReviewInv'
  <2>1. UNCHANGED <<life, tenant, matched, scope, export>>
    BY <1>7 DEF expireOneParticipantDataRequest
  <2>2. CASE UNCHANGED <<status, chunks>>
    BY <2>1, <2>2 DEF ReviewsDone, ExportIsReviewed
  <2>3. ASSUME NEW d \in DataRequests,
               status' = [status EXCEPT ![d] = "expired"],
               chunks' = [chunks EXCEPT ![d] = IF @ = "none" THEN @ ELSE "deleted"]
        PROVE  ReviewInv'
    <3>1. /\ status'[d] = "expired" /\ (chunks'[d] # "none" => chunks[d] # "none")
          /\ \A e \in DataRequests \ {d} : status'[e] = status[e] /\ chunks'[e] = chunks[e]
      BY <2>3 DEF LockInv, TypeOK
    <3> QED  BY <2>1, <3>1 DEF ReviewsDone, ExportIsReviewed
  <2> QED  BY <1>7, <2>2, <2>3 DEF expireOneParticipantDataRequest
<1>8. ASSUME prepareOne PROVE ReviewInv'
  <2>1. UNCHANGED <<life, tenant, matched, scope>>
    BY <1>8 DEF prepareOne
  <2>2. CASE UNCHANGED <<status, export, chunks>>
    BY <2>1, <2>2 DEF ReviewsDone, ExportIsReviewed
  <2>3. ASSUME NEW d \in DataRequests, Preparable(d), UNCHANGED <<export, chunks>>,
               status' = [status EXCEPT ![d] = "preparation_failed"]
        PROVE  ReviewInv'
    BY <2>1, <2>3 DEF ReviewsDone, ExportIsReviewed, Preparable, LockInv, TypeOK
  <2>4. ASSUME NEW d \in DataRequests, Preparable(d),
               status' = [status EXCEPT ![d] = "ready"],
               export' = [export EXCEPT ![d] = buildParticipantDataExport(d)],
               chunks' = [chunks EXCEPT ![d] = "stored"]
        PROVE  ReviewInv'
    <3>1. \A u \in Tenants : scope[d][u] # "pending_review"
      BY <2>4 DEF Preparable, ReviewsDone
    <3>2. ReviewsDone'
      BY <2>1, <2>4 DEF ReviewsDone, LockInv, TypeOK
    <3>3. ExportIsReviewed'
      BY <2>1, <2>4, <3>1 DEF ExportIsReviewed, buildParticipantDataExport, LockInv, TypeOK
    <3> QED  BY <3>2, <3>3
  <2> QED  BY <1>8, <2>2, <2>3, <2>4 DEF prepareOne
<1>9. ASSUME purge_record_for_retention PROVE ReviewInv'
  BY <1>9
     DEF ReviewsDone, ExportIsReviewed, TypeOK, LockInv, purge_record_for_retention,
         purgeBlockers, activeHold
<1>10. CASE UNCHANGED <<life, tenant, status, matched, scope, export, chunks>>
  BY <1>10 DEF ReviewsDone, ExportIsReviewed
<1> QED
  BY <1>1, <1>2, <1>3, <1>4, <1>5, <1>6, <1>7, <1>8, <1>9, <1>10
     DEF Next, RecordStep, OwnerStep, RequestStep, WorkerStep, TimeStep, vars, updatePolicy,
         BeginHold, CommitHold, RollBackHold, releaseHold, ApplyHorizon, BlockPurge,
         BeginPurge, RetainNothing, Lapse, Fall, CloseReview, CloseDelivery, NextDay,
         AbortPoll

-----------------------------------------------------------------------------
(* The theorems *)

\* The invariant holds of a new installation.
LEMMA InitInv == Init => IInv
<1> SUFFICES ASSUME Init PROVE IInv
  OBVIOUS
<1>1. TypeOK
  BY PoliciesAssumption, NoneAssumption DEF Init, TypeOK, Active, Events
<1>2. LockExcludes /\ LockedIsLive /\ LiveHasRow
  BY NoneAssumption DEF Init, LockExcludes, LockedIsLive, LiveHasRow
<1>3. TombstoneSealsChain /\ ReissueSourceKept
  BY DEF Init, TombstoneSealsChain, ReissueSourceKept
<1>4. DeadlinesBound /\ PurgeIsDue /\ PurgeFollowsPolicy
  BY NoneAssumption DEF Init, DeadlinesBound, PurgeIsDue, PurgeFollowsPolicy
<1>5. ReviewsDone /\ ExportIsReviewed
  BY DEF Init, ReviewsDone, ExportIsReviewed
<1> QED  BY <1>1, <1>2, <1>3, <1>4, <1>5 DEF IInv, LockInv, RowInv, PolicyInv, ReviewInv

\* IInv is inductive.
LEMMA Invariance == Spec => []IInv
<1>1. IInv /\ [Next]_vars => IInv'
  BY TypeStep, LockStep, RowStep, SealStep, PolicyStep, ReviewStep DEF IInv, LockInv
<1> QED  BY InitInv, <1>1, PTL DEF Spec

\* The rows of records, holds and data requests, and the poll, keep their types.
THEOREM TypeCorrect == Spec => []TypeOK
<1>1. IInv => TypeOK
  BY DEF IInv, LockInv
<1> QED  BY Invariance, <1>1, PTL

\* No order of placing a hold and purging purges a record under an active hold.
THEOREM HeldIsKept == Spec => []HoldBlocksPurge
<1>1. IInv => HoldBlocksPurge
  BY DEF IInv, LockInv, LockedIsLive, HoldBlocksPurge
<1> QED  BY Invariance, <1>1, PTL

\* The tombstone of every purged record seals the end of its lifecycle chain.
THEOREM PurgedIsSealed == Spec => []TombstoneSealsChain
<1>1. IInv => TombstoneSealsChain
  BY DEF IInv
<1> QED  BY Invariance, <1>1, PTL

\* reissuedFromRequestId never dangles, in whatever order records are purged.
THEOREM SourceIsKept == Spec => []ReissueSourceKept
<1>1. IInv => ReissueSourceKept
  BY DEF IInv, RowInv
<1> QED  BY Invariance, <1>1, PTL

\* A record is purged only under the policy it was issued with, and archived first.
THEOREM PolicyIsFollowed == Spec => []PurgeFollowsPolicy
<1>1. IInv => PurgeFollowsPolicy
  BY DEF IInv, PolicyInv
<1> QED  BY Invariance, <1>1, PTL

\* An export holds exactly what every organization has decided to release.
THEOREM ExportsAreReviewed == Spec => []ExportIsReviewed
<1>1. IInv => ExportIsReviewed
  BY DEF IInv, ReviewInv
<1> QED  BY Invariance, <1>1, PTL
=============================================================================

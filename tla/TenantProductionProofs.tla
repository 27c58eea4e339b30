----------------------- MODULE TenantProductionProofs -----------------------
(***************************************************************************)
(* A production stop leaves nothing open, requests are opened only under   *)
(* admission and within the quota, and a closed request stays closed, for  *)
(* any number of connections, requests, gates, commands and limits; and    *)
(* transactions wait for one another in a cycle only where handlers take   *)
(* two rows in opposite orders.                                            *)
(*                                                                         *)
(* The argument is the usual one for two-phase locking: what a transaction *)
(* has looked at stays true while it holds the lock it looked under.       *)
(***************************************************************************)
EXTENDS TenantProduction, FiniteSetTheorems, TLAPS

Issues(x) == x.kind \in {"issue", "reissue"}
Decides(x) == x.kind \in {"stop", "decide"}
Closes(x) ==
  \/ /\ x.kind \in {"reissue", "revoke"}
     /\ x.at \in {"assignment", "profile", "count", "commit"}
  \/ x.kind = "respond" /\ x.at = "commit"

\* A handler is at one of its own stages and knows what that stage needs.
OnRoute(x) ==
  /\ x.at = None => x.kind = None
  /\ x.at = "command" => x.kind = "stop"
  /\ x.at = "admission" => x.kind \in {"issue", "reissue", "stop", "decide", "deliver"}
  /\ x.at = "request" => x.kind \in {"reissue", "respond", "revoke", "deliver"}
  /\ x.at = "assignment" => x.kind \in {"reissue", "respond", "revoke"}
  /\ x.at \in {"rows", "assignments"} => x.kind = "stop"
  /\ x.at = "profile" => x.kind \in {"issue", "reissue", "configure"}
  /\ x.at = "count" => Issues(x)
  /\ x.at = "commit" => x.kind \in HandlerKinds
  /\ Issues(x) => x.new \in Requests
  /\ x.kind = "issue" => x.request = None
  /\ x.kind \in {"reissue", "respond", "revoke", "deliver"} => x.request \in Requests
  /\ x.kind = "stop" => x.command \in StopCommands
  /\ Decides(x) => x.gate \in AdmissionGates
  /\ x.kind = "configure" => x.limit \in Limits
  /\ x.at \notin {"rows", "assignments", "commit"} => x.revoke = {}

\* Two transactions hold locks on one row only to read it.
LocksExclude ==
  \A l, m \in locks :
    l.txn # m.txn /\ l.resource = m.resource => l.mode = "share" /\ m.mode = "share"

Holds(t, resource, mode) == Lock(t, resource, mode) \in locks

\* Who issues saw the tenant admitted and still holds the pointer.
AdmissionChecked(t) ==
  Issues(txn[t]) /\ txn[t].at \in {"request", "assignment", "profile", "count", "commit"}
    => Holds(t, Pointer("admission"), "share") /\ Admitted

\* Who changes the admission saw the expected revision and holds the pointer.
RevisionChecked(t) ==
  Decides(txn[t]) /\ txn[t].at \in {"rows", "assignments", "commit"}
    => Holds(t, Pointer("admission"), "update") /\ tenantAdmission.revision = txn[t].expected

\* Who counts the open requests or changes the quota holds the profile.
ProfileHeld(t) ==
  (Issues(txn[t]) /\ txn[t].at \in {"count", "commit"})
  \/ (txn[t].kind = "configure" /\ txn[t].at = "commit")
    => Holds(t, Pointer("profile"), "update")

\* Who closes a request holds its row and, with both rows locked, saw it open.
RequestHeld(t) ==
  Closes(txn[t])
    => /\ Holds(t, RowOf(txn[t].request), "update")
       /\ txn[t].at # "assignment" => status[txn[t].request] = "open"

\* Every open request is one a stop has locked or is still to lock.
StopCovers(t) ==
  txn[t].kind = "stop" /\ txn[t].at \in {"rows", "assignments", "commit"}
    => /\ OpenRequests \subseteq txn[t].rows \cup txn[t].revoke
       /\ txn[t].at = "commit" => txn[t].rows = {}
       /\ txn[t].at = "assignments" =>
            \A q \in txn[t].rows : First(txn[t].rows, q) => Holds(t, RowOf(q), "update")
       /\ \A q \in txn[t].revoke : Holds(t, RowOf(q), "update") /\ status[q] = "open"

\* The request being issued does not exist yet and is nobody else's.
NewIsFresh(t) ==
  Issues(txn[t]) => /\ status[txn[t].new] = "none"
                    /\ \A u \in Txns : Issues(txn[u]) /\ txn[u].new = txn[t].new => u = t

\* The quota still has room for the request that is about to be opened.
RoomLeft(t) ==
  Issues(txn[t]) /\ txn[t].at = "commit"
    => Cardinality(OpenRequests \ {txn[t].request}) + 1 <= limit

OfTransaction(t) ==
  /\ OnRoute(txn[t])
  /\ AdmissionChecked(t)
  /\ RevisionChecked(t)
  /\ ProfileHeld(t)
  /\ RequestHeld(t)
  /\ StopCovers(t)
  /\ RoomLeft(t)

Inv ==
  /\ ProductionTypeOK
  /\ LocksExclude
  /\ \A t \in Txns : OfTransaction(t) /\ NewIsFresh(t)
  /\ StopLeavesNothingOpen

USE DEF Issues, Decides, Closes

-----------------------------------------------------------------------------
(* Locks and routes *)

\* Different names and different requests are different resources.
LEMMA ResourcesDiffer ==
    /\ Pointer("admission") # Pointer("profile")
    /\ \A p, q : RowOf(p) = RowOf(q) => p = q
  BY DEF Pointer, RowOf

\* Requests of one transaction only ever add its own locks.
LEMMA RequestedType ==
    ASSUME NEW t \in Txns
    PROVE  Requested(t) \subseteq AllLocks /\ \A l \in Requested(t) : l.txn = t
  BY DEF Requested, Asks

\* A lock that is granted excludes every lock it conflicts with.
LEMMA TakeFacts ==
    ASSUME ProductionTypeOK, LocksExclude, NEW t \in Txns, Take(t)
    PROVE  /\ locks' \subseteq AllLocks
           /\ LocksExclude'
           /\ locks \subseteq locks'
           /\ Requested(t) \subseteq locks'
<1>1. locks' = locks \cup Requested(t) /\ locks \subseteq AllLocks
  BY DEF Take, ProductionTypeOK
<1>2. ASSUME NEW l \in locks, NEW n \in Requested(t), l.txn # t, l.resource = n.resource
      PROVE  l.mode = "share" /\ n.mode = "share"
  <2>1. l \in AllLocks /\ n \in AllLocks
    BY <1>1, RequestedType
  <2>2. l.txn \in Txns /\ l.mode \in {"share", "update"} /\ n.mode \in {"share", "update"}
    BY <2>1 DEF AllLocks
  <2>3. ~Waits(t, l.txn)
    BY <2>2 DEF Take, Granted
  <2>4. ~Conflict(l, n)
    BY <2>3, <1>2 DEF Waits
  <2> QED  BY <2>4, <2>2, <1>2 DEF Conflict
<1>3. LocksExclude'
  BY <1>1, <1>2, RequestedType DEF LocksExclude
<1> QED  BY <1>1, <1>3, RequestedType

\* A connection with no transaction has a row of the type.
LEMMA IdleType == NoTransaction \in Transactions
  BY ProductionAssumption DEF NoTransaction, Transactions

\* The end of a transaction frees its locks and nobody else's.
LEMMA EndFacts ==
    ASSUME ProductionTypeOK, LocksExclude, NEW t \in Txns, End(t)
    PROVE  /\ locks' \subseteq AllLocks
           /\ LocksExclude'
           /\ \A u \in Txns \ {t} :
                \A r, m : Lock(u, r, m) \in locks => Lock(u, r, m) \in locks'
           /\ txn'[t] = NoTransaction
           /\ \A u \in Txns \ {t} : txn'[u] = txn[u]
           /\ txn' \in [Txns -> Transactions]
  BY IdleType DEF End, ProductionTypeOK, LocksExclude, Lock

\* Going on changes nothing but the stage of one connection.
LEMMA GoOnFacts ==
    ASSUME ProductionTypeOK, NEW t \in Txns, NEW x \in Transactions, GoOn(t, x)
    PROVE  /\ txn' \in [Txns -> Transactions]
           /\ \A u \in Txns \ {t} : txn'[u] = txn[u]
           /\ \E next \in Stages :
                Follows(x.kind, x.at, next) /\ txn'[t] = [x EXCEPT !.at = next]
<1>1. PICK next \in Stages : /\ Follows(x.kind, x.at, next)
                             /\ txn' = [txn EXCEPT ![t] = [x EXCEPT !.at = next]]
  BY DEF GoOn
<1>2. [x EXCEPT !.at = next] \in Transactions
  BY DEF Transactions
<1> QED  BY <1>1, <1>2 DEF ProductionTypeOK

\* The next stage is one of the handler's own.
LEMMA RouteKept ==
    ASSUME NEW x \in Transactions, OnRoute(x), NEW next \in Stages,
           Follows(x.kind, x.at, next)
    PROVE  OnRoute([x EXCEPT !.at = next])
<1>1. [x EXCEPT !.at = next].kind = x.kind /\ [x EXCEPT !.at = next].at = next
  BY DEF Transactions
<1>2. [x EXCEPT !.at = next].new = x.new /\ [x EXCEPT !.at = next].request = x.request
  BY DEF Transactions
<1>3. /\ [x EXCEPT !.at = next].command = x.command /\ [x EXCEPT !.at = next].gate = x.gate
      /\ [x EXCEPT !.at = next].limit = x.limit /\ [x EXCEPT !.at = next].revoke = x.revoke
  BY DEF Transactions
<1>4. /\ next = "command" => x.kind = "stop"
      /\ next = "admission" => x.kind \in {"issue", "reissue", "stop", "decide", "deliver"}
      /\ next = "request" => x.kind \in {"reissue", "respond", "revoke", "deliver"}
      /\ next = "assignment" => x.kind \in {"reissue", "respond", "revoke"}
      /\ next \in {"rows", "assignments"} => x.kind = "stop"
      /\ next = "profile" => x.kind \in {"issue", "reissue", "configure"}
      /\ next = "count" => Issues(x)
      /\ next = "commit" => x.kind \in HandlerKinds
      /\ next \notin {"rows", "assignments", "commit"} =>
           x.at \notin {"rows", "assignments", "commit"}
  BY DEF Follows, ReissueRoute, HandlerKinds
<1>5. next # None
  BY NoneAssumption
<1> QED  BY <1>1, <1>2, <1>3, <1>4, <1>5 DEF OnRoute

-----------------------------------------------------------------------------
(* Transactions beside the one that takes a step *)

\* Nothing a transaction relies on changes while its rows stay as they are.
LEMMA OthersKept ==
    ASSUME NEW u \in Txns, OfTransaction(u), txn'[u] = txn[u],
           UNCHANGED <<tenantAdmission, limit, status>>,
           \A r, m : Lock(u, r, m) \in locks => Lock(u, r, m) \in locks'
    PROVE  OfTransaction(u)'
<1>1. OpenRequests' = OpenRequests /\ (Admitted' <=> Admitted)
  BY DEF OpenRequests, Admitted
<1>2. OnRoute(txn[u])'
  BY DEF OfTransaction, OnRoute
<1>3. AdmissionChecked(u)' /\ RevisionChecked(u)' /\ ProfileHeld(u)'
  BY <1>1 DEF OfTransaction, AdmissionChecked, RevisionChecked, ProfileHeld, Holds
<1>4. RequestHeld(u)'
  BY DEF OfTransaction, RequestHeld, Holds
<1>5. StopCovers(u)'
  BY <1>1 DEF OfTransaction, StopCovers, Holds
<1>6. RoomLeft(u)'
  BY <1>1 DEF OfTransaction, RoomLeft
<1> QED  BY <1>2, <1>3, <1>4, <1>5, <1>6 DEF OfTransaction

\* A connection that is not in a transaction relies on nothing.
LEMMA IdleFine ==
    ASSUME NEW t \in Txns, txn'[t] = NoTransaction
    PROVE  OfTransaction(t)' /\ NewIsFresh(t)'
<1>1. NoTransaction.kind = None /\ NoTransaction.at = None /\ NoTransaction.revoke = {}
  BY DEF NoTransaction
<1>2. None \notin HandlerKinds /\ None \notin Stages
  BY NoneAssumption
<1>3. OnRoute(txn[t])'
  BY <1>1, <1>2 DEF OnRoute, HandlerKinds, Stages
<1> QED
  BY <1>1, <1>2, <1>3 DEF OfTransaction, AdmissionChecked, RevisionChecked, ProfileHeld,
       RequestHeld, StopCovers, RoomLeft, NewIsFresh, HandlerKinds, Stages

\* Requests that are being issued stay fresh while no request changes and no
\* connection starts to issue.
LEMMA FreshKept ==
    ASSUME NEW t \in Txns, \A u \in Txns : NewIsFresh(u),
           status' = status,
           \A u \in Txns \ {t} : txn'[u] = txn[u],
           Issues(txn[t])' => Issues(txn[t]) /\ txn'[t].new = txn[t].new
    PROVE  \A u \in Txns : NewIsFresh(u)'
  BY DEF NewIsFresh

-----------------------------------------------------------------------------
(* Steps that only lock and look *)

\* A step that writes no table and only adds locks keeps the invariant, if the
\* transaction that takes it knows what its new stage needs.
LEMMA StageStep ==
    ASSUME Inv, NEW t \in Txns, Unwritten,
           locks \subseteq locks', locks' \subseteq AllLocks, LocksExclude',
           txn' \in [Txns -> Transactions], \A u \in Txns \ {t} : txn'[u] = txn[u],
           txn'[t].kind = txn[t].kind, txn'[t].new = txn[t].new,
           OfTransaction(t)'
    PROVE  Inv'
<1>1. ProductionTypeOK'
  BY DEF Inv, ProductionTypeOK, Unwritten
<1>2. \A u \in Txns : NewIsFresh(u)'
  BY FreshKept DEF Inv, Unwritten
<1>3. ASSUME NEW u \in Txns, u # t
      PROVE  OfTransaction(u)'
  BY <1>3, OthersKept DEF Inv, Unwritten
<1>4. StopLeavesNothingOpen'
  BY DEF Inv, Unwritten, StopLeavesNothingOpen, OpenRequests, Admitted
<1> QED  BY <1>1, <1>2, <1>3, <1>4 DEF Inv

\* Proceeding moves a transaction to the next stage of its kind and changes no
\* other field of it.
LEMMA ProceedFacts ==
    ASSUME Inv, NEW t \in Txns, Proceed(t)
    PROVE  /\ txn' \in [Txns -> Transactions]
           /\ \A u \in Txns \ {t} : txn'[u] = txn[u]
           /\ txn'[t].kind = txn[t].kind /\ txn'[t].new = txn[t].new
           /\ txn'[t].request = txn[t].request /\ txn'[t].expected = txn[t].expected
           /\ txn'[t].rows = txn[t].rows /\ txn'[t].revoke = txn[t].revoke
           /\ Follows(txn[t].kind, txn[t].at, txn'[t].at)
           /\ OnRoute(txn[t])'
<1>1. txn[t] \in Transactions /\ OnRoute(txn[t])
  BY DEF Inv, ProductionTypeOK, OfTransaction
<1>2. PICK next \in Stages : /\ Follows(txn[t].kind, txn[t].at, next)
                             /\ txn'[t] = [txn[t] EXCEPT !.at = next]
  BY <1>1, GoOnFacts DEF Inv, Proceed
<1>3. OnRoute(txn[t])'
  BY <1>1, <1>2, RouteKept
<1>4. txn' \in [Txns -> Transactions] /\ \A u \in Txns \ {t} : txn'[u] = txn[u]
  BY <1>1, GoOnFacts DEF Inv, Proceed
<1> QED  BY <1>1, <1>2, <1>3, <1>4 DEF Transactions

\* Locking the command row of a stop keeps the invariant.
LEMMA LockCommandStep ==
    ASSUME Inv, NEW t \in Txns, LockCommand(t)
    PROVE  Inv'
<1>1. Proceed(t) /\ Take(t) /\ Unwritten /\ txn[t].at = "command"
  BY DEF LockCommand
<1>2. txn'[t].kind = "stop" /\ txn'[t].at = "admission"
  BY <1>1, ProceedFacts DEF Follows, Inv, OfTransaction, OnRoute
<1>3. OfTransaction(t)'
  BY <1>1, <1>2, ProceedFacts DEF OfTransaction, AdmissionChecked, RevisionChecked, ProfileHeld,
       RequestHeld, StopCovers, RoomLeft
<1> QED  BY <1>1, <1>3, ProceedFacts, TakeFacts, StageStep DEF Inv

\* Locking the admission pointer and reading the gates, the revision and, for a stop,
\* the open requests keeps the invariant.
LEMMA LockAdmissionStep ==
    ASSUME Inv, NEW t \in Txns, LockAdmission(t)
    PROVE  Inv'
<1> DEFINE x == txn[t]
           y == [x EXCEPT !.rows = IF x.kind = "stop" THEN OpenRequests ELSE {}]
<1>1. Take(t) /\ Unwritten /\ x.at = "admission" /\ GoOn(t, y)
  BY DEF LockAdmission
<1>2. IF Decides(x) THEN tenantAdmission.revision = x.expected ELSE Admitted
  BY DEF LockAdmission
<1>3. x \in Transactions /\ OnRoute(x)
  BY DEF Inv, ProductionTypeOK, OfTransaction
<1>4. /\ y \in Transactions /\ OnRoute(y)
      /\ y.kind = x.kind /\ y.at = x.at /\ y.new = x.new /\ y.expected = x.expected
      /\ y.revoke = x.revoke
      /\ x.kind = "stop" => y.rows = OpenRequests
  <2>1. OpenRequests \subseteq Requests
    BY DEF OpenRequests
  <2>2. y \in Transactions
    BY <1>3, <2>1 DEF Transactions
  <2>3. /\ y.kind = x.kind /\ y.at = x.at /\ y.new = x.new /\ y.expected = x.expected
        /\ y.revoke = x.revoke /\ y.request = x.request /\ y.command = x.command
        /\ y.gate = x.gate /\ y.limit = x.limit
        /\ x.kind = "stop" => y.rows = OpenRequests
    BY <1>3 DEF Transactions
  <2> HIDE DEF y
  <2> QED  BY <1>3, <2>2, <2>3 DEF OnRoute
<1> HIDE DEF y
<1>5. PICK next \in Stages : Follows(y.kind, y.at, next) /\ txn'[t] = [y EXCEPT !.at = next]
  BY <1>1, <1>4, GoOnFacts DEF Inv
<1>6. /\ txn' \in [Txns -> Transactions]
      /\ \A u \in Txns \ {t} : txn'[u] = txn[u]
  BY <1>1, <1>4, GoOnFacts DEF Inv
<1>7. OnRoute(txn[t])'
  BY <1>4, <1>5, RouteKept
<1>8. /\ txn'[t].kind = x.kind /\ txn'[t].at = next /\ txn'[t].new = x.new
      /\ txn'[t].expected = x.expected /\ txn'[t].revoke = {}
      /\ x.kind = "stop" => txn'[t].rows = OpenRequests
  BY <1>1, <1>3, <1>4, <1>5 DEF Transactions, OnRoute
<1>9. Lock(t, Pointer("admission"), AdmissionMode(x.kind)) \in locks'
  <2>1. Lock(t, Pointer("admission"), AdmissionMode(x.kind)) \in AllLocks
    BY DEF Lock, AllLocks, Resources, AdmissionMode
  <2>2. Asks(t, Lock(t, Pointer("admission"), AdmissionMode(x.kind)))
    BY <1>1 DEF Asks, Lock
  <2> QED  BY <1>1, <2>1, <2>2, TakeFacts DEF Inv, Requested
<1>10. /\ x.kind = "issue" => next = "profile"
       /\ x.kind = "reissue" => next = "request"
       /\ x.kind = "stop" => next = "rows"
       /\ x.kind \in {"decide", "deliver"} => next = "commit"
       /\ x.kind \in {"issue", "reissue", "stop", "decide", "deliver"}
  BY <1>1, <1>4, <1>5 DEF Follows, ReissueRoute
<1>11. AdmissionChecked(t)' /\ RevisionChecked(t)'
  BY <1>1, <1>2, <1>8, <1>9, <1>10
     DEF AdmissionChecked, RevisionChecked, Holds, AdmissionMode, Admitted, Unwritten
<1>12. ProfileHeld(t)' /\ RequestHeld(t)' /\ RoomLeft(t)'
  BY <1>8, <1>10 DEF ProfileHeld, RequestHeld, RoomLeft
<1>13. StopCovers(t)'
  BY <1>1, <1>8, <1>10 DEF StopCovers, OpenRequests, Unwritten
<1> QED
  BY <1>1, <1>6, <1>7, <1>8, <1>11, <1>12, <1>13, TakeFacts, StageStep DEF Inv, OfTransaction

\* A lock a transaction asks for is held after the step that takes it.
LEMMA RowTaken ==
    ASSUME Inv, NEW t \in Txns, Take(t), NEW q \in Requests,
           \/ txn[t].at = "request" /\ txn[t].request = q /\ txn[t].kind # "deliver"
           \/ txn[t].at = "rows" /\ First(txn[t].rows, q)
    PROVE  Lock(t, RowOf(q), "update") \in locks'
<1>1. Lock(t, RowOf(q), "update") \in AllLocks
  BY DEF Lock, AllLocks, Resources
<1>2. Asks(t, Lock(t, RowOf(q), "update"))
  BY DEF Asks, Lock, RequestMode, First
<1> QED  BY <1>1, <1>2, TakeFacts DEF Inv, Requested

\* Locking the row of a request or its assignment, and reading the status once both
\* are locked, keeps the invariant.
LEMMA LockRequestStep ==
    ASSUME Inv, NEW t \in Txns, LockRequest(t)
    PROVE  Inv'
<1> DEFINE x == txn[t]
<1>1. /\ Proceed(t) /\ Take(t) /\ Unwritten /\ x.at \in {"request", "assignment"}
      /\ x.at = LastLock(x.kind) => Allows(x.kind, status[x.request])
  BY DEF LockRequest
<1>2. OfTransaction(t) /\ OnRoute(x)
  BY DEF Inv, OfTransaction
<1>3. /\ x.kind \in {"reissue", "respond", "revoke", "deliver"} /\ x.request \in Requests
      /\ x.kind \in {"reissue", "revoke"} /\ x.at = "request" => txn'[t].at = "assignment"
      /\ x.kind = "reissue" /\ x.at = "assignment" => txn'[t].at = "profile"
      /\ x.kind = "revoke" /\ x.at = "assignment" => txn'[t].at = "commit"
      /\ x.kind = "respond" /\ x.at = "assignment" => txn'[t].at = "request"
      /\ x.kind = "respond" /\ x.at = "request" => txn'[t].at = "commit"
      /\ x.kind = "deliver" => txn'[t].at = "admission"
  BY <1>1, <1>2, ProceedFacts DEF Follows, ReissueRoute, OnRoute
<1>4. locks \subseteq locks'
  BY <1>1, TakeFacts DEF Inv
<1>5. AdmissionChecked(t)' /\ RevisionChecked(t)'
  BY <1>1, <1>2, <1>3, <1>4, ProceedFacts
     DEF OfTransaction, AdmissionChecked, RevisionChecked, Holds, Admitted, Unwritten
<1>6. ProfileHeld(t)' /\ StopCovers(t)' /\ RoomLeft(t)'
  BY <1>1, <1>3, ProceedFacts DEF ProfileHeld, StopCovers, RoomLeft
<1>7. RequestHeld(t)'
  <2>1. CASE x.kind = "deliver" \/ (x.kind = "respond" /\ x.at = "assignment")
    BY <1>1, <1>3, <2>1, ProceedFacts DEF RequestHeld
  <2>2. CASE x.kind \in {"reissue", "revoke"} /\ x.at = "request"
    <3>1. Lock(t, RowOf(x.request), "update") \in locks'
      BY <1>1, <1>3, <2>2, RowTaken
    <3> QED  BY <1>1, <1>3, <2>2, <3>1, ProceedFacts DEF RequestHeld, Holds
  <2>3. CASE x.kind \in {"reissue", "revoke"} /\ x.at = "assignment"
    <3>1. Lock(t, RowOf(x.request), "update") \in locks'
      BY <1>2, <1>4, <2>3 DEF OfTransaction, RequestHeld, Holds
    <3>2. status[x.request] = "open"
      BY <1>1, <2>3 DEF LastLock, Allows
    <3> QED  BY <1>1, <3>1, <3>2, ProceedFacts DEF RequestHeld, Holds, Unwritten
  <2>4. CASE x.kind = "respond" /\ x.at = "request"
    <3>1. Lock(t, RowOf(x.request), "update") \in locks' /\ status[x.request] = "open"
      BY <1>1, <1>3, <2>4, RowTaken DEF LastLock, Allows
    <3> QED  BY <1>1, <3>1, ProceedFacts DEF RequestHeld, Holds, Unwritten
  <2> QED  BY <1>1, <1>3, <2>1, <2>2, <2>3, <2>4
<1>8. OfTransaction(t)'
  BY <1>1, <1>5, <1>6, <1>7, ProceedFacts DEF OfTransaction
<1> QED  BY <1>1, <1>8, ProceedFacts, TakeFacts, StageStep DEF Inv

\* A stop that locks the row of the next open request keeps the invariant.
LEMMA LockNextRowStep ==
    ASSUME Inv, NEW t \in Txns, LockNextRow(t)
    PROVE  Inv'
<1> DEFINE x == txn[t]
           y == [x EXCEPT !.at = "assignments"]
<1>1. Take(t) /\ Unwritten /\ x.at = "rows" /\ txn' = [txn EXCEPT ![t] = y]
  BY DEF LockNextRow
<1>2. x \in Transactions /\ OfTransaction(t) /\ OnRoute(x)
  BY DEF Inv, ProductionTypeOK, OfTransaction
<1>3. /\ y \in Transactions /\ y.at = "assignments"
      /\ y.kind = x.kind /\ y.new = x.new /\ y.expected = x.expected
      /\ y.request = x.request /\ y.command = x.command /\ y.gate = x.gate /\ y.limit = x.limit
      /\ y.rows = x.rows /\ y.revoke = x.revoke
  BY <1>2 DEF Transactions, Stages
<1>4. txn'[t] = y /\ txn' \in [Txns -> Transactions] /\ \A u \in Txns \ {t} : txn'[u] = txn[u]
  BY <1>1, <1>3 DEF Inv, ProductionTypeOK
<1> HIDE DEF y
<1>5. x.kind = "stop"
  BY <1>1, <1>2 DEF OnRoute
<1>6. OnRoute(txn[t])'
  BY <1>2, <1>3, <1>4, <1>5, NoneAssumption DEF OnRoute, Stages
<1>7. locks \subseteq locks'
  BY <1>1, TakeFacts DEF Inv
<1>8. RevisionChecked(t)'
  BY <1>1, <1>2, <1>3, <1>4, <1>7 DEF OfTransaction, RevisionChecked, Holds, Unwritten
<1>9. AdmissionChecked(t)' /\ ProfileHeld(t)' /\ RequestHeld(t)' /\ RoomLeft(t)'
  BY <1>3, <1>4, <1>5 DEF AdmissionChecked, ProfileHeld, RequestHeld, RoomLeft
<1>10. StopCovers(t)'
  <2>1. \A q \in x.rows : First(x.rows, q) => Lock(t, RowOf(q), "update") \in locks'
    BY <1>1, <1>2, RowTaken DEF Transactions
  <2>2. /\ OpenRequests \subseteq x.rows \cup x.revoke
        /\ \A p \in x.revoke : Lock(t, RowOf(p), "update") \in locks' /\ status[p] = "open"
    BY <1>1, <1>2, <1>5, <1>7 DEF OfTransaction, StopCovers, Holds
  <2>3. OpenRequests' = OpenRequests /\ status' = status
    BY <1>1 DEF OpenRequests, Unwritten
  <2> QED  BY <1>3, <1>4, <2>1, <2>2, <2>3 DEF StopCovers, Holds
<1> QED
  BY <1>1, <1>3, <1>4, <1>6, <1>8, <1>9, <1>10, TakeFacts, StageStep DEF Inv, OfTransaction

\* A stop that locks the assignment of that request and marks the pair keeps the
\* invariant.
LEMMA LockNextAssignmentStep ==
    ASSUME Inv, NEW t \in Txns, LockNextAssignment(t)
    PROVE  Inv'
<1> DEFINE x == txn[t]
<1>1. Take(t) /\ Unwritten /\ x.at = "assignments"
  BY DEF LockNextAssignment
<1>2. PICK q \in x.rows :
        /\ First(x.rows, q)
        /\ txn' = [txn EXCEPT ![t] =
                    [x EXCEPT !.at = "rows", !.rows = @ \ {q},
                              !.revoke = IF status[q] = "open" THEN @ \cup {q} ELSE @]]
  BY DEF LockNextAssignment
<1> DEFINE y == [x EXCEPT !.at = "rows", !.rows = @ \ {q},
                          !.revoke = IF status[q] = "open" THEN @ \cup {q} ELSE @]
<1>3. x \in Transactions /\ OfTransaction(t) /\ OnRoute(x)
  BY DEF Inv, ProductionTypeOK, OfTransaction
<1>4. q \in Requests
  BY <1>3 DEF Transactions
<1>5. /\ y \in Transactions
      /\ y.kind = x.kind /\ y.at = "rows" /\ y.new = x.new /\ y.expected = x.expected
      /\ y.request = x.request /\ y.command = x.command /\ y.gate = x.gate /\ y.limit = x.limit
      /\ y.rows = x.rows \ {q}
      /\ y.revoke = IF status[q] = "open" THEN x.revoke \cup {q} ELSE x.revoke
  BY <1>3, <1>4 DEF Transactions, Stages
<1>6. txn'[t] = y /\ txn' \in [Txns -> Transactions] /\ \A u \in Txns \ {t} : txn'[u] = txn[u]
  BY <1>2, <1>5 DEF Inv, ProductionTypeOK
<1> HIDE DEF y
<1>7. OnRoute(txn[t])'
  BY <1>1, <1>3, <1>5, <1>6, NoneAssumption DEF OnRoute, Stages
<1>8. x.kind = "stop"
  BY <1>1, <1>3 DEF OnRoute
<1>9. locks \subseteq locks'
  BY <1>1, TakeFacts DEF Inv
<1>10. RevisionChecked(t)'
  BY <1>1, <1>3, <1>5, <1>6, <1>9 DEF OfTransaction, RevisionChecked, Holds, Unwritten
<1>11. AdmissionChecked(t)' /\ ProfileHeld(t)' /\ RequestHeld(t)' /\ RoomLeft(t)'
  BY <1>1, <1>5, <1>6, <1>8 DEF AdmissionChecked, ProfileHeld, RequestHeld, RoomLeft
<1>12. StopCovers(t)'
  <2>1. Lock(t, RowOf(q), "update") \in locks'
    BY <1>1, <1>2, <1>3, <1>8, <1>9 DEF OfTransaction, StopCovers, Holds
  <2>2. /\ OpenRequests \subseteq x.rows \cup x.revoke
        /\ \A p \in x.revoke : Lock(t, RowOf(p), "update") \in locks /\ status[p] = "open"
    BY <1>1, <1>3, <1>8 DEF OfTransaction, StopCovers, Holds
  <2>3. OpenRequests' = OpenRequests /\ status' = status
    BY <1>1 DEF OpenRequests, Unwritten
  <2>4. OpenRequests \subseteq y.rows \cup y.revoke
    BY <2>2, <1>5 DEF OpenRequests
  <2>5. \A p \in y.revoke : Lock(t, RowOf(p), "update") \in locks' /\ status[p] = "open"
    BY <2>1, <2>2, <1>5, <1>9
  <2>6. y.at \notin {"commit", "assignments"}
    BY <1>5
  <2> QED  BY <2>3, <2>4, <2>5, <2>6, <1>6 DEF StopCovers, Holds
<1> QED
  BY <1>1, <1>5, <1>6, <1>7, <1>10, <1>11, <1>12, TakeFacts, StageStep DEF Inv, OfTransaction

\* A stop that has locked every open request goes on to its commit.
LEMMA RowsLockedStep ==
    ASSUME Inv, NEW t \in Txns, RowsLocked(t)
    PROVE  Inv'
<1>1. Proceed(t) /\ Unwritten /\ locks' = locks /\ txn[t].at = "rows" /\ txn[t].rows = {}
  BY DEF RowsLocked
<1>2. OfTransaction(t) /\ txn[t].kind = "stop"
  BY <1>1 DEF Inv, OfTransaction, OnRoute
<1>3. txn'[t].at = "commit"
  BY <1>1, <1>2, ProceedFacts DEF Follows
<1>4. OpenRequests' = OpenRequests
  BY <1>1 DEF OpenRequests, Unwritten
<1>5. RevisionChecked(t)'
  BY <1>1, <1>2, ProceedFacts DEF OfTransaction, RevisionChecked, Holds, Unwritten
<1>6. StopCovers(t)'
  BY <1>1, <1>2, <1>4, ProceedFacts DEF OfTransaction, StopCovers, Holds, Unwritten
<1>7. AdmissionChecked(t)' /\ ProfileHeld(t)' /\ RequestHeld(t)' /\ RoomLeft(t)'
  BY <1>1, <1>2, ProceedFacts DEF AdmissionChecked, ProfileHeld, RequestHeld, RoomLeft
<1>8. locks' \subseteq AllLocks /\ LocksExclude'
  BY <1>1 DEF Inv, ProductionTypeOK, LocksExclude
<1> QED  BY <1>1, <1>5, <1>6, <1>7, <1>8, ProceedFacts, StageStep DEF OfTransaction

\* Locking the profile pointer keeps the invariant.
LEMMA LockProfileStep ==
    ASSUME Inv, NEW t \in Txns, LockProfile(t)
    PROVE  Inv'
<1> DEFINE x == txn[t]
<1>1. Proceed(t) /\ Take(t) /\ Unwritten /\ x.at = "profile"
  BY DEF LockProfile
<1>2. OfTransaction(t) /\ OnRoute(x)
  BY DEF Inv, OfTransaction
<1>3. /\ x.kind \in {"issue", "reissue", "configure"}
      /\ Issues(x) => txn'[t].at = "count"
      /\ x.kind = "configure" => txn'[t].at = "commit"
  BY <1>1, <1>2, ProceedFacts DEF Follows, ReissueRoute, OnRoute
<1>4. locks \subseteq locks'
  BY <1>1, TakeFacts DEF Inv
<1>5. Lock(t, Pointer("profile"), "update") \in locks'
  <2>1. Lock(t, Pointer("profile"), "update") \in AllLocks
    BY DEF Lock, AllLocks, Resources
  <2>2. Asks(t, Lock(t, Pointer("profile"), "update"))
    BY <1>1 DEF Asks, Lock, ProfileMode
  <2> QED  BY <1>1, <2>1, <2>2, TakeFacts DEF Inv, Requested
<1>6. AdmissionChecked(t)' /\ RevisionChecked(t)'
  BY <1>1, <1>2, <1>3, <1>4, ProceedFacts
     DEF OfTransaction, AdmissionChecked, RevisionChecked, Holds, Admitted, Unwritten
<1>7. RequestHeld(t)'
  BY <1>1, <1>2, <1>3, <1>4, ProceedFacts DEF OfTransaction, RequestHeld, Holds, Unwritten
<1>8. ProfileHeld(t)' /\ StopCovers(t)' /\ RoomLeft(t)'
  BY <1>1, <1>3, <1>5, ProceedFacts DEF ProfileHeld, StopCovers, RoomLeft, Holds
<1>9. OfTransaction(t)'
  BY <1>1, <1>6, <1>7, <1>8, ProceedFacts DEF OfTransaction
<1> QED  BY <1>1, <1>9, ProceedFacts, TakeFacts, StageStep DEF Inv

\* Counting the open requests against the limit, under the profile lock, keeps the
\* invariant.
LEMMA CountActiveStep ==
    ASSUME Inv, NEW t \in Txns, CountActive(t)
    PROVE  Inv'
<1> DEFINE x == txn[t]
<1>1. /\ Proceed(t) /\ Unwritten /\ locks' = locks /\ x.at = "count"
      /\ Cardinality(OpenRequests \ {x.request}) + 1 <= limit
  BY DEF CountActive
<1>2. OfTransaction(t) /\ Issues(x)
  BY <1>1 DEF Inv, OfTransaction, OnRoute
<1>3. txn'[t].at = "commit"
  BY <1>1, <1>2, ProceedFacts DEF Follows, ReissueRoute
<1>4. OpenRequests' = OpenRequests
  BY <1>1 DEF OpenRequests, Unwritten
<1>5. AdmissionChecked(t)' /\ RevisionChecked(t)' /\ ProfileHeld(t)'
  BY <1>1, <1>2, <1>3, ProceedFacts
     DEF OfTransaction, AdmissionChecked, RevisionChecked, ProfileHeld, Holds, Admitted, Unwritten
<1>6. RequestHeld(t)' /\ StopCovers(t)'
  BY <1>1, <1>2, <1>3, ProceedFacts DEF OfTransaction, RequestHeld, StopCovers, Holds, Unwritten
<1>7. RoomLeft(t)'
  BY <1>1, <1>2, <1>3, <1>4, ProceedFacts DEF RoomLeft, Unwritten
<1>8. locks' \subseteq AllLocks /\ LocksExclude'
  BY <1>1 DEF Inv, ProductionTypeOK, LocksExclude
<1> QED  BY <1>1, <1>5, <1>6, <1>7, <1>8, ProceedFacts, StageStep DEF OfTransaction

-----------------------------------------------------------------------------
(* Beginning and ending *)

\* A transaction that ends without a commit leaves everything as it was.
LEMMA EndStep ==
    ASSUME Inv, NEW t \in Txns, End(t), Unwritten
    PROVE  Inv'
<1>1. ProductionTypeOK'
  BY EndFacts DEF Inv, ProductionTypeOK, Unwritten
<1>2. txn'[t] = NoTransaction /\ \A u \in Txns \ {t} : txn'[u] = txn[u]
  BY EndFacts DEF Inv
<1>3. ~Issues(txn[t])'
  BY <1>2, NoneAssumption DEF NoTransaction, HandlerKinds
<1>4. \A u \in Txns : NewIsFresh(u)'
  BY <1>2, <1>3, FreshKept DEF Inv, Unwritten
<1>5. ASSUME NEW u \in Txns, u # t
      PROVE  OfTransaction(u)'
  BY <1>5, OthersKept, EndFacts DEF Inv, Unwritten
<1>6. StopLeavesNothingOpen'
  BY DEF Inv, Unwritten, StopLeavesNothingOpen, OpenRequests, Admitted
<1> QED  BY <1>1, <1>2, <1>4, <1>5, <1>6, EndFacts, IdleFine DEF Inv

\* A handler that begins has looked at nothing yet.
LEMMA BeginStep ==
    ASSUME Inv, NEW t \in Txns, NEW x \in Transactions, Begin(t, x),
           OnRoute([x EXCEPT !.at = "begin"]),
           Issues(x) => status[x.new] = "none" /\ \A u \in Txns : txn[u].new # x.new
    PROVE  Inv'
<1> DEFINE y == [x EXCEPT !.at = "begin"]
<1>1. /\ GoOn(t, y) /\ UNCHANGED <<tenantAdmission, limit, status, stops, halted, locks>>
      /\ begun < MaxTransactions /\ begun' = begun + 1
  BY DEF Begin
<1>2. y \in Transactions /\ y.kind = x.kind /\ y.at = "begin" /\ y.new = x.new
  BY DEF Transactions, Stages
<1> HIDE DEF y
<1>3. PICK next \in Stages : Follows(y.kind, y.at, next) /\ txn'[t] = [y EXCEPT !.at = next]
  BY <1>1, <1>2, GoOnFacts DEF Inv
<1>4. txn' \in [Txns -> Transactions] /\ \A u \in Txns \ {t} : txn'[u] = txn[u]
  BY <1>1, <1>2, GoOnFacts DEF Inv
<1>5. OnRoute(txn[t])'
  BY <1>2, <1>3, RouteKept DEF y
<1>6. txn'[t].kind = x.kind /\ txn'[t].at = next /\ txn'[t].new = x.new
  BY <1>2, <1>3 DEF Transactions
<1>7. /\ next \in {"command", "admission", "profile", "request", "assignment"}
      /\ next = "assignment" => x.kind = "respond"
      /\ x.kind = "revoke" => next = "request"
      /\ Issues(x) => next = "admission"
      /\ x.kind = "configure" => next = "profile"
      /\ x.kind = "reissue" => next = "admission"
  BY <1>2, <1>3 DEF Follows, ReissueRoute
<1>8. OfTransaction(t)'
  BY <1>5, <1>6, <1>7 DEF OfTransaction, AdmissionChecked, RevisionChecked, ProfileHeld,
       RequestHeld, StopCovers, RoomLeft
<1>9. ASSUME NEW u \in Txns, u # t
      PROVE  OfTransaction(u)'
  BY <1>1, <1>4, <1>9, OthersKept DEF Inv
<1>10. \A u \in Txns : NewIsFresh(u)'
  BY <1>1, <1>4, <1>6 DEF Inv, NewIsFresh
<1>11. ProductionTypeOK'
  BY <1>1, <1>4, ProductionAssumption DEF Inv, ProductionTypeOK
<1>12. StopLeavesNothingOpen' /\ LocksExclude'
  BY <1>1 DEF Inv, StopLeavesNothingOpen, OpenRequests, Admitted, LocksExclude
<1> QED  BY <1>8, <1>9, <1>10, <1>11, <1>12 DEF Inv

-----------------------------------------------------------------------------
(* Commits *)

\* A lock to change a row is held alone.
LEMMA HeldAlone ==
    ASSUME LocksExclude, NEW t, NEW u, NEW r, NEW m,
           Lock(t, r, "update") \in locks, Lock(u, r, m) \in locks
    PROVE  u = t
<1>1. Lock(t, r, "update").txn = t /\ Lock(u, r, m).txn = u
  BY DEF Lock
<1>2. Lock(t, r, "update").resource = r /\ Lock(u, r, m).resource = r
  BY DEF Lock
<1>3. Lock(t, r, "update").mode # "share"
  BY DEF Lock
<1> QED  BY <1>1, <1>2, <1>3 DEF LocksExclude

\* What a commit may write, seen from the other transactions: the pointers it
\* holds, requests it opens while it holds both pointers, and open requests it
\* closes while it holds their rows.
WritesUnderLocks(t) ==
  /\ tenantAdmission' = tenantAdmission \/ Holds(t, Pointer("admission"), "update")
  /\ limit' = limit \/ Holds(t, Pointer("profile"), "update")
  /\ \A q \in Requests :
       \/ status'[q] = status[q]
       \/ /\ status[q] = "none"
          /\ Holds(t, Pointer("admission"), "share")
          /\ Holds(t, Pointer("profile"), "update")
       \/ /\ status[q] = "open" /\ status'[q] # "open"
          /\ Holds(t, RowOf(q), "update")

\* A transaction that writes only under its own locks leaves what the others have
\* looked at as it was.
LEMMA OthersUndisturbed ==
    ASSUME Inv, NEW t \in Txns, End(t), WritesUnderLocks(t), NEW u \in Txns, u # t
    PROVE  OfTransaction(u)'
<1> DEFINE x == txn[u]
<1>1. /\ txn'[u] = x /\ \A r, m : Lock(u, r, m) \in locks => Lock(u, r, m) \in locks'
      /\ OfTransaction(u) /\ LocksExclude /\ x \in Transactions
  BY EndFacts DEF Inv, ProductionTypeOK
<1>2. \A r, m : Lock(u, r, "update") \in locks => Lock(t, r, m) \notin locks
  BY <1>1, HeldAlone
<1>3. \A r, m : Lock(u, r, m) \in locks => Lock(t, r, "update") \notin locks
  BY <1>1, HeldAlone
<1>4. OnRoute(txn[u])'
  BY <1>1 DEF OfTransaction, OnRoute
<1>5. AdmissionChecked(u)'
  BY <1>1, <1>3 DEF OfTransaction, AdmissionChecked, Holds, WritesUnderLocks, Admitted
<1>6. RevisionChecked(u)'
  BY <1>1, <1>2 DEF OfTransaction, RevisionChecked, Holds, WritesUnderLocks
<1>7. ProfileHeld(u)'
  BY <1>1 DEF OfTransaction, ProfileHeld, Holds
<1>8. \A q \in Requests : Lock(u, RowOf(q), "update") \in locks /\ status[q] = "open"
                            => status'[q] = "open"
  BY <1>2 DEF WritesUnderLocks, Holds
<1>9. RequestHeld(u)'
  <2>1. x.kind \in {"reissue", "respond", "revoke"} => x.request \in Requests
    BY <1>1 DEF OfTransaction, OnRoute
  <2> QED  BY <1>1, <1>8, <2>1 DEF OfTransaction, RequestHeld, Holds
<1>10. StopCovers(u)'
  <2>1. SUFFICES ASSUME x.kind = "stop", x.at \in {"rows", "assignments", "commit"}
                 PROVE  StopCovers(u)'
    BY <1>1 DEF StopCovers
  <2>2. Lock(u, Pointer("admission"), "update") \in locks
    BY <1>1, <2>1 DEF OfTransaction, RevisionChecked, Holds
  <2>3. OpenRequests' \subseteq OpenRequests
    BY <1>2, <2>2 DEF OpenRequests, WritesUnderLocks, Holds
  <2>4. x.revoke \subseteq Requests
    BY <1>1 DEF Transactions
  <2> QED  BY <1>1, <1>8, <2>1, <2>3, <2>4 DEF OfTransaction, StopCovers, Holds
<1>11. RoomLeft(u)'
  <2>1. SUFFICES ASSUME Issues(x), x.at = "commit"
                 PROVE  Cardinality(OpenRequests' \ {x.request}) + 1 <= limit'
    BY <1>1 DEF RoomLeft
  <2>2. Lock(u, Pointer("profile"), "update") \in locks
    BY <1>1, <2>1 DEF OfTransaction, ProfileHeld, Holds
  <2>3. limit' = limit /\ OpenRequests' \subseteq OpenRequests
    BY <1>2, <2>2 DEF OpenRequests, WritesUnderLocks, Holds
  <2>4. IsFiniteSet(OpenRequests \ {x.request})
    BY ProductionAssumption, FS_Subset DEF OpenRequests
  <2>5. OpenRequests' \ {x.request} \in SUBSET (OpenRequests \ {x.request})
    BY <2>3
  <2>6. /\ Cardinality(OpenRequests' \ {x.request}) <= Cardinality(OpenRequests \ {x.request})
        /\ IsFiniteSet(OpenRequests' \ {x.request})
    BY <2>4, <2>5, FS_Subset
  <2>7. /\ Cardinality(OpenRequests' \ {x.request}) \in Nat
        /\ Cardinality(OpenRequests \ {x.request}) \in Nat
    BY <2>4, <2>6, FS_CardinalityType
  <2>8. Cardinality(OpenRequests \ {x.request}) + 1 <= limit /\ limit \in Nat
    BY <1>1, <2>1, ProductionAssumption DEF OfTransaction, RoomLeft, Inv, ProductionTypeOK
  <2> QED  BY <2>3, <2>6, <2>7, <2>8
<1> QED  BY <1>4, <1>5, <1>6, <1>7, <1>9, <1>10, <1>11 DEF OfTransaction

\* Requests being issued stay fresh when a commit opens only its own.
LEMMA OthersFresh ==
    ASSUME Inv, NEW t \in Txns, End(t),
           \A q \in Requests : status[q] = "none" =>
             status'[q] = "none" \/ (Issues(txn[t]) /\ q = txn[t].new)
    PROVE  \A u \in Txns : NewIsFresh(u)'
<1>1. txn'[t] = NoTransaction /\ \A u \in Txns \ {t} : txn'[u] = txn[u]
  BY EndFacts DEF Inv
<1>2. ~Issues(txn[t])'
  BY <1>1, NoneAssumption DEF NoTransaction, HandlerKinds
<1>3. \A u \in Txns : Issues(txn[u]) => txn[u].new \in Requests
  BY DEF Inv, OfTransaction, OnRoute
<1> QED  BY <1>1, <1>2, <1>3 DEF Inv, NewIsFresh

\* A commit that writes under its locks, within the types, keeps the invariant.
LEMMA CommitStep ==
    ASSUME Inv, NEW t \in Txns, End(t), WritesUnderLocks(t), begun' = begun,
           \A q \in Requests : status[q] = "none" =>
             status'[q] = "none" \/ (Issues(txn[t]) /\ q = txn[t].new),
           tenantAdmission' \in [revision : 1 .. MaxRevision, approved : SUBSET AdmissionGates],
           limit' \in Limits,
           status' \in [Requests -> {"none", "open", "completed", "revoked"}],
           stops' \subseteq StopCommands, halted' \in BOOLEAN,
           StopLeavesNothingOpen'
    PROVE  Inv'
<1>1. ProductionTypeOK'
  BY EndFacts DEF Inv, ProductionTypeOK
<1>2. \A u \in Txns : NewIsFresh(u)'
  BY OthersFresh
<1>3. OfTransaction(t)'
  BY EndFacts, IdleFine DEF Inv
<1>4. \A u \in Txns : OfTransaction(u)'
  BY <1>3, OthersUndisturbed
<1> QED  BY <1>1, <1>2, <1>4, EndFacts DEF Inv

\* What a transaction that is about to commit an issue or a reissue knows.
LEMMA IssuerKnows ==
    ASSUME Inv, NEW t \in Txns, Issues(txn[t]), txn[t].at = "commit"
    PROVE  /\ Holds(t, Pointer("admission"), "share") /\ Admitted
           /\ Holds(t, Pointer("profile"), "update")
           /\ txn[t].new \in Requests /\ status[txn[t].new] = "none"
           /\ txn[t].request # None => /\ txn[t].request \in Requests
                                       /\ status[txn[t].request] = "open"
                                       /\ Holds(t, RowOf(txn[t].request), "update")
<1>1. OfTransaction(t) /\ NewIsFresh(t)
  BY DEF Inv
<1> QED
  BY <1>1 DEF OfTransaction, OnRoute, AdmissionChecked, ProfileHeld, RequestHeld, NewIsFresh

\* Committing an issue or a reissue keeps the invariant.
LEMMA CommitIssueStep ==
    ASSUME Inv, NEW t \in Txns, CommitIssue(t)
    PROVE  Inv'
<1> DEFINE x == txn[t]
<1>1. /\ Issues(x) /\ x.at = "commit" /\ End(t)
      /\ UNCHANGED <<tenantAdmission, limit, stops, halted, begun>>
      /\ status' = [q \in Requests |-> IF q = x.new THEN "open"
                                       ELSE IF q = x.request THEN "revoked" ELSE status[q]]
  BY DEF CommitIssue
<1>2. status \in [Requests -> {"none", "open", "completed", "revoked"}]
  BY DEF Inv, ProductionTypeOK
<1>3. WritesUnderLocks(t)
  BY <1>1, <1>2, IssuerKnows, NoneAssumption DEF WritesUnderLocks
<1>4. \A q \in Requests : status[q] = "none" => status'[q] = "none" \/ q = x.new
  BY <1>1, <1>2, IssuerKnows, NoneAssumption
<1>5. status' \in [Requests -> {"none", "open", "completed", "revoked"}]
  BY <1>1, <1>2
<1>6. StopLeavesNothingOpen'
  BY <1>1, IssuerKnows DEF Inv, StopLeavesNothingOpen
<1> QED  BY <1>1, <1>3, <1>4, <1>5, <1>6, CommitStep DEF Inv, ProductionTypeOK

\* Committing a stop keeps the invariant: every open request is among those it revokes.
LEMMA CommitStopStep ==
    ASSUME Inv, NEW t \in Txns, CommitStop(t)
    PROVE  Inv'
<1> DEFINE x == txn[t]
<1>1. /\ x.kind = "stop" /\ x.at = "commit" /\ End(t)
      /\ UNCHANGED <<limit, begun>> /\ halted' = TRUE /\ stops' = stops \cup {x.command}
      /\ tenantAdmission' = IF x.gate \in tenantAdmission.approved
                      THEN [revision |-> tenantAdmission.revision + 1,
                            approved |-> tenantAdmission.approved \ {x.gate}]
                      ELSE tenantAdmission
      /\ status' = [q \in Requests |-> IF q \in x.revoke THEN "revoked" ELSE status[q]]
  BY DEF CommitStop, Committing
<1>2. ProductionTypeOK /\ OfTransaction(t)
  BY DEF Inv
<1>3. /\ Holds(t, Pointer("admission"), "update") /\ tenantAdmission.revision = x.expected
      /\ x.expected \in 0 .. MaxRevision - 1 /\ x.gate \in AdmissionGates /\ x.command \in StopCommands
      /\ OpenRequests \subseteq x.revoke
      /\ \A q \in x.revoke : Holds(t, RowOf(q), "update") /\ status[q] = "open"
  BY <1>1, <1>2 DEF OfTransaction, OnRoute, RevisionChecked, StopCovers, ProductionTypeOK, Transactions
<1>4. status \in [Requests -> {"none", "open", "completed", "revoked"}]
      /\ tenantAdmission \in [revision : 1 .. MaxRevision, approved : SUBSET AdmissionGates]
  BY <1>2 DEF ProductionTypeOK
<1>5. WritesUnderLocks(t)
  BY <1>1, <1>3, <1>4 DEF WritesUnderLocks
<1>6. \A q \in Requests : status[q] = "none" => status'[q] = "none"
  BY <1>1, <1>3, <1>4
<1>7. status' \in [Requests -> {"none", "open", "completed", "revoked"}]
  BY <1>1, <1>4
<1>8. tenantAdmission' \in [revision : 1 .. MaxRevision, approved : SUBSET AdmissionGates]
  BY <1>1, <1>3, <1>4, ProductionAssumption
<1>9. OpenRequests' = {}
  BY <1>1, <1>3, <1>4 DEF OpenRequests
<1>10. ~Admitted'
  BY <1>1, <1>3, <1>4 DEF Admitted
<1>11. StopLeavesNothingOpen'
  BY <1>9, <1>10 DEF StopLeavesNothingOpen
<1> QED  BY <1>1, <1>2, <1>3, <1>5, <1>6, <1>7, <1>8, <1>11, CommitStep DEF ProductionTypeOK

\* Committing a gate decision keeps the invariant.
LEMMA CommitDecisionStep ==
    ASSUME Inv, NEW t \in Txns, CommitDecision(t)
    PROVE  Inv'
<1> DEFINE x == txn[t]
<1>1. /\ x.kind = "decide" /\ x.at = "commit" /\ End(t)
      /\ UNCHANGED <<limit, status, stops, begun>>
  BY DEF CommitDecision, Committing
<1>2. PICK approved \in {tenantAdmission.approved \cup {x.gate}, tenantAdmission.approved \ {x.gate}} :
        /\ tenantAdmission' = [revision |-> tenantAdmission.revision + 1, approved |-> approved]
        /\ halted' = (halted /\ approved # AdmissionGates)
  BY DEF CommitDecision
<1>3. ProductionTypeOK /\ OfTransaction(t)
  BY DEF Inv
<1>4. /\ Holds(t, Pointer("admission"), "update") /\ tenantAdmission.revision = x.expected
      /\ x.expected \in 0 .. MaxRevision - 1 /\ x.gate \in AdmissionGates
  BY <1>1, <1>3 DEF OfTransaction, OnRoute, RevisionChecked, ProductionTypeOK, Transactions
<1>5. WritesUnderLocks(t)
  BY <1>1, <1>4 DEF WritesUnderLocks
<1>6. tenantAdmission' \in [revision : 1 .. MaxRevision, approved : SUBSET AdmissionGates]
  BY <1>2, <1>3, <1>4, ProductionAssumption DEF ProductionTypeOK
<1>7. halted' \in BOOLEAN /\ tenantAdmission'.approved = approved
  BY <1>2
<1>8. StopLeavesNothingOpen'
  BY <1>1, <1>2, <1>7 DEF Inv, StopLeavesNothingOpen, OpenRequests, Admitted
<1> QED  BY <1>1, <1>3, <1>5, <1>6, <1>7, <1>8, CommitStep DEF ProductionTypeOK

\* Committing a new limit keeps the invariant.
LEMMA CommitProfileStep ==
    ASSUME Inv, NEW t \in Txns, CommitProfile(t)
    PROVE  Inv'
<1>1. /\ txn[t].kind = "configure" /\ txn[t].at = "commit" /\ End(t) /\ limit' = txn[t].limit
      /\ UNCHANGED <<tenantAdmission, status, stops, halted, begun>>
  BY DEF CommitProfile, Committing
<1>2. Holds(t, Pointer("profile"), "update") /\ txn[t].limit \in Limits
  BY <1>1 DEF Inv, OfTransaction, OnRoute, ProfileHeld
<1>3. WritesUnderLocks(t)
  BY <1>1, <1>2 DEF WritesUnderLocks
<1>4. StopLeavesNothingOpen'
  BY <1>1 DEF Inv, StopLeavesNothingOpen, OpenRequests, Admitted
<1> QED  BY <1>1, <1>2, <1>3, <1>4, CommitStep DEF Inv, ProductionTypeOK

\* Committing a response or a revocation keeps the invariant.
LEMMA CommitClosingStep ==
    ASSUME Inv, NEW t \in Txns, CommitClosing(t)
    PROVE  Inv'
<1> DEFINE r == txn[t].request
<1>1. /\ txn[t].kind \in {"respond", "revoke"} /\ txn[t].at = "commit" /\ End(t)
      /\ \E closed \in {"completed", "revoked"} : status' = [status EXCEPT ![r] = closed]
      /\ UNCHANGED <<tenantAdmission, limit, stops, halted, begun>>
  BY DEF CommitClosing, Committing
<1>2. Holds(t, RowOf(r), "update") /\ status[r] = "open" /\ r \in Requests
  BY <1>1 DEF Inv, OfTransaction, OnRoute, RequestHeld
<1>3. status \in [Requests -> {"none", "open", "completed", "revoked"}]
  BY DEF Inv, ProductionTypeOK
<1>4. WritesUnderLocks(t)
  BY <1>1, <1>2, <1>3 DEF WritesUnderLocks
<1>5. /\ \A q \in Requests : status[q] = "none" => status'[q] = "none"
      /\ status' \in [Requests -> {"none", "open", "completed", "revoked"}]
  BY <1>1, <1>2, <1>3
<1>6. StopLeavesNothingOpen'
  BY <1>1, <1>2, <1>3 DEF Inv, StopLeavesNothingOpen, OpenRequests, Admitted
<1> QED  BY <1>1, <1>4, <1>5, <1>6, CommitStep DEF Inv, ProductionTypeOK

-----------------------------------------------------------------------------
(* The invariant *)

\* Every step of a transaction keeps the invariant.
LEMMA StepKeeps ==
    ASSUME Inv, NEW t \in Txns, Step(t)
    PROVE  Inv'
<1>1. CASE CommitDelivery(t)
  BY <1>1, EndStep DEF CommitDelivery
<1>2. CASE Commit(t)
  BY <1>1, <1>2, CommitIssueStep, CommitStopStep, CommitDecisionStep, CommitProfileStep,
     CommitClosingStep DEF Commit
<1> QED
  BY <1>2, LockCommandStep, LockAdmissionStep, LockRequestStep, LockNextRowStep,
     LockNextAssignmentStep, RowsLockedStep, LockProfileStep, CountActiveStep DEF Step

\* The fields of a connection with no transaction.
LEMMA IdleFields ==
    /\ NoTransaction.request = None /\ NoTransaction.new = None /\ NoTransaction.revoke = {}
    /\ NoTransaction.kind = None /\ NoTransaction.at = None
  BY DEF NoTransaction

\* A handler that begins is on its route if it has the arguments of its kind.
LEMMA RouteBegins ==
    ASSUME NEW x \in Transactions, x.revoke = {}, x.kind \in HandlerKinds,
           Issues(x) => x.new \in Requests,
           x.kind = "issue" => x.request = None,
           x.kind \in {"reissue", "respond", "revoke", "deliver"} => x.request \in Requests,
           x.kind = "stop" => x.command \in StopCommands,
           Decides(x) => x.gate \in AdmissionGates,
           x.kind = "configure" => x.limit \in Limits
    PROVE  OnRoute([x EXCEPT !.at = "begin"])
<1> DEFINE y == [x EXCEPT !.at = "begin"]
<1>1. /\ y.kind = x.kind /\ y.at = "begin" /\ y.new = x.new /\ y.request = x.request
      /\ y.command = x.command /\ y.gate = x.gate /\ y.limit = x.limit /\ y.revoke = {}
  BY DEF Transactions
<1>2. "begin" # None
  BY NoneAssumption DEF Stages
<1> HIDE DEF y
<1>3. OnRoute(y)
  BY <1>1, <1>2 DEF OnRoute
<1> QED  BY <1>3 DEF y

\* Every command that begins a transaction keeps the invariant.
LEMMA CommandKeeps ==
    ASSUME Inv, NEW t \in Txns, Command(t)
    PROVE  Inv'
<1>1. ASSUME NEW q \in Requests, issueRequest(t, q)
      PROVE  Inv'
  <2> DEFINE x == [NoTransaction EXCEPT !.kind = "issue", !.new = q]
  <2>1. Begin(t, x) /\ status[q] = "none" /\ \A u \in Txns : txn[u].new # q
    BY <1>1 DEF issueRequest
  <2>2. x \in Transactions /\ x.new = q
    BY IdleType, IdleFields DEF Transactions, HandlerKinds
  <2>3. x.kind = "issue" /\ x.new = q /\ x.request = None /\ x.revoke = {} /\ x.kind \in HandlerKinds
    BY IdleType, IdleFields DEF Transactions, HandlerKinds
  <2>4. OnRoute([x EXCEPT !.at = "begin"])
    BY <2>1, <2>2, <2>3, RouteBegins
  <2> HIDE DEF x
  <2> QED  BY <2>1, <2>2, <2>4, BeginStep
<1>2. ASSUME NEW q \in Requests, NEW new \in Requests, reissueRequest(t, q, new)
      PROVE  Inv'
  <2> DEFINE x == [NoTransaction EXCEPT !.kind = "reissue", !.request = q, !.new = new]
  <2>1. Begin(t, x) /\ status[new] = "none" /\ \A u \in Txns : txn[u].new # new
    BY <1>2 DEF reissueRequest
  <2>2. x \in Transactions /\ x.new = new
    BY IdleType, IdleFields DEF Transactions, HandlerKinds
  <2>3. x.kind = "reissue" /\ x.new = new /\ x.request = q /\ x.revoke = {} /\ x.kind \in HandlerKinds
    BY IdleType, IdleFields DEF Transactions, HandlerKinds
  <2>4. OnRoute([x EXCEPT !.at = "begin"])
    BY <2>1, <2>2, <2>3, RouteBegins
  <2> HIDE DEF x
  <2> QED  BY <2>1, <2>2, <2>4, BeginStep
<1>3. ASSUME NEW q \in Requests, NEW kind \in {"respond", "revoke", "deliver"},
             Begin(t, [NoTransaction EXCEPT !.kind = kind, !.request = q])
      PROVE  Inv'
  <2> DEFINE x == [NoTransaction EXCEPT !.kind = kind, !.request = q]
  <2>1. x \in Transactions /\ ~Issues(x)
    BY IdleType, IdleFields DEF Transactions, HandlerKinds
  <2>2. x.kind = kind /\ x.request = q /\ x.revoke = {} /\ x.kind \in HandlerKinds
    BY IdleType, IdleFields DEF Transactions, HandlerKinds
  <2>3. OnRoute([x EXCEPT !.at = "begin"])
    BY <2>1, <2>2, RouteBegins
  <2> HIDE DEF x
  <2> QED  BY <1>3, <2>1, <2>3, BeginStep DEF x
<1>4. ASSUME NEW g \in AdmissionGates, NEW expected \in 1 .. MaxRevision - 1,
             decideAdmission(t, g, expected)
      PROVE  Inv'
  <2> DEFINE x == [NoTransaction EXCEPT !.kind = "decide", !.gate = g, !.expected = expected]
  <2>0. expected \in 0 .. MaxRevision - 1
    BY ProductionAssumption
  <2>1. x \in Transactions /\ ~Issues(x)
    BY <2>0, IdleType, IdleFields DEF Transactions, HandlerKinds
  <2>2. x.kind = "decide" /\ x.gate = g /\ x.revoke = {} /\ x.kind \in HandlerKinds
    BY IdleType, IdleFields DEF Transactions, HandlerKinds
  <2>3. OnRoute([x EXCEPT !.at = "begin"])
    BY <2>1, <2>2, RouteBegins
  <2>4. Begin(t, x)
    BY <1>4 DEF decideAdmission
  <2> HIDE DEF x
  <2> QED  BY <2>1, <2>3, <2>4, BeginStep
<1>5. ASSUME NEW g \in AdmissionGates, NEW expected \in 1 .. MaxRevision - 1, NEW c \in StopCommands,
             stopTenantProduction(t, c, g, expected)
      PROVE  Inv'
  <2> DEFINE x == [NoTransaction EXCEPT !.kind = "stop", !.command = c, !.gate = g,
                               !.expected = expected]
  <2>0. expected \in 0 .. MaxRevision - 1
    BY ProductionAssumption
  <2>1. x \in Transactions /\ ~Issues(x)
    BY <2>0, IdleType, IdleFields DEF Transactions, HandlerKinds
  <2>2. x.kind = "stop" /\ x.gate = g /\ x.command = c /\ x.revoke = {} /\ x.kind \in HandlerKinds
    BY IdleType, IdleFields DEF Transactions, HandlerKinds
  <2>3. OnRoute([x EXCEPT !.at = "begin"])
    BY <2>1, <2>2, RouteBegins
  <2>4. Begin(t, x)
    BY <1>5 DEF stopTenantProduction
  <2> HIDE DEF x
  <2> QED  BY <2>1, <2>3, <2>4, BeginStep
<1>6. ASSUME NEW n \in Limits, changeQuota(t, n)
      PROVE  Inv'
  <2> DEFINE x == [NoTransaction EXCEPT !.kind = "configure", !.limit = n]
  <2>1. x \in Transactions /\ ~Issues(x)
    BY IdleType, IdleFields DEF Transactions, HandlerKinds
  <2>2. x.kind = "configure" /\ x.limit = n /\ x.revoke = {} /\ x.kind \in HandlerKinds
    BY IdleType, IdleFields DEF Transactions, HandlerKinds
  <2>3. OnRoute([x EXCEPT !.at = "begin"])
    BY <2>1, <2>2, RouteBegins
  <2>4. Begin(t, x)
    BY <1>6 DEF changeQuota
  <2> HIDE DEF x
  <2> QED  BY <2>1, <2>3, <2>4, BeginStep
<1>7. ASSUME NEW q \in Requests, respond(t, q) \/ revokeRequest(t, q) \/ deliver(t, q)
      PROVE  Inv'
  BY <1>3, <1>7 DEF respond, revokeRequest, deliver
<1> QED  BY <1>1, <1>2, <1>4, <1>5, <1>6, <1>7 DEF Command

\* The invariant holds of an empty tenant.
LEMMA InitInv == ProductionInit => Inv
<1> SUFFICES ASSUME ProductionInit PROVE Inv
  OBVIOUS
<1> USE NoneAssumption
<1>1. ProductionTypeOK
  <2>1. tenantAdmission \in [revision : 1 .. MaxRevision, approved : SUBSET AdmissionGates]
    BY ProductionAssumption DEF ProductionInit
  <2>2. begun \in 0 .. MaxTransactions
    BY ProductionAssumption DEF ProductionInit
  <2>3. txn \in [Txns -> Transactions]
    BY IdleType DEF ProductionInit
  <2> QED  BY <2>1, <2>2, <2>3 DEF ProductionInit, ProductionTypeOK
<1>2. LocksExclude /\ StopLeavesNothingOpen
  BY DEF ProductionInit, LocksExclude, StopLeavesNothingOpen
<1>3. ASSUME NEW t \in Txns PROVE OfTransaction(t) /\ NewIsFresh(t)
  <2>1. txn[t] = NoTransaction
    BY DEF ProductionInit
  <2>2. NoTransaction.kind = None /\ NoTransaction.at = None /\ NoTransaction.revoke = {}
    BY DEF NoTransaction
  <2>3. OnRoute(txn[t])
    BY <2>1, <2>2 DEF OnRoute, HandlerKinds, Stages
  <2> QED
    BY <2>1, <2>2, <2>3 DEF OfTransaction, AdmissionChecked, RevisionChecked, ProfileHeld,
       RequestHeld, StopCovers, RoomLeft, NewIsFresh, HandlerKinds, Stages
<1> QED  BY <1>1, <1>2, <1>3 DEF Inv

\* Every step of the system keeps the invariant.
LEMMA NextInv == Inv /\ [ProductionNext]_productionVars => Inv'
<1> SUFFICES ASSUME Inv, [ProductionNext]_productionVars PROVE Inv'
  OBVIOUS
<1>1. CASE UNCHANGED productionVars
  <2>1. ProductionTypeOK' /\ LocksExclude' /\ StopLeavesNothingOpen'
    BY <1>1 DEF Inv, productionVars, ProductionTypeOK, LocksExclude, StopLeavesNothingOpen, OpenRequests, Admitted
  <2>2. \A t \in Txns : OfTransaction(t)'
    BY <1>1, OthersKept DEF Inv, productionVars
  <2>3. \A t \in Txns : NewIsFresh(t)'
    BY <1>1 DEF Inv, productionVars, NewIsFresh
  <2> QED  BY <2>1, <2>2, <2>3 DEF Inv
<1>2. ASSUME NEW t \in Txns, rollback(t) \/ BreakDeadlock(t)
      PROVE  Inv'
  BY <1>2, EndStep DEF rollback, BreakDeadlock
<1> QED  BY <1>1, <1>2, StepKeeps, CommandKeeps DEF ProductionNext

\* The inductive invariant holds in every reachable state.
THEOREM Invariance == ProductionSpec => []Inv
  BY InitInv, NextInv, PTL DEF ProductionSpec

\* A production stop leaves no request of the tenant open until every gate is
\* approved again, for any number of connections, requests, gates and commands.
THEOREM StopIsComplete == ProductionSpec => []StopLeavesNothingOpen
<1>1. Inv => StopLeavesNothingOpen
  BY DEF Inv
<1> QED  BY <1>1, Invariance, PTL

\* The rows, locks and transactions stay within their types.
THEOREM TypeCorrect == ProductionSpec => []ProductionTypeOK
<1>1. Inv => ProductionTypeOK
  BY DEF Inv
<1> QED  BY <1>1, Invariance, PTL

-----------------------------------------------------------------------------
(* What a step may do to a request *)

\* Only three commits write a request's status.
LEMMA StatusWriters ==
    ASSUME Inv, [ProductionNext]_productionVars
    PROVE  \/ status' = status
           \/ \E t \in Txns : CommitIssue(t) \/ CommitStop(t) \/ CommitClosing(t)
<1>1. CASE UNCHANGED productionVars
  BY <1>1 DEF productionVars
<1>2. ASSUME NEW t \in Txns, Command(t) PROVE status' = status
  BY <1>2 DEF Command, issueRequest, reissueRequest, respond, revokeRequest, deliver,
     decideAdmission, stopTenantProduction, changeQuota, Begin
<1>3. ASSUME NEW t \in Txns, rollback(t) \/ BreakDeadlock(t) PROVE status' = status
  BY <1>3 DEF rollback, BreakDeadlock, Unwritten
<1>4. ASSUME NEW t \in Txns, Step(t)
      PROVE  status' = status \/ CommitIssue(t) \/ CommitStop(t) \/ CommitClosing(t)
  BY <1>4 DEF Step, LockCommand, LockAdmission, LockRequest, LockNextRow, LockNextAssignment,
     RowsLocked, LockProfile, CountActive, Commit, CommitDecision, CommitProfile, CommitDelivery, Unwritten
<1> QED  BY <1>1, <1>2, <1>3, <1>4 DEF ProductionNext

\* Opening a request is the commit of an issue that still sees admission and room.
LEMMA OpeningIsIssue ==
    ASSUME Inv, [ProductionNext]_productionVars, NEW q \in Requests, Opens(q)
    PROVE  \E t \in Txns : CommitIssue(t) /\ q = txn[t].new
<1>1. PICK t \in Txns : CommitIssue(t) \/ CommitStop(t) \/ CommitClosing(t)
  BY StatusWriters DEF Opens
<1>2. ~CommitStop(t)
  BY DEF CommitStop, Opens
<1>3. ~CommitClosing(t)
  <2> SUFFICES ASSUME CommitClosing(t) PROVE FALSE
    OBVIOUS
  <2>1. \E closed \in {"completed", "revoked"} :
          status' = [status EXCEPT ![txn[t].request] = closed]
    BY DEF CommitClosing
  <2> QED  BY <2>1 DEF Opens, Inv, ProductionTypeOK
<1> QED  BY <1>1, <1>2, <1>3 DEF CommitIssue, Opens

\* No request is opened by a tenant that is not admitted.
THEOREM OnlyIssuedAdmitted == ProductionSpec => IssuedUnderAdmission
<1>1. ASSUME Inv, [ProductionNext]_productionVars, NEW q \in Requests, Opens(q)
      PROVE  Admitted
  <2>1. PICK t \in Txns : CommitIssue(t)
    BY <1>1, OpeningIsIssue
  <2> QED  BY <1>1, <2>1 DEF CommitIssue, Inv, OfTransaction, AdmissionChecked
<1>2. Inv /\ [ProductionNext]_productionVars => [\A q \in Requests : Opens(q) => Admitted]_productionVars
  BY <1>1
<1> QED  BY <1>2, Invariance, PTL DEF ProductionSpec, IssuedUnderAdmission

\* No commit takes the tenant above the quota that is then in force.
THEOREM WithinQuota == ProductionSpec => QuotaRespected
<1>1. ASSUME Inv, [ProductionNext]_productionVars, NEW q \in Requests, Opens(q)
      PROVE  Cardinality(OpenRequests') <= limit
  <2>1. PICK t \in Txns : CommitIssue(t) /\ q = txn[t].new
    BY <1>1, OpeningIsIssue
  <2> DEFINE rest == OpenRequests \ {txn[t].request}
  <2>2. Cardinality(rest) + 1 <= limit /\ limit \in Nat
    BY <1>1, <2>1, ProductionAssumption
       DEF CommitIssue, Inv, OfTransaction, RoomLeft, ProductionTypeOK
  <2>3. OpenRequests' = rest \cup {q}
    BY <1>1, <2>1 DEF CommitIssue, OpenRequests
  <2>4. IsFiniteSet(rest) /\ Cardinality(rest) \in Nat /\ q \notin rest
    <3>1. IsFiniteSet(Requests) /\ rest \subseteq Requests
      BY ProductionAssumption DEF OpenRequests
    <3> QED  BY <1>1, <3>1, FS_Subset, FS_CardinalityType DEF Opens, OpenRequests
  <2>5. Cardinality(rest \cup {q}) = Cardinality(rest) + 1
    BY <2>4, FS_AddElement
  <2> QED  BY <2>2, <2>3, <2>5
<1>2. Inv /\ [ProductionNext]_productionVars
        => [\A q \in Requests : Opens(q) => Cardinality(OpenRequests') <= limit]_productionVars
  BY <1>1
<1> QED  BY <1>2, Invariance, PTL DEF ProductionSpec, QuotaRespected

\* A request that was completed or revoked is never written again.
THEOREM ClosedStays == ProductionSpec => ClosedRequestsStay
<1>1. ASSUME Inv, [ProductionNext]_productionVars, NEW q \in Requests, status[q] \in {"completed", "revoked"}
      PROVE  status'[q] = status[q]
  <2>1. ASSUME NEW t \in Txns, CommitIssue(t) PROVE status'[q] = status[q]
    <3>1. status[txn[t].new] = "none"
      BY <2>1, <1>1 DEF CommitIssue, Inv, NewIsFresh
    <3>2. txn[t].request = q => txn[t].kind = "reissue"
      BY <2>1, <1>1, NoneAssumption DEF CommitIssue, Inv, OfTransaction, OnRoute
    <3>3. txn[t].request # q
      BY <2>1, <1>1, <3>2 DEF CommitIssue, Inv, OfTransaction, RequestHeld
    <3> QED  BY <1>1, <2>1, <3>1, <3>3 DEF CommitIssue
  <2>2. ASSUME NEW t \in Txns, CommitStop(t) PROVE status'[q] = status[q]
    BY <1>1, <2>2 DEF CommitStop, Committing, Inv, OfTransaction, StopCovers
  <2>3. ASSUME NEW t \in Txns, CommitClosing(t) PROVE status'[q] = status[q]
    BY <1>1, <2>3 DEF CommitClosing, Committing, Inv, ProductionTypeOK, OfTransaction, RequestHeld
  <2> QED  BY <1>1, <2>1, <2>2, <2>3, StatusWriters
<1>2. Inv /\ [ProductionNext]_productionVars
        => [\A q \in Requests :
              status[q] \in {"completed", "revoked"} => status'[q] = status[q]]_productionVars
  BY <1>1
<1> QED  BY <1>2, Invariance, PTL DEF ProductionSpec, ClosedRequestsStay

-----------------------------------------------------------------------------
(* The orders in which handlers lock                                         *)

\* The name of the row a transaction waits for at a stage.
Asking == {"command", "admission", "request", "assignment", "rows", "assignments", "profile"}
Asked(at) == IF at = "rows" THEN "request" ELSE IF at = "assignments" THEN "assignment" ELSE at

\* The stages at which a handler may already hold a lock on the command, the
\* admission pointer, a request, an assignment or the profile pointer.
Past(kind, name, at) ==
  \/ name = "command" /\ kind = "stop" /\ at \in {"admission", "rows", "assignments", "commit"}
  \/ name = "admission" /\
       \/ kind = "issue" /\ at \in {"profile", "count", "commit"}
       \/ kind = "reissue" /\ at \in {"request", "assignment", "profile", "count", "commit"}
       \/ kind = "stop" /\ at \in {"rows", "assignments", "commit"}
       \/ kind \in {"decide", "deliver"} /\ at = "commit"
  \/ name = "request" /\
       \/ kind \in {"reissue", "revoke"} /\ at \in {"assignment", "profile", "count", "commit"}
       \/ kind = "stop" /\ at \in {"rows", "assignments", "commit"}
       \/ kind = "respond" /\ at = "commit"
       \/ kind = "deliver" /\ at \in {"admission", "commit"}
  \/ name = "assignment" /\
       \/ kind \in {"reissue", "revoke"} /\ at \in {"profile", "count", "commit"}
       \/ kind = "stop" /\ at \in {"rows", "assignments", "commit"}
       \/ kind = "respond" /\ at \in {"request", "commit"}
  \/ name = "profile" /\ at \in {"count", "commit"}

\* What a transaction holds, it locked at an earlier stage, and except for a
\* participant's command an assignment is held together with its request.
InOrder(t) ==
  \A l \in locks : l.txn = t =>
    /\ Past(txn[t].kind, l.resource[1], txn[t].at)
    /\ \A q \in Requests :
         l.resource = AssignmentOf(q) /\ txn[t].kind # "respond" => Holds(t, RowOf(q), "update")

\* A transaction asks for the lock of its stage.
LEMMA AsksOfStage ==
    ASSUME NEW t \in Txns, NEW l \in Requested(t)
    PROVE  txn[t].at \in Asking /\ l.resource[1] = Asked(txn[t].at)
<1>1. Asks(t, l)
  BY DEF Requested
<1>2. CASE txn[t].at \in {"rows", "assignments"}
  <2>1. \E q : l.resource = IF txn[t].at = "rows" THEN RowOf(q) ELSE AssignmentOf(q)
    BY <1>1, <1>2 DEF Asks
  <2> QED  BY <1>2, <2>1 DEF Asking, Asked, RowOf, AssignmentOf
<1>3. CASE txn[t].at \notin {"rows", "assignments"}
  <2>1. \/ txn[t].at = "command" /\ l.resource = CommandLock(txn[t].command)
        \/ txn[t].at \in {"admission", "profile"} /\ l.resource = Pointer(txn[t].at)
        \/ txn[t].at = "request" /\ l.resource = RowOf(txn[t].request)
        \/ txn[t].at = "assignment" /\ l.resource = AssignmentOf(txn[t].request)
    BY <1>1, <1>3 DEF Asks
  <2> QED  BY <2>1 DEF Asking, Asked, CommandLock, Pointer, RowOf, AssignmentOf
<1> QED  BY <1>2, <1>3

\* Handlers go on in one direction: what is behind them stays there, and so is
\* what they have just locked.
LEMMA OnlyForward ==
    ASSUME NEW kind, NEW at, NEW next, Follows(kind, at, next)
    PROVE  /\ \A name : Past(kind, name, at) => Past(kind, name, next)
           /\ at \in Asking => Past(kind, Asked(at), next)
  BY DEF Follows, ReissueRoute, Past, Asking, Asked

\* Who is about to lock the assignment of a request, and is no participant, holds
\* the request.
LEMMA RequestBeforeAssignment ==
    ASSUME Inv, NEW t \in Txns, NEW l \in Requested(t), NEW q \in Requests,
           l.resource = AssignmentOf(q), txn[t].kind # "respond"
    PROVE  Holds(t, RowOf(q), "update")
<1>1. OfTransaction(t) /\ OnRoute(txn[t])
  BY DEF Inv, OfTransaction
<1>2. Asks(t, l)
  BY DEF Requested
<1>3. \/ txn[t].at = "assignment" /\ AssignmentOf(txn[t].request) = AssignmentOf(q)
      \/ /\ txn[t].at = "assignments"
         /\ \E p \in txn[t].rows : First(txn[t].rows, p) /\ AssignmentOf(p) = AssignmentOf(q)
  <2>1. Asked(txn[t].at) = "assignment"
    BY AsksOfStage DEF AssignmentOf
  <2>2. txn[t].at \in {"assignment", "assignments"}
    BY <2>1 DEF Asked
  <2> QED  BY <1>2, <2>2 DEF Asks
<1>4. CASE txn[t].at = "assignment"
  BY <1>1, <1>3, <1>4 DEF OfTransaction, OnRoute, RequestHeld, AssignmentOf
<1>5. CASE txn[t].at = "assignments"
  <2>1. txn[t].kind = "stop" /\ StopCovers(t)
    BY <1>1, <1>5 DEF OfTransaction, OnRoute
  <2> QED  BY <1>3, <1>5, <2>1 DEF StopCovers, AssignmentOf
<1> QED  BY <1>3, <1>4, <1>5

\* A step of t touches no lock of another connection.
LEMMA OrderKept ==
    ASSUME \A u \in Txns : InOrder(u), NEW t \in Txns,
           \A u \in Txns \ {t} : txn'[u] = txn[u],
           \A l \in locks' : l.txn # t => l \in locks,
           \A l \in locks : l.txn # t => l \in locks',
           InOrder(t)'
    PROVE  \A u \in Txns : InOrder(u)'
<1> SUFFICES ASSUME NEW u \in Txns, u # t, NEW l \in locks', l.txn = u
             PROVE  /\ Past(txn[u].kind, l.resource[1], txn[u].at)
                    /\ \A q \in Requests :
                         l.resource = AssignmentOf(q) /\ txn[u].kind # "respond"
                           => Holds(u, RowOf(q), "update")'
  BY DEF InOrder
<1>1. l \in locks
  OBVIOUS
<1>2. \A q : Lock(u, RowOf(q), "update").txn = u
  BY DEF Lock
<1> QED  BY <1>1, <1>2 DEF InOrder, Holds

\* The stop goes back and forth between the request and the assignment of a row.
Turns(x, next) ==
  x.kind = "stop" /\ <<x.at, next>> \in {<<"rows", "assignments">>, <<"assignments", "rows">>}

\* A transaction that locks and goes on.
LEMMA TakeInOrder ==
    ASSUME Inv, \A u \in Txns : InOrder(u), NEW t \in Txns, Take(t),
           \A u \in Txns \ {t} : txn'[u] = txn[u],
           txn'[t].kind = txn[t].kind,
           Follows(txn[t].kind, txn[t].at, txn'[t].at) \/ Turns(txn[t], txn'[t].at)
    PROVE  \A u \in Txns : InOrder(u)'
<1>1. locks' = locks \cup Requested(t)
  BY DEF Take
<1>2. ASSUME NEW l \in locks', l.txn = t
      PROVE  Past(txn'[t].kind, l.resource[1], txn'[t].at)
  <2>1. CASE l \in locks
    <3>1. Past(txn[t].kind, l.resource[1], txn[t].at)
      BY <1>2, <2>1 DEF InOrder
    <3>2. CASE Follows(txn[t].kind, txn[t].at, txn'[t].at)
      BY <3>1, <3>2, OnlyForward
    <3>3. CASE Turns(txn[t], txn'[t].at)
      BY <3>1, <3>3 DEF Turns, Past
    <3> QED  BY <3>2, <3>3
  <2>2. CASE l \in Requested(t)
    <3>1. txn[t].at \in Asking /\ l.resource[1] = Asked(txn[t].at)
      BY <2>2, AsksOfStage
    <3>2. CASE Follows(txn[t].kind, txn[t].at, txn'[t].at)
      BY <3>1, <3>2, OnlyForward
    <3>3. CASE Turns(txn[t], txn'[t].at)
      BY <3>1, <3>3 DEF Turns, Past, Asked
    <3> QED  BY <3>2, <3>3
  <2> QED  BY <1>1, <2>1, <2>2
<1>3. ASSUME NEW l \in locks', l.txn = t, NEW q \in Requests,
             l.resource = AssignmentOf(q), txn[t].kind # "respond"
      PROVE  Holds(t, RowOf(q), "update")'
  <2>1. Holds(t, RowOf(q), "update")
    BY <1>1, <1>3, RequestBeforeAssignment DEF InOrder
  <2> QED  BY <1>1, <2>1 DEF Holds
<1>4. InOrder(t)'
  BY <1>2, <1>3 DEF InOrder
<1>5. \A l \in locks' : l.txn # t => l \in locks
  BY <1>1, RequestedType
<1> QED  BY <1>1, <1>4, <1>5, OrderKept

\* A transaction that goes on without a lock.
LEMMA ForwardInOrder ==
    ASSUME \A u \in Txns : InOrder(u), NEW t \in Txns, locks' = locks,
           \A u \in Txns \ {t} : txn'[u] = txn[u],
           txn'[t].kind = txn[t].kind, Follows(txn[t].kind, txn[t].at, txn'[t].at)
    PROVE  \A u \in Txns : InOrder(u)'
<1>1. InOrder(t)'
  BY OnlyForward DEF InOrder, Holds
<1> QED  BY <1>1, OrderKept

\* A transaction that ends holds nothing any more.
LEMMA EndInOrder ==
    ASSUME Inv, \A u \in Txns : InOrder(u), NEW t \in Txns, End(t)
    PROVE  \A u \in Txns : InOrder(u)'
<1>1. \A l : l \in locks' <=> l \in locks /\ l.txn # t
  BY DEF End
<1>2. \A u \in Txns \ {t} : txn'[u] = txn[u]
  BY EndFacts DEF Inv
<1>3. InOrder(t)'
  BY <1>1 DEF InOrder
<1> QED  BY <1>1, <1>2, <1>3, OrderKept

\* A connection that is idle holds nothing, and so does a transaction that begins.
LEMMA BeginInOrder ==
    ASSUME Inv, \A u \in Txns : InOrder(u), NEW t \in Txns, NEW x, Begin(t, x)
    PROVE  \A u \in Txns : InOrder(u)'
<1>1. txn[t] = NoTransaction /\ locks' = locks /\ txn \in [Txns -> Transactions]
  BY DEF Begin, Inv, ProductionTypeOK
<1>2. \A u \in Txns \ {t} : txn'[u] = txn[u]
  BY <1>1 DEF Begin, GoOn
<1>3. txn[t].at \notin Stages
  BY <1>1, NoneAssumption DEF NoTransaction
<1>4. \A l \in locks : l.txn # t
  BY <1>3 DEF InOrder, Past, Stages
<1>5. InOrder(t)'
  BY <1>1, <1>4 DEF InOrder
<1> QED  BY <1>1, <1>2, <1>5, OrderKept

\* Every step of the system keeps the order of the locks.
LEMMA StepInOrder ==
    ASSUME Inv, \A u \in Txns : InOrder(u), [ProductionNext]_productionVars
    PROVE  \A u \in Txns : InOrder(u)'
<1>1. CASE UNCHANGED productionVars
  BY <1>1 DEF productionVars, InOrder, Holds
<1>2. ASSUME NEW t \in Txns, Command(t) PROVE \A u \in Txns : InOrder(u)'
  <2>1. \E x : Begin(t, x)
    BY <1>2 DEF Command, issueRequest, respond, revokeRequest, deliver, reissueRequest,
         decideAdmission, stopTenantProduction, changeQuota
  <2> QED  BY <2>1, BeginInOrder
<1>3. ASSUME NEW t \in Txns, LockCommand(t) \/ LockRequest(t) \/ LockProfile(t)
      PROVE  \A u \in Txns : InOrder(u)'
  <2>1. Take(t) /\ Proceed(t)
    BY <1>3 DEF LockCommand, LockRequest, LockProfile
  <2> QED  BY <2>1, ProceedFacts, TakeInOrder
<1>4. ASSUME NEW t \in Txns, LockAdmission(t) PROVE \A u \in Txns : InOrder(u)'
  <2> DEFINE y == [txn[t] EXCEPT !.rows = IF txn[t].kind = "stop" THEN OpenRequests ELSE {}]
  <2>1. Take(t) /\ GoOn(t, y)
    BY <1>4 DEF LockAdmission
  <2>2. txn[t] \in Transactions /\ OpenRequests \in SUBSET Requests
    BY DEF Inv, ProductionTypeOK, OpenRequests
  <2>3. y \in Transactions /\ y.kind = txn[t].kind /\ y.at = txn[t].at
    BY <2>2 DEF Transactions
  <2> HIDE DEF y
  <2>4. PICK next \in Stages : Follows(y.kind, y.at, next) /\ txn'[t] = [y EXCEPT !.at = next]
    BY <2>1, <2>3, GoOnFacts DEF Inv
  <2>5. \A u \in Txns \ {t} : txn'[u] = txn[u]
    BY <2>1, <2>3, GoOnFacts DEF Inv
  <2>6. txn'[t].kind = txn[t].kind /\ txn'[t].at = next
    BY <2>3, <2>4 DEF Transactions
  <2> QED  BY <2>1, <2>3, <2>4, <2>5, <2>6, TakeInOrder
<1>5. ASSUME NEW t \in Txns, LockNextRow(t) \/ LockNextAssignment(t)
      PROVE  \A u \in Txns : InOrder(u)'
  <2>1. /\ Take(t) /\ txn[t].at \in {"rows", "assignments"} /\ txn \in [Txns -> Transactions]
        /\ OnRoute(txn[t])
    BY <1>5 DEF LockNextRow, LockNextAssignment, Inv, ProductionTypeOK, OfTransaction
  <2>2. txn[t].kind = "stop"
    BY <2>1 DEF OnRoute
  <2>3. CASE LockNextRow(t)
    <3>1. txn[t].at = "rows" /\ txn' = [txn EXCEPT ![t] = [txn[t] EXCEPT !.at = "assignments"]]
      BY <2>3 DEF LockNextRow
    <3>2. /\ txn'[t].kind = txn[t].kind /\ txn'[t].at = "assignments"
          /\ \A u \in Txns \ {t} : txn'[u] = txn[u]
      BY <2>1, <3>1 DEF Transactions
    <3> QED  BY <2>1, <2>2, <3>1, <3>2, TakeInOrder DEF Turns
  <2>4. CASE LockNextAssignment(t)
    <3>1. txn[t].at = "assignments"
      BY <2>4 DEF LockNextAssignment
    <3>2. PICK q \in txn[t].rows : txn' = [txn EXCEPT ![t] =
                    [txn[t] EXCEPT !.at = "rows", !.rows = @ \ {q},
                              !.revoke = IF status[q] = "open" THEN @ \cup {q} ELSE @]]
      BY <2>4 DEF LockNextAssignment
    <3>3. /\ txn'[t].kind = txn[t].kind /\ txn'[t].at = "rows"
          /\ \A u \in Txns \ {t} : txn'[u] = txn[u]
      BY <2>1, <3>2 DEF Transactions
    <3> QED  BY <2>1, <2>2, <3>1, <3>3, TakeInOrder DEF Turns
  <2> QED  BY <1>5, <2>3, <2>4
<1>6. ASSUME NEW t \in Txns, RowsLocked(t) \/ CountActive(t) PROVE \A u \in Txns : InOrder(u)'
  <2>1. Proceed(t) /\ locks' = locks
    BY <1>6 DEF RowsLocked, CountActive
  <2> QED  BY <2>1, ProceedFacts, ForwardInOrder
<1>7. ASSUME NEW t \in Txns, Commit(t) \/ rollback(t) \/ BreakDeadlock(t)
      PROVE  \A u \in Txns : InOrder(u)'
  <2>1. End(t)
    BY <1>7 DEF Commit, CommitIssue, CommitStop, CommitDecision, CommitProfile, CommitClosing,
         CommitDelivery, rollback, BreakDeadlock
  <2> QED  BY <2>1, EndInOrder
<1> QED
  BY <1>1, <1>2, <1>3, <1>4, <1>5, <1>6, <1>7 DEF ProductionNext, Step

\* A transaction waits for one that locked the row at an earlier stage.
LEMMA WaitsForLater ==
    ASSUME \A u \in Txns : InOrder(u), NEW t \in Txns, NEW u \in Txns, Waits(t, u)
    PROVE  /\ t # u /\ txn[t].at \in Asking
           /\ Past(txn[u].kind, Asked(txn[t].at), txn[u].at)
<1>1. PICK l \in locks, n \in Requested(t) : l.txn = u /\ l.resource = n.resource
  BY DEF Waits, Conflict
<1> QED  BY <1>1, AsksOfStage DEF InOrder, Waits

\* Among handlers that take the request first nobody waits for an assignment:
\* whoever holds it holds the request as well, and so does the one that asks.
LEMMA NoWaitForAssignment ==
    ASSUME Inv, \A v \in Txns : InOrder(v), NEW t \in Txns, NEW u \in Txns, Waits(t, u),
           txn[t].kind # "respond", txn[u].kind # "respond"
    PROVE  txn[t].at \notin {"assignment", "assignments"}
<1> SUFFICES ASSUME txn[t].at \in {"assignment", "assignments"} PROVE FALSE
  OBVIOUS
<1>1. PICK l \in locks, n \in Requested(t) : t # u /\ l.txn = u /\ l.resource = n.resource
  BY DEF Waits, Conflict
<1>2. Asks(t, n) /\ OnRoute(txn[t]) /\ txn[t] \in Transactions
  BY DEF Requested, Inv, OfTransaction, ProductionTypeOK
<1>3. PICK q \in Requests : n.resource = AssignmentOf(q)
  BY <1>2 DEF Asks, OnRoute, Transactions
<1>4. Holds(t, RowOf(q), "update")
  BY <1>3, RequestBeforeAssignment
<1>5. Holds(u, RowOf(q), "update")
  BY <1>1, <1>3 DEF InOrder
<1> QED  BY <1>1, <1>4, <1>5, HeldAlone DEF Inv, Holds

\* Two stops cannot both be locking rows: each has the admission pointer to itself.
LEMMA OneStopLocks ==
    ASSUME Inv, NEW t \in Txns, NEW u \in Txns, txn[t].at = "rows", txn[u].at = "rows"
    PROVE  t = u
<1>1. Holds(t, Pointer("admission"), "update") /\ Holds(u, Pointer("admission"), "update")
  <2>1. \A x \in Txns : txn[x].at = "rows" => txn[x].kind = "stop"
    BY DEF Inv, OfTransaction, OnRoute
  <2> QED  BY <2>1 DEF Inv, OfTransaction, RevisionChecked
<1> QED  BY <1>1, HeldAlone DEF Inv, Holds

\* A set of transactions that wait for one another holds one of the two
\* inversions: without them, the stages are left in one order, and the one that
\* got furthest waits for nobody.
LEMMA CyclesAreInversions ==
    ASSUME Inv, \A u \in Txns : InOrder(u)
    PROVE  DeadlocksAreInversions
<1> SUFFICES ASSUME NEW S \in SUBSET Txns, Deadlocked(S),
                    ~(Involves(S, {"respond"}) /\ Involves(S, {"reissue", "revoke", "stop"})),
                    ~(Involves(S, {"deliver"}) /\ Involves(S, {"reissue", "stop"}))
             PROVE  FALSE
  BY DEF DeadlocksAreInversions
<1>1. ASSUME NEW t \in S
      PROVE  \E u \in S : /\ Waits(t, u) /\ t # u
                          /\ txn[t].at \in Asking /\ txn[u].at \in Asking
                          /\ Past(txn[u].kind, Asked(txn[t].at), txn[u].at)
  <2>1. PICK u \in S : Waits(t, u)
    BY DEF Deadlocked
  <2>2. PICK v \in S : Waits(u, v)
    BY DEF Deadlocked
  <2> QED  BY <2>1, <2>2, WaitsForLater
<1>2. \A t \in S : txn[t].at \in {"rows", "assignments", "command"} => txn[t].kind = "stop"
  BY DEF Inv, OfTransaction, OnRoute
<1>3. \A t \in S : txn[t].at # "profile"
  BY <1>1 DEF Past, Asking, Asked
<1>4. ASSUME NEW t \in S, txn[t].kind = "deliver" PROVE txn[t].at # "admission"
  <2>1. \A u \in S : txn[u].kind \notin {"reissue", "stop"}
    BY <1>4 DEF Involves
  <2> QED  BY <1>1, <1>3, <2>1 DEF Past, Asking, Asked
<1>5. CASE ~Involves(S, {"respond"})
  <2>1. \A t \in S : txn[t].at \notin {"assignment", "assignments"}
    BY <1>1, <1>5, NoWaitForAssignment DEF Involves
  <2>2. \A t \in S : txn[t].at # "rows"
    BY <1>1, <1>3, <1>4, <2>1, OneStopLocks DEF Past, Asking, Asked
  <2>3. \A t \in S : txn[t].at # "request"
    BY <1>1, <1>3, <1>4, <2>1, <2>2 DEF Past, Asking, Asked
  <2>4. \A t \in S : txn[t].at # "admission"
    BY <1>1, <1>3, <2>1, <2>2, <2>3 DEF Past, Asking, Asked
  <2>5. \A t \in S : txn[t].at # "command"
    BY <1>1, <2>1, <2>2, <2>4 DEF Past, Asking, Asked
  <2> QED  BY <1>1, <1>3, <2>1, <2>2, <2>3, <2>4, <2>5 DEF Deadlocked, Asking
<1>6. CASE Involves(S, {"respond"})
  <2>1. \A t \in S : txn[t].kind \notin {"reissue", "revoke", "stop"}
    BY <1>6 DEF Involves
  <2>2. \A t \in S : txn[t].at \notin {"rows", "assignments", "command"}
    BY <1>2, <2>1
  <2>3. \A t \in S : txn[t].at # "request"
    BY <1>1, <1>4, <2>1 DEF Past, Asking, Asked
  <2>4. \A t \in S : txn[t].at # "assignment"
    BY <1>1, <2>1, <2>3 DEF Past, Asking, Asked
  <2>5. \A t \in S : txn[t].at # "admission"
    BY <1>1, <1>3, <2>1 DEF Past, Asking, Asked
  <2> QED  BY <1>1, <1>3, <2>2, <2>3, <2>4, <2>5 DEF Deadlocked, Asking
<1> QED  BY <1>5, <1>6

\* A deadlock always pairs a participant's command with a reissue, a revocation
\* or a stop, or a delivery with a reissue or a stop, for any number of
\* connections, requests and stop commands.
THEOREM DeadlockNeedsInversion == ProductionSpec => []DeadlocksAreInversions
<1>1. ProductionInit => \A u \in Txns : InOrder(u)
  BY DEF ProductionInit, InOrder
<1>2. Inv /\ (\A u \in Txns : InOrder(u)) /\ [ProductionNext]_productionVars
        => (\A u \in Txns : InOrder(u))'
  BY StepInOrder
<1>3. Inv /\ (\A u \in Txns : InOrder(u)) => DeadlocksAreInversions
  BY CyclesAreInversions
<1> QED  BY <1>1, <1>2, <1>3, Invariance, PTL DEF ProductionSpec
=============================================================================

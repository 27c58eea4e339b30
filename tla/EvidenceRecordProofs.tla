------------------------ MODULE EvidenceRecordProofs ------------------------
(***************************************************************************)
(* The tables of a record agree at every commit, a closed record never     *)
(* changes, and a sealed record verifies, for any number of records,       *)
(* principals, sessions, workflows and commands, and for any plan.         *)
(*                                                                         *)
(* Whole(r) is the inductive invariant of one record, a conjunction of     *)
(* parts that are operators of its rows, so that what a handler does to a  *)
(* row is a lemma about that row; Same(r) carries it over the steps of     *)
(* other records.                                                          *)
(***************************************************************************)
EXTENDS EvidenceRecord, TLAPS

-----------------------------------------------------------------------------
(* The types of the rows.                                                  *)

RequestRows == [status : Statuses, workflow : Workflows \cup {None}, due : BOOLEAN, lapsed : BOOLEAN]
AssignmentRows == [status : Statuses, principal : Principals \cup {None}]
ActivityRows == Seq({"pending", "available", "completed", "skipped"})
Interactions == [principal : Principals, session : Sessions, open : BOOLEAN]
Revisions == [ordinal : Nat, command : Commands, state : {"saved", "submitted"},
              outcome : Outcomes, interaction : Nat]
Ledgers == [events : Seq(EventRows), lastSequence : Nat, lastHash : Hashes]
Manifests == [sealed : BOOLEAN, eventHashes : Seq(Hashes), outcome : SUBSET (Nat \X Outcomes)]

-----------------------------------------------------------------------------
(* The chain.                                                              *)

\* What an append does, whichever routine does it.
Grown(l, f, l2) ==
  /\ l2 \in Ledgers
  /\ Len(l2.events) = Len(l.events) + 1
  /\ DOMAIN l2.events = 1 .. Len(l.events) + 1
  /\ \A k \in DOMAIN l.events : l2.events[k] = l.events[k]
  /\ l2.events[Len(l.events) + 1].fact = f
  /\ l2.lastSequence = l.lastSequence + 1

\* An append adds one event at the end.
LEMMA AppendGrows ==
  ASSUME NEW l \in Ledgers, NEW f \in Facts
  PROVE  Grown(l, f, appendEvent(l, f))
<1> DEFINE e == [sequence |-> l.lastSequence + 1, fact |-> f, previousHash |-> l.lastHash]
<1>1. e \in EventRows
  BY DEF Ledgers, EventRows
<1>2. EventHash(e) \in Hashes
  BY DEF Ledgers, EventHash, Hashes
<1>3. appendEvent(l, f) =
        [events |-> Append(l.events, e), lastSequence |-> l.lastSequence + 1, lastHash |-> EventHash(e)]
  BY DEF appendEvent
<1> HIDE DEF e
<1>4. /\ Append(l.events, e) \in Seq(EventRows)
      /\ Len(Append(l.events, e)) = Len(l.events) + 1
      /\ DOMAIN Append(l.events, e) = 1 .. Len(l.events) + 1
      /\ \A k \in DOMAIN l.events : Append(l.events, e)[k] = l.events[k]
      /\ Append(l.events, e)[Len(l.events) + 1] = e
  BY <1>1 DEF Ledgers
<1>5. e.fact = f
  BY DEF e
<1>6. l.lastSequence + 1 \in Nat
  BY DEF Ledgers
<1> QED
  BY <1>2, <1>3, <1>4, <1>5, <1>6 DEF Grown, Ledgers

\* The worker's routine is the same append.
LEMMA WorkerAppends ==
  ASSUME NEW l, NEW type
  PROVE  appendWorkerEvent(l, type) = appendEvent(l, Fact(type, 0, "vasi-worker"))
BY DEF appendWorkerEvent, appendEvent

\* The chain head is the last event, and every event names the one before it.
Linked(l) ==
  /\ l.events # <<>>
  /\ \A k \in DOMAIN l.events :
       /\ l.events[k].sequence = k
       /\ l.events[k].previousHash =
            IF k = 1 THEN GENESIS_HASH ELSE EventHash(l.events[k - 1])
  /\ l.lastSequence = Len(l.events)
  /\ l.lastHash = EventHash(l.events[Len(l.events)])

\* An append to an empty or linked chain leaves a linked one.
LEMMA AppendLinks ==
  ASSUME NEW l \in Ledgers, NEW f \in Facts, l = NoLedger \/ Linked(l)
  PROVE  Linked(appendEvent(l, f))
<1> DEFINE e == [sequence |-> l.lastSequence + 1, fact |-> f, previousHash |-> l.lastHash]
           n == Len(l.events)
<1>1. appendEvent(l, f) =
        [events |-> Append(l.events, e), lastSequence |-> l.lastSequence + 1, lastHash |-> EventHash(e)]
  BY DEF appendEvent
<1>2. /\ e.sequence = l.lastSequence + 1
      /\ e.previousHash = l.lastHash
      /\ e \in EventRows
  BY DEF Ledgers, EventRows
<1> HIDE DEF e
<1>3. /\ l.events \in Seq(EventRows) /\ n \in Nat
      /\ l.lastSequence = n
      /\ l.lastHash = IF n = 0 THEN GENESIS_HASH ELSE EventHash(l.events[n])
      /\ \A k \in 1 .. n :
           /\ l.events[k].sequence = k
           /\ l.events[k].previousHash =
                IF k = 1 THEN GENESIS_HASH ELSE EventHash(l.events[k - 1])
  <2>1. l.events \in Seq(EventRows)
    BY DEF Ledgers
  <2>2. CASE l = NoLedger
    BY <2>1, <2>2 DEF NoLedger
  <2>3. CASE Linked(l)
    <3>1. n # 0
      BY <2>1, <2>3 DEF Linked
    <3> QED
      BY <2>1, <2>3, <3>1 DEF Linked
  <2> QED
    BY <2>2, <2>3
<1>4. /\ Len(Append(l.events, e)) = n + 1
      /\ DOMAIN Append(l.events, e) = 1 .. n + 1
      /\ \A k \in 1 .. n : Append(l.events, e)[k] = l.events[k]
      /\ Append(l.events, e)[n + 1] = e
  BY <1>2, <1>3
<1>5. ASSUME NEW k \in 1 .. n + 1
      PROVE  /\ Append(l.events, e)[k].sequence = k
             /\ Append(l.events, e)[k].previousHash =
                  IF k = 1 THEN GENESIS_HASH ELSE EventHash(Append(l.events, e)[k - 1])
  <2>1. CASE k = n + 1
    BY <1>2, <1>3, <1>4, <2>1
  <2>2. CASE k \in 1 .. n
    <3>1. k # 1 => k - 1 \in 1 .. n
      BY <2>2, <1>3
    <3> QED
      BY <1>3, <1>4, <2>2, <3>1
  <2> QED
    BY <1>3, <2>1, <2>2
<1>6. Append(l.events, e) # <<>>
  <2>1. n + 1 # 0
    BY <1>3
  <2> QED
    BY <1>4, <2>1
<1>7. /\ appendEvent(l, f).events = Append(l.events, e)
      /\ appendEvent(l, f).lastSequence = n + 1
      /\ appendEvent(l, f).lastHash = EventHash(e)
  BY <1>1, <1>3
<1> QED
  BY <1>4, <1>5, <1>6, <1>7 DEF Linked

\* An issued record's chain can be sealed at any time.
LEMMA LinkedVerifies ==
  ASSUME NEW l, NEW rows, Linked(l)
  PROVE  verifyEventChain(l, buildWorkflowManifest(l, rows))
BY DEF Linked, verifyEventChain, buildWorkflowManifest

-----------------------------------------------------------------------------
(* Who acts.                                                               *)

\* Every participant event is of this principal.
Bound(l, p) ==
  \A k \in DOMAIN l.events :
    l.events[k].fact.type \in ParticipantTypes => l.events[k].fact.actor = p /\ p \in Principals

\* A chain whose participant events are all p's stays so when p's event is appended.
LEMMA AppendBound ==
  ASSUME NEW l \in Ledgers, NEW f \in Facts, NEW l2, NEW p, Grown(l, f, l2), Bound(l, p),
         f.type \in ParticipantTypes => f.actor = p /\ p \in Principals
  PROVE  Bound(l2, p)
<1> SUFFICES ASSUME NEW k \in DOMAIN l2.events, l2.events[k].fact.type \in ParticipantTypes
             PROVE  l2.events[k].fact.actor = p /\ p \in Principals
  BY DEF Bound
<1>1. l.events \in Seq(EventRows)
  BY DEF Ledgers
<1>2. k \in DOMAIN l.events \/ k = Len(l.events) + 1
  BY <1>1 DEF Grown
<1> QED
  BY <1>1, <1>2 DEF Grown, Bound

\* An unbound record has no participant event, so it can be bound to anyone.
LEMMA BindingBounds ==
  ASSUME NEW l, NEW p, Bound(l, None)
  PROVE  Bound(l, p)
BY PlanAssumption DEF Bound

-----------------------------------------------------------------------------
(* What the chain tells.                                                   *)

\* told places the event of every revision, and of every completion behind it.
TellsAll(l, rows, w, told) ==
  /\ told \in [DOMAIN rows -> DOMAIN l.events]
  /\ Tells(l, rows, told)
  /\ w =>
       /\ EventsOf(l, {"activity.completed"}) = {told[k] + 1 : k \in Submitted(rows)}
       /\ \A k \in Submitted(rows) :
            l.events[told[k] + 1].fact.ordinal = rows[k].ordinal
Told(l, rows, w) ==
  \E told \in [DOMAIN rows -> DOMAIN l.events] : TellsAll(l, rows, w, told)

\* Events of other types change nothing.
LEMMA AppendOtherTold ==
  ASSUME NEW l \in Ledgers, NEW f \in Facts, NEW l2, NEW rows, NEW w \in BOOLEAN,
         Grown(l, f, l2), Told(l, rows, w),
         f.type \notin ResponseTypes \cup {"activity.completed"}
  PROVE  Told(l2, rows, w)
<1>1. PICK told : TellsAll(l, rows, w, told)
  BY DEF Told
<1>2. l.events \in Seq(EventRows)
  BY DEF Ledgers
<1>3. ASSUME NEW types, f.type \notin types
      PROVE  EventsOf(l2, types) = EventsOf(l, types)
  BY <1>2, <1>3 DEF EventsOf, Grown
<1>4. EventsOf(l2, ResponseTypes) = EventsOf(l, ResponseTypes)
  BY <1>3
<1>5. EventsOf(l2, {"activity.completed"}) = EventsOf(l, {"activity.completed"})
  BY <1>3
<1>6. told \in [DOMAIN rows -> DOMAIN l2.events]
  BY <1>1, <1>2 DEF TellsAll, Grown
<1>7. \A k \in DOMAIN rows : told[k] \in DOMAIN l.events /\ l2.events[told[k]] = l.events[told[k]]
  BY <1>1 DEF TellsAll, Grown
<1>8. Tells(l2, rows, told)
  BY <1>1, <1>4, <1>7 DEF TellsAll, Tells
<1>9. ASSUME w, NEW k \in Submitted(rows)
      PROVE  l2.events[told[k] + 1] = l.events[told[k] + 1]
  <2>1. told[k] + 1 \in EventsOf(l, {"activity.completed"})
    BY <1>1, <1>9 DEF TellsAll
  <2> QED
    BY <2>1 DEF EventsOf, Grown
<1>10. TellsAll(l2, rows, w, told)
  BY <1>1, <1>5, <1>6, <1>8, <1>9 DEF TellsAll
<1> QED
  BY <1>6, <1>10 DEF Told

\* The last event becomes the one of a new last revision.
Later(told, m, n) == [k \in 1 .. m + 1 |-> IF k = m + 1 THEN n + 1 ELSE told[k]]

\* The event of a new revision is told at the end of the chain.
LEMMA AppendTells ==
  ASSUME NEW l \in Ledgers, NEW f \in Facts, NEW l2, NEW rows \in Seq(Revisions),
         NEW x \in Revisions, NEW told, Grown(l, f, l2), TellsAll(l, rows, FALSE, told),
         f.type = ResponseType(x), f.type \in ResponseTypes, f.ordinal = x.ordinal
  PROVE  TellsAll(l2, Append(rows, x), FALSE, Later(told, Len(rows), Len(l.events)))
<1> DEFINE m == Len(rows)  n == Len(l.events)  rows2 == Append(rows, x)
           told2 == Later(told, m, n)
<1>2. /\ l.events \in Seq(EventRows) /\ n \in Nat /\ m \in Nat
      /\ DOMAIN l.events = 1 .. n
      /\ DOMAIN rows = 1 .. m /\ DOMAIN rows2 = 1 .. m + 1
      /\ rows2[m + 1] = x
      /\ \A k \in 1 .. m : rows2[k] = rows[k]
  BY DEF Ledgers
<1>3. /\ DOMAIN l2.events = 1 .. n + 1
      /\ \A k \in 1 .. n : l2.events[k] = l.events[k]
      /\ l2.events[n + 1].fact = f
  BY <1>2 DEF Grown
<1>4. /\ \A k \in 1 .. m : told[k] \in 1 .. n
      /\ \A j, k \in 1 .. m : j < k => told[j] < told[k]
      /\ EventsOf(l, ResponseTypes) = {told[k] : k \in 1 .. m}
      /\ \A k \in 1 .. m : /\ l.events[told[k]].fact.type = ResponseType(rows[k])
                           /\ l.events[told[k]].fact.ordinal = rows[k].ordinal
  BY <1>2 DEF TellsAll, Tells
<1>5. told2 \in [DOMAIN rows2 -> DOMAIN l2.events]
  BY <1>2, <1>3, <1>4 DEF Later
<1>6. /\ told2[m + 1] = n + 1
      /\ \A k \in 1 .. m : told2[k] = told[k]
  BY <1>2 DEF Later
<1> HIDE DEF told2, rows2, m, n
<1>7. ASSUME NEW j \in 1 .. m + 1, NEW k \in 1 .. m + 1, j < k
      PROVE  told2[j] < told2[k]
  <2>1. j \in 1 .. m
    BY <1>2, <1>7
  <2>2. CASE k = m + 1
    BY <1>2, <1>4, <1>6, <2>1, <2>2
  <2>3. CASE k \in 1 .. m
    BY <1>4, <1>6, <1>7, <2>1, <2>3
  <2> QED
    BY <1>2, <2>2, <2>3
<1>8. EventsOf(l2, ResponseTypes) = {told2[k] : k \in 1 .. m + 1}
  <2>1. EventsOf(l2, ResponseTypes) = EventsOf(l, ResponseTypes) \cup {n + 1}
    BY <1>2, <1>3 DEF EventsOf
  <2>2. 1 .. m + 1 = (1 .. m) \cup {m + 1}
    BY <1>2
  <2>3. {told2[k] : k \in 1 .. m + 1} = {told[k] : k \in 1 .. m} \cup {n + 1}
    BY <1>6, <2>2
  <2> QED
    BY <1>4, <2>1, <2>3
<1>9. ASSUME NEW k \in 1 .. m + 1
      PROVE  /\ l2.events[told2[k]].fact.type = ResponseType(rows2[k])
             /\ l2.events[told2[k]].fact.ordinal = rows2[k].ordinal
  <2>1. CASE k = m + 1
    BY <1>2, <1>3, <1>6, <2>1
  <2>2. CASE k \in 1 .. m
    BY <1>2, <1>3, <1>4, <1>6, <2>2
  <2> QED
    BY <1>2, <2>1, <2>2
<1>10. Tells(l2, rows2, told2)
  BY <1>2, <1>7, <1>8, <1>9 DEF Tells
<1> QED
  BY <1>5, <1>10 DEF TellsAll, rows2, told2, m, n

\* A saved draft, or the single response of a terms request, is told by the last event.
LEMMA AppendAnswerTold ==
  ASSUME NEW l \in Ledgers, NEW f \in Facts, NEW l2, NEW rows \in Seq(Revisions),
         NEW x \in Revisions, NEW w \in BOOLEAN, Grown(l, f, l2), Told(l, rows, w),
         f.type = ResponseType(x), f.type \in ResponseTypes, f.ordinal = x.ordinal,
         w => x.state = "saved"
  PROVE  Told(l2, Append(rows, x), w)
<1> DEFINE m == Len(rows)  n == Len(l.events)  rows2 == Append(rows, x)
<1>1. PICK told : TellsAll(l, rows, w, told)
  BY DEF Told
<1> DEFINE told2 == Later(told, m, n)
<1>2. TellsAll(l, rows, FALSE, told)
  BY <1>1 DEF TellsAll
<1>3. TellsAll(l2, rows2, FALSE, told2)
  BY <1>2, AppendTells
<1>4. ASSUME w
      PROVE  /\ EventsOf(l2, {"activity.completed"}) = {told2[k] + 1 : k \in Submitted(rows2)}
             /\ \A k \in Submitted(rows2) :
                  l2.events[told2[k] + 1].fact.ordinal = rows2[k].ordinal
  <2>1. /\ l.events \in Seq(EventRows) /\ n \in Nat /\ m \in Nat
        /\ DOMAIN l.events = 1 .. n
        /\ DOMAIN rows = 1 .. m /\ DOMAIN rows2 = 1 .. m + 1
        /\ rows2[m + 1] = x
        /\ \A k \in 1 .. m : rows2[k] = rows[k]
    BY DEF Ledgers
  <2>2. /\ DOMAIN l2.events = 1 .. n + 1
        /\ \A k \in 1 .. n : l2.events[k] = l.events[k]
        /\ l2.events[n + 1].fact = f
    BY <2>1 DEF Grown
  <2>3. \A k \in 1 .. m : told2[k] = told[k]
    BY <2>1 DEF Later
  <2> HIDE DEF told2, rows2, m, n
  <2>4. Submitted(rows2) = Submitted(rows)
    BY <1>4, <2>1 DEF Submitted
  <2>5. \A k \in Submitted(rows) : k \in 1 .. m /\ told2[k] = told[k] /\ rows2[k] = rows[k]
    BY <2>1, <2>3 DEF Submitted
  <2>6. EventsOf(l2, {"activity.completed"}) = EventsOf(l, {"activity.completed"})
    BY <2>1, <2>2 DEF EventsOf, ResponseTypes
  <2>7. EventsOf(l, {"activity.completed"}) = {told[k] + 1 : k \in Submitted(rows)}
    BY <1>1, <1>4 DEF TellsAll
  <2>8. \A k \in Submitted(rows) :
          /\ l.events[told[k] + 1].fact.ordinal = rows[k].ordinal
          /\ told[k] + 1 \in 1 .. n
    BY <1>1, <1>4, <2>1, <2>7 DEF TellsAll, EventsOf
  <2> QED
    BY <2>2, <2>4, <2>5, <2>6, <2>7, <2>8
<1>5. TellsAll(l2, rows2, w, told2)
  BY <1>3, <1>4 DEF TellsAll
<1> QED
  BY <1>5 DEF Told, TellsAll

\* A submission is told by the last event but one, its completion by the last.
LEMMA AppendSubmittedTold ==
  ASSUME NEW l \in Ledgers, NEW f \in Facts, NEW l2, NEW g \in Facts, NEW l3,
         NEW rows \in Seq(Revisions), NEW x \in Revisions,
         Grown(l, f, l2), Grown(l2, g, l3), Told(l, rows, TRUE),
         x.state = "submitted", x.ordinal # 0,
         f.type = "activity.response.submitted", f.ordinal = x.ordinal,
         g.type = "activity.completed", g.ordinal = x.ordinal
  PROVE  Told(l3, Append(rows, x), TRUE)
<1> DEFINE m == Len(rows)  n == Len(l.events)  rows2 == Append(rows, x)
<1>1. PICK told : TellsAll(l, rows, TRUE, told)
  BY DEF Told
<1> DEFINE told2 == Later(told, m, n)
<1>2. TellsAll(l, rows, FALSE, told)
  BY <1>1 DEF TellsAll
<1>3. f.type = ResponseType(x) /\ f.type \in ResponseTypes
  BY DEF ResponseType, ResponseTypes
<1>4. TellsAll(l2, rows2, FALSE, told2)
  BY <1>2, <1>3, AppendTells
<1>5. /\ l.events \in Seq(EventRows) /\ n \in Nat /\ m \in Nat
      /\ DOMAIN l.events = 1 .. n
      /\ DOMAIN rows = 1 .. m /\ DOMAIN rows2 = 1 .. m + 1
      /\ rows2[m + 1] = x
      /\ \A k \in 1 .. m : rows2[k] = rows[k]
  BY DEF Ledgers
<1>6. /\ DOMAIN l2.events = 1 .. n + 1
      /\ \A k \in 1 .. n : l2.events[k] = l.events[k]
      /\ l2.events[n + 1].fact = f
      /\ DOMAIN l3.events = 1 .. n + 2
      /\ \A k \in 1 .. n + 1 : l3.events[k] = l2.events[k]
      /\ l3.events[n + 2].fact = g
  <2>1. /\ DOMAIN l2.events = 1 .. n + 1
        /\ \A k \in 1 .. n : l2.events[k] = l.events[k]
        /\ l2.events[n + 1].fact = f
        /\ Len(l2.events) = n + 1
    BY <1>5 DEF Grown
  <2>2. n + 1 + 1 = n + 2
    BY <1>5
  <2> HIDE DEF n
  <2> QED
    BY <2>1, <2>2 DEF Grown
<1>7. told2[m + 1] = n + 1 /\ \A k \in 1 .. m : told2[k] = told[k]
  BY <1>5 DEF Later
<1> HIDE DEF told2, rows2, m, n
<1>8. EventsOf(l3, ResponseTypes) = EventsOf(l2, ResponseTypes)
  BY <1>5, <1>6 DEF EventsOf, ResponseTypes
<1>9. told2 \in [DOMAIN rows2 -> DOMAIN l3.events] /\ Tells(l3, rows2, told2)
  <2>1. told2 \in [DOMAIN rows2 -> DOMAIN l2.events] /\ Tells(l2, rows2, told2)
    BY <1>4 DEF TellsAll
  <2>2. told2 \in [DOMAIN rows2 -> DOMAIN l3.events]
    BY <1>5, <1>6, <2>1
  <2>3. \A k \in DOMAIN rows2 : l3.events[told2[k]] = l2.events[told2[k]]
    BY <1>6, <2>1
  <2> QED
    BY <1>8, <2>1, <2>2, <2>3 DEF Tells
<1>10. Submitted(rows2) = Submitted(rows) \cup {m + 1}
  BY <1>5 DEF Submitted
<1>11. EventsOf(l3, {"activity.completed"}) = EventsOf(l, {"activity.completed"}) \cup {n + 2}
  BY <1>5, <1>6 DEF EventsOf
<1>12. EventsOf(l, {"activity.completed"}) = {told[k] + 1 : k \in Submitted(rows)}
  BY <1>1 DEF TellsAll
<1>13. \A k \in Submitted(rows) :
         /\ k \in 1 .. m /\ told2[k] = told[k] /\ rows2[k] = rows[k]
         /\ l.events[told[k] + 1].fact.ordinal = rows[k].ordinal
         /\ told[k] + 1 \in 1 .. n
  BY <1>1, <1>5, <1>7, <1>12 DEF TellsAll, EventsOf, Submitted
<1>14. EventsOf(l3, {"activity.completed"}) = {told2[k] + 1 : k \in Submitted(rows2)}
  BY <1>5, <1>7, <1>10, <1>11, <1>12, <1>13
<1>15. \A k \in Submitted(rows2) : l3.events[told2[k] + 1].fact.ordinal = rows2[k].ordinal
  <2>1. l3.events[told2[m + 1] + 1].fact.ordinal = rows2[m + 1].ordinal
    <3>1. told2[m + 1] + 1 = n + 2
      BY <1>5, <1>7
    <3> QED
      BY <1>5, <1>6, <3>1
  <2>2. ASSUME NEW k \in Submitted(rows)
        PROVE  l3.events[told2[k] + 1].fact.ordinal = rows2[k].ordinal
    <3>1. /\ told2[k] + 1 \in 1 .. n /\ told2[k] + 1 \in 1 .. n + 1
          /\ l.events[told2[k] + 1].fact.ordinal = rows2[k].ordinal
      BY <1>5, <1>13
    <3> QED
      BY <1>6, <3>1
  <2> QED
    BY <1>10, <2>1, <2>2
<1>16. TellsAll(l3, rows2, TRUE, told2)
  BY <1>9, <1>14, <1>15 DEF TellsAll
<1> QED
  BY <1>16 DEF Told, TellsAll, rows2

-----------------------------------------------------------------------------
(* The path through the activities.                                        *)

\* The activity rows a path with these submissions has left.
Walked(w, rows, here) ==
  [n \in Ordinals(w) |->
     IF \E k \in Submitted(rows) : rows[k].ordinal = n THEN "completed"
     ELSE IF n = here THEN "available"
     ELSE IF here = 0 \/ n < here THEN "skipped" ELSE "pending"]

Path(w, rows, act, done) ==
  LET here == Reached(w, rows, Len(rows) + 1)
  IN  /\ \A k \in DOMAIN rows : rows[k].ordinal = Reached(w, rows, k)
      /\ act = Walked(w, rows, here)
      /\ here = 0 <=> done

\* A new record is at its first activity.
LEMMA PathStarts ==
  ASSUME NEW w \in Workflows
  PROVE  Path(w, <<>>, NewActivities(w), FALSE)
<1>1. Reached(w, <<>>, Len(<<>>) + 1) = 1
  BY DEF Reached
<1>2. NewActivities(w) = Walked(w, <<>>, 1)
  <2>1. Submitted(<<>>) = {}
    BY DEF Submitted
  <2>2. Ordinals(w) \subseteq Nat \ {0}
    BY PlanAssumption DEF Ordinals
  <2> QED
    BY <2>1, <2>2 DEF NewActivities, Walked
<1> QED
  BY <1>1, <1>2 DEF Path

\* Where a branch leads.
LEMMA BranchForward ==
  ASSUME NEW w \in Workflows, NEW n \in Ordinals(w), NEW o
  PROVE  \/ evaluateNextActivity(w, n, o) = 0
         \/ /\ evaluateNextActivity(w, n, o) \in Ordinals(w)
            /\ evaluateNextActivity(w, n, o) > n
<1> DEFINE a == Plan[w][n]
           Forward == {0} \cup {d \in Ordinals(w) : d > n}
<1>1. /\ \A x \in DOMAIN a.cases : a.cases[x] \in Forward
      /\ a.default \in Forward \cup {None}
      /\ Len(Plan[w]) \in Nat
  BY PlanAssumption
<1>2. evaluateNextActivity(w, n, o) =
        IF o \in DOMAIN a.cases THEN a.cases[o]
        ELSE IF a.default # None THEN a.default
        ELSE IF n < Len(Plan[w]) THEN n + 1 ELSE 0
  BY DEF evaluateNextActivity
<1> HIDE DEF a
<1>3. n < Len(Plan[w]) => n + 1 \in Ordinals(w) /\ n + 1 > n
  BY <1>1 DEF Ordinals
<1> QED
  BY <1>1, <1>2, <1>3

\* The available activity is the one that was reached.
LEMMA CurrentIsReached ==
  ASSUME NEW w \in Workflows, NEW rows \in Seq(Revisions), NEW act, NEW done,
         Path(w, rows, act, done), NEW n \in DOMAIN act, act[n] = "available"
  PROVE  n = Reached(w, rows, Len(rows) + 1) /\ n \in Ordinals(w)
BY DEF Path, Walked

\* A draft of the activity that was reached leaves the path as it is.
LEMMA PathSaved ==
  ASSUME NEW w \in Workflows, NEW rows \in Seq(Revisions), NEW act, NEW done,
         NEW x \in Revisions, Path(w, rows, act, done),
         x.state = "saved", x.ordinal = Reached(w, rows, Len(rows) + 1)
  PROVE  Path(w, Append(rows, x), act, done)
<1> DEFINE m == Len(rows)  rows2 == Append(rows, x)
<1>1. /\ m \in Nat /\ DOMAIN rows = 1 .. m
      /\ DOMAIN rows2 = 1 .. m + 1 /\ Len(rows2) = m + 1
      /\ rows2[m + 1] = x
      /\ \A k \in 1 .. m : rows2[k] = rows[k]
  OBVIOUS
<1> HIDE DEF m, rows2
<1>2. ASSUME NEW k \in 1 .. m + 1
      PROVE  Reached(w, rows2, k) = Reached(w, rows, k)
  <2>1. k = 1 \/ k - 1 \in 1 .. m
    BY <1>1
  <2> QED
    BY <1>1, <2>1 DEF Reached
<1>3. Reached(w, rows2, m + 1 + 1) = Reached(w, rows, m + 1)
  <2>1. m + 1 + 1 # 1 /\ m + 1 + 1 - 1 = m + 1
    BY <1>1
  <2> QED
    BY <1>1, <2>1 DEF Reached, m
<1>4. ASSUME NEW k \in DOMAIN rows2
      PROVE  rows2[k].ordinal = Reached(w, rows2, k)
  <2>1. CASE k = m + 1
    BY <1>1, <1>2, <2>1 DEF m
  <2>2. CASE k \in 1 .. m
    BY <1>1, <1>2, <2>2 DEF Path
  <2> QED
    BY <1>1, <2>1, <2>2
<1>5. Walked(w, rows2, Reached(w, rows, m + 1)) = Walked(w, rows, Reached(w, rows, m + 1))
  <2>1. Submitted(rows2) = Submitted(rows) /\ Submitted(rows) \subseteq 1 .. m
    BY <1>1 DEF Submitted
  <2> QED
    BY <1>1, <2>1 DEF Walked
<1> QED
  BY <1>1, <1>3, <1>4, <1>5 DEF Path, m, rows2

\* A submission completes the activity that was reached, skips what the branch
\* bypasses, and makes its target available or ends the path.
LEMMA PathSubmitted ==
  ASSUME NEW w \in Workflows, NEW rows \in Seq(Revisions), NEW act, NEW x \in Revisions,
         Path(w, rows, act, FALSE), NEW n \in Ordinals(w), NEW target,
         n = Reached(w, rows, Len(rows) + 1),
         x.state = "submitted", x.ordinal = n,
         target = evaluateNextActivity(w, n, x.outcome),
         target # 0 => act[target] = "pending"
  PROVE  Path(w, Append(rows, x), AdvanceActivities(act, n, target), target = 0)
<1> DEFINE m == Len(rows)  rows2 == Append(rows, x)
<1>1. /\ m \in Nat /\ DOMAIN rows = 1 .. m
      /\ DOMAIN rows2 = 1 .. m + 1 /\ Len(rows2) = m + 1
      /\ rows2[m + 1] = x
      /\ \A k \in 1 .. m : rows2[k] = rows[k]
  OBVIOUS
<1> HIDE DEF m, rows2
<1>2. ASSUME NEW k \in 1 .. m + 1
      PROVE  Reached(w, rows2, k) = Reached(w, rows, k)
  <2>1. k = 1 \/ k - 1 \in 1 .. m
    BY <1>1
  <2> QED
    BY <1>1, <2>1 DEF Reached
<1>3. Reached(w, rows2, m + 1 + 1) = target
  <2>1. m + 1 + 1 # 1 /\ m + 1 + 1 - 1 = m + 1
    BY <1>1
  <2> QED
    BY <1>1, <2>1 DEF Reached
<1>4. ASSUME NEW k \in DOMAIN rows2
      PROVE  rows2[k].ordinal = Reached(w, rows2, k)
  <2>1. CASE k = m + 1
    BY <1>1, <1>2, <2>1 DEF m
  <2>2. CASE k \in 1 .. m
    BY <1>1, <1>2, <2>2 DEF Path
  <2> QED
    BY <1>1, <2>1, <2>2
<1>5. AdvanceActivities(act, n, target) = Walked(w, rows2, target)
  <2>1. act = Walked(w, rows, n)
    BY DEF Path
  <2>2. /\ Submitted(rows2) = Submitted(rows) \cup {m + 1}
        /\ Submitted(rows) \subseteq 1 .. m
    BY <1>1 DEF Submitted
  <2>3. \A k : (\E j \in Submitted(rows2) : rows2[j].ordinal = k)
                 <=> k = n \/ \E j \in Submitted(rows) : rows[j].ordinal = k
    BY <1>1, <2>2
  <2>4. target = 0 \/ (target \in Ordinals(w) /\ target > n)
    BY BranchForward
  <2>5. DOMAIN act = Ordinals(w) /\ Ordinals(w) \subseteq Nat \ {0} /\ n # 0
    BY <2>1, PlanAssumption DEF Walked, Ordinals
  <2>6. ASSUME NEW k \in Ordinals(w)
        PROVE  AdvanceActivities(act, n, target)[k] = Walked(w, rows2, target)[k]
    <3>1. AdvanceActivities(act, n, target)[k] =
            IF k = n THEN "completed"
            ELSE IF act[k] # "pending" THEN act[k]
            ELSE IF k = target THEN "available"
            ELSE IF target = 0 \/ k < target THEN "skipped" ELSE "pending"
      BY <2>5 DEF AdvanceActivities
    <3>2. act[k] = IF \E j \in Submitted(rows) : rows[j].ordinal = k THEN "completed"
                   ELSE IF k = n THEN "available"
                   ELSE IF n = 0 \/ k < n THEN "skipped" ELSE "pending"
      BY <2>1 DEF Walked
    <3>3. Walked(w, rows2, target)[k] =
            IF k = n \/ \E j \in Submitted(rows) : rows[j].ordinal = k THEN "completed"
            ELSE IF k = target THEN "available"
            ELSE IF target = 0 \/ k < target THEN "skipped" ELSE "pending"
      BY <2>3 DEF Walked
    <3>4. target # 0 => ~\E j \in Submitted(rows) : rows[j].ordinal = target
      BY <2>1, <2>4 DEF Walked
    <3> QED
      BY <2>4, <2>5, <3>1, <3>2, <3>3, <3>4
  <2> QED
    BY <2>5, <2>6 DEF AdvanceActivities, Walked
<1> QED
  BY <1>1, <1>3, <1>4, <1>5 DEF Path, rows2

-----------------------------------------------------------------------------
(* Presentations.                                                          *)

\* Every access to a document has its event.
AccessTold(acc, l) ==
  \A a \in acc : \E k \in DOMAIN l.events :
    l.events[k].fact = Fact("document.presented", a[1], a[2])

\* A completed review was preceded by a presentation.
Reviewed(w, act, l, p) ==
  \A n \in Ordinals(w) :
    Plan[w][n].type = "document_review" /\ act[n] = "completed" =>
      \E k, j \in DOMAIN l.events :
        /\ k < j
        /\ l.events[k].fact = Fact("document.presented", n, p)
        /\ l.events[j].fact = Fact("activity.response.submitted", n, p)

\* Every document access keeps its event, and a new one is the appended event.
LEMMA AppendAccessTold ==
  ASSUME NEW l \in Ledgers, NEW f \in Facts, NEW l2, NEW acc, NEW acc2,
         Grown(l, f, l2), AccessTold(acc, l),
         \A a \in acc2 : a \in acc \/ f = Fact("document.presented", a[1], a[2])
  PROVE  AccessTold(acc2, l2)
<1> SUFFICES ASSUME NEW a \in acc2
             PROVE  \E k \in DOMAIN l2.events :
                      l2.events[k].fact = Fact("document.presented", a[1], a[2])
  BY DEF AccessTold
<1>1. l.events \in Seq(EventRows) /\ Len(l.events) \in Nat /\ DOMAIN l.events = 1 .. Len(l.events)
  BY DEF Ledgers
<1>2. CASE a \in acc
  <2>1. PICK k \in DOMAIN l.events : l.events[k].fact = Fact("document.presented", a[1], a[2])
    BY <1>2 DEF AccessTold
  <2> QED
    BY <1>1, <2>1 DEF Grown
<1>3. CASE f = Fact("document.presented", a[1], a[2])
  <2>1. Len(l.events) + 1 \in DOMAIN l2.events /\ l2.events[Len(l.events) + 1].fact = f
    BY <1>1 DEF Grown
  <2> QED
    BY <1>3, <2>1
<1> QED
  BY <1>2, <1>3

\* The review of a document is still in the chain after an append.
LEMMA AppendReviewed ==
  ASSUME NEW l \in Ledgers, NEW f \in Facts, NEW l2, NEW w, NEW act, NEW p,
         Grown(l, f, l2), Reviewed(w, act, l, p)
  PROVE  Reviewed(w, act, l2, p)
<1>1. l.events \in Seq(EventRows) /\ Len(l.events) \in Nat /\ DOMAIN l.events = 1 .. Len(l.events)
  BY DEF Ledgers
<1>2. /\ \A k \in DOMAIN l.events : k \in DOMAIN l2.events
      /\ \A k \in DOMAIN l.events : l2.events[k] = l.events[k]
  BY <1>1 DEF Grown
<1> QED
  BY <1>2 DEF Reviewed

\* No review was completed before the record was bound.
LEMMA BindingReviewed ==
  ASSUME NEW l, NEW w, NEW act, NEW p, Bound(l, None), Reviewed(w, act, l, None)
  PROVE  Reviewed(w, act, l, p)
<1> SUFFICES ASSUME NEW n \in Ordinals(w), Plan[w][n].type = "document_review",
                    act[n] = "completed"
             PROVE  FALSE
  BY DEF Reviewed
<1>1. PICK j \in DOMAIN l.events : l.events[j].fact = Fact("activity.response.submitted", n, None)
  BY DEF Reviewed
<1>2. l.events[j].fact.type \in ParticipantTypes
  BY <1>1 DEF Fact, ParticipantTypes, AssuranceTypes
<1> QED
  BY <1>2, PlanAssumption DEF Bound

\* A submission by someone the document was presented to.
LEMMA SubmittedReviewed ==
  ASSUME NEW l \in Ledgers, NEW l2 \in Ledgers, NEW l3, NEW w \in Workflows,
         NEW act, NEW p, NEW n \in Ordinals(w), NEW target, NEW f \in Facts, NEW g \in Facts,
         f = Fact("activity.response.submitted", n, p), Grown(l, f, l2),
         Grown(l2, g, l3), Reviewed(w, act, l, p), DOMAIN act = Ordinals(w),
         Plan[w][n].type = "document_review" =>
           \E k \in DOMAIN l.events : l.events[k].fact = Fact("document.presented", n, p)
  PROVE  Reviewed(w, AdvanceActivities(act, n, target), l3, p)
<1>1. /\ l.events \in Seq(EventRows) /\ Len(l.events) \in Nat /\ DOMAIN l.events = 1 .. Len(l.events)
      /\ l2.events \in Seq(EventRows)
  BY DEF Ledgers
<1>2. Reviewed(w, act, l2, p)
  BY AppendReviewed
<1>3. Reviewed(w, act, l3, p)
  BY <1>2, AppendReviewed
<1>4. /\ \A k \in DOMAIN l.events : k \in DOMAIN l3.events /\ l3.events[k] = l.events[k]
      /\ Len(l.events) + 1 \in DOMAIN l3.events
      /\ l3.events[Len(l.events) + 1].fact = Fact("activity.response.submitted", n, p)
  <2>1. /\ \A k \in DOMAIN l.events : k \in DOMAIN l2.events /\ l2.events[k] = l.events[k]
        /\ Len(l.events) + 1 \in DOMAIN l2.events
        /\ l2.events[Len(l.events) + 1].fact = Fact("activity.response.submitted", n, p)
    BY <1>1 DEF Grown
  <2>2. \A k \in DOMAIN l2.events : k \in DOMAIN l3.events /\ l3.events[k] = l2.events[k]
    BY <1>1 DEF Grown
  <2> QED
    BY <2>1, <2>2
<1> SUFFICES ASSUME NEW i \in Ordinals(w), Plan[w][i].type = "document_review",
                    AdvanceActivities(act, n, target)[i] = "completed"
             PROVE  \E k, j \in DOMAIN l3.events :
                      /\ k < j
                      /\ l3.events[k].fact = Fact("document.presented", i, p)
                      /\ l3.events[j].fact = Fact("activity.response.submitted", i, p)
  BY DEF Reviewed
<1>5. CASE i = n
  <2>1. PICK k \in DOMAIN l.events : l.events[k].fact = Fact("document.presented", n, p)
    BY <1>5
  <2>2. k < Len(l.events) + 1
    BY <1>1
  <2> QED
    BY <1>4, <1>5, <2>1, <2>2
<1>6. CASE i # n
  <2>1. act[i] = "completed"
    BY <1>6 DEF AdvanceActivities
  <2> QED
    BY <1>3, <2>1 DEF Reviewed
<1> QED
  BY <1>5, <1>6

-----------------------------------------------------------------------------
(* One record.                                                             *)

Agree(st, a) ==
  /\ a.status = st
  /\ st \in {"none", "scheduled", "issued"} => a.principal = None
  /\ st \in {"in_progress", "completed"} => a.principal # None

Live(ints, p, st) ==
  \A i \in DOMAIN ints :
    ints[i].open => i = Len(ints) /\ ints[i].principal = p /\ st # "completed"

Sealed(done, w, p, rows, l, m) ==
  /\ done <=> m.sealed
  /\ m.sealed => verifyEvidenceRecord(w, l, m, p) /\ m = buildWorkflowManifest(l, rows)

\* A record that was not issued has no rows.
Blank(r) ==
  /\ activity[r] = <<>> /\ interactions[r] = <<>> /\ answers[r] = <<>> /\ accesses[r] = {}
  /\ ledger[r] = NoLedger /\ manifest[r] = NoManifest /\ reissuedFrom[r] = None

Whole(r) ==
  /\ Agree(Status(r), assignment[r])
  /\ ~Issued(r) => Blank(r)
  /\ Issued(r) =>
       /\ request[r].workflow \in Workflows
       /\ DOMAIN activity[r] = Ordinals(request[r].workflow)
       /\ Linked(ledger[r])
  /\ Bound(ledger[r], assignment[r].principal)
  /\ Live(interactions[r], assignment[r].principal, Status(r))
  /\ HasWorkflow(r) => Path(request[r].workflow, answers[r], activity[r], Status(r) = "completed")
  /\ Told(ledger[r], answers[r], HasWorkflow(r))
  /\ Sealed(Status(r) = "completed", request[r].workflow, assignment[r].principal, answers[r],
            ledger[r], manifest[r])
  /\ Status(r) # "completed" => AccessTold(accesses[r], ledger[r])
  /\ HasWorkflow(r) =>
       Reviewed(request[r].workflow, activity[r], ledger[r], assignment[r].principal)

RecordInv == TypeOK /\ (\A r \in Records : Whole(r)) /\ ReissueLinks

\* The row types of a record.
LEMMA RowsTyped ==
  ASSUME TypeOK, NEW r \in Records
  PROVE  /\ request[r] \in RequestRows /\ assignment[r] \in AssignmentRows
         /\ activity[r] \in ActivityRows /\ interactions[r] \in Seq(Interactions)
         /\ answers[r] \in Seq(Revisions) /\ accesses[r] \subseteq Nat \X Principals
         /\ ledger[r] \in Ledgers /\ manifest[r] \in Manifests
BY DEF TypeOK, RequestRows, AssignmentRows, ActivityRows, Interactions, Revisions, Ledgers, Manifests

\* The invariant says what the run checks.
LEMMA WholeIsSound ==
  ASSUME RecordInv
  PROVE  RecordSound /\ SealedRecordVerifies
<1> USE DEF RecordInv, Whole
<1>1. StatusesAgree
  BY DEF StatusesAgree, Agree
<1>2. ChainLinked
  BY LinkedVerifies DEF ChainLinked, Linked
<1>3. ProgressFollowsBranches
  BY DEF ProgressFollowsBranches, Path, Walked
<1>4. OneLiveInteraction
  BY DEF OneLiveInteraction, Live
<1>5. ChainTellsAnswers
  <2> SUFFICES ASSUME NEW r \in Records
               PROVE  \E told \in [DOMAIN answers[r] -> EventsOf(ledger[r], ResponseTypes)] :
                        TellsAll(ledger[r], answers[r], HasWorkflow(r), told)
    BY DEF ChainTellsAnswers, TellsAll
  <2>1. PICK told \in [DOMAIN answers[r] -> DOMAIN ledger[r].events] :
          TellsAll(ledger[r], answers[r], HasWorkflow(r), told)
    BY DEF Told
  <2>2. told \in [DOMAIN answers[r] -> EventsOf(ledger[r], ResponseTypes)]
    BY <2>1 DEF TellsAll, Tells
  <2> QED
    BY <2>1, <2>2
<1>6. PresentedBeforeReview
  BY DEF PresentedBeforeReview, Reviewed
<1>7. OnlyParticipantActs
  BY DEF OnlyParticipantActs, Bound
<1>8. SealedRecordVerifies
  BY DEF SealedRecordVerifies, Sealed
<1> QED
  BY <1>1, <1>2, <1>3, <1>4, <1>5, <1>6, <1>7, <1>8 DEF RecordSound

-----------------------------------------------------------------------------
(* What the handlers do to a record.                                       *)

Same(r) ==
  /\ request'[r] = request[r] /\ assignment'[r] = assignment[r] /\ activity'[r] = activity[r]
  /\ interactions'[r] = interactions[r] /\ answers'[r] = answers[r]
  /\ accesses'[r] = accesses[r] /\ ledger'[r] = ledger[r] /\ manifest'[r] = manifest[r]
  /\ reissuedFrom'[r] = reissuedFrom[r]

\* A record no row of which changes stays whole.
LEMMA SameWhole ==
  ASSUME NEW r \in Records, Whole(r), Same(r)
  PROVE  Whole(r)'
BY DEF Whole, Same, Blank, Issued, HasWorkflow, Status

\* The rows an append, or a step without one, may leave behind.
Carried(r) ==
  /\ Issued(r) /\ Issued(r)'
  /\ request'[r].workflow = request[r].workflow
  /\ assignment'[r].principal = assignment[r].principal \/ assignment[r].principal = None
  /\ Agree(Status(r)', assignment'[r])
  /\ Live(interactions'[r], assignment'[r].principal, Status(r)')
  /\ activity'[r] = activity[r] /\ answers'[r] = answers[r] /\ manifest'[r] = manifest[r]

\* A step without an event: time passes, or the session is opened again.
LEMMA QuietWhole ==
  ASSUME NEW r \in Records, Whole(r), Carried(r), ledger'[r] = ledger[r],
         (Status(r)' = "completed") <=> (Status(r) = "completed"),
         Status(r) # "completed" => accesses'[r] = accesses[r]
  PROVE  Whole(r)'
<1> DEFINE p == assignment[r].principal  p2 == assignment'[r].principal
<1>1. HasWorkflow(r)' = HasWorkflow(r)
  BY DEF Carried, HasWorkflow, Issued
<1>2. Bound(ledger'[r], p2)
  BY BindingBounds DEF Whole, Carried
<1>3. HasWorkflow(r) => Reviewed(request[r].workflow, activity[r], ledger[r], p2)
  BY BindingReviewed DEF Whole, Carried
<1>4. Status(r) = "completed" => p2 = p
  BY DEF Whole, Agree, Carried
<1>5. Sealed(Status(r) = "completed", request[r].workflow, p2, answers[r], ledger[r], manifest[r])
  BY <1>4 DEF Whole, Sealed
<1>6. Issued(r)' =>
       /\ request'[r].workflow \in Workflows
       /\ DOMAIN activity'[r] = Ordinals(request'[r].workflow)
       /\ Linked(ledger'[r])
  BY DEF Whole, Carried
<1>7. HasWorkflow(r)' => Path(request'[r].workflow, answers'[r], activity'[r], Status(r)' = "completed")
  BY <1>1 DEF Whole, Carried
<1>8. Told(ledger'[r], answers'[r], HasWorkflow(r)')
  BY <1>1 DEF Whole, Carried
<1>9. Sealed(Status(r)' = "completed", request'[r].workflow, p2, answers'[r], ledger'[r], manifest'[r])
  BY <1>5 DEF Carried
<1>10. Status(r)' # "completed" => AccessTold(accesses'[r], ledger'[r])
  BY DEF Whole
<1>11. HasWorkflow(r)' => Reviewed(request'[r].workflow, activity'[r], ledger'[r], p2)
  BY <1>1, <1>3 DEF Carried
<1> HIDE DEF p2
<1> QED
  BY <1>2, <1>6, <1>7, <1>8, <1>9, <1>10, <1>11 DEF Whole, Carried, p2

\* A step with one event that tells no response.
LEMMA AppendWhole ==
  ASSUME TypeOK, NEW r \in Records, Whole(r), Carried(r),
         NEW f \in Facts, ledger'[r] = appendEvent(ledger[r], f),
         f.type \notin ResponseTypes \cup {"activity.completed"},
         f.type \in ParticipantTypes =>
           f.actor = assignment'[r].principal /\ assignment'[r].principal \in Principals,
         Status(r) # "completed", Status(r)' # "completed",
         \A a \in accesses'[r] : a \in accesses[r] \/ f = Fact("document.presented", a[1], a[2])
  PROVE  Whole(r)'
<1> DEFINE p == assignment[r].principal  p2 == assignment'[r].principal
<1>1. HasWorkflow(r)' = HasWorkflow(r)
  BY DEF Carried, HasWorkflow, Issued
<1>2. ledger[r] \in Ledgers /\ Grown(ledger[r], f, ledger'[r])
  BY RowsTyped, AppendGrows
<1>3. Bound(ledger'[r], p2)
  <2>1. Bound(ledger[r], p2)
    BY BindingBounds DEF Whole, Carried
  <2> QED
    BY <1>2, <2>1, AppendBound
<1>4. HasWorkflow(r) => Reviewed(request[r].workflow, activity[r], ledger'[r], p2)
  <2>1. HasWorkflow(r) => Reviewed(request[r].workflow, activity[r], ledger[r], p2)
    BY BindingReviewed DEF Whole, Carried
  <2> QED
    BY <1>2, <2>1, AppendReviewed
<1>5. Linked(ledger'[r])
  BY <1>2, AppendLinks DEF Whole, Carried
<1>6. Told(ledger'[r], answers[r], HasWorkflow(r))
  <2>1. HasWorkflow(r) \in BOOLEAN
    BY DEF HasWorkflow, Issued
  <2>2. Told(ledger[r], answers[r], HasWorkflow(r))
    BY DEF Whole
  <2> QED
    BY <1>2, <2>1, <2>2, AppendOtherTold
<1>7. AccessTold(accesses'[r], ledger'[r])
  <2>1. AccessTold(accesses[r], ledger[r])
    BY DEF Whole
  <2> QED
    BY <1>2, <2>1, AppendAccessTold
<1>8. Sealed(Status(r)' = "completed", request'[r].workflow, p2, answers'[r], ledger'[r], manifest'[r])
  BY DEF Whole, Sealed, Carried
<1>9. HasWorkflow(r)' => Path(request'[r].workflow, answers'[r], activity'[r], Status(r)' = "completed")
  <2>1. HasWorkflow(r) => Path(request[r].workflow, answers[r], activity[r], FALSE)
    BY DEF Whole
  <2> QED
    BY <1>1, <2>1 DEF Carried
<1>10. Told(ledger'[r], answers'[r], HasWorkflow(r)')
  BY <1>1, <1>6 DEF Carried
<1>11. HasWorkflow(r)' => Reviewed(request'[r].workflow, activity'[r], ledger'[r], p2)
  BY <1>1, <1>4 DEF Carried
<1>12. /\ request'[r].workflow \in Workflows
       /\ DOMAIN activity'[r] = Ordinals(request'[r].workflow)
  BY DEF Whole, Carried
<1> HIDE DEF p2
<1> QED
  BY <1>3, <1>5, <1>7, <1>8, <1>9, <1>10, <1>11, <1>12 DEF Whole, Carried, p2

\* A record is issued.
LEMMA IssuedWhole ==
  ASSUME NEW r \in Records, Whole(r), ~Issued(r), NEW w \in Workflows,
         NEW st \in {"scheduled", "issued"}, NEW f \in Facts,
         f.type \in {"request.scheduled", "request.issued"},
         request'[r] = NewRequest(w, st), assignment'[r] = [assignment[r] EXCEPT !.status = st],
         assignment[r] \in AssignmentRows,
         activity'[r] = NewActivities(w), ledger'[r] = appendEvent(NoLedger, f),
         interactions'[r] = interactions[r], answers'[r] = answers[r],
         accesses'[r] = accesses[r], manifest'[r] = manifest[r]
  PROVE  Whole(r)'
<1>1. /\ interactions'[r] = <<>> /\ answers'[r] = <<>> /\ accesses'[r] = {}
      /\ manifest'[r] = NoManifest /\ ledger[r] = NoLedger
      /\ assignment[r].principal = None
  BY DEF Whole, Blank, Agree, Issued
<1>2. NoLedger \in Ledgers
  BY DEF NoLedger, Ledgers, GENESIS_HASH, Hashes
<1>3. Grown(NoLedger, f, ledger'[r])
  BY <1>2, AppendGrows
<1>4. /\ Status(r)' = st /\ request'[r].workflow = w
      /\ assignment'[r].status = st /\ assignment'[r].principal = None
  BY <1>1 DEF NewRequest, Status, AssignmentRows
<1>5. Linked(ledger'[r])
  BY <1>2, AppendLinks
<1>6. Bound(ledger'[r], None)
  <2>1. Bound(NoLedger, None)
    BY DEF Bound, NoLedger
  <2>2. f.type \notin ParticipantTypes
    BY DEF ParticipantTypes, AssuranceTypes
  <2> QED
    BY <1>2, <1>3, <2>1, <2>2, AppendBound
<1>7. Told(ledger'[r], <<>>, HasWorkflow(r)')
  <2>1. TellsAll(NoLedger, <<>>, HasWorkflow(r)', <<>>)
    BY DEF TellsAll, Tells, EventsOf, NoLedger, Submitted
  <2>2. HasWorkflow(r)' \in BOOLEAN
    BY DEF HasWorkflow, Issued
  <2>3. f.type \notin ResponseTypes \cup {"activity.completed"}
    BY DEF ResponseTypes
  <2>4. Told(NoLedger, <<>>, HasWorkflow(r)')
    BY <2>1 DEF Told, TellsAll
  <2> QED
    BY <1>2, <1>3, <2>2, <2>3, <2>4, AppendOtherTold
<1>8. Path(w, <<>>, NewActivities(w), FALSE)
  BY PathStarts
<1>9. Reviewed(w, NewActivities(w), ledger'[r], None)
  BY DEF Reviewed, NewActivities
<1>10. DOMAIN NewActivities(w) = Ordinals(w)
  BY DEF NewActivities
<1>11. Agree(Status(r)', assignment'[r])
  BY <1>4 DEF Agree
<1>12. Live(interactions'[r], assignment'[r].principal, Status(r)')
  BY <1>1 DEF Live
<1>13. Sealed(Status(r)' = "completed", request'[r].workflow, assignment'[r].principal,
              answers'[r], ledger'[r], manifest'[r])
  BY <1>1, <1>4 DEF Sealed, NoManifest
<1>14. AccessTold(accesses'[r], ledger'[r])
  BY <1>1 DEF AccessTold
<1>15. Issued(r)'
  BY <1>4 DEF Issued
<1> QED
  BY <1>1, <1>4, <1>5, <1>6, <1>7, <1>8, <1>9, <1>10, <1>11, <1>12, <1>13, <1>14, <1>15
  DEF Whole

\* A fact of these parts is a fact.
LEMMA FactTyped ==
  ASSUME NEW type \in Types, NEW n \in Nat, NEW actor \in Actors
  PROVE  /\ Fact(type, n, actor) \in Facts
         /\ Fact(type, n, actor).type = type
         /\ Fact(type, n, actor).ordinal = n
         /\ Fact(type, n, actor).actor = actor
BY DEF Fact, Facts

\* The handlers find the activity that was reached.
LEMMA CurrentFound ==
  ASSUME TypeOK, NEW r \in Records, Whole(r), Issued(r), HasCurrentActivity(r)
  PROVE  /\ currentActivity(r) \in Ordinals(request[r].workflow)
         /\ currentActivity(r) \in Nat \ {0}
         /\ activity[r][currentActivity(r)] = "available"
         /\ currentActivity(r) = Reached(request[r].workflow, answers[r], Len(answers[r]) + 1)
         /\ HasWorkflow(r)
         /\ Status(r) # "completed"
<1> DEFINE w == request[r].workflow  here == Reached(w, answers[r], Len(answers[r]) + 1)
<1>1. /\ w \in Workflows /\ DOMAIN activity[r] = Ordinals(w)
      /\ DOMAIN Plan[w] = Ordinals(w) /\ Ordinals(w) \subseteq Nat \ {0}
      /\ answers[r] \in Seq(Revisions)
  BY RowsTyped, PlanAssumption DEF Whole, Ordinals
<1>2. PICK m \in Ordinals(w) : activity[r][m] = "available"
  BY <1>1 DEF HasCurrentActivity
<1>3. HasWorkflow(r)
  BY <1>1, <1>2 DEF HasWorkflow
<1>4. Path(w, answers[r], activity[r], Status(r) = "completed")
  BY <1>3 DEF Whole
<1>5. \A k \in Ordinals(w) : activity[r][k] = "available" => k = here
  BY <1>1, <1>4, CurrentIsReached
<1>6. \A k \in 1 .. m - 1 : k \in Ordinals(w) /\ k # m
  BY <1>1, PlanAssumption DEF Ordinals
<1>7. \A k \in 1 .. m - 1 : activity[r][k] # "available"
  BY <1>2, <1>5, <1>6
<1>8. currentActivity(r) \in DOMAIN activity[r] /\ activity[r][currentActivity(r)] = "available"
  BY <1>1, <1>2, <1>7 DEF currentActivity
<1>9. currentActivity(r) = here /\ here \in Ordinals(w)
  BY <1>1, <1>5, <1>8
<1>10. here # 0 /\ Status(r) # "completed"
  BY <1>1, <1>4, <1>9 DEF Path
<1> QED
  BY <1>1, <1>3, <1>8, <1>9, <1>10

\* Who may respond is the principal the record is bound to.
LEMMA ResponderBound ==
  ASSUME NEW r \in Records, Whole(r), NEW i, NEW p \in Principals, NEW c, MayRespond(r, i, p, c)
  PROVE  /\ Issued(r) /\ Status(r) \notin {"completed", "revoked", "expired"}
         /\ assignment[r].principal = p
BY DEF Whole, MayRespond, Agree, Live, OpenInteraction, Issued, assertAssignmentAvailable

\* A draft saved by saveActivityResponse leaves its record whole.
LEMMA SavedWhole ==
  ASSUME TypeOK, NEW r \in Records, Whole(r), NEW i \in DOMAIN interactions[r],
         NEW p \in Principals, NEW c \in Commands, NEW o \in Outcomes,
         saveActivityResponse(r, i, p, c, o)
  PROVE  Whole(r)'
<1> DEFINE n == currentActivity(r)  w == request[r].workflow
           x == Answer(n, c, "saved", o, i)
           f == Fact("activity.response.saved", n, p)
<1>1. MayRespond(r, i, p, c) /\ HasCurrentActivity(r)
  BY DEF saveActivityResponse
<1>2. Issued(r) /\ assignment[r].principal = p
  BY <1>1, ResponderBound
<1>3. /\ n \in Ordinals(w) /\ n \in Nat \ {0} /\ HasWorkflow(r)
      /\ n = Reached(w, answers[r], Len(answers[r]) + 1)
      /\ Status(r) # "completed"
  BY <1>1, <1>2, CurrentFound
<1>4. /\ answers[r] \in Seq(Revisions) /\ ledger[r] \in Ledgers /\ w \in Workflows
      /\ interactions[r] \in Seq(Interactions)
  BY <1>2, RowsTyped DEF Whole
<1>5. /\ answers'[r] = Append(answers[r], x)
      /\ ledger'[r] = appendEvent(ledger[r], f)
      /\ request'[r] = request[r] /\ assignment'[r] = assignment[r]
      /\ activity'[r] = activity[r] /\ interactions'[r] = interactions[r]
      /\ accesses'[r] = accesses[r] /\ manifest'[r] = manifest[r]
  BY DEF saveActivityResponse, TypeOK
<1>6. /\ x \in Revisions /\ x.state = "saved" /\ x.ordinal = n
  BY <1>3, <1>4 DEF Answer, Revisions
<1>7. /\ f \in Facts /\ f.type = "activity.response.saved" /\ f.ordinal = n /\ f.actor = p
  BY <1>3, FactTyped DEF Types, Actors
<1>8. /\ f.type = ResponseType(x) /\ f.type \in ResponseTypes
  BY <1>6, <1>7 DEF ResponseType, ResponseTypes
<1> HIDE DEF n, x, f
<1>9. Grown(ledger[r], f, ledger'[r])
  BY <1>4, <1>5, <1>7, AppendGrows
<1>10. Told(ledger'[r], answers'[r], TRUE)
  BY <1>3, <1>4, <1>5, <1>6, <1>7, <1>8, <1>9, AppendAnswerTold DEF Whole
<1>11. Path(w, answers'[r], activity[r], Status(r) = "completed")
  BY <1>3, <1>4, <1>5, <1>6, PathSaved DEF Whole
<1>12. Bound(ledger'[r], p)
  BY <1>2, <1>4, <1>7, <1>9, AppendBound DEF Whole
<1>13. Linked(ledger'[r])
  BY <1>2, <1>4, <1>5, <1>7, AppendLinks DEF Whole
<1>14. AccessTold(accesses[r], ledger'[r])
  BY <1>3, <1>4, <1>7, <1>9, AppendAccessTold DEF Whole
<1>15. Reviewed(w, activity[r], ledger'[r], p)
  BY <1>2, <1>3, <1>4, <1>7, <1>9, AppendReviewed DEF Whole
<1>16. Sealed(FALSE, w, p, answers'[r], ledger'[r], manifest[r])
  BY <1>3 DEF Whole, Sealed
<1>17. HasWorkflow(r)' = TRUE /\ Issued(r)' /\ Status(r)' = Status(r)
  BY <1>3, <1>5 DEF HasWorkflow, Issued, Status
<1> QED
  BY <1>2, <1>3, <1>5, <1>10, <1>11, <1>12, <1>13, <1>14, <1>15, <1>16, <1>17 DEF Whole

\* What completes a record is verified, and closes it.
LEMMA SealWhole ==
  ASSUME TypeOK, NEW r \in Records, Whole(r), NEW i \in DOMAIN interactions[r],
         NEW p \in Principals, NEW l, NEW rows, assignment[r].principal = p,
         Issued(r), Status(r) # "completed", CompleteAndSeal(r, i, p, l, rows), OpenInteraction(r, i, p)
  PROVE  /\ request'[r].workflow = request[r].workflow
         /\ Status(r)' = "completed" /\ Issued(r)'
         /\ HasWorkflow(r)' = HasWorkflow(r)
         /\ assignment'[r].principal = p
         /\ Agree(Status(r)', assignment'[r])
         /\ Live(interactions'[r], p, "completed")
         /\ Sealed(TRUE, request[r].workflow, p, rows, l, manifest'[r])
<1>1. /\ request[r] \in RequestRows /\ assignment[r] \in AssignmentRows
      /\ interactions[r] \in Seq(Interactions)
  BY RowsTyped
<1>2. /\ request'[r] = [request[r] EXCEPT !.status = "completed"]
      /\ assignment'[r] = [assignment[r] EXCEPT !.status = "completed"]
      /\ interactions'[r] = [interactions[r] EXCEPT ![i].open = FALSE]
      /\ manifest'[r] = buildWorkflowManifest(l, rows)
      /\ verifyEvidenceRecord(request[r].workflow, l, manifest'[r], p)
  BY DEF CompleteAndSeal, TypeOK
<1>3. /\ request'[r].workflow = request[r].workflow /\ request'[r].status = "completed"
      /\ assignment'[r].status = "completed" /\ assignment'[r].principal = p
  BY <1>1, <1>2 DEF RequestRows, AssignmentRows
<1>4. Live(interactions'[r], p, "completed")
  <2> SUFFICES ASSUME NEW k \in DOMAIN interactions'[r], interactions'[r][k].open
               PROVE  FALSE
    BY DEF Live
  <2>1. k \in DOMAIN interactions[r]
    BY <1>2
  <2>2. CASE k = i
    <3>1. interactions[r][i] \in Interactions
      BY <1>1
    <3> QED
      BY <1>2, <2>2, <3>1 DEF Interactions
  <2>3. CASE k # i
    <3>1. interactions[r][k].open
      BY <1>2, <2>1, <2>3
    <3> QED
      BY <2>1, <2>3, <3>1 DEF Whole, Live, OpenInteraction
  <2> QED
    BY <2>2, <2>3
<1>5. manifest'[r].sealed
  BY <1>2 DEF buildWorkflowManifest
<1>6. Sealed(TRUE, request[r].workflow, p, rows, l, manifest'[r])
  BY <1>2, <1>5 DEF Sealed
<1>7. Agree(Status(r)', assignment'[r])
  BY <1>3, PlanAssumption DEF Agree, Status
<1> QED
  BY <1>3, <1>4, <1>6, <1>7 DEF HasWorkflow, Issued, Status

\* The one answer of a record without a workflow leaves it whole.
LEMMA RespondWhole ==
  ASSUME TypeOK, NEW r \in Records, Whole(r), NEW i \in DOMAIN interactions[r],
         NEW p \in Principals, NEW c \in Commands, NEW o \in Outcomes,
         respond(r, i, p, c, o)
  PROVE  Whole(r)'
<1> DEFINE w == request[r].workflow
           x == Answer(0, c, "submitted", o, i)
           f == Fact("participant.responded", 0, p)
           l == appendEvent(ledger[r], f)
           rows == Append(answers[r], x)
<1>1. /\ MayRespond(r, i, p, c) /\ Plan[w] = <<>> /\ CompleteAndSeal(r, i, p, l, rows)
      /\ OpenInteraction(r, i, p)
  BY DEF respond, MayRespond
<1>2. Issued(r) /\ Status(r) # "completed" /\ assignment[r].principal = p
  BY <1>1, ResponderBound
<1>3. /\ answers[r] \in Seq(Revisions) /\ ledger[r] \in Ledgers /\ w \in Workflows
      /\ interactions[r] \in Seq(Interactions)
  BY <1>2, RowsTyped DEF Whole
<1>4. /\ answers'[r] = rows /\ ledger'[r] = l
      /\ activity'[r] = activity[r] /\ accesses'[r] = accesses[r]
  BY DEF respond, TypeOK
<1>5. x \in Revisions /\ x.state = "submitted" /\ x.ordinal = 0
  BY <1>3 DEF Answer, Revisions
<1>6. /\ f \in Facts /\ f.type = "participant.responded" /\ f.ordinal = 0 /\ f.actor = p
  BY FactTyped DEF Types, Actors
<1>7. f.type = ResponseType(x) /\ f.type \in ResponseTypes
  BY <1>5, <1>6 DEF ResponseType, ResponseTypes
<1> HIDE DEF x, f, rows, l
<1>8. Grown(ledger[r], f, l)
  BY <1>3, <1>6, AppendGrows DEF l
<1>9. ~HasWorkflow(r)
  BY <1>1 DEF HasWorkflow
<1>10. Told(l, rows, FALSE)
  <2>1. Told(ledger[r], answers[r], FALSE)
    <3>1. HasWorkflow(r) = FALSE
      BY <1>9 DEF HasWorkflow, Issued
    <3> QED
      BY <3>1 DEF Whole
  <2> QED
    BY <1>3, <1>5, <1>6, <1>7, <1>8, <2>1, AppendAnswerTold DEF rows
<1>11. Bound(l, p)
  BY <1>2, <1>3, <1>6, <1>8, AppendBound DEF Whole
<1>12. Linked(l)
  BY <1>2, <1>3, <1>6, AppendLinks DEF Whole, l
<1>13. /\ request'[r].workflow = w /\ Status(r)' = "completed" /\ Issued(r)'
       /\ HasWorkflow(r)' = HasWorkflow(r)
       /\ assignment'[r].principal = p /\ Agree(Status(r)', assignment'[r])
       /\ Live(interactions'[r], p, "completed")
       /\ Sealed(TRUE, w, p, rows, l, manifest'[r])
  BY <1>1, <1>2, SealWhole
<1>14. HasWorkflow(r)' = FALSE
  BY <1>9, <1>13 DEF HasWorkflow, Issued
<1> QED
  BY <1>2, <1>4, <1>10, <1>11, <1>12, <1>13, <1>14 DEF Whole

\* A submission, with the activities its branch skips, opens and completes, leaves its
\* record whole.
LEMMA SubmitWhole ==
  ASSUME TypeOK, NEW r \in Records, Whole(r), NEW i \in DOMAIN interactions[r],
         NEW p \in Principals, NEW c \in Commands, NEW o \in Outcomes, NEW method,
         submitActivityResponse(r, i, p, c, o, method)
  PROVE  Whole(r)'
<1> DEFINE w == request[r].workflow
           n == currentActivity(r)
           target == evaluateNextActivity(w, n, o)
           x == Answer(n, c, "submitted", o, i)
           f == Fact("activity.response.submitted", n, p)
           g == Fact("activity.completed", n, p)
           l == appendEvent(ledger[r], f)
           l2 == appendEvent(l, g)
           rows == Append(answers[r], x)
<1>1. /\ MayRespond(r, i, p, c) /\ HasCurrentActivity(r) /\ OpenInteraction(r, i, p)
      /\ assertSubmittable(r, n, p, method)
      /\ target # 0 => activity[r][target] = "pending"
      /\ \/ target = 0 /\ CompleteAndSeal(r, i, p, l2, rows)
         \/ target # 0 /\ UNCHANGED <<request, assignment, interactions, manifest>>
  BY DEF submitActivityResponse, MayRespond
<1>2. Issued(r) /\ Status(r) # "completed" /\ assignment[r].principal = p
  BY <1>1, ResponderBound
<1>3. /\ n \in Ordinals(w) /\ n \in Nat \ {0} /\ HasWorkflow(r)
      /\ n = Reached(w, answers[r], Len(answers[r]) + 1)
  BY <1>1, <1>2, CurrentFound
<1>4. /\ answers[r] \in Seq(Revisions) /\ ledger[r] \in Ledgers /\ w \in Workflows
      /\ interactions[r] \in Seq(Interactions) /\ accesses[r] \subseteq Nat \X Principals
      /\ DOMAIN activity[r] = Ordinals(w)
  BY <1>2, RowsTyped DEF Whole
<1>5. /\ answers'[r] = rows /\ ledger'[r] = l2
      /\ activity'[r] = AdvanceActivities(activity[r], n, target)
      /\ accesses'[r] = accesses[r]
  BY DEF submitActivityResponse, TypeOK
<1>6. x \in Revisions /\ x.state = "submitted" /\ x.ordinal = n /\ x.outcome = o
  BY <1>3, <1>4 DEF Answer, Revisions
<1>7. /\ f \in Facts /\ f.type = "activity.response.submitted" /\ f.ordinal = n /\ f.actor = p
  BY <1>3, FactTyped DEF Types, Actors
<1>8. /\ g \in Facts /\ g.type = "activity.completed" /\ g.ordinal = n /\ g.actor = p
  BY <1>3, FactTyped DEF Types, Actors
<1> DEFINE presented == Plan[w][n].type = "document_review" =>
             \E k \in DOMAIN ledger[r].events :
               ledger[r].events[k].fact = Fact("document.presented", n, p)
<1>9. presented
  <2> SUFFICES ASSUME Plan[w][n].type = "document_review"
               PROVE  \E k \in DOMAIN ledger[r].events :
                        ledger[r].events[k].fact = Fact("document.presented", n, p)
    OBVIOUS
  <2>1. <<n, p>> \in accesses[r]
    BY <1>1 DEF assertSubmittable, Present
  <2>2. AccessTold(accesses[r], ledger[r])
    BY <1>2 DEF Whole
  <2>3. <<n, p>>[1] = n /\ <<n, p>>[2] = p
    OBVIOUS
  <2> HIDE DEF n
  <2> QED
    BY <2>1, <2>2, <2>3 DEF AccessTold
<1>10. Grown(ledger[r], f, l) /\ l \in Ledgers
  BY <1>4, <1>7, AppendGrows DEF Grown
<1>11. Grown(l, g, l2) /\ l2 \in Ledgers
  BY <1>8, <1>10, AppendGrows DEF Grown
<1>12. Reviewed(w, activity'[r], l2, p)
  <2>1. Reviewed(w, activity[r], ledger[r], p)
    BY <1>2, <1>3 DEF Whole
  <2>2. f = Fact("activity.response.submitted", n, p)
    OBVIOUS
  <2> HIDE DEF n, target, f, g, l, l2
  <2>3. Reviewed(w, AdvanceActivities(activity[r], n, target), l2, p)
    BY <1>3, <1>4, <1>7, <1>8, <1>9, <1>10, <1>11, <2>1, <2>2, SubmittedReviewed
  <2> QED
    BY <1>5, <2>3
<1>13. Linked(l) /\ Linked(l2)
  BY <1>2, <1>4, <1>7, <1>8, <1>10, AppendLinks DEF Whole
<1>14. Path(w, rows, activity'[r], target = 0)
  <2>1. Path(w, answers[r], activity[r], FALSE)
    BY <1>2, <1>3 DEF Whole
  <2> HIDE DEF n, target, rows, x
  <2>2. target = evaluateNextActivity(w, n, x.outcome)
    BY <1>6 DEF target
  <2>3. target # 0 => activity[r][target] = "pending"
    BY <1>1
  <2>4. Path(w, Append(answers[r], x), AdvanceActivities(activity[r], n, target), target = 0)
    BY <1>3, <1>4, <1>6, <2>1, <2>2, <2>3, PathSubmitted
  <2> QED
    BY <1>5, <2>4 DEF rows
<1> HIDE DEF x, f, g, l, l2, rows, n, target
<1>15. Told(l2, rows, TRUE)
  <2>1. Told(ledger[r], answers[r], TRUE)
    BY <1>3 DEF Whole, HasWorkflow, Issued
  <2> QED
    BY <1>3, <1>4, <1>6, <1>7, <1>8, <1>10, <1>11, <2>1, AppendSubmittedTold DEF rows
<1>16. Bound(l2, p)
  <2>1. Bound(l, p)
    BY <1>2, <1>4, <1>7, <1>10, AppendBound DEF Whole
  <2> QED
    BY <1>8, <1>10, <1>11, <2>1, AppendBound
<1>17. DOMAIN activity'[r] = Ordinals(w)
  BY <1>4, <1>5 DEF AdvanceActivities
<1>18. CASE target = 0
  <2>1. /\ request'[r].workflow = w /\ Status(r)' = "completed" /\ Issued(r)'
        /\ HasWorkflow(r)' = HasWorkflow(r)
        /\ assignment'[r].principal = p /\ Agree(Status(r)', assignment'[r])
        /\ Live(interactions'[r], p, "completed")
        /\ Sealed(TRUE, w, p, rows, l2, manifest'[r])
    BY <1>1, <1>2, <1>18, SealWhole
  <2>2. HasWorkflow(r)' = TRUE
    BY <1>3, <2>1 DEF HasWorkflow, Issued
  <2> QED
    BY <1>4, <1>5, <1>12, <1>13, <1>14, <1>15, <1>16, <1>17, <1>18, <2>1, <2>2 DEF Whole
<1>19. CASE target # 0
  <2>1. /\ request'[r] = request[r] /\ assignment'[r] = assignment[r]
        /\ interactions'[r] = interactions[r] /\ manifest'[r] = manifest[r]
    BY <1>1, <1>19
  <2>2. HasWorkflow(r)' = TRUE /\ Issued(r)' /\ Status(r)' = Status(r)
    BY <1>3, <2>1 DEF HasWorkflow, Issued, Status
  <2>3. Sealed(FALSE, w, p, rows, l2, manifest'[r])
    BY <1>2, <2>1 DEF Whole, Sealed
  <2>4. AccessTold(accesses'[r], l2)
    <3>1. AccessTold(accesses[r], ledger[r])
      BY <1>2 DEF Whole
    <3>2. AccessTold(accesses[r], l)
      BY <1>4, <1>7, <1>10, <3>1, AppendAccessTold
    <3> QED
      BY <1>5, <1>8, <1>10, <1>11, <3>2, AppendAccessTold
  <2> QED
    BY <1>2, <1>4, <1>5, <1>12, <1>13, <1>14, <1>15, <1>16, <1>17, <1>19, <2>1, <2>2, <2>3, <2>4
    DEF Whole
<1> QED
  BY <1>18, <1>19

-----------------------------------------------------------------------------
(* Every step keeps the rows typed.                                        *)

Typed ==
  /\ request \in [Records -> RequestRows] /\ assignment \in [Records -> AssignmentRows]
  /\ activity \in [Records -> ActivityRows] /\ interactions \in [Records -> Seq(Interactions)]
  /\ answers \in [Records -> Seq(Revisions)]
  /\ accesses \in [Records -> SUBSET (Nat \X Principals)] /\ playback \in [Records -> SUBSET Nat]
  /\ ledger \in [Records -> Ledgers] /\ manifest \in [Records -> Manifests]
  /\ commands \in SUBSET Commands /\ reissuedFrom \in [Records -> Records \cup {None}]

\* TypeOK with the row types named.
LEMMA TypedIsTypeOK == TypeOK <=> Typed
BY DEF TypeOK, Typed, RequestRows, AssignmentRows, ActivityRows, Interactions, Revisions,
       Ledgers, Manifests

\* buildWorkflowManifest gives a manifest.
LEMMA ManifestTyped ==
  ASSUME NEW l \in Ledgers, NEW rows \in Seq(Revisions)
  PROVE  buildWorkflowManifest(l, rows) \in Manifests
<1>1. /\ l.events \in Seq(EventRows) /\ Len(l.events) \in Nat
      /\ DOMAIN l.events = 1 .. Len(l.events)
  BY DEF Ledgers
<1>2. ASSUME NEW e \in EventRows
      PROVE  EventHash(e) \in Hashes
  BY DEF EventHash, EventRows, Hashes
<1>3. \A k \in DOMAIN l.events : l.events[k] \in EventRows
  BY <1>1
<1>4. [k \in DOMAIN l.events |-> EventHash(l.events[k])] \in Seq(Hashes)
  BY <1>1, <1>2, <1>3
<1>5. \A k \in Submitted(rows) : rows[k] \in Revisions
  BY DEF Submitted
<1>6. {<<rows[k].ordinal, rows[k].outcome>> : k \in Submitted(rows)} \in SUBSET (Nat \X Outcomes)
  BY <1>5 DEF Revisions
<1> QED
  BY <1>4, <1>6 DEF buildWorkflowManifest, Manifests

\* The rows of a new request are rows.
LEMMA NewRowsTyped ==
  ASSUME NEW w \in Workflows, NEW st \in {"scheduled", "issued"}
  PROVE  NewRequest(w, st) \in RequestRows /\ NewActivities(w) \in ActivityRows
<1>1. NewRequest(w, st) \in RequestRows
  BY DEF NewRequest, RequestRows, Statuses, Open
<1>2. Len(Plan[w]) \in Nat
  BY PlanAssumption
<1>3. NewActivities(w) \in ActivityRows
  BY <1>2 DEF NewActivities, ActivityRows, Ordinals
<1> QED
  BY <1>1, <1>3

\* An append gives a ledger.
LEMMA AppendTyped ==
  ASSUME NEW l \in Ledgers, NEW f \in Facts
  PROVE  appendEvent(l, f) \in Ledgers
BY AppendGrows DEF Grown

\* The chain of a record not issued yet is a ledger.
LEMMA NoLedgerTyped == NoLedger \in Ledgers
BY DEF NoLedger, Ledgers, GENESIS_HASH, Hashes

\* An issue keeps the types.
LEMMA IssueTyped ==
  ASSUME TypeOK, NEW r \in Records, NEW w \in Workflows, NEW scheduled \in BOOLEAN,
         issueRequest(r, w, scheduled)
  PROVE  TypeOK'
<1> DEFINE st == IF scheduled THEN "scheduled" ELSE "issued"
           f == Fact(IF scheduled THEN "request.scheduled" ELSE "request.issued", 0, "requester")
<1>1. Typed
  BY TypedIsTypeOK
<1>2. f \in Facts
  BY FactTyped DEF Types, Actors
<1>3. NewRequest(w, st) \in RequestRows /\ NewActivities(w) \in ActivityRows
  BY NewRowsTyped
<1>4. appendEvent(NoLedger, f) \in Ledgers
  BY <1>2, NoLedgerTyped, AppendTyped
<1>5. /\ request' = [request EXCEPT ![r] = NewRequest(w, st)]
      /\ assignment' = [assignment EXCEPT ![r].status = st]
      /\ activity' = [activity EXCEPT ![r] = NewActivities(w)]
      /\ ledger' = [ledger EXCEPT ![r] = appendEvent(NoLedger, f)]
      /\ UNCHANGED <<interactions, answers, accesses, playback, manifest, commands, reissuedFrom>>
      /\ st \in Statuses
  BY DEF issueRequest, Statuses, Open
<1> HIDE DEF st, f
<1>6. assignment' \in [Records -> AssignmentRows]
  BY <1>1, <1>5 DEF Typed, AssignmentRows
<1>7. Typed'
  BY <1>1, <1>3, <1>4, <1>5, <1>6 DEF Typed
<1> QED
  BY <1>7, TypedIsTypeOK, PTL

\* An opening keeps the types.
LEMMA OpenTyped ==
  ASSUME TypeOK, NEW r \in Records, NEW s \in Sessions, openAssignment(r, s)
  PROVE  TypeOK'
<1> DEFINE p == Owner[s]
           f == Fact("participant.opened", 0, p)
           row == [principal |-> p, session |-> s, open |-> TRUE]
<1>1. Typed
  BY TypedIsTypeOK
<1>2. p \in Principals /\ f \in Facts
  <2>1. p \in Principals
    BY PlanAssumption
  <2> QED
    BY <2>1, FactTyped DEF Types, Actors
<1> DEFINE binds == assignment[r].principal = None
           released(st) == IF Status(r) = "scheduled" THEN "issued" ELSE st
           next == IF binds /\ released(request[r].status) = "issued" THEN "in_progress"
                   ELSE released(request[r].status)
<1>r. /\ request[r] \in RequestRows /\ assignment[r] \in AssignmentRows
      /\ released(request[r].status) \in Statuses /\ next \in Statuses
      /\ released(assignment[r].status) \in Statuses
  BY <1>1 DEF Typed, RequestRows, AssignmentRows, Statuses, Open
<1>3. request' \in [Records -> RequestRows]
  <2>1. request' = [request EXCEPT ![r].status = next]
    BY <1>1 DEF openAssignment, Typed
  <2> HIDE DEF next, released
  <2> QED
    BY <1>1, <1>r, <2>1 DEF Typed, RequestRows
<1>4. assignment' \in [Records -> AssignmentRows]
  <2>1. assignment' = [assignment EXCEPT ![r] =
                         IF binds THEN [status |-> "in_progress", principal |-> p]
                         ELSE [assignment[r] EXCEPT !.status = released(assignment[r].status)]]
    BY DEF openAssignment
  <2>2. [status |-> "in_progress", principal |-> p] \in AssignmentRows
    BY <1>2 DEF AssignmentRows, Statuses, Open
  <2>3. [assignment[r] EXCEPT !.status = released(assignment[r].status)] \in AssignmentRows
    BY <1>r DEF AssignmentRows
  <2> HIDE DEF released, p
  <2> QED
    BY <1>1, <2>1, <2>2, <2>3 DEF Typed
<1>5. interactions' \in [Records -> Seq(Interactions)]
  <2>1. Superseded(r, p) \in Seq(Interactions)
    <3>1. interactions[r] \in Seq(Interactions)
      BY <1>1 DEF Typed
    <3>2. \A i \in DOMAIN interactions[r] : interactions[r][i] \in Interactions
      BY <3>1
    <3>3. ASSUME NEW x \in Interactions
          PROVE  [x EXCEPT !.open = x.open /\ x.principal # p] \in Interactions
      BY DEF Interactions
    <3>4. \A i \in DOMAIN interactions[r] : Superseded(r, p)[i] \in Interactions
      BY <3>2, <3>3 DEF Superseded
    <3>5. /\ DOMAIN Superseded(r, p) = 1 .. Len(interactions[r])
          /\ Len(interactions[r]) \in Nat
          /\ Superseded(r, p) = [i \in DOMAIN Superseded(r, p) |-> Superseded(r, p)[i]]
      BY <3>1 DEF Superseded
    <3> QED
      BY <3>4, <3>5
  <2>2. row \in Interactions
    BY <1>2 DEF Interactions
  <2>3. Append(Superseded(r, p), row) \in Seq(Interactions)
    BY <2>1, <2>2
  <2>4. \/ interactions' = interactions
        \/ interactions' = [interactions EXCEPT ![r] = Append(Superseded(r, p), row)]
    BY DEF openAssignment
  <2> HIDE DEF row, p
  <2> QED
    BY <1>1, <2>3, <2>4 DEF Typed
<1>6. ledger' \in [Records -> Ledgers]
  <2>1. ledger' = ledger \/ ledger' = [ledger EXCEPT ![r] = appendEvent(ledger[r], f)]
    BY DEF openAssignment
  <2>2. appendEvent(ledger[r], f) \in Ledgers
    BY <1>1, <1>2, AppendTyped DEF Typed
  <2> QED
    BY <1>1, <2>1, <2>2 DEF Typed
<1>7. UNCHANGED <<activity, answers, accesses, playback, manifest, commands, reissuedFrom>>
  BY DEF openAssignment
<1>8. Typed'
  BY <1>1, <1>3, <1>4, <1>5, <1>6, <1>7 DEF Typed
<1> QED
  BY <1>8, TypedIsTypeOK, PTL

\* A revision and its events are typed, and so is the manifest over them.
LEMMA AnswerTyped ==
  ASSUME Typed, NEW r \in Records, NEW n \in Nat, NEW c \in Commands,
         NEW st \in {"saved", "submitted"}, NEW o \in Outcomes, NEW i \in DOMAIN interactions[r]
  PROVE  Append(answers[r], Answer(n, c, st, o, i)) \in Seq(Revisions)
<1>1. i \in Nat
  BY DEF Typed
<1>2. Answer(n, c, st, o, i) \in Revisions
  BY <1>1 DEF Answer, Revisions
<1> QED
  BY <1>2 DEF Typed

\* A seal keeps the types.
LEMMA SealTyped ==
  ASSUME Typed, NEW r \in Records, NEW i, NEW p, NEW l \in Ledgers, NEW rows \in Seq(Revisions),
         i \in DOMAIN interactions[r], CompleteAndSeal(r, i, p, l, rows)
  PROVE  /\ request' \in [Records -> RequestRows] /\ assignment' \in [Records -> AssignmentRows]
         /\ interactions' \in [Records -> Seq(Interactions)]
         /\ manifest' \in [Records -> Manifests]
<1> DEFINE m == buildWorkflowManifest(l, rows)
<1>1. m \in Manifests
  BY ManifestTyped
<1>2. /\ interactions' = [interactions EXCEPT ![r][i].open = FALSE]
      /\ assignment' = [assignment EXCEPT ![r].status = "completed"]
      /\ request' = [request EXCEPT ![r].status = "completed"]
      /\ manifest' = [manifest EXCEPT ![r] = m]
  BY DEF CompleteAndSeal
<1> HIDE DEF m
<1>3. request' \in [Records -> RequestRows]
  BY <1>2 DEF Typed, RequestRows, Statuses, Closed
<1>4. assignment' \in [Records -> AssignmentRows]
  BY <1>2 DEF Typed, AssignmentRows, Statuses, Closed
<1>5. interactions' \in [Records -> Seq(Interactions)]
  <2>1. interactions[r] \in Seq(Interactions) /\ interactions[r][i] \in Interactions
    BY DEF Typed
  <2>2. [interactions[r][i] EXCEPT !.open = FALSE] \in Interactions
    BY <2>1 DEF Interactions
  <2>3. [interactions[r] EXCEPT ![i] = [interactions[r][i] EXCEPT !.open = FALSE]] \in Seq(Interactions)
    BY <2>1, <2>2
  <2>4. interactions' = [interactions EXCEPT ![r] =
            [interactions[r] EXCEPT ![i] = [interactions[r][i] EXCEPT !.open = FALSE]]]
    BY <1>2
  <2> QED
    BY <2>3, <2>4 DEF Typed
<1>6. manifest' \in [Records -> Manifests]
  BY <1>1, <1>2 DEF Typed
<1> QED
  BY <1>3, <1>4, <1>5, <1>6

\* An answer keeps the types.
LEMMA RespondTyped ==
  ASSUME TypeOK, NEW r \in Records, NEW i \in DOMAIN interactions[r],
         NEW p \in Principals, NEW c \in Commands, NEW o \in Outcomes, respond(r, i, p, c, o)
  PROVE  TypeOK'
<1> DEFINE f == Fact("participant.responded", 0, p)
           l == appendEvent(ledger[r], f)
           rows == Append(answers[r], Answer(0, c, "submitted", o, i))
<1>1. Typed
  BY TypedIsTypeOK
<1>2. l \in Ledgers /\ rows \in Seq(Revisions)
  <2>1. f \in Facts
    BY FactTyped DEF Types, Actors
  <2> QED
    BY <1>1, <2>1, AppendTyped, AnswerTyped DEF Typed
<1>3. /\ answers' = [answers EXCEPT ![r] = rows] /\ ledger' = [ledger EXCEPT ![r] = l]
      /\ CompleteAndSeal(r, i, p, l, rows)
      /\ UNCHANGED <<activity, accesses, playback, commands, reissuedFrom>>
  BY DEF respond
<1> HIDE DEF l, rows
<1>4. Typed'
  BY <1>1, <1>2, <1>3, SealTyped DEF Typed
<1> QED
  BY <1>4, TypedIsTypeOK, PTL

\* A draft keeps the types.
LEMMA SaveTyped ==
  ASSUME TypeOK, NEW r \in Records, Whole(r), NEW i \in DOMAIN interactions[r],
         NEW p \in Principals, NEW c \in Commands, NEW o \in Outcomes,
         saveActivityResponse(r, i, p, c, o)
  PROVE  TypeOK'
<1> DEFINE n == currentActivity(r)
           f == Fact("activity.response.saved", n, p)
           l == appendEvent(ledger[r], f)
           rows == Append(answers[r], Answer(n, c, "saved", o, i))
<1>1. Typed
  BY TypedIsTypeOK
<1>2. n \in Nat
  BY ResponderBound, CurrentFound DEF saveActivityResponse
<1>3. l \in Ledgers /\ rows \in Seq(Revisions)
  <2>1. f \in Facts
    BY <1>2, FactTyped DEF Types, Actors
  <2> QED
    BY <1>1, <1>2, <2>1, AppendTyped, AnswerTyped DEF Typed
<1>4. /\ answers' = [answers EXCEPT ![r] = rows] /\ ledger' = [ledger EXCEPT ![r] = l]
      /\ UNCHANGED <<request, assignment, activity, interactions, accesses, playback,
                     manifest, commands, reissuedFrom>>
  BY DEF saveActivityResponse
<1> HIDE DEF l, rows
<1>5. Typed'
  BY <1>1, <1>3, <1>4 DEF Typed
<1> QED
  BY <1>5, TypedIsTypeOK, PTL

\* A submission keeps the types.
LEMMA SubmitTyped ==
  ASSUME TypeOK, NEW r \in Records, Whole(r), NEW i \in DOMAIN interactions[r],
         NEW p \in Principals, NEW c \in Commands, NEW o \in Outcomes, NEW method,
         submitActivityResponse(r, i, p, c, o, method)
  PROVE  TypeOK'
<1> DEFINE n == currentActivity(r)
           target == evaluateNextActivity(request[r].workflow, n, o)
           f == Fact("activity.response.submitted", n, p)
           g == Fact("activity.completed", n, p)
           l == appendEvent(appendEvent(ledger[r], f), g)
           rows == Append(answers[r], Answer(n, c, "submitted", o, i))
           act == AdvanceActivities(activity[r], n, target)
<1>1. Typed
  BY TypedIsTypeOK
<1>2. n \in Nat
  BY ResponderBound, CurrentFound DEF submitActivityResponse
<1>3. l \in Ledgers /\ rows \in Seq(Revisions)
  <2>1. f \in Facts /\ g \in Facts
    BY <1>2, FactTyped DEF Types, Actors
  <2>2. appendEvent(ledger[r], f) \in Ledgers
    BY <1>1, <2>1, AppendTyped DEF Typed
  <2> QED
    BY <1>1, <1>2, <2>1, <2>2, AppendTyped, AnswerTyped
<1>4. act \in ActivityRows
  <2>1. activity[r] \in ActivityRows
    BY <1>1 DEF Typed
  <2> QED
    BY <2>1 DEF AdvanceActivities, ActivityRows
<1>5. /\ answers' = [answers EXCEPT ![r] = rows] /\ ledger' = [ledger EXCEPT ![r] = l]
      /\ activity' = [activity EXCEPT ![r] = act]
      /\ \/ CompleteAndSeal(r, i, p, l, rows)
         \/ UNCHANGED <<request, assignment, interactions, manifest>>
      /\ UNCHANGED <<accesses, playback, commands, reissuedFrom>>
  BY DEF submitActivityResponse
<1> HIDE DEF l, rows, act
<1>6. Typed'
  BY <1>1, <1>3, <1>4, <1>5, SealTyped DEF Typed
<1> QED
  BY <1>6, TypedIsTypeOK, PTL

\* An artifact access or a played segment keeps the types.
LEMMA ArtifactTyped ==
  ASSUME TypeOK, NEW r \in Records, NEW n \in DOMAIN activity[r], NEW p \in Principals,
         openParticipantArtifact(r, n, p)
  PROVE  TypeOK'
<1> DEFINE f == Fact("document.presented", n, p)
<1>1. Typed /\ n \in Nat
  BY TypedIsTypeOK DEF Typed, ActivityRows
<1>2. appendEvent(ledger[r], f) \in Ledgers
  <2>1. f \in Facts
    BY <1>1, FactTyped DEF Types, Actors
  <2> QED
    BY <1>1, <2>1, AppendTyped DEF Typed
<1>3. /\ accesses' = [accesses EXCEPT ![r] = accesses[r] \cup {<<n, p>>}]
      /\ ledger' = ledger \/ ledger' = [ledger EXCEPT ![r] = appendEvent(ledger[r], f)]
      /\ UNCHANGED <<request, assignment, activity, interactions, answers, playback,
                     manifest, commands, reissuedFrom>>
  BY DEF openParticipantArtifact
<1> HIDE DEF f
<1>4. accesses' \in [Records -> SUBSET (Nat \X Principals)]
  <2>1. accesses[r] \cup {<<n, p>>} \in SUBSET (Nat \X Principals)
    BY <1>1 DEF Typed
  <2> QED
    BY <1>1, <1>3, <2>1 DEF Typed
<1>5. ledger' \in [Records -> Ledgers]
  BY <1>1, <1>2, <1>3 DEF Typed
<1>6. Typed'
  BY <1>1, <1>3, <1>4, <1>5 DEF Typed
<1> QED
  BY <1>6, TypedIsTypeOK, PTL

\* A reported event or a closed interaction keeps the types.
LEMMA ReportTyped ==
  ASSUME TypeOK, NEW r \in Records, NEW n \in DOMAIN activity[r], NEW p \in Principals, NEW i,
         \/ \E met \in BOOLEAN : recordMediaEvents(r, n, i, p, met)
         \/ recordInteractionEvents(r, n, i, p)
         \/ recordParticipantContext(r, n, i, p)
  PROVE  TypeOK'
<1>1. Typed /\ n \in Nat
  BY TypedIsTypeOK DEF Typed, ActivityRows
<1>2. PICK type \in {"media.telemetry.recorded", "activity.interaction.recorded",
                     "participant.context.recorded"} :
        ledger' = [ledger EXCEPT ![r] = appendEvent(ledger[r], Fact(type, n, p))]
  BY DEF recordMediaEvents, recordInteractionEvents, recordParticipantContext
<1>3. appendEvent(ledger[r], Fact(type, n, p)) \in Ledgers
  <2>1. Fact(type, n, p) \in Facts
    BY <1>1, FactTyped DEF Types, Actors
  <2> QED
    BY <1>1, <2>1, AppendTyped DEF Typed
<1>4. playback' \in [Records -> SUBSET Nat]
  <2>1. PICK ns \in SUBSET Nat : playback' = [playback EXCEPT ![r] = ns] \/ playback' = playback
    <3>1. playback[r] \cup {n} \in SUBSET Nat /\ playback[r] \ {n} \in SUBSET Nat
      BY <1>1 DEF Typed
    <3> QED
      BY <3>1 DEF recordMediaEvents, recordInteractionEvents, recordParticipantContext
  <2> QED
    BY <1>1, <2>1 DEF Typed
<1>5. UNCHANGED <<request, assignment, activity, interactions, answers, accesses,
                  manifest, commands, reissuedFrom>>
  BY DEF recordMediaEvents, recordInteractionEvents, recordParticipantContext
<1>6. Typed'
  BY <1>1, <1>2, <1>3, <1>4, <1>5 DEF Typed
<1> QED
  BY <1>6, TypedIsTypeOK, PTL

\* A revocation, a reminder and a reissue keep the types.
LEMMA RequestingTyped ==
  ASSUME TypeOK, NEW r \in Records, \A x \in Records : Whole(x), Requesting(r)
  PROVE  TypeOK'
<1>1. Typed
  BY TypedIsTypeOK
<1>2. /\ Fact("request.revoked", 0, "requester") \in Facts
      /\ Fact("request.reissued", 0, "requester") \in Facts
      /\ Fact("request.issued", 0, "requester") \in Facts
  BY FactTyped DEF Types, Actors
<1>3. "revoked" \in Statuses /\ "issued" \in Statuses
  BY DEF Statuses, Closed, Open
<1>4. PICK c \in Commands : \/ revokeRequest(r, c) \/ remindRequest(r, c)
                            \/ \E new \in Records : reissueRequest(r, c, new)
  BY DEF Requesting
<1>5. CASE revokeRequest(r, c)
  <2>1. appendEvent(ledger[r], Fact("request.revoked", 0, "requester")) \in Ledgers
    BY <1>1, <1>2, AppendTyped DEF Typed
  <2>2. Typed'
    BY <1>1, <1>3, <1>5, <2>1 DEF Typed, revokeRequest, Revoked, RequestRows, AssignmentRows
  <2> QED
    BY <2>2, TypedIsTypeOK, PTL
<1>6. CASE remindRequest(r, c)
  <2>1. Typed'
    BY <1>1, <1>6 DEF Typed, remindRequest
  <2> QED
    BY <2>1, TypedIsTypeOK, PTL
<1>7. ASSUME NEW new \in Records, reissueRequest(r, c, new)
      PROVE  TypeOK'
  <2> DEFINE w == request[r].workflow
             l == appendEvent(ledger[r], Fact("request.reissued", 0, "requester"))
             l2 == appendEvent(NoLedger, Fact("request.issued", 0, "requester"))
  <2>1. w \in Workflows /\ r # new
    BY <1>7 DEF reissueRequest, Whole, Issued, Open
  <2>2. l \in Ledgers /\ l2 \in Ledgers
    BY <1>1, <1>2, AppendTyped, NoLedgerTyped DEF Typed
  <2>3. NewRequest(w, "issued") \in RequestRows /\ NewActivities(w) \in ActivityRows
    BY <2>1, NewRowsTyped
  <2>4. /\ request' = [request EXCEPT ![r].status = "revoked", ![new] = NewRequest(w, "issued")]
        /\ assignment' = [assignment EXCEPT ![r].status = "revoked", ![new].status = "issued"]
        /\ activity' = [activity EXCEPT ![new] = NewActivities(w)]
        /\ ledger' = [ledger EXCEPT ![r] = l, ![new] = l2]
        /\ reissuedFrom' = [reissuedFrom EXCEPT ![new] = r]
        /\ commands' = commands \cup {c}
        /\ UNCHANGED <<interactions, answers, accesses, playback, manifest>>
    BY <1>7, <2>1 DEF reissueRequest
  <2> HIDE DEF w, l, l2
  <2>5. request' \in [Records -> RequestRows]
    BY <1>1, <1>3, <2>3, <2>4 DEF Typed, RequestRows
  <2>6. assignment' \in [Records -> AssignmentRows]
    <3>1. /\ assignment \in [Records -> AssignmentRows]
          /\ [assignment[r] EXCEPT !.status = "revoked"] \in AssignmentRows
          /\ [assignment[new] EXCEPT !.status = "issued"] \in AssignmentRows
      BY <1>1, <1>3 DEF Typed, AssignmentRows
    <3>2. assignment' = [assignment EXCEPT ![r] = [assignment[r] EXCEPT !.status = "revoked"],
                                           ![new] = [assignment[new] EXCEPT !.status = "issued"]]
      BY <2>1, <2>4, <3>1
    <3> QED
      BY <3>1, <3>2
  <2>7. Typed'
    BY <1>1, <2>2, <2>3, <2>4, <2>5, <2>6 DEF Typed
  <2> QED
    BY <2>7, TypedIsTypeOK, PTL
<1> QED
  BY <1>4, <1>5, <1>6, <1>7

\* A stop of the tenant keeps the types.
LEMMA StopTyped ==
  ASSUME TypeOK, stopTenantProduction
  PROVE  TypeOK'
<1> DEFINE f == Fact("request.revoked", 0, "requester")
<1>1. Typed
  BY TypedIsTypeOK
<1>2. f \in Facts
  BY FactTyped DEF Types, Actors
<1> HIDE DEF f
<1>3. \A r \in Records : appendEvent(ledger[r], f) \in Ledgers
  BY <1>1, <1>2, AppendTyped DEF Typed
<1>4. request' \in [Records -> RequestRows]
  BY <1>1 DEF stopTenantProduction, Typed, RequestRows, Statuses, Closed
<1>5. assignment' \in [Records -> AssignmentRows]
  BY <1>1 DEF stopTenantProduction, Typed, AssignmentRows, Statuses, Closed
<1>6. ledger' \in [Records -> Ledgers]
  BY <1>1, <1>3 DEF stopTenantProduction, Typed, f
<1>7. Typed'
  BY <1>1, <1>4, <1>5, <1>6 DEF Typed, stopTenantProduction
<1> QED
  BY <1>7, TypedIsTypeOK, PTL

\* The lifecycle worker and the passing of a due date keep the types.
LEMMA TimeTyped ==
  ASSUME TypeOK, NEW r \in Records, ReachSchedule(r) \/ Lapse(r) \/ advanceOneLifecycle(r)
  PROVE  TypeOK'
<1>1. Typed
  BY TypedIsTypeOK
<1>2. CASE ReachSchedule(r) \/ Lapse(r)
  <2>1. request' \in [Records -> RequestRows]
    <3>1. CASE ReachSchedule(r)
      BY <1>1, <3>1 DEF ReachSchedule, Typed, RequestRows
    <3>2. CASE Lapse(r)
      BY <1>1, <3>2 DEF Lapse, Typed, RequestRows
    <3> QED
      BY <1>2, <3>1, <3>2
  <2>2. Typed'
    BY <1>1, <1>2, <2>1 DEF ReachSchedule, Lapse, Typed
  <2> QED
    BY <2>2, TypedIsTypeOK, PTL
<1>3. CASE advanceOneLifecycle(r)
  <2> DEFINE next == IF request[r].lapsed THEN "expired" ELSE "issued"
             type == IF next = "expired" THEN "request.expired" ELSE "request.issued"
             l == appendEvent(ledger[r], Fact(type, 0, "vasi-worker"))
  <2>1. next \in Statuses
    BY DEF Statuses, Open, Closed
  <2>2. l \in Ledgers
    <3>1. Fact(type, 0, "vasi-worker") \in Facts
      BY FactTyped DEF Types, Actors
    <3> QED
      BY <1>1, <3>1, AppendTyped DEF Typed
  <2>3. /\ request' = [request EXCEPT ![r].status = next]
        /\ assignment' = [assignment EXCEPT ![r].status = next]
        /\ ledger' = [ledger EXCEPT ![r] = l]
        /\ UNCHANGED <<activity, interactions, answers, accesses, playback, manifest,
                       commands, reissuedFrom>>
    BY <1>3, WorkerAppends DEF advanceOneLifecycle
  <2> HIDE DEF next, l
  <2>4. request' \in [Records -> RequestRows]
    BY <1>1, <2>1, <2>3 DEF Typed, RequestRows
  <2>5. assignment' \in [Records -> AssignmentRows]
    BY <1>1, <2>1, <2>3 DEF Typed, AssignmentRows
  <2>6. Typed'
    BY <1>1, <2>2, <2>3, <2>4, <2>5 DEF Typed
  <2> QED
    BY <2>6, TypedIsTypeOK, PTL
<1> QED
  BY <1>2, <1>3

-----------------------------------------------------------------------------
(* Every step keeps every record whole.                                    *)

AllWhole == \A r \in Records : Whole(r)

\* After an issue every record is whole.
LEMMA IssueKeeps ==
  ASSUME TypeOK, AllWhole, NEW r \in Records, NEW w \in Workflows, NEW scheduled \in BOOLEAN,
         issueRequest(r, w, scheduled)
  PROVE  AllWhole'
<1> DEFINE st == IF scheduled THEN "scheduled" ELSE "issued"
           f == Fact(IF scheduled THEN "request.scheduled" ELSE "request.issued", 0, "requester")
<1>1. f \in Facts /\ f.type \in {"request.scheduled", "request.issued"}
  BY FactTyped DEF Types, Actors
<1>2. ~Issued(r) /\ st \in {"scheduled", "issued"} /\ assignment[r] \in AssignmentRows
  BY RowsTyped DEF issueRequest, Issued
<1>3. /\ request'[r] = NewRequest(w, st)
      /\ assignment'[r] = [assignment[r] EXCEPT !.status = st]
      /\ activity'[r] = NewActivities(w) /\ ledger'[r] = appendEvent(NoLedger, f)
      /\ interactions'[r] = interactions[r] /\ answers'[r] = answers[r]
      /\ accesses'[r] = accesses[r] /\ manifest'[r] = manifest[r]
  BY DEF issueRequest, TypeOK
<1> HIDE DEF f, st
<1>4. Whole(r)'
  BY <1>1, <1>2, <1>3, IssuedWhole DEF AllWhole
<1>5. ASSUME NEW x \in Records, x # r
      PROVE  Whole(x)'
  <2>1. Same(x)
    BY <1>5 DEF issueRequest, TypeOK, Same
  <2> QED
    BY <2>1, SameWhole DEF AllWhole
<1> QED
  BY <1>4, <1>5 DEF AllWhole

\* After an opening every record is whole.
LEMMA OpenKeeps ==
  ASSUME TypeOK, AllWhole, NEW r \in Records, NEW s \in Sessions, openAssignment(r, s)
  PROVE  AllWhole'
<1> DEFINE p == Owner[s]
           binds == assignment[r].principal = None
           released(st) == IF Status(r) = "scheduled" THEN "issued" ELSE st
           next == IF binds /\ released(request[r].status) = "issued" THEN "in_progress"
                   ELSE released(request[r].status)
           row == [principal |-> p, session |-> s, open |-> TRUE]
           f == Fact("participant.opened", 0, p)
<1>1. /\ request[r] \in RequestRows /\ assignment[r] \in AssignmentRows
      /\ interactions[r] \in Seq(Interactions) /\ p \in Principals /\ p # None
      /\ Whole(r)
  BY RowsTyped, PlanAssumption DEF AllWhole
<1>2. /\ assignment[r].principal \in {None, p}
      /\ Status(r) \in Open /\ assignment[r].status = Status(r)
  BY <1>1 DEF openAssignment, authorizeParticipant, Whole, Agree, assertAssignmentAvailable,
              RequestRows, Statuses, Open, Closed, Status
<1>3. next \in {"issued", "in_progress"}
  BY <1>2 DEF Open, Status
<1>4. /\ request'[r] = [request[r] EXCEPT !.status = next]
      /\ assignment'[r] = IF binds THEN [status |-> "in_progress", principal |-> p]
                          ELSE [assignment[r] EXCEPT !.status = released(assignment[r].status)]
      /\ activity'[r] = activity[r] /\ answers'[r] = answers[r]
      /\ accesses'[r] = accesses[r] /\ manifest'[r] = manifest[r]
  BY DEF openAssignment, TypeOK
<1>5. /\ Status(r)' = next /\ request'[r].workflow = request[r].workflow
      /\ assignment'[r].principal = p /\ assignment'[r].status = next
      /\ next \in {"issued", "in_progress"}
      /\ next = "in_progress"
  <2>1. Status(r)' = next /\ request'[r].workflow = request[r].workflow
    BY <1>1, <1>4 DEF RequestRows, Status
  <2>2. CASE binds
    BY <1>2, <1>3, <1>4, <2>1, <2>2 DEF Open, Status
  <2>3. CASE ~binds
    <3>1. Status(r) = "in_progress"
      BY <1>1, <1>2, <2>3 DEF Whole, Agree, Open
    <3> QED
      BY <1>1, <1>2, <1>4, <2>1, <2>3, <3>1 DEF AssignmentRows, Status
  <2> QED
    BY <2>2, <2>3
<1>6. Agree(Status(r)', assignment'[r])
  BY <1>1, <1>5 DEF Agree
<1>7. Live(interactions[r], p, next)
  <2>1. Live(interactions[r], assignment[r].principal, Status(r))
    BY <1>1 DEF Whole
  <2>2. ASSUME NEW i \in DOMAIN interactions[r]
        PROVE  interactions[r][i].principal \in Principals
    <3>1. interactions[r][i] \in Interactions
      BY <1>1
    <3> QED
      BY <3>1 DEF Interactions
  <2> QED
    BY <1>2, <1>5, <2>1, <2>2, PlanAssumption DEF Live
<1>8. Issued(r) /\ Issued(r)' /\ Status(r) # "completed" /\ Status(r)' # "completed"
  BY <1>2, <1>5 DEF Issued, Open
<1>9. CASE UNCHANGED <<interactions, ledger>>
  <2>1. Carried(r)
    BY <1>2, <1>4, <1>5, <1>6, <1>7, <1>8, <1>9 DEF Carried
  <2> QED
    <3>1. Whole(r)'
      BY <1>1, <1>4, <1>8, <1>9, <2>1, QuietWhole
    <3>2. ASSUME NEW x \in Records, x # r
          PROVE  Whole(x)'
      <4>1. Same(x)
        BY <1>9, <3>2 DEF openAssignment, TypeOK, Same
      <4> QED
        BY <4>1, SameWhole DEF AllWhole
    <3> QED
      BY <3>1, <3>2 DEF AllWhole
<1>10. CASE /\ interactions' = [interactions EXCEPT ![r] = Append(Superseded(r, p), row)]
            /\ ledger' = [ledger EXCEPT ![r] = appendEvent(ledger[r], f)]
  <2>1. /\ interactions'[r] = Append(Superseded(r, p), row)
        /\ ledger'[r] = appendEvent(ledger[r], f)
    BY <1>10 DEF TypeOK
  <2>2. f \in Facts /\ f.type = "participant.opened" /\ f.actor = p
    <3>1. p \in Actors /\ "participant.opened" \in Types
      BY <1>1 DEF Actors, Types
    <3> HIDE DEF p
    <3> QED
      BY <3>1, FactTyped
  <2>3. Live(interactions'[r], p, next)
    <3> DEFINE old == Superseded(r, p)
    <3>1. /\ DOMAIN old = 1 .. Len(interactions[r]) /\ Len(interactions[r]) \in Nat
          /\ \A i \in DOMAIN old : interactions[r][i] \in Interactions
          /\ DOMAIN interactions[r] = 1 .. Len(interactions[r])
      BY <1>1 DEF Superseded
    <3>2. \A i \in DOMAIN old : ~old[i].open
      <4> SUFFICES ASSUME NEW i \in DOMAIN old
                   PROVE  ~old[i].open
        OBVIOUS
      <4>1. old[i].open = (interactions[r][i].open /\ interactions[r][i].principal # p)
        BY <3>1 DEF Superseded, Interactions
      <4> QED
        BY <1>7, <3>1, <4>1 DEF Live
    <3>3. /\ Len(old) = Len(interactions[r]) /\ old \in Seq({old[i] : i \in DOMAIN old})
      BY <3>1 DEF Superseded
    <3> HIDE DEF old, row
    <3>4. /\ DOMAIN Append(old, row) = 1 .. Len(interactions[r]) + 1
          /\ Len(Append(old, row)) = Len(interactions[r]) + 1
          /\ \A i \in DOMAIN old : Append(old, row)[i] = old[i]
          /\ Append(old, row)[Len(interactions[r]) + 1] = row
      BY <3>1, <3>3
    <3>5. row.principal = p
      BY DEF row
    <3> QED
      BY <1>5, <2>1, <3>1, <3>2, <3>4, <3>5 DEF Live, old
  <2>4. Carried(r)
    BY <1>2, <1>4, <1>5, <1>6, <1>8, <2>3 DEF Carried
  <2>5. Whole(r)'
    <3>1. f.type \notin ResponseTypes \cup {"activity.completed"}
      BY <2>2 DEF ResponseTypes
    <3> HIDE DEF f, p
    <3> QED
      BY <1>1, <1>4, <1>5, <1>8, <2>1, <2>2, <2>4, <3>1, AppendWhole
  <2>6. ASSUME NEW x \in Records, x # r
        PROVE  Whole(x)'
    <3>1. Same(x)
      BY <1>10, <2>6 DEF openAssignment, TypeOK, Same
    <3> QED
      BY <3>1, SameWhole DEF AllWhole
  <2> QED
    BY <2>5, <2>6 DEF AllWhole
<1> QED
  BY <1>9, <1>10 DEF openAssignment

\* After an answer, a draft or a submission every record is whole.
LEMMA RespondingKeeps ==
  ASSUME TypeOK, AllWhole, NEW r \in Records, Responding(r)
  PROVE  TypeOK' /\ AllWhole'
<1>1. Whole(r)
  BY DEF AllWhole
<1>2. PICK i \in DOMAIN interactions[r], p \in Principals, c \in Commands, o \in Outcomes :
        \/ respond(r, i, p, c, o)
        \/ saveActivityResponse(r, i, p, c, o)
        \/ \E method \in {"playback", "acknowledgement"} :
             submitActivityResponse(r, i, p, c, o, method)
  BY DEF Responding
<1>3. TypeOK' /\ Whole(r)'
  BY <1>1, <1>2, RespondTyped, SaveTyped, SubmitTyped, RespondWhole, SavedWhole, SubmitWhole
<1>4. ASSUME NEW x \in Records, x # r
      PROVE  Whole(x)'
  <2>1. CASE respond(r, i, p, c, o)
    <3>1. Same(x)
      BY <1>4, <2>1 DEF respond, CompleteAndSeal, TypeOK, Same
    <3> QED
      BY <3>1, SameWhole DEF AllWhole
  <2>2. CASE saveActivityResponse(r, i, p, c, o)
    <3>1. Same(x)
      BY <1>4, <2>2 DEF saveActivityResponse, TypeOK, Same
    <3> QED
      BY <3>1, SameWhole DEF AllWhole
  <2>3. ASSUME NEW method, submitActivityResponse(r, i, p, c, o, method)
        PROVE  Whole(x)'
    <3>1. Same(x)
      BY <1>4, <2>3 DEF submitActivityResponse, CompleteAndSeal, TypeOK, Same
    <3> QED
      BY <3>1, SameWhole DEF AllWhole
  <2> QED
    BY <1>2, <2>1, <2>2, <2>3
<1> QED
  BY <1>3, <1>4 DEF AllWhole

\* After an artifact access every record is whole.
LEMMA ArtifactKeeps ==
  ASSUME TypeOK, AllWhole, NEW r \in Records, NEW n \in DOMAIN activity[r], NEW p \in Principals,
         openParticipantArtifact(r, n, p)
  PROVE  AllWhole'
<1> DEFINE f == Fact("document.presented", n, p)
<1>1. /\ Whole(r) /\ Issued(r) /\ n \in Nat
      /\ activity[r] \in ActivityRows
      /\ request[r] \in RequestRows
  BY RowsTyped DEF AllWhole, openParticipantArtifact, Issued, ActivityRows
<1>2. /\ request'[r] = request[r] /\ assignment'[r] = assignment[r]
      /\ activity'[r] = activity[r] /\ interactions'[r] = interactions[r]
      /\ answers'[r] = answers[r] /\ manifest'[r] = manifest[r]
      /\ accesses'[r] = accesses[r] \cup {<<n, p>>}
  BY DEF openParticipantArtifact, TypeOK
<1>3. Carried(r) /\ Status(r)' = Status(r)
  BY <1>1, <1>2 DEF Carried, Whole, Issued, Status
<1>4. assignment[r].status = Status(r)
  BY <1>1 DEF Whole, Agree
<1>5. Whole(r)'
  <2>1. CASE Status(r) = "completed"
    <3>1. ledger'[r] = ledger[r]
      BY <1>4, <2>1 DEF openParticipantArtifact
    <3> QED
      BY <1>1, <1>3, <2>1, <3>1, QuietWhole
  <2>2. CASE Status(r) # "completed"
    <3>1. ledger'[r] = appendEvent(ledger[r], f)
      BY <1>4, <2>2 DEF openParticipantArtifact, TypeOK
    <3>2. f \in Facts /\ f.type = "document.presented"
      BY <1>1, FactTyped DEF Types, Actors
    <3>3. /\ f.type \notin ResponseTypes \cup {"activity.completed"}
          /\ f.type \notin ParticipantTypes
      BY <3>2 DEF ResponseTypes, ParticipantTypes, AssuranceTypes
    <3>4. ASSUME NEW a \in accesses'[r]
          PROVE  a \in accesses[r] \/ f = Fact("document.presented", a[1], a[2])
      BY <1>2
    <3> HIDE DEF f
    <3> QED
      BY <1>1, <1>3, <2>2, <3>1, <3>2, <3>3, <3>4, AppendWhole
  <2> QED
    BY <2>1, <2>2
<1>6. ASSUME NEW x \in Records, x # r
      PROVE  Whole(x)'
  <2>1. Same(x)
    BY <1>6 DEF openParticipantArtifact, TypeOK, Same
  <2> QED
    BY <2>1, SameWhole DEF AllWhole
<1> QED
  BY <1>5, <1>6 DEF AllWhole

\* After a reported event every record is whole.
LEMMA ReportKeeps ==
  ASSUME TypeOK, AllWhole, NEW r \in Records, NEW n \in DOMAIN activity[r], NEW p \in Principals,
         NEW i \in DOMAIN interactions[r],
         \/ \E met \in BOOLEAN : recordMediaEvents(r, n, i, p, met)
         \/ recordInteractionEvents(r, n, i, p)
         \/ recordParticipantContext(r, n, i, p)
  PROVE  AllWhole'
<1>1. PICK type \in {"media.telemetry.recorded", "activity.interaction.recorded",
                     "participant.context.recorded"} :
        ledger' = [ledger EXCEPT ![r] = appendEvent(ledger[r], Fact(type, n, p))]
  BY DEF recordMediaEvents, recordInteractionEvents, recordParticipantContext
<1> DEFINE f == Fact(type, n, p)
<1>2. /\ Whole(r) /\ activity[r] \in ActivityRows
      /\ interactions[r] \in Seq(Interactions)
  BY RowsTyped DEF AllWhole
<1>3. UNCHANGED <<request, assignment, activity, interactions, answers, accesses,
                  manifest, commands, reissuedFrom>>
  BY DEF recordMediaEvents, recordInteractionEvents, recordParticipantContext
<1>4. MayReport(r, n, i, p)
  BY DEF recordMediaEvents, recordInteractionEvents, recordParticipantContext
<1>5. Issued(r) /\ Status(r) # "completed" /\ assignment[r].principal = p
  BY <1>2, <1>4 DEF MayReport, Issued, assertActivityAvailable, Whole, Live
<1>6. Carried(r) /\ Status(r)' = Status(r)
  BY <1>2, <1>3, <1>5 DEF Carried, Whole, Issued, Status
<1>7. Whole(r)'
  <2>1. ledger'[r] = appendEvent(ledger[r], f)
    BY <1>1 DEF TypeOK
  <2>2. n \in Nat
    BY <1>2 DEF ActivityRows
  <2>3. f \in Facts /\ f.type = type /\ f.actor = p
    BY <2>2, FactTyped DEF Types, Actors
  <2>4. f.type \notin ResponseTypes \cup {"activity.completed"}
    BY <2>3 DEF ResponseTypes
  <2> HIDE DEF f
  <2> QED
    BY <1>2, <1>3, <1>5, <1>6, <2>1, <2>3, <2>4, AppendWhole
<1>8. ASSUME NEW x \in Records, x # r
      PROVE  Whole(x)'
  <2>1. Same(x)
    BY <1>1, <1>3, <1>8 DEF TypeOK, Same
  <2> QED
    BY <2>1, SameWhole DEF AllWhole
<1> QED
  BY <1>7, <1>8 DEF AllWhole

\* A record is revoked, by its requester, a reissue or the production stop.
LEMMA RevokedWhole ==
  ASSUME TypeOK, AllWhole, NEW r \in Records, NEW type \in {"request.revoked", "request.reissued"},
         Status(r) \in Open,
         request'[r] = [request[r] EXCEPT !.status = "revoked"],
         assignment'[r] = [assignment[r] EXCEPT !.status = "revoked"],
         ledger'[r] = appendEvent(ledger[r], Fact(type, 0, "requester")),
         activity'[r] = activity[r], interactions'[r] = interactions[r],
         answers'[r] = answers[r], accesses'[r] = accesses[r], manifest'[r] = manifest[r]
  PROVE  Whole(r)'
<1> DEFINE f == Fact(type, 0, "requester")
<1>1. /\ Whole(r) /\ request[r] \in RequestRows /\ assignment[r] \in AssignmentRows
  BY RowsTyped DEF AllWhole
<1>2. /\ Status(r)' = "revoked" /\ request'[r].workflow = request[r].workflow
      /\ assignment'[r].status = "revoked" /\ assignment'[r].principal = assignment[r].principal
  BY <1>1 DEF RequestRows, AssignmentRows, Status
<1>3. Issued(r) /\ Issued(r)' /\ Status(r) # "completed" /\ Status(r)' # "completed"
  BY <1>2 DEF Issued, Open
<1>4. Live(interactions[r], assignment[r].principal, "revoked")
  BY <1>1 DEF Whole, Live
<1>5. Carried(r)
  BY <1>2, <1>3, <1>4 DEF Carried, Agree
<1>6. f \in Facts /\ f.type = type
  BY FactTyped DEF Types, Actors
<1>7. /\ f.type \notin ResponseTypes \cup {"activity.completed"}
      /\ f.type \notin ParticipantTypes
  BY <1>6 DEF ResponseTypes, ParticipantTypes, AssuranceTypes
<1> HIDE DEF f
<1>8. ledger'[r] = appendEvent(ledger[r], f)
  BY DEF f
<1> QED
  BY <1>1, <1>3, <1>5, <1>6, <1>7, <1>8, AppendWhole

\* After a revocation, a reminder or a reissue every record is whole.
LEMMA RequestingKeeps ==
  ASSUME TypeOK, AllWhole, NEW r \in Records, Requesting(r)
  PROVE  AllWhole'
<1>1. PICK c \in Commands : \/ revokeRequest(r, c) \/ remindRequest(r, c)
                            \/ \E new \in Records : reissueRequest(r, c, new)
  BY DEF Requesting
<1>2. CASE revokeRequest(r, c)
  <2>1. Whole(r)'
    BY <1>2, RevokedWhole DEF revokeRequest, Revoked, TypeOK
  <2>2. ASSUME NEW x \in Records, x # r
        PROVE  Whole(x)'
    <3>1. Same(x)
      BY <1>2, <2>2 DEF revokeRequest, Revoked, TypeOK, Same
    <3> QED
      BY <3>1, SameWhole DEF AllWhole
  <2> QED
    BY <2>1, <2>2 DEF AllWhole
<1>3. CASE remindRequest(r, c)
  <2>1. \A x \in Records : Same(x)
    BY <1>3 DEF remindRequest, Same
  <2> QED
    BY <2>1, SameWhole DEF AllWhole
<1>4. ASSUME NEW new \in Records, reissueRequest(r, c, new)
      PROVE  AllWhole'
  <2> DEFINE w == request[r].workflow
             f == Fact("request.issued", 0, "requester")
  <2>1. w \in Workflows /\ r # new /\ ~Issued(new) /\ Status(r) \in Open
    BY <1>4 DEF reissueRequest, AllWhole, Whole, Issued, Open
  <2>2. /\ request'[r] = [request[r] EXCEPT !.status = "revoked"]
        /\ assignment'[r] = [assignment[r] EXCEPT !.status = "revoked"]
        /\ ledger'[r] = appendEvent(ledger[r], Fact("request.reissued", 0, "requester"))
        /\ activity'[r] = activity[r] /\ interactions'[r] = interactions[r]
        /\ answers'[r] = answers[r] /\ accesses'[r] = accesses[r] /\ manifest'[r] = manifest[r]
    BY <1>4, <2>1 DEF reissueRequest, TypeOK
  <2>3. Whole(r)'
    BY <2>1, <2>2, RevokedWhole
  <2>4. /\ request'[new] = NewRequest(w, "issued")
        /\ assignment'[new] = [assignment[new] EXCEPT !.status = "issued"]
        /\ activity'[new] = NewActivities(w)
        /\ ledger'[new] = appendEvent(NoLedger, f)
        /\ interactions'[new] = interactions[new] /\ answers'[new] = answers[new]
        /\ accesses'[new] = accesses[new] /\ manifest'[new] = manifest[new]
    BY <1>4, <2>1 DEF reissueRequest, TypeOK
  <2>5. f \in Facts /\ f.type = "request.issued"
    BY FactTyped DEF Types, Actors
  <2> HIDE DEF f, w
  <2>6. Whole(new)'
    BY <2>1, <2>4, <2>5, IssuedWhole, RowsTyped DEF AllWhole
  <2>7. ASSUME NEW x \in Records, x # r, x # new
        PROVE  Whole(x)'
    <3>1. Same(x)
      BY <1>4, <2>7 DEF reissueRequest, TypeOK, Same
    <3> QED
      BY <3>1, SameWhole DEF AllWhole
  <2> QED
    BY <2>3, <2>6, <2>7 DEF AllWhole
<1> QED
  BY <1>1, <1>2, <1>3, <1>4

\* After a stop of the tenant every record is whole.
LEMMA StopKeeps ==
  ASSUME TypeOK, AllWhole, stopTenantProduction
  PROVE  AllWhole'
<1>1. ASSUME NEW r \in Records, Status(r) \in Open
      PROVE  Whole(r)'
  <2>1. /\ request'[r] = [request[r] EXCEPT !.status = "revoked"]
        /\ assignment'[r] = [assignment[r] EXCEPT !.status = "revoked"]
        /\ ledger'[r] = appendEvent(ledger[r], Fact("request.revoked", 0, "requester"))
        /\ activity'[r] = activity[r] /\ interactions'[r] = interactions[r]
        /\ answers'[r] = answers[r] /\ accesses'[r] = accesses[r] /\ manifest'[r] = manifest[r]
    BY <1>1 DEF stopTenantProduction
  <2> QED
    BY <1>1, <2>1, RevokedWhole
<1>2. ASSUME NEW r \in Records, Status(r) \notin Open
      PROVE  Whole(r)'
  <2>1. Same(r)
    BY <1>2 DEF stopTenantProduction, Same
  <2> QED
    BY <2>1, SameWhole DEF AllWhole
<1> QED
  BY <1>1, <1>2 DEF AllWhole

\* After a step of the lifecycle worker or of the clock every record is whole.
LEMMA TimeKeeps ==
  ASSUME TypeOK, AllWhole, NEW r \in Records,
         ReachSchedule(r) \/ Lapse(r) \/ advanceOneLifecycle(r)
  PROVE  AllWhole'
<1>1. /\ Whole(r) /\ request[r] \in RequestRows /\ assignment[r] \in AssignmentRows
  BY RowsTyped DEF AllWhole
<1>2. /\ activity'[r] = activity[r] /\ interactions'[r] = interactions[r]
      /\ answers'[r] = answers[r] /\ accesses'[r] = accesses[r] /\ manifest'[r] = manifest[r]
  BY DEF ReachSchedule, Lapse, advanceOneLifecycle
<1>3. ASSUME ReachSchedule(r) \/ Lapse(r)
      PROVE  Whole(r)'
  <2>1. /\ request'[r].status = request[r].status /\ request'[r].workflow = request[r].workflow
        /\ assignment'[r] = assignment[r] /\ ledger'[r] = ledger[r]
    <3>1. CASE ReachSchedule(r)
      BY <1>1, <3>1 DEF ReachSchedule, TypeOK, RequestRows
    <3>2. CASE Lapse(r)
      BY <1>1, <3>2 DEF Lapse, TypeOK, RequestRows
    <3> QED
      BY <1>3, <3>1, <3>2
  <2>2. Issued(r)
    BY <1>3 DEF ReachSchedule, Lapse, Issued
  <2>3. Carried(r) /\ Status(r)' = Status(r)
    BY <1>1, <1>2, <2>1, <2>2 DEF Carried, Whole, Issued, Status
  <2> QED
    BY <1>1, <1>2, <2>1, <2>3, QuietWhole
<1>4. ASSUME advanceOneLifecycle(r)
      PROVE  Whole(r)'
  <2> DEFINE next == IF request[r].lapsed THEN "expired" ELSE "issued"
             type == IF next = "expired" THEN "request.expired" ELSE "request.issued"
             f == Fact(type, 0, "vasi-worker")
  <2>1. /\ request'[r] = [request[r] EXCEPT !.status = next]
        /\ assignment'[r] = [assignment[r] EXCEPT !.status = next]
        /\ ledger'[r] = appendEvent(ledger[r], f)
    BY <1>4, WorkerAppends DEF advanceOneLifecycle, TypeOK
  <2>2. /\ Status(r)' = next /\ request'[r].workflow = request[r].workflow
        /\ assignment'[r].status = next /\ assignment'[r].principal = assignment[r].principal
    BY <1>1, <2>1 DEF RequestRows, AssignmentRows, Status
  <2>3. /\ Issued(r) /\ Issued(r)' /\ Status(r) # "completed" /\ Status(r)' # "completed"
    BY <1>4, <2>2 DEF Issued, advanceOneLifecycle, Open
  <2>4. Agree(Status(r)', assignment'[r])
    BY <1>1, <1>4, <2>2 DEF Agree, Whole, advanceOneLifecycle
  <2>5. Live(interactions[r], assignment[r].principal, next)
    BY <1>1 DEF Whole, Live
  <2>6. Carried(r)
    BY <1>2, <2>2, <2>3, <2>4, <2>5 DEF Carried
  <2>7. f \in Facts /\ f.type \in {"request.expired", "request.issued"}
    BY FactTyped DEF Types, Actors
  <2>8. /\ f.type \notin ResponseTypes \cup {"activity.completed"}
        /\ f.type \notin ParticipantTypes
    BY <2>7 DEF ResponseTypes, ParticipantTypes, AssuranceTypes
  <2> HIDE DEF f, next
  <2> QED
    BY <1>1, <1>2, <2>1, <2>3, <2>6, <2>7, <2>8, AppendWhole
<1>5. ASSUME NEW x \in Records, x # r
      PROVE  Whole(x)'
  <2>1. Same(x)
    BY <1>5 DEF ReachSchedule, Lapse, advanceOneLifecycle, TypeOK, Same
  <2> QED
    BY <2>1, SameWhole DEF AllWhole
<1> QED
  BY <1>3, <1>4, <1>5 DEF AllWhole

-----------------------------------------------------------------------------
(* What no step may do to a record.                                        *)

Frozen(r) ==
  Status(r) \in Closed =>
    /\ request'[r].status = request[r].status
    /\ assignment'[r] = assignment[r]
    /\ activity'[r] = activity[r]
    /\ interactions'[r] = interactions[r]
    /\ answers'[r] = answers[r]
    /\ ledger'[r] = ledger[r]
    /\ manifest'[r] = manifest[r]

Changed(r) ==
  \/ request'[r].status # request[r].status
  \/ assignment'[r] # assignment[r]
  \/ activity'[r] # activity[r]
  \/ interactions'[r] # interactions[r]
  \/ answers'[r] # answers[r]
  \/ manifest'[r] # manifest[r]

Witnessed(r) == Changed(r) => ledger'[r].lastSequence > ledger[r].lastSequence

History(r) ==
  /\ Frozen(r) /\ Witnessed(r)
  /\ Issued(r) => request'[r].workflow = request[r].workflow

AllHistory == \A r \in Records : History(r)

\* A record no row of which changes is neither rewritten nor unwitnessed.
LEMMA SameHistory ==
  ASSUME NEW r \in Records, Same(r)
  PROVE  History(r)
BY DEF Same, History, Frozen, Witnessed, Changed

\* A step with an event, of a record that is not closed.
LEMMA AppendHistory ==
  ASSUME TypeOK, NEW r \in Records, Status(r) \notin Closed, NEW f \in Facts,
         ledger'[r] = appendEvent(ledger[r], f),
         Issued(r) => request'[r].workflow = request[r].workflow
  PROVE  History(r)
<1>1. Grown(ledger[r], f, ledger'[r]) /\ ledger[r].lastSequence \in Nat
  BY RowsTyped, AppendGrows DEF Ledgers
<1> QED
  BY <1>1 DEF History, Frozen, Witnessed, Grown

\* An issue rewrites no closed record and is witnessed.
LEMMA IssueHistory ==
  ASSUME TypeOK, AllWhole, NEW r \in Records, NEW w \in Workflows, NEW scheduled \in BOOLEAN,
         issueRequest(r, w, scheduled)
  PROVE  AllHistory
<1> DEFINE f == Fact(IF scheduled THEN "request.scheduled" ELSE "request.issued", 0, "requester")
<1>1. f \in Facts
  BY FactTyped DEF Types, Actors
<1>2. Status(r) = "none" /\ ledger'[r] = appendEvent(NoLedger, f)
  BY DEF issueRequest, TypeOK
<1>3. ledger[r] = NoLedger /\ ~Issued(r) /\ Status(r) \notin Closed
  BY <1>2 DEF AllWhole, Whole, Blank, Issued, Closed
<1> HIDE DEF f
<1>4. History(r)
  BY <1>1, <1>2, <1>3, AppendHistory
<1>5. ASSUME NEW x \in Records, x # r
      PROVE  History(x)
  <2>1. Same(x)
    BY <1>5 DEF issueRequest, TypeOK, Same
  <2> QED
    BY <2>1, SameHistory
<1> QED
  BY <1>4, <1>5 DEF AllHistory

\* An opening rewrites no closed record and is witnessed.
LEMMA OpenHistory ==
  ASSUME TypeOK, AllWhole, NEW r \in Records, NEW s \in Sessions, openAssignment(r, s)
  PROVE  AllHistory
<1> DEFINE p == Owner[s]
           f == Fact("participant.opened", 0, p)
           released(st) == IF Status(r) = "scheduled" THEN "issued" ELSE st
           binds == assignment[r].principal = None
           next == IF binds /\ released(request[r].status) = "issued" THEN "in_progress"
                   ELSE released(request[r].status)
<1>1. /\ request[r] \in RequestRows /\ assignment[r] \in AssignmentRows
      /\ p \in Principals /\ Whole(r)
  BY RowsTyped, PlanAssumption DEF AllWhole
<1>2. Status(r) \in Open
  BY <1>1 DEF openAssignment, Whole, Agree, assertAssignmentAvailable,
              RequestRows, Statuses, Open, Closed, Status
<1>3. Status(r) \notin Closed
  BY <1>2 DEF Open, Closed
<1>4. /\ request'[r] = [request[r] EXCEPT !.status = next]
      /\ assignment'[r] = IF binds THEN [status |-> "in_progress", principal |-> p]
                          ELSE [assignment[r] EXCEPT !.status = released(assignment[r].status)]
      /\ activity'[r] = activity[r] /\ answers'[r] = answers[r] /\ manifest'[r] = manifest[r]
  BY DEF openAssignment, TypeOK
<1>5. request'[r].workflow = request[r].workflow /\ request'[r].status = next
  BY <1>1, <1>4 DEF RequestRows
<1>6. CASE SameSession(r, s) /\ UNCHANGED <<interactions, ledger>>
  <2>1. assignment[r].principal = p /\ p # None
    BY <1>1, <1>6, PlanAssumption DEF SameSession, OpenInteraction, Whole, Live
  <2>2. Status(r) = "in_progress" /\ assignment[r].status = Status(r)
    BY <1>1, <1>2, <2>1 DEF Whole, Agree, Open
  <2>3. assignment'[r] = assignment[r] /\ next = request[r].status
    BY <1>1, <1>4, <2>1, <2>2 DEF AssignmentRows, Status
  <2> HIDE DEF next
  <2> QED
    <3>1. History(r)
      BY <1>3, <1>4, <1>5, <1>6, <2>3 DEF History, Frozen, Witnessed, Changed
    <3>2. ASSUME NEW x \in Records, x # r
          PROVE  History(x)
      <4>1. Same(x)
        BY <1>6, <3>2 DEF openAssignment, TypeOK, Same
      <4> QED
        BY <4>1, SameHistory
    <3> QED
      BY <3>1, <3>2 DEF AllHistory
<1>7. CASE /\ interactions' = [interactions EXCEPT ![r] =
                Append(Superseded(r, p), [principal |-> p, session |-> s, open |-> TRUE])]
           /\ ledger' = [ledger EXCEPT ![r] = appendEvent(ledger[r], f)]
  <2>1. f \in Facts
    <3>1. p \in Actors /\ "participant.opened" \in Types
      BY <1>1 DEF Actors, Types
    <3> HIDE DEF p
    <3> QED
      BY <3>1, FactTyped
  <2>2. ledger'[r] = appendEvent(ledger[r], f)
    BY <1>7 DEF TypeOK
  <2> HIDE DEF f
  <2>3. History(r)
    BY <1>3, <1>5, <2>1, <2>2, AppendHistory
  <2>4. ASSUME NEW x \in Records, x # r
        PROVE  History(x)
    <3>1. Same(x)
      BY <1>7, <2>4 DEF openAssignment, TypeOK, Same
    <3> QED
      BY <3>1, SameHistory
  <2> QED
    BY <2>3, <2>4 DEF AllHistory
<1> QED
  BY <1>6, <1>7 DEF openAssignment

\* An answer, a draft or a submission rewrites no closed record and is witnessed.
LEMMA RespondingHistory ==
  ASSUME TypeOK, AllWhole, NEW r \in Records, Responding(r)
  PROVE  AllHistory
<1>1. PICK i \in DOMAIN interactions[r], p \in Principals, c \in Commands, o \in Outcomes :
        \/ respond(r, i, p, c, o)
        \/ saveActivityResponse(r, i, p, c, o)
        \/ \E method \in {"playback", "acknowledgement"} :
             submitActivityResponse(r, i, p, c, o, method)
  BY DEF Responding
<1>2. Whole(r) /\ MayRespond(r, i, p, c) /\ request[r] \in RequestRows /\ ledger[r] \in Ledgers
  BY <1>1, RowsTyped DEF AllWhole, respond, saveActivityResponse, submitActivityResponse
<1>3. Issued(r) /\ Status(r) \notin Closed
  BY <1>2, ResponderBound DEF Closed
<1>4. CASE respond(r, i, p, c, o)
  <2> DEFINE f == Fact("participant.responded", 0, p)
  <2>1. f \in Facts
    BY FactTyped DEF Types, Actors
  <2>2. /\ ledger'[r] = appendEvent(ledger[r], f)
        /\ request'[r] = [request[r] EXCEPT !.status = "completed"]
    BY <1>4 DEF respond, CompleteAndSeal, TypeOK
  <2>3. request'[r].workflow = request[r].workflow
    BY <1>2, <2>2 DEF RequestRows
  <2> HIDE DEF f
  <2>4. History(r)
    BY <1>3, <2>1, <2>2, <2>3, AppendHistory
  <2>5. ASSUME NEW x \in Records, x # r
        PROVE  History(x)
    <3>1. Same(x)
      BY <1>4, <2>5 DEF respond, CompleteAndSeal, TypeOK, Same
    <3> QED
      BY <3>1, SameHistory
  <2> QED
    BY <2>4, <2>5 DEF AllHistory
<1>5. CASE saveActivityResponse(r, i, p, c, o)
  <2> DEFINE n == currentActivity(r)
             f == Fact("activity.response.saved", n, p)
  <2>1. n \in Nat
    BY <1>2, <1>3, <1>5, CurrentFound DEF saveActivityResponse
  <2>2. f \in Facts
    BY <2>1, FactTyped DEF Types, Actors
  <2>3. ledger'[r] = appendEvent(ledger[r], f) /\ request'[r] = request[r]
    BY <1>5 DEF saveActivityResponse, TypeOK
  <2> HIDE DEF f
  <2>4. History(r)
    BY <1>3, <2>2, <2>3, AppendHistory
  <2>5. ASSUME NEW x \in Records, x # r
        PROVE  History(x)
    <3>1. Same(x)
      BY <1>5, <2>5 DEF saveActivityResponse, TypeOK, Same
    <3> QED
      BY <3>1, SameHistory
  <2> QED
    BY <2>4, <2>5 DEF AllHistory
<1>6. ASSUME NEW method, submitActivityResponse(r, i, p, c, o, method)
      PROVE  AllHistory
  <2> DEFINE n == currentActivity(r)
             f == Fact("activity.response.submitted", n, p)
             g == Fact("activity.completed", n, p)
             l == appendEvent(ledger[r], f)
  <2>1. n \in Nat
    BY <1>2, <1>3, <1>6, CurrentFound DEF submitActivityResponse
  <2>2. f \in Facts /\ g \in Facts
    BY <2>1, FactTyped DEF Types, Actors
  <2>3. /\ ledger'[r] = appendEvent(l, g)
        /\ request'[r] = request[r] \/ request'[r] = [request[r] EXCEPT !.status = "completed"]
    BY <1>6 DEF submitActivityResponse, CompleteAndSeal, TypeOK
  <2>4. request'[r].workflow = request[r].workflow
    BY <1>2, <2>3 DEF RequestRows
  <2> HIDE DEF f, g
  <2>5. Grown(ledger[r], f, l) /\ l \in Ledgers
    BY <1>2, <2>2, AppendGrows DEF Grown
  <2>6. Grown(l, g, ledger'[r])
    BY <2>2, <2>3, <2>5, AppendGrows
  <2>7. ledger'[r].lastSequence > ledger[r].lastSequence
    <3>1. ledger[r].lastSequence \in Nat
      BY <1>2 DEF Ledgers
    <3> QED
      BY <2>5, <2>6, <3>1 DEF Grown
  <2>8. History(r)
    BY <1>3, <2>4, <2>7 DEF History, Frozen, Witnessed
  <2>9. ASSUME NEW x \in Records, x # r
        PROVE  History(x)
    <3>1. Same(x)
      BY <1>6, <2>9 DEF submitActivityResponse, CompleteAndSeal, TypeOK, Same
    <3> QED
      BY <3>1, SameHistory
  <2> QED
    BY <2>8, <2>9 DEF AllHistory
<1> QED
  BY <1>1, <1>4, <1>5, <1>6

\* A report or an access rewrites no closed record and is witnessed.
LEMMA ReportingHistory ==
  ASSUME TypeOK, AllWhole, NEW r \in Records, Reporting(r)
  PROVE  AllHistory
<1>1. PICK n \in DOMAIN activity[r], p \in Principals :
        \/ openParticipantArtifact(r, n, p)
        \/ \E i \in DOMAIN interactions[r] :
             \/ \E met \in BOOLEAN : recordMediaEvents(r, n, i, p, met)
             \/ recordInteractionEvents(r, n, i, p)
             \/ recordParticipantContext(r, n, i, p)
  BY DEF Reporting
<1>2. n \in Nat /\ Whole(r)
  <2>1. activity[r] \in ActivityRows
    BY RowsTyped
  <2> QED
    BY <2>1 DEF ActivityRows, AllWhole
<1>3. /\ UNCHANGED <<request, assignment, activity, interactions, answers, manifest, reissuedFrom>>
      /\ \A x \in Records : x # r => accesses'[x] = accesses[x]
  BY <1>1 DEF openParticipantArtifact, recordMediaEvents, recordInteractionEvents,
              recordParticipantContext, TypeOK
<1>4. \/ ledger' = ledger
      \/ /\ assertAssignmentAvailable(r) /\ assignment[r].status # "completed"
         /\ \E type \in {"document.presented", "media.telemetry.recorded",
                         "activity.interaction.recorded", "participant.context.recorded"} :
              ledger' = [ledger EXCEPT ![r] = appendEvent(ledger[r], Fact(type, n, p))]
  BY <1>1 DEF openParticipantArtifact, recordMediaEvents, recordInteractionEvents,
              recordParticipantContext, MayReport, assertActivityAvailable
<1>5. History(r)
  <2>1. CASE ledger' = ledger
    BY <1>3, <2>1 DEF History, Frozen, Witnessed, Changed
  <2>2. CASE ledger' # ledger
    <3>1. PICK type \in {"document.presented", "media.telemetry.recorded",
                         "activity.interaction.recorded", "participant.context.recorded"} :
            ledger' = [ledger EXCEPT ![r] = appendEvent(ledger[r], Fact(type, n, p))]
      BY <1>4, <2>2
    <3>2. Fact(type, n, p) \in Facts
      BY <1>2, FactTyped DEF Types, Actors
    <3>3. Status(r) \notin Closed
      BY <1>2, <1>4, <2>2 DEF Whole, Agree, assertAssignmentAvailable, Closed
    <3>4. ledger'[r] = appendEvent(ledger[r], Fact(type, n, p))
      BY <3>1 DEF TypeOK
    <3> QED
      BY <1>3, <3>2, <3>3, <3>4, AppendHistory
  <2> QED
    BY <2>1, <2>2
<1>6. ASSUME NEW x \in Records, x # r
      PROVE  History(x)
  <2>1. ledger'[x] = ledger[x]
    BY <1>4, <1>6 DEF TypeOK
  <2>2. Same(x)
    BY <1>3, <1>6, <2>1 DEF Same
  <2> QED
    BY <2>2, SameHistory
<1> QED
  BY <1>5, <1>6 DEF AllHistory

\* An open record is revoked, with one event.
LEMMA RevokedHistory ==
  ASSUME TypeOK, NEW r \in Records, NEW type \in {"request.revoked", "request.reissued"},
         Status(r) \in Open,
         request'[r] = [request[r] EXCEPT !.status = "revoked"],
         ledger'[r] = appendEvent(ledger[r], Fact(type, 0, "requester"))
  PROVE  History(r)
<1>1. Fact(type, 0, "requester") \in Facts
  BY FactTyped DEF Types, Actors
<1>2. Status(r) \notin Closed
  BY DEF Open, Closed
<1>3. request'[r].workflow = request[r].workflow
  BY RowsTyped DEF RequestRows
<1> QED
  BY <1>1, <1>2, <1>3, AppendHistory

\* A revocation, a reminder or a reissue rewrites no closed record and is witnessed.
LEMMA RequestingHistory ==
  ASSUME TypeOK, AllWhole, NEW r \in Records, Requesting(r)
  PROVE  AllHistory
<1>1. PICK c \in Commands : \/ revokeRequest(r, c) \/ remindRequest(r, c)
                            \/ \E new \in Records : reissueRequest(r, c, new)
  BY DEF Requesting
<1>2. CASE revokeRequest(r, c)
  <2>1. History(r)
    BY <1>2, RevokedHistory DEF revokeRequest, Revoked, TypeOK
  <2>2. ASSUME NEW x \in Records, x # r
        PROVE  History(x)
    <3>1. Same(x)
      BY <1>2, <2>2 DEF revokeRequest, Revoked, TypeOK, Same
    <3> QED
      BY <3>1, SameHistory
  <2> QED
    BY <2>1, <2>2 DEF AllHistory
<1>3. CASE remindRequest(r, c)
  <2>1. \A x \in Records : Same(x)
    BY <1>3 DEF remindRequest, Same
  <2> QED
    BY <2>1, SameHistory DEF AllHistory
<1>4. ASSUME NEW new \in Records, reissueRequest(r, c, new)
      PROVE  AllHistory
  <2> DEFINE f == Fact("request.issued", 0, "requester")
  <2>1. r # new /\ Status(new) = "none" /\ Status(r) \in Open
    BY <1>4 DEF reissueRequest, Open
  <2>2. /\ request'[r] = [request[r] EXCEPT !.status = "revoked"]
        /\ ledger'[r] = appendEvent(ledger[r], Fact("request.reissued", 0, "requester"))
        /\ ledger'[new] = appendEvent(NoLedger, f)
    BY <1>4, <2>1 DEF reissueRequest, TypeOK
  <2>3. f \in Facts
    BY FactTyped DEF Types, Actors
  <2> HIDE DEF f
  <2>4. History(r)
    BY <2>1, <2>2, RevokedHistory
  <2>5. ledger[new] = NoLedger /\ ~Issued(new) /\ Status(new) \notin Closed
    BY <2>1 DEF AllWhole, Whole, Blank, Issued, Closed
  <2>6. History(new)
    BY <2>2, <2>3, <2>5, AppendHistory
  <2>7. ASSUME NEW x \in Records, x # r, x # new
        PROVE  History(x)
    <3>1. Same(x)
      BY <1>4, <2>7 DEF reissueRequest, TypeOK, Same
    <3> QED
      BY <3>1, SameHistory
  <2> QED
    BY <2>4, <2>6, <2>7 DEF AllHistory
<1> QED
  BY <1>1, <1>2, <1>3, <1>4

\* A stop of the tenant rewrites no closed record and is witnessed.
LEMMA StopHistory ==
  ASSUME TypeOK, AllWhole, stopTenantProduction
  PROVE  AllHistory
<1>1. ASSUME NEW r \in Records, Status(r) \in Open
      PROVE  History(r)
  <2>1. /\ request'[r] = [request[r] EXCEPT !.status = "revoked"]
        /\ ledger'[r] = appendEvent(ledger[r], Fact("request.revoked", 0, "requester"))
    BY <1>1 DEF stopTenantProduction
  <2> QED
    BY <1>1, <2>1, RevokedHistory
<1>2. ASSUME NEW r \in Records, Status(r) \notin Open
      PROVE  History(r)
  <2>1. Same(r)
    BY <1>2 DEF stopTenantProduction, Same
  <2> QED
    BY <2>1, SameHistory
<1> QED
  BY <1>1, <1>2 DEF AllHistory

\* The worker and the clock rewrite no closed record and are witnessed.
LEMMA TimeHistory ==
  ASSUME TypeOK, AllWhole, NEW r \in Records,
         ReachSchedule(r) \/ Lapse(r) \/ advanceOneLifecycle(r)
  PROVE  AllHistory
<1>1. request[r] \in RequestRows
  BY RowsTyped
<1>2. ASSUME ReachSchedule(r) \/ Lapse(r)
      PROVE  History(r)
  <2>1. request'[r].status = request[r].status /\ request'[r].workflow = request[r].workflow
    <3>1. CASE ReachSchedule(r)
      BY <1>1, <3>1 DEF ReachSchedule, TypeOK, RequestRows
    <3>2. CASE Lapse(r)
      BY <1>1, <3>2 DEF Lapse, TypeOK, RequestRows
    <3> QED
      BY <1>2, <3>1, <3>2
  <2>2. UNCHANGED <<assignment, activity, interactions, answers, ledger, manifest>>
    BY <1>2 DEF ReachSchedule, Lapse
  <2> QED
    BY <2>1, <2>2 DEF History, Frozen, Witnessed, Changed
<1>3. ASSUME advanceOneLifecycle(r)
      PROVE  History(r)
  <2> DEFINE next == IF request[r].lapsed THEN "expired" ELSE "issued"
             type == IF next = "expired" THEN "request.expired" ELSE "request.issued"
             f == Fact(type, 0, "vasi-worker")
  <2>1. /\ request'[r] = [request[r] EXCEPT !.status = next]
        /\ ledger'[r] = appendEvent(ledger[r], f)
        /\ Status(r) \notin Closed
    BY <1>3, WorkerAppends DEF advanceOneLifecycle, TypeOK, Open, Closed
  <2>2. request'[r].workflow = request[r].workflow
    BY <1>1, <2>1 DEF RequestRows
  <2>3. f \in Facts
    BY FactTyped DEF Types, Actors
  <2> HIDE DEF f
  <2> QED
    BY <2>1, <2>2, <2>3, AppendHistory
<1>4. ASSUME NEW x \in Records, x # r
      PROVE  History(x)
  <2>1. Same(x)
    BY <1>4 DEF ReachSchedule, Lapse, advanceOneLifecycle, TypeOK, Same
  <2> QED
    BY <2>1, SameHistory
<1> QED
  BY <1>2, <1>3, <1>4 DEF AllHistory

-----------------------------------------------------------------------------
(* Reissues.                                                               *)

\* The facts of earlier reissues stay, as revoked records are frozen.
LEMMA ReissuesKept ==
  ASSUME TypeOK, AllWhole, ReissueLinks, AllHistory, NEW new \in Records,
         reissuedFrom[new] # None
  PROVE  /\ reissuedFrom[new] \in Records /\ Issued(new)
         /\ request'[reissuedFrom[new]].status = "revoked"
         /\ ledger'[reissuedFrom[new]].events[Len(ledger'[reissuedFrom[new]].events)].fact.type
              = "request.reissued"
         /\ request'[reissuedFrom[new]].workflow = request'[new].workflow
<1> DEFINE old == reissuedFrom[new]
<1>1. old \in Records
  BY DEF TypeOK
<1>2. Issued(new)
  BY DEF AllWhole, Whole, Blank
<1>3. /\ Status(old) = "revoked" /\ Issued(old) /\ Status(old) \in Closed
      /\ ledger[old].events[Len(ledger[old].events)].fact.type = "request.reissued"
      /\ request[old].workflow = request[new].workflow
  BY DEF ReissueLinks, Issued, Closed
<1>4. ledger'[old] = ledger[old] /\ request'[old].status = "revoked"
  BY <1>1, <1>3 DEF AllHistory, History, Frozen, Status
<1>5. request'[old].workflow = request[old].workflow /\ request'[new].workflow = request[new].workflow
  BY <1>1, <1>2, <1>3 DEF AllHistory, History
<1> QED
  BY <1>1, <1>2, <1>3, <1>4, <1>5

\* A step that reissues nothing keeps every reissued record revoked, with its last event.
LEMMA OthersReissue ==
  ASSUME TypeOK, AllWhole, ReissueLinks, AllHistory, UNCHANGED reissuedFrom
  PROVE  ReissueLinks'
<1> SUFFICES ASSUME NEW new \in Records, reissuedFrom[new] # None
             PROVE  LET old == reissuedFrom[new] IN
                    /\ request'[old].status = "revoked"
                    /\ ledger'[old].events[Len(ledger'[old].events)].fact.type = "request.reissued"
                    /\ request'[old].workflow = request'[new].workflow
                    /\ \A other \in Records : reissuedFrom[other] = old => other = new
  BY DEF ReissueLinks, Status
<1> QED
  BY ReissuesKept DEF ReissueLinks

\* So does a request command; a reissue leaves a new link that holds.
LEMMA RequestingReissues ==
  ASSUME TypeOK, AllWhole, ReissueLinks, AllHistory, NEW r \in Records, Requesting(r)
  PROVE  ReissueLinks'
<1>1. PICK c \in Commands : \/ revokeRequest(r, c) \/ remindRequest(r, c)
                            \/ \E new \in Records : reissueRequest(r, c, new)
  BY DEF Requesting
<1>2. CASE revokeRequest(r, c) \/ remindRequest(r, c)
  BY <1>2, OthersReissue DEF revokeRequest, remindRequest
<1>3. ASSUME NEW new \in Records, reissueRequest(r, c, new)
      PROVE  ReissueLinks'
  <2> DEFINE f == Fact("request.reissued", 0, "requester")
  <2>1. /\ r # new /\ ~Issued(new) /\ Status(r) # "revoked"
        /\ reissuedFrom' = [reissuedFrom EXCEPT ![new] = r]
        /\ request'[r].status = "revoked"
        /\ request'[new].workflow = request[r].workflow
        /\ ledger'[r] = appendEvent(ledger[r], f)
    <3>1. r # new /\ ~Issued(new) /\ Status(r) # "revoked"
      BY <1>3 DEF reissueRequest, Open, Issued
    <3>2. /\ request'[r] = [request[r] EXCEPT !.status = "revoked"]
          /\ request'[new] = NewRequest(request[r].workflow, "issued")
          /\ ledger'[r] = appendEvent(ledger[r], f)
          /\ reissuedFrom' = [reissuedFrom EXCEPT ![new] = r]
      BY <1>3, <3>1 DEF reissueRequest, TypeOK
    <3>3. request'[r].status = "revoked"
      BY <3>2, RowsTyped DEF RequestRows
    <3> QED
      BY <3>1, <3>2, <3>3 DEF NewRequest, Status
  <2>2. ledger'[r].events[Len(ledger'[r].events)].fact.type = "request.reissued"
    <3>1. f \in Facts /\ f.type = "request.reissued"
      BY FactTyped DEF Types, Actors
    <3> HIDE DEF f
    <3>2. Grown(ledger[r], f, ledger'[r])
      BY <2>1, <3>1, RowsTyped, AppendGrows
    <3> QED
      BY <3>1, <3>2 DEF Grown
  <2>3. request'[r].workflow = request[r].workflow
    BY <1>3 DEF AllHistory, History, reissueRequest, Issued, Open
  <2>4. \A x \in Records : reissuedFrom'[x] = IF x = new THEN r ELSE reissuedFrom[x]
    BY <2>1 DEF TypeOK
  <2>5. \A x \in Records : reissuedFrom[x] # r
    BY <2>1, PlanAssumption DEF ReissueLinks
  <2>6. ASSUME NEW x \in Records, reissuedFrom'[x] # None
        PROVE  LET old == reissuedFrom'[x] IN
               /\ request'[old].status = "revoked"
               /\ ledger'[old].events[Len(ledger'[old].events)].fact.type = "request.reissued"
               /\ request'[old].workflow = request'[x].workflow
               /\ \A other \in Records : reissuedFrom'[other] = old => other = x
    <3>1. CASE x = new
      BY <2>1, <2>2, <2>3, <2>4, <2>5, <3>1
    <3>2. CASE x # new
      <4>1. reissuedFrom'[x] = reissuedFrom[x] /\ reissuedFrom[x] # r
        BY <2>4, <2>5, <3>2
      <4>2. \A other \in Records : reissuedFrom[other] = reissuedFrom[x] => other = x
        BY <2>6, <4>1 DEF ReissueLinks
      <4> QED
        BY <2>4, <2>6, <4>1, <4>2, ReissuesKept
    <3> QED
      BY <3>1, <3>2
  <2> QED
    BY <2>6 DEF ReissueLinks, Status
<1> QED
  BY <1>1, <1>2, <1>3

-----------------------------------------------------------------------------
(* The theorems.                                                           *)

\* The invariant holds of the empty tables.
LEMMA InitRecord ==
  ASSUME Init
  PROVE  RecordInv
<1>1. NoManifest \in Manifests
  BY DEF NoManifest, Manifests
<1>2. Typed
  BY <1>1, NoLedgerTyped DEF Init, Typed, Unissued, RequestRows, AssignmentRows, ActivityRows, Statuses
<1>3. ASSUME NEW r \in Records
      PROVE  Whole(r)
  <2>1. /\ Status(r) = "none" /\ ~Issued(r) /\ assignment[r] = [status |-> "none", principal |-> None]
        /\ Blank(r) /\ ~HasWorkflow(r)
    BY DEF Init, Unissued, Status, Issued, HasWorkflow, Blank
  <2>2. Bound(ledger[r], None)
    BY <2>1 DEF Blank, Bound, NoLedger
  <2>3. Told(ledger[r], answers[r], FALSE)
    <3>1. TellsAll(NoLedger, <<>>, FALSE, <<>>)
      BY DEF TellsAll, Tells, EventsOf, NoLedger, Submitted
    <3>2. Told(NoLedger, <<>>, FALSE)
      BY <3>1 DEF Told, TellsAll
    <3> QED
      BY <2>1, <3>2 DEF Blank
  <2>4. Sealed(FALSE, request[r].workflow, None, answers[r], ledger[r], manifest[r])
    BY <2>1 DEF Blank, Sealed, NoManifest
  <2>5. AccessTold(accesses[r], ledger[r]) /\ Live(interactions[r], None, "none")
    BY <2>1 DEF Blank, AccessTold, Live
  <2>6. HasWorkflow(r) = FALSE
    BY <2>1 DEF HasWorkflow, Issued
  <2>7. assignment[r].status = "none" /\ assignment[r].principal = None
    BY <2>1
  <2>8. Agree(Status(r), assignment[r])
    BY <2>1, <2>7 DEF Agree
  <2> QED
    BY <2>1, <2>2, <2>3, <2>4, <2>5, <2>6, <2>7, <2>8 DEF Whole
<1>4. ReissueLinks
  BY DEF Init, ReissueLinks
<1> QED
  BY <1>2, <1>3, <1>4, TypedIsTypeOK DEF RecordInv

\* The invariant is inductive, and no step rewrites a closed record or goes unwitnessed.
LEMMA NextRecord ==
  ASSUME RecordInv, [Next]_vars
  PROVE  RecordInv' /\ AllHistory
<1>1. TypeOK /\ AllWhole /\ ReissueLinks
  BY DEF RecordInv, AllWhole
<1>2. CASE UNCHANGED vars
  <2>1. \A x \in Records : Same(x)
    BY <1>2 DEF vars, Same
  <2>2. AllWhole' /\ AllHistory
    BY <1>1, <2>1, SameWhole, SameHistory DEF AllWhole, AllHistory
  <2>3. TypeOK'
    BY <1>1, <1>2 DEF vars, TypeOK
  <2>4. ReissueLinks'
    BY <1>1, <1>2 DEF vars, ReissueLinks, Status
  <2> QED
    BY <2>2, <2>3, <2>4 DEF RecordInv, AllWhole
<1>3. CASE Issuing
  <2>1. PICK r \in Records, w \in Workflows, scheduled \in BOOLEAN : issueRequest(r, w, scheduled)
    BY <1>3 DEF Issuing
  <2>2. TypeOK' /\ AllWhole' /\ AllHistory
    BY <1>1, <2>1, IssueTyped, IssueKeeps, IssueHistory
  <2>3. ReissueLinks'
    BY <1>1, <2>1, <2>2, OthersReissue DEF issueRequest
  <2> QED
    BY <2>2, <2>3 DEF RecordInv, AllWhole
<1>4. CASE stopTenantProduction
  <2>1. TypeOK' /\ AllWhole' /\ AllHistory
    BY <1>1, <1>4, StopTyped, StopKeeps, StopHistory
  <2>2. ReissueLinks'
    BY <1>1, <1>4, <2>1, OthersReissue DEF stopTenantProduction
  <2> QED
    BY <2>1, <2>2 DEF RecordInv, AllWhole
<1>5. ASSUME NEW r \in Records, NEW s \in Sessions, openAssignment(r, s)
      PROVE  RecordInv' /\ AllHistory
  <2>1. TypeOK' /\ AllWhole' /\ AllHistory
    BY <1>1, <1>5, OpenTyped, OpenKeeps, OpenHistory
  <2>2. ReissueLinks'
    BY <1>1, <1>5, <2>1, OthersReissue DEF openAssignment
  <2> QED
    BY <2>1, <2>2 DEF RecordInv, AllWhole
<1>6. ASSUME NEW r \in Records, Responding(r)
      PROVE  RecordInv' /\ AllHistory
  <2>1. TypeOK' /\ AllWhole' /\ AllHistory
    BY <1>1, <1>6, RespondingKeeps, RespondingHistory
  <2>2. UNCHANGED reissuedFrom
    BY <1>6 DEF Responding, respond, saveActivityResponse, submitActivityResponse
  <2>3. ReissueLinks'
    BY <1>1, <2>1, <2>2, OthersReissue
  <2> QED
    BY <2>1, <2>3 DEF RecordInv, AllWhole
<1>7. ASSUME NEW r \in Records, Reporting(r)
      PROVE  RecordInv' /\ AllHistory
  <2>1. TypeOK' /\ AllWhole'
    BY <1>1, <1>7, ArtifactTyped, ReportTyped, ArtifactKeeps, ReportKeeps DEF Reporting
  <2>2. AllHistory
    BY <1>1, <1>7, ReportingHistory
  <2>3. UNCHANGED reissuedFrom
    BY <1>7 DEF Reporting, openParticipantArtifact, recordMediaEvents, recordInteractionEvents,
                recordParticipantContext
  <2>4. ReissueLinks'
    BY <1>1, <2>2, <2>3, OthersReissue
  <2> QED
    BY <2>1, <2>2, <2>4 DEF RecordInv, AllWhole
<1>8. ASSUME NEW r \in Records, Requesting(r)
      PROVE  RecordInv' /\ AllHistory
  <2>1. TypeOK' /\ AllWhole' /\ AllHistory
    BY <1>1, <1>8, RequestingTyped, RequestingKeeps, RequestingHistory DEF AllWhole
  <2>2. ReissueLinks'
    BY <1>1, <1>8, <2>1, RequestingReissues
  <2> QED
    BY <2>1, <2>2 DEF RecordInv, AllWhole
<1>9. ASSUME NEW r \in Records, ReachSchedule(r) \/ Lapse(r) \/ advanceOneLifecycle(r)
      PROVE  RecordInv' /\ AllHistory
  <2>1. TypeOK' /\ AllWhole' /\ AllHistory
    BY <1>1, <1>9, TimeTyped, TimeKeeps, TimeHistory
  <2>2. UNCHANGED reissuedFrom
    BY <1>9 DEF ReachSchedule, Lapse, advanceOneLifecycle
  <2>3. ReissueLinks'
    BY <1>1, <2>1, <2>2, OthersReissue
  <2> QED
    BY <2>1, <2>3 DEF RecordInv, AllWhole
<1> QED
  BY <1>2, <1>3, <1>4, <1>5, <1>6, <1>7, <1>8, <1>9 DEF Next

\* The invariant holds in every state.
THEOREM RecordInvariant == Spec => []RecordInv
<1>1. Init => RecordInv
  BY InitRecord
<1>2. RecordInv /\ [Next]_vars => RecordInv'
  BY NextRecord
<1> QED
  BY <1>1, <1>2, PTL DEF Spec

\* The tables of a record agree with one another at every commit: its two statuses,
\* its chain, its activities, its sessions, its answers and its reissues.
THEOREM RecordIsSound == Spec => []RecordSound
<1>1. RecordInv => RecordSound
  BY WholeIsSound
<1> QED
  BY <1>1, RecordInvariant, PTL

\* What is sealed verifies at any later time, against the rows as they are then.
THEOREM SealedVerifies == Spec => []SealedRecordVerifies
<1>1. RecordInv => SealedRecordVerifies
  BY WholeIsSound
<1> QED
  BY <1>1, RecordInvariant, PTL

\* No handler, sweep or production stop changes a closed record.
THEOREM ClosedIsFrozen == Spec => ClosedRecordFrozen
<1>1. RecordInv /\ [Next]_vars =>
        [\A r \in Records :
           Status(r) \in Closed =>
             /\ request'[r].status = request[r].status
             /\ assignment'[r] = assignment[r]
             /\ activity'[r] = activity[r]
             /\ interactions'[r] = interactions[r]
             /\ answers'[r] = answers[r]
             /\ ledger'[r] = ledger[r]
             /\ manifest'[r] = manifest[r]]_vars
  BY NextRecord DEF AllHistory, History, Frozen
<1> QED
  BY <1>1, RecordInvariant, PTL DEF Spec, ClosedRecordFrozen

\* Every change of a record is witnessed by an event of the same transaction.
THEOREM ChangesWitnessed == Spec => ChangesAreWitnessed
<1>1. RecordInv /\ [Next]_vars =>
        [\A r \in Records :
           (\/ request'[r].status # request[r].status
            \/ assignment'[r] # assignment[r]
            \/ activity'[r] # activity[r]
            \/ interactions'[r] # interactions[r]
            \/ answers'[r] # answers[r]
            \/ manifest'[r] # manifest[r])
           => ledger'[r].lastSequence > ledger[r].lastSequence]_vars
  BY NextRecord DEF AllHistory, History, Witnessed, Changed
<1> QED
  BY <1>1, RecordInvariant, PTL DEF Spec, ChangesAreWitnessed
=============================================================================

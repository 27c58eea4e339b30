-------------------------- MODULE TelemetryRecorder --------------------------
(***************************************************************************)
(* One participant's page reporting telemetry to the engine: the recorder  *)
(* hooks of the page (activity-interaction-recorder.tsx, the hook of       *)
(* external-media-activity.tsx, participant-context-recorder.tsx) and the  *)
(* batch handlers of the stores.                                           *)
(*                                                                         *)
(* The page queues events, cuts a batch, and keeps it until an answer says *)
(* it was recorded; a batch is sent again under its id.  The engine takes  *)
(* a batch once.  An event is its number within its telemetry session.     *)
(***************************************************************************)
EXTENDS Naturals, Sequences, SequencesExt, FiniteSets, FiniteSetsExt

CONSTANTS
    MaxSessions,    \* bound: telemetry sessions of the page
    MaxEmitted,     \* bound: events emitted; later heartbeats only arm the timer
    BatchLimit,     \* 100 events in a batch (1 for context snapshots)
    EventLimit,     \* maxEventsPerActivity
    MaxNetworkFaults \* bound: requests or answers lost, and timeouts

ASSUME RecorderAssumption ==
    MaxSessions \in Nat \ {0} /\ BatchLimit \in Nat \ {0} /\ EventLimit \in Nat

VARIABLES
    kind,           \* which of the three recorders: interaction, media or context
    page,           \* the refs of the hook
    wire,           \* requests and answers under way
    batches,        \* activity_interaction_event_batch
    stored,         \* activity_interaction_event: the events of each session
    summaries,      \* ..._summary_revision: the events each was calculated from
    links,          \* the events of the evidence chain that name a batch
    accepting,      \* the activity is available and its interaction open
    networkFaults

recorderVars == <<kind, page, wire, batches, stored, summaries, links, accepting, networkFaults>>
engineVars == <<batches, stored, summaries, links>>

Session == 1..MaxSessions
\* resume emits presented, the visibility and the focus; the media hook presented
\* and the focus; the context hook takes the snapshot of the presentation.
Burst == CASE kind = "interaction" -> 3 [] kind = "media" -> 2 [] OTHER -> 1
\* The media and the context hook keep one session for as long as the page lives.
Sessions == IF kind = "interaction" THEN MaxSessions ELSE 1

RecorderInit ==
    /\ page = [session |-> 0, sequence |-> [s \in Session |-> 0], disconnected |-> TRUE,
               queue |-> <<>>, pendingBatch |-> {}, made |-> 0, timer |-> FALSE,
               waiting |-> {}, keepalive |-> FALSE, alive |-> TRUE]
    /\ kind \in {"interaction", "media", "context"}
    /\ wire = {} /\ batches = {} /\ summaries = <<>> /\ links = {}
    /\ stored = [s \in Session |-> <<>>]
    /\ accepting = TRUE /\ networkFaults = 0

Emitted == MapThenSumSet(LAMBDA s : page.sequence[s], Session)

\* The page after n more events of its session.
Push(p, n) ==
    [p EXCEPT !.sequence[p.session] = @ + n,
              !.queue = @ \o [i \in 1..n |-> [session |-> p.session,
                                              sequence |-> p.sequence[p.session] + i]],
              !.timer = TRUE]

(***************************************************************************)
(* The page                                                                *)
(***************************************************************************)

resume ==
    /\ page.alive /\ page.session < Sessions /\ Emitted + Burst <= MaxEmitted
    /\ page' = Push([page EXCEPT !.session = @ + 1, !.disconnected = FALSE], Burst)
    /\ UNCHANGED <<kind, wire, engineVars, accepting, networkFaults>>

\* A heartbeat, or any other event of a connected session; of the context hook the
\* snapshot of a save or a submission.
emit ==
    /\ page.alive /\ page.session > 0 /\ (~page.disconnected \/ kind = "context")
    /\ IF Emitted < MaxEmitted THEN page' = Push(page, 1)
       ELSE kind # "context" /\ page' = [page EXCEPT !.timer = TRUE]
    /\ UNCHANGED <<kind, wire, engineVars, accepting, networkFaults>>

\* The longest run of events of one session at the head of the queue, cut at the limit.
BatchLength(q) ==
    Max({n \in 1..Len(q) : n <= (IF kind = "context" THEN 1 ELSE BatchLimit) /\ \A i \in 1..n : q[i].session = q[1].session})

\* One turn of the flush loop: the batch that waits, or else a new one from the
\* queue, goes out; with neither the flush is over.
FlushTurn(p, keepalive) ==
    LET n == BatchLength(p.queue)
        cut == IF p.pendingBatch = {} /\ p.queue # <<>>
               THEN [p EXCEPT !.pendingBatch = {[id |-> p.made + 1, session |-> p.queue[1].session,
                                                 events |-> [i \in 1..n |-> p.queue[i].sequence]]},
                              !.made = @ + 1, !.queue = SubSeq(@, n + 1, Len(@))]
               ELSE p
    IN  [cut EXCEPT !.waiting = cut.pendingBatch, !.keepalive = keepalive]

\* The page still waits for the answer to a message that is awaited.
Request(p) == {[kind |-> "request", awaited |-> TRUE, batch |-> b] : b \in p.waiting}
Forgotten(w) == {[m EXCEPT !.awaited = FALSE] : m \in w}

\* A flush waits for the one under way instead of starting beside it.
CanFlush == page.alive /\ page.waiting = {} /\ page.session > 0

\* The timer of the last emit, or disconnectAndFlush.
flush ==
    /\ CanFlush /\ page.timer
    /\ LET p == FlushTurn([page EXCEPT !.timer = FALSE], FALSE)
       IN  page' = p /\ wire' = wire \cup Request(p)
    /\ UNCHANGED <<kind, engineVars, accepting, networkFaults>>

\* The media hook's flush returns at once while another one is under way: the timer
\* is spent.
flushMedia ==
    /\ kind = "media" /\ page.waiting # {} /\ page.timer
    /\ page' = [page EXCEPT !.timer = FALSE]
    /\ UNCHANGED <<kind, wire, engineVars, accepting, networkFaults>>

\* pagehide and unmounting: the last event, which the context hook does not have, and
\* one request that outlives the page.
disconnect ==
    /\ page.alive /\ ~page.disconnected /\ Emitted < MaxEmitted
    /\ LET p == [(IF kind = "context" THEN page ELSE Push(page, 1)) EXCEPT !.disconnected = TRUE]
           sent == IF CanFlush THEN FlushTurn(p, TRUE) ELSE p
       IN  /\ page' = sent
           /\ wire' = IF CanFlush THEN wire \cup Request(sent) ELSE wire
    /\ UNCHANGED <<kind, engineVars, accepting, networkFaults>>

\* The page is gone; what it has sent is not.
closePage ==
    /\ page.alive /\ page.disconnected /\ page.session > 0
    /\ page' = [page EXCEPT !.alive = FALSE, !.timer = FALSE, !.waiting = {},
                            !.queue = <<>>, !.pendingBatch = {}]
    /\ wire' = Forgotten(wire)
    /\ UNCHANGED <<kind, engineVars, accepting, networkFaults>>

\* Mutant: a batch that was refused or not answered is given up.
flushFailed_Drop(p) == [p EXCEPT !.waiting = {}, !.pendingBatch = {}]

\* The error is shown; the batch stays for the next flush.
flushFailed(p) == [p EXCEPT !.waiting = {}]

\* The loop goes on with the next batch, unless it was the farewell of the page.
receiveAnswer(m) ==
    /\ m.kind = "answer"
    /\ LET done == [page EXCEPT !.waiting = {}, !.pendingBatch = {}]
           p == IF ~m.awaited THEN page
                ELSE IF ~m.ok THEN flushFailed(page)
                ELSE IF page.keepalive THEN done
                ELSE FlushTurn(done, FALSE)
       IN  /\ page' = p
           /\ wire' = (wire \ {m}) \cup (IF m.awaited /\ m.ok /\ ~page.keepalive
                                         THEN Request(p) ELSE {})
    /\ UNCHANGED <<kind, engineVars, accepting, networkFaults>>

\* AbortSignal.timeout(4 s): the request may still arrive.
timeout ==
    /\ page.alive /\ page.waiting # {} /\ ~page.keepalive /\ kind # "media"
    /\ networkFaults < MaxNetworkFaults
    /\ page' = flushFailed(page)
    /\ wire' = Forgotten(wire)
    /\ networkFaults' = networkFaults + 1
    /\ UNCHANGED <<kind, engineVars, accepting>>

loseMessage(m) ==
    /\ networkFaults < MaxNetworkFaults
    /\ wire' = wire \ {m}
    /\ page' = IF m.awaited THEN flushFailed(page) ELSE page
    /\ networkFaults' = networkFaults + 1
    /\ UNCHANGED <<kind, engineVars, accepting>>

(***************************************************************************)
(* The engine                                                              *)
(***************************************************************************)

\* The events of all sessions, each a row of its own.
StoredRows == UNION {{s} \X DOMAIN stored[s] : s \in Session}
StoredCount == Cardinality(StoredRows)

\* Mutant: the engine does not look for a batch it has already recorded.
Known_Never(b) == {}

\* A known id is answered as a duplicate if its payload is the same.
Known(b) == {x \in batches : x.id = b.id}

Increasing(q) == \A i, j \in DOMAIN q : i < j => q[i] < q[j]
validateActivityInteractionBatch(b) ==
    Len(b.events) \in 1..BatchLimit /\ Increasing(b.events)

\* The limit, and the order of the sequences of a session; the first snapshot of a
\* context session is its first.
Admissible(b) ==
    /\ accepting /\ validateActivityInteractionBatch(b) /\ Known(b) = {}
    /\ StoredCount + Len(b.events) <= EventLimit
    /\ IF stored[b.session] = <<>> THEN kind = "context" => b.events[1] = 1
       ELSE b.events[1] > Last(stored[b.session])

\* The batch, its events, a new revision of the summary of all events, and the event
\* of the chain that names both.
RecordBatch(b) ==
    /\ batches' = batches \cup {b}
    /\ stored' = [stored EXCEPT ![b.session] = @ \o b.events]
    /\ summaries' = Append(summaries, stored')
    /\ links' = links \cup {[batch |-> b, revision |-> Len(summaries) + 1, summary |-> stored']}

\* A snapshot has no summary; the chain names it.
RecordSnapshot(b) ==
    /\ batches' = batches \cup {b}
    /\ stored' = [stored EXCEPT ![b.session] = @ \o b.events]
    /\ links' = links \cup {[batch |-> b, revision |-> 0, summary |-> stored]}
    /\ UNCHANGED summaries

Answer(m) ==
    wire' = (wire \ {m}) \cup {[kind |-> "answer", awaited |-> m.awaited,
                 ok |-> Admissible(m.batch) \/ (accepting /\ Known(m.batch) = {m.batch})]}

\* One transaction, the assignment and the interaction locked: the activity must be
\* available.
recordParticipantEvents(m) ==
    /\ m.kind = "request" /\ kind = "interaction"
    /\ IF Admissible(m.batch) THEN RecordBatch(m.batch) ELSE UNCHANGED engineVars
    /\ Answer(m)
    /\ UNCHANGED <<kind, page, accepting, networkFaults>>

recordMediaEvents(m) ==
    /\ m.kind = "request" /\ kind = "media"
    /\ IF Admissible(m.batch) THEN RecordBatch(m.batch) ELSE UNCHANGED engineVars
    /\ Answer(m)
    /\ UNCHANGED <<kind, page, accepting, networkFaults>>

recordParticipantContext(m) ==
    /\ m.kind = "request" /\ kind = "context"
    /\ IF Admissible(m.batch) THEN RecordSnapshot(m.batch) ELSE UNCHANGED engineVars
    /\ Answer(m)
    /\ UNCHANGED <<kind, page, accepting, networkFaults>>

\* The activity is completed, here or in another tab.
completeActivity ==
    /\ accepting
    /\ accepting' = FALSE
    /\ UNCHANGED <<kind, page, wire, engineVars, networkFaults>>

Deliver ==
    \E m \in wire : \/ recordParticipantEvents(m) \/ recordMediaEvents(m)
                    \/ recordParticipantContext(m) \/ receiveAnswer(m)

RecorderNext ==
    \/ resume \/ emit \/ flush \/ flushMedia \/ disconnect \/ closePage \/ timeout
    \/ Deliver \/ (\E m \in wire : loseMessage(m)) \/ completeActivity

(***************************************************************************)
(* The verifier, on what the loaders read for the record                   *)
(***************************************************************************)

LinksOf(b) == {l \in links : l.batch.id = b.id}
BatchRows == UNION {{b} \X DOMAIN b.events : b \in batches}

\* Every event in order and in one batch, every batch and every summary named by one
\* event of the chain, and the last summary that of all events.
verifyActivityInteractionEvidence ==
    /\ \A s \in Session : Increasing(stored[s])
    /\ \A b \in batches : Range(b.events) \subseteq Range(stored[b.session])
    /\ Cardinality(BatchRows) = StoredCount
    /\ \A b \in batches : \E l \in links : LinksOf(b) = {l} /\ l.batch = b
    /\ Cardinality(links) = Cardinality(batches)
    /\ \A l \in links : l.revision \in DOMAIN summaries /\ summaries[l.revision] = l.summary
    /\ {l.revision : l \in links} = DOMAIN summaries
    /\ IF summaries = <<>> THEN StoredCount = 0 ELSE Last(summaries) = stored

\* A session begins with its presentation and goes on in order, within the limit.
verifyParticipantContextEvidence ==
    /\ \A s \in Session : Increasing(stored[s]) /\ (stored[s] # <<>> => stored[s][1] = 1)
    /\ StoredCount <= EventLimit /\ Cardinality(links) = StoredCount
    /\ \A b \in batches : \E l \in links : LinksOf(b) = {l} /\ l.batch = b

\* Heartbeats go on while the session is connected, timers fire, and what is under
\* way arrives unless it is lost.
RecorderFairness ==
    /\ WF_recorderVars(kind # "context" /\ emit) /\ WF_recorderVars(flush) /\ WF_recorderVars(Deliver)

(***************************************************************************)
(* Properties                                                              *)
(***************************************************************************)

(* What the engine holds of a session is a prefix of what the page emitted in *)
(* it: no event twice, none missing in the middle, none out of order,         *)
(* although answers are lost, requests time out and arrive late, and the      *)
(* farewell of a closing page races the flush under way.                      *)
RecordedPrefix ==
    \A s \in Session : stored[s] = [i \in 1..Len(stored[s]) |-> i]
                       /\ Len(stored[s]) <= page.sequence[s]

(* The telemetry of a record that is sealed now would verify: whatever was    *)
(* lost, late or sent twice, the engine's rows, summaries and chain events    *)
(* agree in the way the independent verifier asks for.                        *)
TelemetryVerifies ==
    /\ kind = "interaction" => verifyActivityInteractionEvidence
    /\ kind = "context" => verifyParticipantContextEvidence

(* A page that stays connected to an open activity brings every event it      *)
(* emitted to the engine, until the engine has no room for another batch: no  *)
(* lost answer leaves the recorder repeating a batch that is refused for      *)
(* ever.                                                                      *)
AllRecorded == \A s \in Session : Len(stored[s]) = page.sequence[s]
RecorderDrains ==
    <>[](page.alive /\ page.session > 0 /\ ~page.disconnected /\ accepting /\ kind # "context")
      => []<>(AllRecorded \/ StoredCount + BatchLimit > EventLimit)

(* The telemetry of an activity is what the page reported, and verifies.      *)
TelemetrySound == RecordedPrefix /\ TelemetryVerifies
=============================================================================

----------------------------- MODULE ServiceFront -----------------------------
(***************************************************************************)
(* How a command of the web front reaches the private engine.  The front   *)
(* signs a fresh assertion of who acts for every call and waits; the       *)
(* private ingress on the engine's host signs the request it forwards with *)
(* a fresh request id; the engine checks that signature's age, refuses a   *)
(* request id it remembers, checks the assertion by its own clock, takes   *)
(* the assertion's row in the database, and only then runs the command.    *)
(* Requests are lost, delayed and delivered more than once; the engine     *)
(* restarts and forgets its request ids; the worker deletes the rows of    *)
(* expired assertions by the database's clock.  The integration gateway    *)
(* authenticates its callers in the same way.                              *)
(***************************************************************************)
EXTENDS RateLimits

CONSTANTS
    FrontCalls,      \* calls of the front, each with its own assertion
    ClockOffsets,    \* how far another host's clock may be from the engine's
    SignedWindow,    \* SERVICE_REQUEST_WINDOW_SECONDS
    AssertionLife,   \* from issue to expiry
    ClockTolerance,  \* what jwtVerify forgives
    MaxTokenAge,          \* maxTokenAge
    IssueSlack,      \* how far ahead validateActorAssertionClaims lets an issue be
    MaxLifetime,     \* ACTOR_ASSERTION_MAX_LIFETIME_SECONDS
    MaxRepeats,      \* bound: requests delivered again
    MaxRestarts,     \* bound: restarts of the engine
    MaxFrontTime     \* bound: length of a behaviour

ASSUME FrontAssumption ==
    /\ ClockOffsets \subseteq Int
    /\ {SignedWindow, AssertionLife, ClockTolerance, MaxTokenAge, IssueSlack, MaxLifetime} \subseteq Nat
    /\ {MaxRepeats, MaxRestarts, MaxFrontTime} \subseteq Nat
    \* 30 s against 60 s and 5 s; 5 s against 15 s; 60 s against 120 s.
    /\ SignedWindow + ClockTolerance < AssertionLife
    /\ ClockTolerance <= IssueSlack
    /\ AssertionLife <= MaxLifetime /\ AssertionLife <= MaxTokenAge

VARIABLES
    frontClock,    \* the clock of the engine's host
    frontOffset,   \* the web front's clock minus it
    databaseOffset, \* the database's clock minus it
    frontCall,     \* call -> [pc, sentAt, answer]
    signed,        \* requests the ingress signed, at the engine
    nextRequest,   \* request ids drawn so far
    seenServiceRequests, \* [id, until] the engine remembers
    replayRows,    \* calls whose assertion has its row
    ranInTime,     \* history: call -> times its command ran on a row taken before its expiry
    ranLate,       \* history: call -> times its command ran on a row taken after its expiry
    repeated,      \* history: calls with a request delivered again
    repeats, restarts

frontVars == <<frontClock, frontOffset, databaseOffset, frontCall, signed, nextRequest,
               seenServiceRequests, replayRows, ranInTime, ranLate, repeated, repeats, restarts>>

Answers == {"none", "ok", "failed", "unauthorized", "replayed", "not_found", "too_large",
            "unavailable"}

FrontInit ==
    /\ frontClock = 0
    /\ frontOffset \in ClockOffsets
    /\ databaseOffset \in ClockOffsets
    /\ frontCall = [c \in FrontCalls |-> [pc |-> "idle", sentAt |-> 0, answer |-> "none"]]
    /\ signed = {}
    /\ nextRequest = 0
    /\ seenServiceRequests = {}
    /\ replayRows = {}
    /\ ranInTime = [c \in FrontCalls |-> 0]
    /\ ranLate = [c \in FrontCalls |-> 0]
    /\ repeated = {}
    /\ repeats = 0
    /\ restarts = 0

\* The claims of a call's assertion, by the front's clock when it called.
IssuedAt(c) == frontCall[c].sentAt + frontOffset
ExpiresAt(c) == IssuedAt(c) + AssertionLife

Answered(c, answer) == [frontCall EXCEPT ![c].pc = "answered", ![c].answer = answer]
\* The answer of one request reaches the front when that still waits for it.
Reply(r, answer) ==
    frontCall' = IF r.waits /\ frontCall[r.call].pc = "forwarded"
                 THEN Answered(r.call, answer) ELSE frontCall
Moved(r, stage) == signed' = (signed \ {r}) \cup {[r EXCEPT !.stage = stage]}

-----------------------------------------------------------------------------
(* The web front and the ingress.                                          *)

requestEngineAction(c) ==
    /\ frontCall[c].pc = "idle"
    /\ frontCall' = [frontCall EXCEPT ![c] = [pc |-> "sent", sentAt |-> frontClock, answer |-> "none"]]
    /\ UNCHANGED <<frontClock, frontOffset, databaseOffset, signed, nextRequest,
                   seenServiceRequests, replayRows, ranInTime, ranLate, repeated, repeats, restarts>>

\* A request of the ingress: signed now, under an id of its own.
SignedNow(c, waits) ==
    [id |-> nextRequest, copy |-> 0, call |-> c, timestamp |-> frontClock, waits |-> waits,
     stage |-> "arrived", late |-> FALSE]

\* The ingress forwards a call it has a route for and whose body it accepts.
proxyToEngine(c) ==
    /\ frontCall[c].pc = "sent"
    /\ \/ /\ frontCall' = [frontCall EXCEPT ![c].pc = "forwarded"]
          /\ signed' = signed \cup {SignedNow(c, TRUE)}
          /\ nextRequest' = nextRequest + 1
       \/ /\ \E answer \in {"not_found", "too_large", "unavailable"} : frontCall' = Answered(c, answer)
          /\ UNCHANGED <<signed, nextRequest>>
    /\ UNCHANGED <<frontClock, frontOffset, databaseOffset, seenServiceRequests, replayRows,
                   ranInTime, ranLate, repeated, repeats, restarts>>

Repeat(c) ==
    /\ repeats < MaxRepeats
    /\ repeats' = repeats + 1
    /\ repeated' = repeated \cup {c}

\* The network delivers a call to the ingress again, and a signed request to
\* the engine again; nobody waits for the answer.
repeatCall(c) ==
    /\ frontCall[c].pc \in {"forwarded", "answered"}
    /\ Repeat(c)
    /\ signed' = signed \cup {SignedNow(c, FALSE)}
    /\ nextRequest' = nextRequest + 1
    /\ UNCHANGED <<frontClock, frontOffset, databaseOffset, frontCall, seenServiceRequests,
                   replayRows, ranInTime, ranLate, restarts>>

repeatSigned(r) ==
    /\ Repeat(r.call)
    /\ signed' = signed \cup {[r EXCEPT !.copy = repeats + 1, !.waits = FALSE,
                                        !.stage = "arrived", !.late = FALSE]}
    /\ UNCHANGED <<frontClock, frontOffset, databaseOffset, frontCall, nextRequest,
                   seenServiceRequests, replayRows, ranInTime, ranLate, restarts>>

\* The ingress, after 5 seconds, or the front, after 7.5, stops waiting; for a
\* document both wait for 5 minutes.
giveUp(c) ==
    /\ frontCall[c].pc \in {"sent", "forwarded"}
    /\ frontCall' = Answered(c, "unavailable")
    /\ UNCHANGED <<frontClock, frontOffset, databaseOffset, signed, nextRequest,
                   seenServiceRequests, replayRows, ranInTime, ranLate, repeated, repeats, restarts>>

-----------------------------------------------------------------------------
(* The engine.                                                             *)

InWindow(r) == frontClock - r.timestamp \in (-SignedWindow)..SignedWindow
Remembered == {s \in seenServiceRequests : s.until > frontClock}

\* The signature's age and the request id; the id is remembered for a window
\* from now.
authenticateServiceRequest(r) ==
    /\ r.stage = "arrived"
    /\ seenServiceRequests' =
         IF ~InWindow(r) THEN seenServiceRequests
         ELSE IF \E s \in Remembered : s.id = r.id THEN Remembered
         ELSE Remembered \cup {[id |-> r.id, until |-> frontClock + SignedWindow]}
    /\ \/ /\ InWindow(r) /\ \A s \in Remembered : s.id # r.id
          /\ Moved(r, "admitted")
          /\ UNCHANGED frontCall
       \/ /\ ~(InWindow(r) /\ \A s \in Remembered : s.id # r.id)
          /\ Moved(r, "done")
          /\ Reply(r, "unauthorized")
    /\ UNCHANGED <<frontClock, frontOffset, databaseOffset, nextRequest, replayRows, ranInTime, ranLate,
                   repeated, repeats, restarts>>

\* jwtVerify and validateActorAssertionClaims: the assertion is not expired, of
\* an age and a lifetime that are allowed, and not issued in the future.
ClaimsHold(c) ==
    /\ ExpiresAt(c) > frontClock
    /\ frontClock - IssuedAt(c) <= MaxTokenAge + ClockTolerance
    /\ IssuedAt(c) <= frontClock + ClockTolerance
    /\ IssuedAt(c) <= frontClock + IssueSlack
    /\ ExpiresAt(c) - IssuedAt(c) <= MaxLifetime

verifyAssertion(r) ==
    /\ r.stage = "admitted"
    /\ \/ ClaimsHold(r.call) /\ Moved(r, "verified") /\ UNCHANGED frontCall
       \/ ~ClaimsHold(r.call) /\ Moved(r, "done") /\ Reply(r, "unauthorized")
    /\ UNCHANGED <<frontClock, frontOffset, databaseOffset, nextRequest, seenServiceRequests,
                   replayRows, ranInTime, ranLate, repeated, repeats, restarts>>

\* The database says that the row of the assertion has run out.
RowExpired(c) == ExpiresAt(c) < frontClock + databaseOffset

\* Mutant: the conflict on the row is not looked at.
FirstUse_Ignored(c) == TRUE
FirstUse(c) == c \notin replayRows

\* The row is inserted, or was there, or the database does not answer.
verifyActor(r) ==
    /\ r.stage = "verified"
    /\ \/ /\ FirstUse(r.call)
          /\ replayRows' = replayRows \cup {r.call}
          /\ signed' = (signed \ {r}) \cup {[r EXCEPT !.stage = "claimed", !.late = RowExpired(r.call)]}
          /\ UNCHANGED frontCall
       \/ /\ ~FirstUse(r.call)
          /\ Moved(r, "done")
          /\ Reply(r, "replayed")
          /\ UNCHANGED replayRows
       \/ /\ Moved(r, "done")
          /\ Reply(r, "failed")
          /\ UNCHANGED replayRows
    /\ UNCHANGED <<frontClock, frontOffset, databaseOffset, nextRequest, seenServiceRequests,
                   ranInTime, ranLate, repeated, repeats, restarts>>

\* The command runs, or its store refuses it or fails; what it committed may
\* still be answered with a failure.
dispatchEvidence(r) ==
    /\ r.stage = "claimed"
    /\ Moved(r, "done")
    /\ \/ /\ IF r.late THEN ranLate' = [ranLate EXCEPT ![r.call] = @ + 1] /\ UNCHANGED ranInTime
             ELSE ranInTime' = [ranInTime EXCEPT ![r.call] = @ + 1] /\ UNCHANGED ranLate
          /\ \E answer \in {"ok", "failed"} : Reply(r, answer)
       \/ Reply(r, "failed") /\ UNCHANGED <<ranInTime, ranLate>>
    /\ UNCHANGED <<frontClock, frontOffset, databaseOffset, nextRequest, seenServiceRequests,
                   replayRows, repeated, repeats, restarts>>

\* The engine restarts: what it was doing is lost, and so are the ids it knew.
restartEngine ==
    /\ restarts < MaxRestarts
    /\ restarts' = restarts + 1
    /\ seenServiceRequests' = {}
    /\ signed' = {[r EXCEPT !.stage = "done"] : r \in signed}
    /\ frontCall' = [c \in FrontCalls |->
           IF frontCall[c].pc = "forwarded"
           THEN [frontCall[c] EXCEPT !.pc = "answered", !.answer = "unavailable"] ELSE frontCall[c]]
    /\ UNCHANGED <<frontClock, frontOffset, databaseOffset, nextRequest, replayRows, ranInTime, ranLate,
                   repeated, repeats>>

\* The worker deletes the rows of expired assertions.
deleteExpiredAssertions ==
    /\ replayRows' = {c \in replayRows : ~RowExpired(c)}
    /\ UNCHANGED <<frontClock, frontOffset, databaseOffset, frontCall, signed, nextRequest,
                   seenServiceRequests, ranInTime, ranLate, repeated, repeats, restarts>>

frontTick ==
    /\ frontClock < MaxFrontTime
    /\ frontClock' = frontClock + 1
    /\ UNCHANGED <<frontOffset, databaseOffset, frontCall, signed, nextRequest,
                   seenServiceRequests, replayRows, ranInTime, ranLate, repeated, repeats, restarts>>

FrontNext ==
    \/ \E c \in FrontCalls :
         requestEngineAction(c) \/ proxyToEngine(c) \/ repeatCall(c) \/ giveUp(c)
    \/ \E r \in signed :
         \/ repeatSigned(r)
         \/ authenticateServiceRequest(r)
         \/ verifyAssertion(r)
         \/ verifyActor(r)
         \/ dispatchEvidence(r)
    \/ restartEngine
    \/ deleteExpiredAssertions
    \/ frontTick

FrontSpec == FrontInit /\ [][FrontNext]_frontVars

-----------------------------------------------------------------------------
(* Properties.                                                             *)

Runs(c) == ranInTime[c] + ranLate[c]

\* However often its request is delivered, and although the engine forgets
\* request ids after a window and on a restart, a command runs once on an
\* assertion until the database holds the assertion to be run out.  From then
\* on the worker may have deleted its row, and a request that was verified
\* before, or that the engine's clock still accepts, runs the command again.
CommandOnce ==
    \A c \in FrontCalls :
        /\ ranInTime[c] <= 1
        /\ Runs(c) > 1 => RowExpired(c)

\* A caller told "ok" had its command run.
AnswersTrue == \A c \in FrontCalls : frontCall[c].answer = "ok" => Runs(c) > 0

\* Nobody is turned away by mistake: a call that is delivered once, by a front
\* whose clock is right up to the tolerance, is refused for its assertion or as
\* a replay only when it was on its way for longer than the signature lives.
FreshCallsPass ==
    \A c \in FrontCalls :
        /\ frontCall[c].answer \in {"unauthorized", "replayed"}
        /\ c \notin repeated
        /\ frontOffset \in (-ClockTolerance)..ClockTolerance
        => frontClock - frontCall[c].sentAt > SignedWindow

\* The fronts keep what they promise: calls of the engine, and rate limits.
FrontSound == CommandOnce /\ AnswersTrue /\ FreshCallsPass /\ RatesKept
=============================================================================

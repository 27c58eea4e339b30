--------------------------- MODULE TelemetryCredit ---------------------------
(***************************************************************************)
(* What a participant is credited with: the summaries that the engine      *)
(* computes from the events of one telemetry session (engine-domain        *)
(* interaction.mjs and media.mjs), against what really happened at the     *)
(* page that emitted them (the recorder hooks and the player surfaces of   *)
(* the web front).                                                         *)
(*                                                                         *)
(* Time and positions are in seconds.  Each summary is a loop over the     *)
(* events in their order, so the model carries the state of the loop along *)
(* and takes one turn of it with every event; the summary of any prefix    *)
(* that has been recorded is an earlier state of it.                       *)
(***************************************************************************)
EXTENDS Integers, FiniteSets, FiniteSetsExt

CONSTANTS
    MaxSeconds,     \* bound: how long the session lasts
    MaxPosition,    \* bound: length of the video
    HeartbeatSeconds, IdleSeconds, MaxCreditedGapSeconds,
    Rates,          \* playback rates
    Jumps,          \* bound: seconds by which the participant skips
    MaxUserActs     \* bound: what the participant does

\* The settings the engine accepts: neither limit is below the heartbeat.
activityInteractionPolicy ==
    /\ HeartbeatSeconds \in Nat \ {0} /\ IdleSeconds >= HeartbeatSeconds
    /\ MaxCreditedGapSeconds >= HeartbeatSeconds

\* The session and the video end, the player has a fastest rate, whole here, and no
\* rate stands still.
ASSUME CreditAssumption ==
    /\ activityInteractionPolicy /\ IdleSeconds \in Nat /\ MaxCreditedGapSeconds \in Nat
    /\ MaxSeconds \in Nat \ {0} /\ MaxPosition \in Nat
    /\ Rates \subseteq Nat \ {0} /\ Jumps \subseteq Int
    /\ \E fastest \in Rates : \A rate \in Rates : rate <= fastest

VARIABLES
    world,          \* the page and the player as they are
    truth,          \* what happened, second by second
    presence,       \* the loop of calculateActivityInteractionSummary
    playback        \* the loop of calculateMediaSummary

creditVars == <<world, truth, presence, playback>>

CreditInit ==
    /\ world = [clock |-> 0, connected |-> FALSE, visible |-> FALSE, focused |-> FALSE,
                player |-> "paused", position |-> 0, known |-> 0, rate |-> 1,
                prior |-> {}, touched |-> {}, acts |-> 0]
    /\ truth = [open |-> 0, foreground |-> 0, engaged |-> 0, played |-> {}, skips |-> 0,
                asleep |-> 0]
    /\ presence = [last |-> {}, opened |-> FALSE, visible |-> FALSE, focused |-> FALSE,
                   interaction |-> {}, open |-> 0, foreground |-> 0, engaged |-> 0,
                   uncredited |-> 0]
    /\ playback = [last |-> {}, visible |-> FALSE, playing |-> FALSE, buffering |-> FALSE,
                   rate |-> 1, sample |-> {}, credited |-> {}, gaps |-> 0, ended |-> FALSE]

(***************************************************************************)
(* The loops of the engine                                                 *)
(***************************************************************************)

Delta(loop, t) == t - Max(loop.last \cup {0})

\* Mutant: a long silence is credited like any other interval.
InteractionTime_NoGap(i, t) ==
    LET d == Delta(i, t)
        shown == i.visible /\ i.focused
        busy == \E x \in i.interaction : Max(i.last) - x <= IdleSeconds
    IN  IF i.last = {} \/ ~i.opened THEN i
        ELSE [i EXCEPT !.open = @ + d, !.foreground = IF shown THEN @ + d ELSE @,
                       !.engaged = IF shown /\ busy THEN @ + d ELSE @]

\* The time since the event before, if the session is open and the silence was short.
InteractionTime(i, t) ==
    LET d == Delta(i, t)
        shown == i.visible /\ i.focused
        busy == \E x \in i.interaction : Max(i.last) - x <= IdleSeconds
    IN  IF i.last = {} \/ ~i.opened THEN i
        ELSE IF d > MaxCreditedGapSeconds THEN [i EXCEPT !.uncredited = @ + d]
        ELSE [i EXCEPT !.open = @ + d, !.foreground = IF shown THEN @ + d ELSE @,
                       !.engaged = IF shown /\ busy THEN @ + d ELSE @]

InteractionType(i, e) ==
    CASE e.type = "presented" -> [i EXCEPT !.opened = TRUE]
      [] e.type \in {"visible", "hidden"} -> [i EXCEPT !.visible = e.type = "visible"]
      [] e.type \in {"focus", "blur"} -> [i EXCEPT !.focused = e.type = "focus"]
      [] e.type = "interaction" -> [i EXCEPT !.interaction = {e.at}]
      [] e.type = "disconnect" -> [i EXCEPT !.opened = FALSE, !.visible = FALSE, !.focused = FALSE]
      [] OTHER -> i

calculateActivityInteractionSummary(i, e) ==
    [InteractionType(InteractionTime(i, e.at), e) EXCEPT !.last = {e.at}]

playbackWasCreditable(v) == v.playing /\ ~v.buffering /\ v.visible

\* elapsed * rate * 1.5 + 1.5 s, in halves of a second.
Plausible(elapsed, rate, advance) ==
    /\ elapsed >= 0 /\ elapsed <= MaxCreditedGapSeconds
    /\ advance >= 0 /\ 2 * advance <= 3 * elapsed * (IF rate > 1 THEN rate ELSE 1) + 3

\* An event that samples the position credits the way from the sample before.
PlaybackSample(v, e) ==
    IF e.type \notin {"position", "heartbeat", "pause", "ended"} THEN v
    ELSE LET new == {[at |-> e.at, position |-> e.position, rate |-> v.rate]}
             way == {s \in v.sample : playbackWasCreditable(v)
                                      /\ Plausible(e.at - s.at, s.rate, e.position - s.position)}
         IN  [v EXCEPT !.sample = new,
                       !.credited = @ \cup UNION {(s.position + 1)..e.position : s \in way},
                       !.gaps = IF playbackWasCreditable(v) /\ v.sample # way THEN @ + 1 ELSE @]

PlaybackType(v, e) ==
    CASE e.type \in {"visible", "hidden"} -> [v EXCEPT !.visible = e.type = "visible"]
      [] e.type = "play" -> [v EXCEPT !.playing = TRUE, !.buffering = FALSE]
      [] e.type = "pause" -> [v EXCEPT !.playing = FALSE]
      [] e.type = "ended" -> [v EXCEPT !.playing = FALSE, !.ended = TRUE]
      [] e.type \in {"buffer_start", "buffer_end"} -> [v EXCEPT !.buffering = e.type = "buffer_start"]
      [] e.type = "rate" -> [v EXCEPT !.rate = e.rate]
      [] e.type = "seek" -> [v EXCEPT !.sample = {}]
      [] OTHER -> v

\* A long silence forgets the sample; presence in the media summary is counted like
\* the other one.
calculateMediaSummary(v, e) ==
    LET silent == v.last # {} /\ Delta(v, e.at) > MaxCreditedGapSeconds
        heard == IF silent THEN [v EXCEPT !.sample = {}, !.gaps = @ + 1] ELSE v
    IN  [PlaybackType(PlaybackSample(heard, e), e) EXCEPT !.last = {e.at}]

(***************************************************************************)
(* The page                                                                *)
(***************************************************************************)

Event(w, type, position) ==
    [at |-> w.clock, type |-> type, position |-> position, rate |-> w.rate]

\* Both hooks see the events of the page, in one order.
Emit(w, types) ==
    LET
        e(i) == Event(w, types[i], w.known)
        p1 == calculateActivityInteractionSummary(presence, e(1))
        m1 == calculateMediaSummary(playback, e(1))
        three == DOMAIN types = 1..3
    IN  /\ presence' = IF three
              THEN calculateActivityInteractionSummary(calculateActivityInteractionSummary(p1, e(2)), e(3))
              ELSE p1
        /\ playback' = IF three
              THEN calculateMediaSummary(calculateMediaSummary(m1, e(2)), e(3)) ELSE m1

\* Events of the player are the media hook's alone.
EmitPlayer(w, type, position) ==
    /\ playback' = calculateMediaSummary(playback, Event(w, type, position))
    /\ UNCHANGED presence

UserAct == world.connected /\ world.acts < MaxUserActs
Acted == [world EXCEPT !.acts = @ + 1]

present(visible, focused) ==
    /\ ~world.connected /\ world.clock = 0
    /\ world' = [world EXCEPT !.connected = TRUE, !.visible = visible, !.focused = focused]
    /\ Emit(world', <<"presented", IF visible THEN "visible" ELSE "hidden",
                      IF focused THEN "focus" ELSE "blur">>)
    /\ UNCHANGED truth

reportVisibility ==
    /\ UserAct
    /\ world' = [Acted EXCEPT !.visible = ~@]
    /\ Emit(world', <<IF world'.visible THEN "visible" ELSE "hidden">>)
    /\ UNCHANGED truth

reportFocus ==
    /\ UserAct
    /\ world' = [Acted EXCEPT !.focused = ~@]
    /\ Emit(world', <<IF world'.focused THEN "focus" ELSE "blur">>)
    /\ UNCHANGED truth

\* The page reports at most one interaction in five seconds; here each is reported,
\* which credits at least as much.
interact ==
    /\ UserAct
    /\ world' = [Acted EXCEPT !.touched = {world.clock}]
    /\ Emit(world', <<"interaction">>)
    /\ UNCHANGED truth

\* The state events of the player: the position is read and the event emitted.
onStateChange(state, type) ==
    /\ UserAct /\ world.player # state /\ world.player # "ended"
    /\ state = "buffering" => world.player = "playing"
    /\ state = "playing" => world.position < MaxPosition
    /\ world' = [Acted EXCEPT !.player = state, !.known = world.position,
                    !.prior = IF state = "playing"
                              THEN {[at |-> world.clock, position |-> world.position]} ELSE @]
    /\ EmitPlayer(world', type, world.position)
    /\ UNCHANGED truth

onPlaybackRateChange(rate) ==
    /\ UserAct /\ world.rate # rate
    /\ world' = [Acted EXCEPT !.rate = rate]
    /\ EmitPlayer(world', "rate", world.position)
    /\ UNCHANGED truth

\* The participant drags the cursor; the surface will notice by itself.
skip(by) ==
    /\ UserAct /\ world.player # "ended" /\ world.position + by \in 0..MaxPosition
    /\ world' = [Acted EXCEPT !.position = @ + by]
    /\ truth' = [truth EXCEPT !.skips = @ + 1]
    /\ UNCHANGED <<presence, playback>>

\* One second passes: the player plays, and the timers of the page fire.  The
\* surface compares the position with the last one it saw (1.75 times the time
\* and 2 s are plausible) before it reports it; at the end the player says so.
Second(w) ==
    LET plays == w.player = "playing"
        end == IF w.position + w.rate > MaxPosition THEN MaxPosition ELSE w.position + w.rate
    IN  [w EXCEPT !.clock = @ + 1, !.position = IF plays THEN end ELSE @]

Seeked(w) ==
    \E q \in w.prior :
       LET advance == w.position - q.position IN
       advance < 0 \/ 4 * advance > 7 * (w.clock - q.at) * w.rate + 8

Lived(w, n) ==
    [truth EXCEPT
        !.open = @ + n,
        !.foreground = IF w.visible /\ w.focused THEN @ + n ELSE @,
        !.engaged = IF w.visible /\ w.focused /\ (\E x \in w.touched :
                          w.clock - x < IdleSeconds + MaxCreditedGapSeconds) THEN @ + n ELSE @,
        !.played = IF w.visible /\ w.player = "playing"
                   THEN @ \cup (w.position + 1)..Second(w).position ELSE @]

second ==
    /\ world.connected /\ world.clock < MaxSeconds
    /\ LET w == Second(world)
           beat == w.clock % HeartbeatSeconds = 0
           sampled == w.player = "playing"
           \* Heartbeats carry the position that the page knew.
           p1 == IF beat THEN calculateMediaSummary(playback, Event(w, "heartbeat", w.known)) ELSE playback
           p2 == IF sampled /\ Seeked(w) THEN calculateMediaSummary(p1, Event(w, "seek", 0)) ELSE p1
           p3 == IF sampled THEN calculateMediaSummary(p2, Event(w, "position", w.position)) ELSE p2
           over == sampled /\ w.position = MaxPosition
       IN  /\ presence' = IF beat THEN calculateActivityInteractionSummary(presence, Event(w, "heartbeat", 0))
                          ELSE presence
           /\ playback' = IF over THEN calculateMediaSummary(p3, Event(w, "ended", w.position)) ELSE p3
           /\ world' = [w EXCEPT !.known = IF sampled THEN w.position ELSE @,
                                 !.player = IF over THEN "ended" ELSE @,
                                 !.prior = IF sampled THEN {[at |-> w.clock, position |-> w.position]} ELSE @]
    /\ truth' = Lived(world, 1)

\* The machine is suspended for longer than the gap that is credited: no timer fires.
suspend ==
    /\ UserAct /\ world.clock + MaxCreditedGapSeconds < MaxSeconds
    /\ world' = [Acted EXCEPT !.clock = @ + MaxCreditedGapSeconds + 1]
    /\ truth' = [truth EXCEPT !.open = @ + MaxCreditedGapSeconds + 1,
                              !.asleep = @ + MaxCreditedGapSeconds + 1]
    /\ UNCHANGED <<presence, playback>>

leave ==
    /\ world.connected
    /\ world' = [world EXCEPT !.connected = FALSE, !.clock = MaxSeconds]
    /\ Emit(world, <<"disconnect">>)
    /\ UNCHANGED truth

CreditNext ==
    \/ \E visible, focused \in BOOLEAN : present(visible, focused)
    \/ reportVisibility \/ reportFocus \/ interact \/ second \/ suspend \/ leave
    \/ \E s \in {<<"playing", "play">>, <<"paused", "pause">>, <<"buffering", "buffer_start">>} :
          onStateChange(s[1], s[2])
    \/ \E rate \in Rates : onPlaybackRateChange(rate)
    \/ \E by \in Jumps : skip(by)

(***************************************************************************)
(* Properties                                                              *)
(***************************************************************************)

(* The presence that is credited happened: no more open time than the session  *)
(* was open and the machine awake, no more foreground time than the page was   *)
(* visible and focused, no more engaged time than there was an interaction not *)
(* long before.                                                                *)
PresenceHonest ==
    /\ presence.open <= truth.open - truth.asleep
    /\ presence.foreground <= truth.foreground
    /\ presence.engaged <= truth.engaged

(* Playback that is credited was played on a visible page, unless the           *)
(* participant skipped; a skip gains at most what the tolerance lets pass for   *)
(* the time since the last sample.                                              *)
PlaybackHonest ==
    /\ truth.skips = 0 => playback.credited \subseteq truth.played
    /\ 2 * Cardinality(playback.credited \ truth.played)
         <= truth.skips * (3 * HeartbeatSeconds * Max(Rates) + 3)

(* Nothing is credited, as presence or as playback, that did not happen.      *)
CreditHonest == PresenceHonest /\ PlaybackHonest
=============================================================================

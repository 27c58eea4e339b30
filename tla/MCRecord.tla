------------------------------- MODULE MCRecord -------------------------------
(* Records in two scenarios, one per behaviour. *)
EXTENDS MCEvidenceRecord

CONSTANT s3

\* "activities": one record of the branching workflow, used from two sessions of
\* its participant.  "requests": plain requests and one activity, a record that
\* may be reissued as a second, and two principals.  Only steps nothing is
\* assumed of are left out, so fairness keeps its meaning.
VARIABLE scenario

MCOwner == [s \in Sessions |-> IF s = s3 THEN p2 ELSE p1]
Order == <<c1, c2, c3>>
Optional == {"participant.opened", "activity.response.saved", "document.presented",
             "media.telemetry.recorded", "activity.interaction.recorded",
             "participant.context.recorded"}

SessionsUsed(r) == {interactions[r][i].session : i \in DOMAIN interactions[r]}

\* What a step of the record may add in a scenario with these workflows, sessions
\* and commands, and optional events below this length.
Within(r, workflows, sessions, cmds, length) ==
    /\ request'[r].workflow \in workflows \cup {None}
    /\ SessionsUsed(r)' \subseteq sessions
    /\ {answers'[r][k].command : k \in DOMAIN answers'[r]} \subseteq cmds
    /\ LET before == Len(ledger[r].events)
           after == Len(ledger'[r].events)
       IN  after > before /\ before >= length
             => ledger'[r].events[after].fact.type \notin Optional

\* Command identifiers are interchangeable: they are used in one order.
InOrder(used) == \A k \in 1..2 : Order[k + 1] \in used => Order[k] \in used

InScenario ==
    IF scenario = "activities"
    THEN /\ Within(r1, {branching}, {s1, s2}, Commands, MaxEvents)
         /\ request'[r2] = request[r2]
         /\ InOrder(commands' \cup {answers'[r1][k].command : k \in DOMAIN answers'[r1]})
         /\ s2 \in SessionsUsed(r1)' => s1 \in SessionsUsed(r1)'
    ELSE /\ \A r \in Records : Within(r, {terms, short}, {s1, s3}, {c1}, 3)
         /\ commands' \subseteq {c1}
         /\ request[r2].status = "none" /\ request'[r2].status # "none"
              => reissuedFrom'[r2] = r1

MCVars == <<scenario, vars>>
MCSpec ==
    /\ scenario \in {"activities", "requests"} /\ Init
    /\ [][Next /\ InScenario /\ UNCHANGED scenario]_MCVars
    /\ \A r \in Records :
         WF_vars(ReachSchedule(r)) /\ WF_vars(Lapse(r)) /\ WF_vars(advanceOneLifecycle(r))
=============================================================================

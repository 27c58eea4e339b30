------------------------ MODULE NotificationPromise ------------------------
(***************************************************************************)
(* What the outbox promises of every notification job, without workers,    *)
(* locks, attempts or retries: it is queued once, it settles once, and      *)
(* "delivered" is only ever said of a notification a provider accepted      *)
(* while the job was open.                                                 *)
(***************************************************************************)
CONSTANT Jobs
VARIABLES phase, accepted

Init ==
    /\ phase = [j \in Jobs |-> "absent"]
    /\ accepted = {}

\* One transaction may queue and settle several jobs of a request.
Advance(j) ==
    \/ phase'[j] = phase[j]
    \/ phase[j] = "absent" /\ phase'[j] = "open"
    \/ phase[j] = "open" /\ phase'[j] \in {"suppressed", "failed"}
    \/ phase[j] = "open" /\ phase'[j] = "delivered" /\ j \in accepted

Next ==
    \/ /\ \A j \in Jobs : Advance(j)
       /\ accepted' = accepted
    \/ \E j \in Jobs :
        /\ phase[j] = "open"
        /\ accepted' = accepted \cup {j}
        /\ phase' = phase

Spec == Init /\ [][Next]_<<phase, accepted>>
=============================================================================

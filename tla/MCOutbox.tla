------------------------------- MODULE MCOutbox -------------------------------
(* The outbox in several scenarios, one per behaviour. *)
EXTENDS MCNotificationOutbox

\* What one behaviour is about: the jobs that may be queued in it, and whether
\* polls and gateway transactions are cut short and the binding changes.  Only
\* steps nothing is assumed of are left out, so fairness keeps its meaning.
VARIABLE scenario

MCScenarios ==
    {[jobs |-> {j}, disturbed |-> TRUE] : j \in {jReminder, jCompleted, jReady, jExpired}}
      \cup {[jobs |-> {jDenied, jPrepFailed}, disturbed |-> TRUE]}
      \cup {[jobs |-> group, disturbed |-> FALSE] : group \in {WorkflowJobs, DataJobs}}

InScenario ==
    /\ \A j \in Jobs \ scenario.jobs : job'[j] = job[j]
    /\ scenario.jobs \cap DataJobs = {} => UNCHANGED dataRequest /\ binding' # "disabled"
    /\ scenario.jobs \cap WorkflowJobs = {} => UNCHANGED request /\ binding' # "not_admitted"
    /\ ~scenario.disturbed => UNCHANGED <<aborts, binding>>

MCVars == <<scenario, vars>>
MCSpec ==
    /\ scenario \in MCScenarios /\ Init
    /\ [][Next /\ InScenario /\ UNCHANGED scenario]_MCVars
    /\ Fairness
=============================================================================

----------------------------- MODULE MCLifecycle -----------------------------
(* Retention in two scenarios, one per behaviour. *)
EXTENDS MCRetention

CONSTANT t1

\* "records": two records of one organization, a legal hold, and a policy that
\* changes or a poll cut short.  "requests": two organizations and one participant
\* data request, or one of them and a poll cut short.  Only steps nothing is
\* assumed of are left out, so fairness keeps its meaning.
VARIABLE scenario

OneTenant == \A r \in Records : tenant'[r] \in {None, t1}

InScenario ==
    IF scenario = "records"
    THEN /\ policy' \in MCPolicies /\ OneTenant
         /\ UNCHANGED requestVars
         /\ aborts' > 0 => revision' = 1
    ELSE /\ UNCHANGED <<policyVars, hold>>
         /\ aborts' > 0 => OneTenant

MCVars == <<scenario, vars>>
MCSpec ==
    /\ scenario \in {"records", "requests"} /\ Init
    /\ policy \in IF scenario = "records" THEN MCPolicies ELSE DeletePolicies
    /\ [][Next /\ InScenario /\ UNCHANGED scenario]_MCVars
    /\ Fairness
=============================================================================

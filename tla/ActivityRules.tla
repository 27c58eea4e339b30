---------------------------- MODULE ActivityRules ----------------------------
(***************************************************************************)
(* The rules of workflow documents (packages/engine-domain/workflow.mjs    *)
(* and activities.mjs): which documents the validator accepts, which       *)
(* responses an activity accepts, the outcome it derives from one and the  *)
(* activity that follows.  A walk answers the activities of an accepted    *)
(* document one after the other.                                           *)
(***************************************************************************)
EXTENDS Naturals, Sequences, FiniteSets, FiniteSetsExt, SequencesExt

CONSTANTS
    Totals,         \* totals of points to check the scoring with
    Percents        \* passingPercent values to check the scoring with

\* A question is worth 1 to 1000 points, a threshold is 0 to 100 percent.
ASSUME RulesAssumption == Totals \subseteq Nat \ {0} /\ Percents \subseteq Nat

VARIABLES
    workflow,   \* an accepted document: its activities in order
    at,         \* the ordinal of the current activity, 0 after the last one
    trail,      \* the answered activities, each with its outcome
    score       \* points earned of a total, and the percentage that passes

walkVars == <<workflow, at, trail, score>>

Options == {"a", "b"}
Undefined == 99     \* a transition without defaultTo; 0 is the end (null)

\* One content per activity type, and per mode where the mode decides.
Templates ==
    {[type |-> "terms_response", mode |-> m] : m \in {"acknowledgement", "yes_no"}} \cup
    {[type |-> t, mode |-> t] : t \in {"approval", "single_choice", "document_review"}} \cup
    {[type |-> "electronic_signature", mode |-> m] : m \in {"typed", "both"}} \cup
    {[type |-> "external_media", mode |-> m] : m \in {"playback", "acknowledgement", "either"}} \cup
    {[type |-> "multiple_choice", mode |-> "multiple_choice", min |-> 1, max |-> 1],
     [type |-> "free_form", mode |-> "free_form", min |-> 1, max |-> 2],
     [type |-> "questionnaire", mode |-> "questionnaire", passing |-> 50]}

\* The questions of the questionnaire: the first is required and has one right
\* choice, the second may be left out and has two.
Questions == 1..2
normalizeQuestion(q) ==
    IF q = 1 THEN [correct |-> {"a"}, points |-> 2, required |-> TRUE, single |-> TRUE]
             ELSE [correct |-> Options, points |-> 1, required |-> FALSE, single |-> FALSE]

\* The outcomes a transition may branch on.
branchValuesForActivity(a) ==
    CASE a.type = "terms_response" -> IF a.mode = "acknowledgement" THEN {"acknowledged"} ELSE {"yes", "no"}
      [] a.type = "approval" -> {"approved", "disapproved", "declined"}
      [] a.type = "single_choice" -> Options
      [] a.type = "electronic_signature" -> {"signed"}
      [] a.type = "document_review" -> {"reviewed"}
      [] a.type = "questionnaire" -> {"passed", "failed"}
      [] a.type = "external_media" -> {"completed"}
      [] OTHER -> {}

(***************************************************************************)
(* Accepted documents                                                      *)
(***************************************************************************)

validateForwardDestination(to, n, length) == to = 0 \/ to \in n + 1..length

validateTransition(w, n) ==
    /\ DOMAIN w[n].cases \subseteq branchValuesForActivity(w[n].activity)
    /\ \A v \in DOMAIN w[n].cases : validateForwardDestination(w[n].cases[v], n, Len(w))
    /\ w[n].default # Undefined => validateForwardDestination(w[n].default, n, Len(w))

validateWorkflowDraft(w) == Len(w) \in 1..50 /\ \A n \in DOMAIN w : validateTransition(w, n)

Outcomes == UNION {branchValuesForActivity(a) : a \in Templates}
\* Transitions with at most one case, to any ordinal of a three-step document.
Transitions ==
    {[cases |-> c, default |-> d] :
        c \in {<<>>} \cup UNION {[{v} -> 0..3] : v \in Outcomes}, d \in 0..3 \cup {Undefined}}
Step(a, t) == [activity |-> a, cases |-> t.cases, default |-> t.default]
Plain == [cases |-> <<>>, default |-> Undefined]

\* What an owner may submit: any first activity, then an approval, then terms.
Documents ==
    {<<Step(a, t), Step([type |-> "approval", mode |-> "approval"], u),
       Step([type |-> "terms_response", mode |-> "yes_no"], Plain)>> :
          a \in Templates, t \in Transitions,
          u \in {x \in Transitions : DOMAIN x.cases \subseteq {"declined"} /\ x.default \in {0, 2, Undefined}}}

(***************************************************************************)
(* Responses                                                               *)
(***************************************************************************)

\* percent, in hundredths: Math.round((earned / total) * 10000).
percentHundredths(earned, total) == (20000 * earned + total) \div (2 * total)
\* Mutant: the threshold itself does not pass.
passes_Strict(earned, total, passing) == percentHundredths(earned, total) > 100 * passing
passes(earned, total, passing) == percentHundredths(earned, total) >= 100 * passing

Answers == [Questions -> SUBSET Options \cup {{"none"}}]
Correct(q, answer) == LET k == normalizeQuestion(q) IN
    IF k.single THEN answer # {} /\ answer \subseteq k.correct ELSE answer = k.correct

\* A required question is answered, a single choice by one of the choices, a
\* multiple one by distinct choices; {"none"} stands for no answer.
ValidAnswers(r) ==
    \A q \in Questions :
       LET k == normalizeQuestion(q) IN
       \/ r[q] = {"none"} /\ ~k.required
       \/ r[q] \subseteq Options /\ (k.single => Cardinality(r[q]) = 1)

Points(r) == MapThenSumSet(LAMBDA q : IF Correct(q, r[q]) THEN normalizeQuestion(q).points ELSE 0, Questions)
AllPoints == MapThenSumSet(LAMBDA q : normalizeQuestion(q).points, Questions)

\* What a browser may send for an activity, valid or not.
Responses(a) ==
    CASE a.type = "questionnaire" -> Answers
      [] a.type = "multiple_choice" -> SUBSET (Options \cup {"c"})
      [] a.type = "free_form" -> 0..3
      [] a.type = "electronic_signature" -> [consent : BOOLEAN, method : {"typed", "drawn"}]
      [] a.type = "external_media" -> [method : {"playback", "acknowledgement"}, acknowledged : BOOLEAN]
      [] OTHER -> {"acknowledged", "yes", "no", "approved", "disapproved", "declined", "a", "b", "reviewed"}

\* The outcome of a response, "invalid" when it is refused.
validateActivityResponse(a, r) ==
    CASE a.type = "questionnaire" ->
            IF ~ValidAnswers(r) THEN "invalid"
            ELSE IF passes(Points(r), AllPoints, a.passing) THEN "passed" ELSE "failed"
      [] a.type = "multiple_choice" ->
            IF r \subseteq Options /\ Cardinality(r) \in a.min..a.max THEN "submitted" ELSE "invalid"
      [] a.type = "free_form" -> IF r \in a.min..a.max THEN "submitted" ELSE "invalid"
      [] a.type = "electronic_signature" ->
            IF r.consent /\ (r.method = "typed" \/ a.mode = "both") THEN "signed" ELSE "invalid"
      [] a.type = "external_media" ->
            IF a.mode \in {r.method, "either"} /\ (r.method = "acknowledgement" => r.acknowledged)
            THEN "completed" ELSE "invalid"
      [] a.type = "document_review" -> IF r = "reviewed" THEN r ELSE "invalid"
      [] a.type = "single_choice" -> IF r \in Options THEN r ELSE "invalid"
      [] a.type = "approval" -> IF r \in {"approved", "disapproved", "declined"} THEN r ELSE "invalid"
      [] a.type = "terms_response" ->
            IF r \in (IF a.mode = "acknowledgement" THEN {"acknowledged"} ELSE {"yes", "no"})
            THEN r ELSE "invalid"

\* The case of the outcome, else the default, else the next activity in order.
nextActivity(w, n, outcome) ==
    IF outcome \in DOMAIN w[n].cases THEN w[n].cases[outcome]
    ELSE IF w[n].default # Undefined THEN w[n].default
    ELSE IF n < Len(w) THEN n + 1 ELSE 0

(***************************************************************************)
(* The walk                                                                *)
(***************************************************************************)

NoScore == [earned |-> 0, total |-> 1, passing |-> 0]

WalkInit ==
    /\ trail = <<>>
    /\ \/ /\ workflow \in {w \in Documents : validateWorkflowDraft(w)}
          /\ at = 1 /\ score = NoScore
       \/ /\ workflow = <<>> /\ at = 0
          /\ \E total \in Totals, passing \in Percents : \E earned \in 0..total :
                score = [earned |-> earned, total |-> total, passing |-> passing]

respond ==
    /\ at # 0
    /\ \E r \in Responses(workflow[at].activity) :
          LET outcome == validateActivityResponse(workflow[at].activity, r)
          IN  /\ outcome # "invalid"
              /\ trail' = Append(trail, [at |-> at, outcome |-> outcome])
              /\ at' = nextActivity(workflow, at, outcome)
    /\ UNCHANGED <<workflow, score>>

WalkNext == respond

(***************************************************************************)
(* Properties                                                              *)
(***************************************************************************)

(* In every document the validator accepts, answering moves strictly forward, *)
(* so that no activity is asked twice and every path ends after at most one   *)
(* answer per activity; and every outcome the response rules derive is one    *)
(* the branches of that activity may name, or none of them may.               *)
WalkMovesForward ==
    /\ \A k \in DOMAIN trail :
          /\ k < Len(trail) => trail[k].at < trail[k + 1].at
          /\ branchValuesForActivity(workflow[trail[k].at].activity) \in
                {{}} \cup {s \in SUBSET Outcomes : trail[k].outcome \in s}
    /\ at # 0 => \A k \in DOMAIN trail : trail[k].at < at

(* Rounding the percentage never fails a participant who reached the          *)
(* threshold, and below 200 points it passes nobody who did not.              *)
ScoreFair ==
    LET reached == 100 * score.earned >= score.passing * score.total
        passed == passes(score.earned, score.total, score.passing)
    IN  (reached => passed) /\ (score.total < 200 => (passed => reached))

(* The rules a participant's answers are judged by lead forward and are fair. *)
RulesSound == WalkMovesForward /\ ScoreFair
=============================================================================

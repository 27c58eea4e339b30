------------------------------- MODULE MCAccess -------------------------------
(* What a participant is shown of one request, in a small instance. *)
EXTENDS ParticipantAccess

MCRetentions ==
    {[mode |-> "indefinite", days |-> 0, historyDays |-> 2],
     [mode |-> "request_expiration", days |-> 0, historyDays |-> 3],
     [mode |-> "days_after_terminal", days |-> 1, historyDays |-> 2]}

\* The request without a data export.
PageSpec == AccessInit /\ [][tickDay \/ RecordPage]_accessVars
=============================================================================

----------------------- MODULE MCNotificationOutbox -----------------------
(* Small instances of NotificationOutbox for TLC. *)
EXTENDS NotificationOutbox

CONSTANTS r1, d1, jIssued, jReminder, jCompleted, jReady, jDenied, jPrepFailed, jExpired

\* The jobs an instance has.  A reminder is queued when a request is issued or
\* by hand, and is otherwise treated like the invitation.
InvitationJobs == {jIssued}
WorkflowJobs == {jReminder, jCompleted}
DataJobs == {jReady, jDenied, jPrepFailed, jExpired}
AllJobs == WorkflowJobs \cup DataJobs

MCSourceOf == [j \in Jobs |-> IF j \in DataJobs THEN d1 ELSE r1]
MCTypeOf ==
    [j \in Jobs |-> CASE j = jIssued     -> "request.issued"
                      [] j = jReminder   -> "request.reminder"
                      [] j = jCompleted  -> "request.completed"
                      [] j = jReady      -> "participant_data.ready"
                      [] j = jDenied     -> "participant_data.denied"
                      [] j = jPrepFailed -> "participant_data.preparation_failed"
                      [] j = jExpired    -> "participant_data.expired"]
=============================================================================

----------------------------- MODULE AlertSpool -----------------------------
(***************************************************************************)
(* The durable spool of operational alerts of one host                     *)
(* (scripts/operational-alert-spool.sh).  A failing unit records itself as *)
(* a file under pending/, or, when the spool is full, as one more in       *)
(* overflow.json; an operator acknowledges by moving the file under        *)
(* acknowledged/, of which the oldest names are pruned.                    *)
(*                                                                         *)
(* Commands exclude each other by flock, which the kernel releases when    *)
(* the holder dies; a killed command leaves its files as they are, its     *)
(* temporary file included.  Failures are numbered in the order in which   *)
(* they occur, which is the order of their names.                          *)
(***************************************************************************)
EXTENDS Naturals, FiniteSets

CONSTANTS
    MaxPending,         \* MAX_PENDING
    MaxAcknowledged,    \* MAX_ACKNOWLEDGED
    MaxFailures,        \* bound: failing units
    MaxKills            \* bound: commands killed half-way

ASSUME SpoolAssumption == MaxPending \in Nat /\ MaxAcknowledged \in Nat

VARIABLES
    pending,        \* the records under pending/: numbers of failures
    partials,       \* how many .record.XXXXXX files are left under pending/
    overflow,       \* overflowCount of overflow.json, 0 when there is none
    acknowledged,   \* the entries under acknowledged/
    answered,       \* how many failures the entries ever moved there stood for
    spool,          \* what the holder of the lock has done so far
    failures,       \* how many failures there have been
    reported,       \* the failures whose record command said "recorded"
    kills

spoolVars == <<pending, partials, overflow, acknowledged, answered, spool,
               failures, reported, kills>>

\* An overflow entry sorts behind every record: its name starts with a letter.
OverflowName == MaxFailures + 1
Idle == [pc |-> "idle"]

SpoolInit ==
    /\ pending = {} /\ partials = 0 /\ overflow = 0
    /\ acknowledged = {} /\ answered = 0 /\ spool = Idle
    /\ failures = 0 /\ reported = {} /\ kills = 0

\* find lists every file of the directory, unfinished ones too.  With more than
\* MAX_PENDING of them the command fails, which SpoolBounded shows it never does.
count_pending == Cardinality(pending) + partials

(***************************************************************************)
(* record ROLE SOURCE_UNIT                                                 *)
(***************************************************************************)

acquire_lock ==
    /\ spool.pc = "idle" /\ failures < MaxFailures
    /\ failures' = failures + 1
    /\ spool' = [pc |-> "locked", failure |-> failures + 1]
    /\ UNCHANGED <<pending, partials, overflow, acknowledged, answered, reported,
                   kills>>

\* Mutant: a full spool starts its overflow file afresh.
write_overflow_Fresh ==
    /\ spool.pc = "locked" /\ count_pending = MaxPending
    /\ overflow' = 1
    /\ spool' = [pc |-> "recorded", failure |-> spool.failure]
    /\ UNCHANGED <<pending, partials, acknowledged, answered, failures, reported,
                   kills>>

\* The new count is complete in a file next to overflow.json before mv -f
\* replaces it.
write_overflow ==
    /\ spool.pc = "locked" /\ count_pending = MaxPending
    /\ overflow' = overflow + 1
    /\ spool' = [pc |-> "recorded", failure |-> spool.failure]
    /\ UNCHANGED <<pending, partials, acknowledged, answered, failures, reported,
                   kills>>

write_temporary ==
    /\ spool.pc = "locked" /\ count_pending < MaxPending
    /\ partials' = partials + 1
    /\ spool' = [pc |-> "written", failure |-> spool.failure]
    /\ UNCHANGED <<pending, overflow, acknowledged, answered, failures, reported,
                   kills>>

record_failure ==
    /\ spool.pc = "written"
    /\ partials' = partials - 1
    /\ pending' = pending \union {spool.failure}
    /\ spool' = [pc |-> "recorded", failure |-> spool.failure]
    /\ UNCHANGED <<overflow, acknowledged, answered, failures, reported, kills>>

\* The trap removes the temporary file of a record that cannot be completed.
fail_record ==
    /\ spool.pc = "written"
    /\ partials' = partials - 1
    /\ spool' = Idle
    /\ UNCHANGED <<pending, overflow, acknowledged, answered, failures, reported,
                   kills>>

report_recorded ==
    /\ spool.pc = "recorded"
    /\ reported' = reported \union {spool.failure}
    /\ spool' = Idle
    /\ UNCHANGED <<pending, partials, overflow, acknowledged, answered, failures,
                   kills>>

(***************************************************************************)
(* acknowledge ROLE RECORD_ID OPAQUE_REFERENCE                             *)
(***************************************************************************)

\* mv of the record, or of overflow.json, under its acknowledged name.
acknowledge_record ==
    /\ spool.pc = "idle"
    /\ \/ \E f \in pending :
            /\ pending' = pending \ {f}
            /\ acknowledged' = acknowledged \union
                 {[name |-> f, at |-> 0]}
            /\ answered' = answered + 1
            /\ UNCHANGED overflow
       \/ /\ overflow > 0
          /\ overflow' = 0
          /\ acknowledged' = acknowledged \union
               {[name |-> OverflowName, at |-> failures]}
          /\ answered' = answered + overflow
          /\ UNCHANGED pending
    /\ spool' = [pc |-> "moved"]
    /\ UNCHANGED <<partials, failures, reported, kills>>

\* rm of one of the files at the head of the sorted list, while there are more
\* than MAX_ACKNOWLEDGED.
Oldest == CHOOSE e \in acknowledged : \A f \in acknowledged :
            e.name < f.name \/ (e.name = f.name /\ e.at <= f.at)

prune_acknowledged ==
    /\ spool.pc = "moved"
    /\ IF Cardinality(acknowledged) > MaxAcknowledged
       THEN /\ acknowledged' = acknowledged \ {Oldest}
            /\ UNCHANGED spool
       ELSE /\ spool' = Idle
            /\ UNCHANGED acknowledged
    /\ UNCHANGED <<pending, partials, overflow, answered, failures, reported, kills>>

\* The command is killed: no trap runs, the lock is free again.
kill_command ==
    /\ spool.pc # "idle" /\ kills < MaxKills
    /\ kills' = kills + 1
    /\ spool' = Idle
    /\ UNCHANGED <<pending, partials, overflow, acknowledged, answered, failures,
                   reported>>

SpoolNext ==
    \/ acquire_lock \/ write_overflow \/ write_temporary
    \/ record_failure \/ fail_record \/ report_recorded
    \/ acknowledge_record \/ prune_acknowledged \/ kill_command

(***************************************************************************)
(* status ROLE, as it answers between two commands                         *)
(***************************************************************************)

status_spool ==
    CASE partials > 0 -> "invalid"
      [] partials = 0 /\ (pending # {} \/ overflow > 0) -> "pending"
      [] OTHER -> "ready"

-----------------------------------------------------------------------------
\* Every failure whose record command succeeded is found in the spool until an
\* operator acknowledges it: as its own record, or counted in overflow.json,
\* however full the spool is and whichever command was killed half-way.  So
\* status never answers "ready" over an unacknowledged failure.
NoAlertLost ==
    /\ Cardinality(reported) <=
         Cardinality(pending) + overflow + answered
    /\ status_spool = "ready" => Cardinality(reported) <= answered

\* The spool keeps to its limits although unfinished files count against
\* them: no record is refused for a number of files the code let in itself,
\* and acknowledged/ exceeds its limit by no more than the moves of killed
\* acknowledgements and one under way.
SpoolBounded ==
    /\ Cardinality(pending) + partials <= MaxPending
    /\ Cardinality(acknowledged) <= MaxAcknowledged + kills + 1
    /\ spool.pc = "idle" =>
         Cardinality(acknowledged) <= MaxAcknowledged + kills

\* A spool that is full, interrupted and pruned loses no alert and keeps its limits.
SpoolSound == NoAlertLost /\ SpoolBounded
=============================================================================

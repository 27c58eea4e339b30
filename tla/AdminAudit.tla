------------------------------ MODULE AdminAudit ------------------------------
(***************************************************************************)
(* Privileged changes of one user's sign-in methods by administrators, and *)
(* the audit events that tell them.  A command records "started" before    *)
(* anything happens.  A local change (disconnecting a provider, disabling  *)
(* the password) commits together with "succeeded"; a change made through  *)
(* the identity library is followed by "succeeded", or by "ambiguous" when *)
(* the call throws.                                                        *)
(***************************************************************************)
EXTENDS Naturals, FiniteSets

CONSTANTS
    Providers,    \* the federated providers
    Configured,   \* those the running installation has configured
    AdminCommands, \* administrator commands
    MaxOutages    \* bound: crashes and failures of the database connection

\* No provider is called like the password's account row.
ASSUME AuditAssumption ==
    /\ Configured \subseteq Providers /\ "credential" \notin Providers
    /\ MaxOutages \in Nat

VARIABLES
    methods,   \* the account rows of the user: providers and "credential"
    adminCommand, \* command -> [pc, kind, provider, done]
    audit,     \* the events written: [cmd, phase]
    unacknowledged, \* history: commands whose commit was not acknowledged
    outages    \* faults so far

adminVars == <<methods, adminCommand, audit, unacknowledged, outages>>

Local == {"disconnect", "disable_password"}
External == {"enable_password", "set_active", "reset_password"}
NoProvider == "none"

\* The sign-in methods that work.
Usable(rows) == rows \cap (Configured \cup {"credential"})

AuditInit ==
    /\ methods \in {m \in SUBSET (Providers \cup {"credential"}) : Usable(m) # {}}
    /\ adminCommand = [c \in AdminCommands |-> [pc |-> "idle", kind |-> "none",
                                      provider |-> NoProvider, done |-> FALSE]]
    /\ audit = {}
    /\ unacknowledged = {}
    /\ outages = 0

Outage == outages < MaxOutages /\ outages' = outages + 1
AtStep(c, pc) == adminCommand[c].pc = pc
CommandStep(c, pc) == adminCommand' = [adminCommand EXCEPT ![c].pc = pc]
Record(c, phase) == audit' = audit \cup {[cmd |-> c, phase |-> phase]}
Phases(c) == {e.phase : e \in {x \in audit : x.cmd = c}}

\* What is left when a provider's row goes, and when the password goes.  The
\* former counts the password, the latter the configured providers only.
RemainingAfterDisconnect(rows, provider) == Usable(rows \ {provider})
RemainingAfterDisable(rows) == rows \cap Configured

-----------------------------------------------------------------------------
(* The routes.                                                             *)

\* A request passes its checks: disconnecting looks at the rows, without a
\* lock, before it records anything.
request(c, kind, provider) ==
    /\ AtStep(c, "idle")
    /\ kind = "disconnect" =>
         /\ provider \in methods
         /\ RemainingAfterDisconnect(methods, provider) # {}
    /\ kind = "reset_password" => "credential" \in methods
    /\ adminCommand' = [adminCommand EXCEPT ![c] = [pc |-> "checked", kind |-> kind,
                                          provider |-> provider, done |-> FALSE]]
    /\ UNCHANGED <<methods, audit, unacknowledged, outages>>

\* The started event is written, or nothing happens at all, but the event may
\* be there when only the answer was lost.
beginAdminAuditCommand(c) ==
    /\ AtStep(c, "checked")
    /\ \/ Record(c, "started") /\ CommandStep(c, "begun") /\ UNCHANGED outages
       \/ Outage /\ CommandStep(c, "ended") /\ (UNCHANGED audit \/ Record(c, "started"))
    /\ UNCHANGED <<methods, unacknowledged>>

\* Mutant: the last way to sign in is only looked for before the lock.
MayChange_Preflight(c) ==
    \/ adminCommand[c].kind = "disconnect"
    \/ adminCommand[c].kind = "disable_password" /\ RemainingAfterDisable(methods) # {}

\* The check repeated on the rows locked FOR UPDATE.
MayChange(c) ==
    \/ /\ adminCommand[c].kind = "disconnect"
       /\ adminCommand[c].provider \in methods
       /\ RemainingAfterDisconnect(methods, adminCommand[c].provider) # {}
    \/ /\ adminCommand[c].kind = "disable_password"
       /\ RemainingAfterDisable(methods) # {}

Removed(c) ==
    methods \ {IF adminCommand[c].kind = "disconnect" THEN adminCommand[c].provider ELSE "credential"}

\* The transaction deletes the row and the user's sessions and writes
\* "succeeded"; it is refused, fails before its commit, or commits without the
\* acknowledgement reaching the front, which takes that for a failure.
localTransaction(c) ==
    /\ AtStep(c, "begun")
    /\ adminCommand[c].kind \in Local
    /\ \/ /\ MayChange(c)
          /\ methods' = Removed(c)
          /\ Record(c, "succeeded")
          /\ \/ UNCHANGED <<outages, unacknowledged>>
                /\ adminCommand' = [adminCommand EXCEPT ![c].pc = "ended", ![c].done = TRUE]
             \/ Outage
                /\ unacknowledged' = unacknowledged \cup {c}
                /\ adminCommand' = [adminCommand EXCEPT ![c].pc = "thrown", ![c].done = TRUE]
       \/ /\ ~MayChange(c)
          /\ CommandStep(c, "thrown")
          /\ UNCHANGED <<methods, audit, unacknowledged, outages>>
       \/ /\ Outage
          /\ CommandStep(c, "thrown")
          /\ UNCHANGED <<methods, audit, unacknowledged>>

\* The identity library is called: it acts and returns, acts and throws, or
\* throws without having acted.
externalOperation(c) ==
    /\ AtStep(c, "begun")
    /\ adminCommand[c].kind \in External
    /\ \E done, returns \in BOOLEAN :
         /\ returns => done
         /\ adminCommand' = [adminCommand EXCEPT ![c].pc = IF returns THEN "returned" ELSE "thrown",
                                       ![c].done = done]
         /\ methods' = IF done /\ adminCommand[c].kind = "enable_password"
                       THEN methods \cup {"credential"} ELSE methods
    /\ UNCHANGED <<audit, unacknowledged, outages>>

\* Mutant: a call whose outcome is unknown is recorded as failed.
outcomePhase_Failed(c) ==
    IF AtStep(c, "returned") THEN "succeeded" ELSE "failed"

\* What the front writes when the change is over.
outcomePhase(c) ==
    CASE AtStep(c, "returned") -> "succeeded"
      [] AtStep(c, "thrown") /\ adminCommand[c].kind \in External -> "ambiguous"
      [] OTHER -> "failed"

\* The terminal event outside of the transaction; a failure to write it is
\* swallowed.
finishAdminAuditCommand(c) ==
    /\ adminCommand[c].pc \in {"returned", "thrown"}
    /\ \/ Record(c, outcomePhase(c)) /\ UNCHANGED outages
       \/ Outage /\ UNCHANGED audit
    /\ CommandStep(c, "ended")
    /\ UNCHANGED <<methods, unacknowledged>>

\* The front dies between two steps.
crashCommand(c) ==
    /\ adminCommand[c].pc \in {"checked", "begun", "returned", "thrown"}
    /\ Outage
    /\ CommandStep(c, "ended")
    /\ UNCHANGED <<methods, audit, unacknowledged>>

\* The user links another provider.
linkAccount(p) ==
    /\ p \notin methods
    /\ methods' = methods \cup {p}
    /\ UNCHANGED <<adminCommand, audit, unacknowledged, outages>>

AuditNext ==
    \/ \E c \in AdminCommands, p \in Providers : request(c, "disconnect", p)
    \/ \E c \in AdminCommands, kind \in (Local \cup External) \ {"disconnect"} :
         request(c, kind, NoProvider)
    \/ \E c \in AdminCommands :
         \/ beginAdminAuditCommand(c)
         \/ localTransaction(c)
         \/ externalOperation(c)
         \/ finishAdminAuditCommand(c)
         \/ crashCommand(c)
    \/ \E p \in Configured : linkAccount(p)

AuditSpec == AuditInit /\ [][AuditNext]_adminVars

-----------------------------------------------------------------------------
(* The readiness probe and the console: commands without an outcome.       *)

Outcomes(c) == Phases(c) \cap {"succeeded", "failed", "ambiguous"}
Incomplete == {c \in AdminCommands : "started" \in Phases(c) /\ Outcomes(c) = {}}

-----------------------------------------------------------------------------
(* Properties.                                                             *)

\* The audit tells what happened.  A change is never made without a started
\* event.  A started command gets one outcome, or none because of an outage, or
\* until it is over: "succeeded" of a change that was made, "failed" of one that
\* was rolled back, "ambiguous" of a call into the identity library.  The one
\* exception is a commit whose acknowledgement was lost: the front takes it for a
\* rollback and may write "failed" beside the "succeeded" of the transaction.
\* "succeeded" is then the true one, and whoever reads both can tell.
AuditTellsTruth ==
    \A c \in AdminCommands :
        /\ adminCommand[c].done => "started" \in Phases(c)
        /\ Outcomes(c) # {} => "started" \in Phases(c)
        /\ "succeeded" \in Phases(c) => adminCommand[c].done
        /\ "ambiguous" \in Phases(c) => adminCommand[c].kind \in External
        /\ c \notin unacknowledged =>
             /\ \A p, q \in Outcomes(c) : p = q
             /\ "failed" \in Phases(c) => ~adminCommand[c].done
        /\ c \in unacknowledged => "succeeded" \in Phases(c)
        /\ (c \in Incomplete /\ AtStep(c, "ended")) => outages > 0

\* However many administrators disconnect providers and disable the password at
\* the same time, each having seen another method left, the user keeps one that
\* works.
SignInRemains == Usable(methods) # {}
=============================================================================

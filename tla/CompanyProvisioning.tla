------------------------- MODULE CompanyProvisioning -------------------------
(***************************************************************************)
(* Creating a company from the administrator's console.  The browser tab   *)
(* binds a draft to a command and keeps the pair in session storage until  *)
(* an answer settles it; the web route has the private engine create the   *)
(* company of the command and then invites the first owner by email.  The  *)
(* engine and the web front have separate databases, and the mail provider *)
(* takes part in neither: every hop may lose its answer, and a retry may   *)
(* arrive while the first attempt is still running.                        *)
(*                                                                         *)
(* A submission is one call of the route: of POST                          *)
(* /api/admin/product/tenants, or of POST /api/admin/invitations, whose    *)
(* invitations carry no command (Direct).  Invitation s is the row         *)
(* submission s inserted.                                                  *)
(***************************************************************************)
EXTENDS Naturals, FiniteSets

CONSTANTS
    Drafts,          \* what the form may hold: [slug, email, invite]
    AdminEmail,      \* the administrator's own address
    Quotas,          \* what provisioning.maxTenants of the installation profile may be
    MaxSubmissions,  \* bound: calls of the two routes
    MaxQuotaRevision,  \* bound: revisions of the installation profile
    MaxDisturbances  \* bound: crashes, lost calls and answers, failing tabs

ASSUME ProvisioningAssumption ==
    /\ Drafts # {}
    /\ \A d \in Drafts : DOMAIN d = {"slug", "email", "invite"} /\ d.invite \in BOOLEAN
    /\ Quotas # {} /\ Quotas \subseteq Nat \ {0}
    /\ {MaxSubmissions, MaxQuotaRevision} \subseteq Nat \ {0}
    /\ MaxDisturbances \in Nat

Submissions == 1..MaxSubmissions
Direct == 0                       \* the command of an invitation without one

VARIABLES
    retry,       \* the tab's retry record: {} or {[cmd, draft]}
    awaiting,    \* the submission the tab awaits, or 0
    sub,         \* submission -> [pc, draft, cmd, told]
    calls,       \* submissions whose engine call has not run yet
    replies,     \* submission -> the engine's answer: {} or {outcome}
    companies,   \* set of [cmd, draft]: tenants with their command receipts
    tenantQuota, \* the active installation profile: [revision, maxTenants]
    outgrown,    \* history: submissions refused for a quota that was raised since
    inv,         \* submission -> its invitation row: {} or {[status, revoked, accepted]}
    found,       \* submission -> live invitations its open transaction saw
    lock,        \* the holders of the invitation advisory locks: submissions
    mails,       \* submission -> messages the provider accepted for its row
    accounts,    \* addresses with an account
    disturbed    \* disturbances so far

tabVars == <<retry, awaiting>>
quotaVars == <<tenantQuota, outgrown>>
mailVars == <<inv, found, lock, mails>>
provisioningVars == <<retry, awaiting, sub, calls, replies, companies, quotaVars,
                      inv, found, lock, mails, accounts, disturbed>>

Unused == [pc |-> "unused", draft |-> CHOOSE d \in Drafts : TRUE, cmd |-> 0, told |-> "nothing"]
Emails == {d.email : d \in Drafts}

ProvisioningInit ==
    /\ retry = {}
    /\ awaiting = 0
    /\ sub = [s \in Submissions |-> Unused]
    /\ calls = {}
    /\ replies = [s \in Submissions |-> {}]
    /\ companies = {}
    /\ tenantQuota \in [revision : {1}, maxTenants : Quotas]
    /\ outgrown = {}
    /\ inv = [s \in Submissions |-> {}]
    /\ found = [s \in Submissions |-> {}]
    /\ lock = {}
    /\ mails = [s \in Submissions |-> 0]
    /\ accounts = {AdminEmail}
    /\ disturbed = 0

Disturb == disturbed < MaxDisturbances /\ disturbed' = disturbed + 1
Stage(s, pc) == sub[s].pc = pc
Tell(s, answer) == sub' = [sub EXCEPT ![s].pc = "told", ![s].told = answer]
Goto(s, pc) == sub' = [sub EXCEPT ![s].pc = pc]

-----------------------------------------------------------------------------
(* The tab.                                                                *)

\* The command of a submission: the retry record's when it is for the same
\* draft, a new one otherwise.  Commands are numbered by the submission that
\* creates them.
nextCompanyProvisioningCommand(s, draft) ==
    IF \E r \in retry : r.draft = draft
    THEN (CHOOSE r \in retry : TRUE).cmd
    ELSE s

\* The route checks the session first, a signed-out tab is answered 401, and
\* then asks the engine for the company.
PostCompany(s, draft, cmd, signedIn) ==
    /\ sub' = [sub EXCEPT ![s] = [pc |-> IF signedIn THEN "engine" ELSE "told",
                                  draft |-> draft, cmd |-> cmd,
                                  told |-> IF signedIn THEN "nothing" ELSE "denied"]]
    /\ calls' = IF signedIn THEN calls \cup {s} ELSE calls

\* Submit the form.  Without a digest in the browser the command is new and the
\* record is not kept.
provision(s, draft, hashed, signedIn) ==
    LET cmd == IF hashed THEN nextCompanyProvisioningCommand(s, draft) ELSE s
    IN  /\ Stage(s, "unused")
        /\ \A t \in 1..(s - 1) : ~Stage(t, "unused")
        /\ awaiting = 0
        /\ awaiting' = s
        /\ retry' = IF hashed THEN {[cmd |-> cmd, draft |-> draft]} ELSE {}
        /\ PostCompany(s, draft, cmd, signedIn)
        /\ IF signedIn /\ hashed THEN UNCHANGED disturbed ELSE Disturb
        /\ UNCHANGED <<replies, companies, quotaVars, inv, found, lock, mails, accounts>>

\* Success and a definite 4xx settle the command, a server error does not.
companyProvisioningRetryDefinitelyRejected(answer) ==
    answer \in {"denied", "slug", "quota", "conflict"}

Succeeded(answer) ==
    answer \in {"skipped", "not_required", "existing_account", "sent", "delivery_failed", "delivery_unknown"}

receiveProvisioned(s) ==
    /\ awaiting = s
    /\ Stage(s, "told")
    /\ awaiting' = 0
    /\ retry' = IF Succeeded(sub[s].told) \/ companyProvisioningRetryDefinitelyRejected(sub[s].told)
                THEN {} ELSE retry
    /\ Goto(s, "gone")
    /\ UNCHANGED <<calls, replies, companies, quotaVars, mailVars, accounts, disturbed>>

\* The tab reloads or loses its connection: it stops waiting and keeps the
\* retry record.
abandonSubmission ==
    /\ awaiting # 0
    /\ IF Stage(awaiting, "gone") THEN UNCHANGED disturbed ELSE Disturb
    /\ awaiting' = 0
    /\ UNCHANGED <<retry, sub, calls, replies, companies, quotaVars, mailVars, accounts>>

\* The record is a day old, or the administrator opens another tab.
loadCompanyProvisioningRetry ==
    /\ awaiting = 0
    /\ retry # {}
    /\ retry' = {}
    /\ UNCHANGED <<awaiting, sub, calls, replies, companies, quotaVars, mailVars, accounts, disturbed>>

-----------------------------------------------------------------------------
(* The engine: one transaction under the advisory lock of the command and  *)
(* the lock of the installation profile.                                   *)

\* Mutant: the receipt of the command is not looked up.
provisionOutcome_NoReplay(s) ==
    IF Cardinality(companies) >= tenantQuota.maxTenants THEN "quota"
    ELSE IF \E c \in companies : c.draft.slug = sub[s].draft.slug THEN "slug"
    ELSE "created"

\* A receipt of the command answers the call again (for other input: a
\* conflict); otherwise the tenant quota and the unique slug decide.
provisionOutcome(s) ==
    LET receipt == {c \in companies : c.cmd = sub[s].cmd}
    IN  IF receipt # {}
        THEN IF \E c \in receipt : c.draft = sub[s].draft THEN "replayed" ELSE "conflict"
        ELSE IF Cardinality(companies) >= tenantQuota.maxTenants THEN "quota"
        ELSE IF \E c \in companies : c.draft.slug = sub[s].draft.slug THEN "slug"
        ELSE "created"

\* The company, its owner membership and grant, profile, disabled bindings,
\* pending admission and the receipt are committed together.
provisionTenant(s) ==
    LET outcome == provisionOutcome(s)
    IN  /\ s \in calls
        /\ calls' = calls \ {s}
        /\ companies' = IF outcome = "created"
                        THEN companies \cup {[cmd |-> sub[s].cmd, draft |-> sub[s].draft]}
                        ELSE companies
        /\ replies' = [replies EXCEPT ![s] =
                         {IF outcome \in {"created", "replayed"} THEN "company" ELSE outcome}]
        /\ UNCHANGED <<tabVars, sub, quotaVars, mailVars, accounts, disturbed>>

\* An administrator revises the installation profile, under the same lock.  A
\* higher quota takes back the ground of the refusals it was too low for.
setTenantQuota(n) ==
    /\ tenantQuota.revision < MaxQuotaRevision
    /\ tenantQuota' = [revision |-> tenantQuota.revision + 1, maxTenants |-> n]
    /\ outgrown' = IF n > tenantQuota.maxTenants
                   THEN {s \in Submissions : s \in outgrown \/ "quota" \in replies[s]}
                   ELSE outgrown
    /\ UNCHANGED <<tabVars, sub, calls, replies, companies, mailVars, accounts, disturbed>>

\* The call never reaches the engine.
loseCall(s) ==
    /\ s \in calls
    /\ Disturb
    /\ calls' = calls \ {s}
    /\ UNCHANGED <<tabVars, sub, replies, companies, quotaVars, mailVars, accounts>>

-----------------------------------------------------------------------------
(* The web route after the engine.                                         *)

\* The engine answered: a refusal is passed on, a company is followed by the
\* invitation of its owner unless the form declined it or the owner is the
\* administrator.
engineAnswered(s) ==
    /\ Stage(s, "engine")
    /\ \E outcome \in replies[s] :
         CASE outcome # "company" -> Tell(s, outcome)
           [] outcome = "company" /\ ~sub[s].draft.invite -> Tell(s, "skipped")
           [] outcome = "company" /\ sub[s].draft.invite /\ sub[s].draft.email = AdminEmail ->
                Tell(s, "not_required")
           [] OTHER -> Goto(s, "invite")
    /\ UNCHANGED <<tabVars, calls, replies, companies, quotaVars, mailVars, accounts, disturbed>>

\* The front stops waiting for the engine, whose call may still run.
engineTimesOut(s) ==
    /\ Stage(s, "engine")
    /\ Disturb
    /\ Tell(s, "error")
    /\ UNCHANGED <<tabVars, calls, replies, companies, quotaVars, mailVars, accounts>>

\* An administrator invites an address by hand: no command, no replay.
inviteByHand(s, draft) ==
    /\ Stage(s, "unused")
    /\ \A t \in 1..(s - 1) : ~Stage(t, "unused")
    /\ sub' = [sub EXCEPT ![s] = [pc |-> "invite", draft |-> draft, cmd |-> Direct, told |-> "nothing"]]
    /\ UNCHANGED <<tabVars, calls, replies, companies, quotaVars, mailVars, accounts, disturbed>>

EmailOf(s) == sub[s].draft.email
Live(s) == \E row \in inv[s] : ~row.revoked /\ ~row.accepted
LiveOf(email) == {s \in Submissions : EmailOf(s) = email /\ Live(s)}

\* What a retry is told of the invitation bound to its command.
replayInvitation(row) ==
    CASE row.revoked \/ row.status = "failed" -> "delivery_failed"
      [] ~row.revoked /\ row.status = "pending" -> "delivery_unknown"
      [] OTHER -> "sent"

Prior(s) == {t \in Submissions : sub[s].cmd # Direct /\ sub[t].cmd = sub[s].cmd /\ inv[t] # {}}

\* Take the command's advisory lock, answer from the invitation of the command
\* if there is one, refuse an address with an account, else open the
\* transaction that revokes the live invitations of the address.
createInvitation(s) ==
    /\ Stage(s, "invite")
    /\ sub[s].cmd # Direct => \A h \in lock : sub[h].cmd # sub[s].cmd
    /\ CASE Prior(s) # {} ->
              /\ \E t \in Prior(s) : \E row \in inv[t] : Tell(s, replayInvitation(row))
              /\ UNCHANGED <<lock, found>>
         [] Prior(s) = {} /\ EmailOf(s) \in accounts ->
              /\ Tell(s, "existing_account")
              /\ UNCHANGED <<lock, found>>
         [] OTHER ->
              /\ Goto(s, "insert")
              /\ lock' = lock \cup {s}
              /\ found' = [found EXCEPT ![s] = LiveOf(EmailOf(s))]
    /\ UNCHANGED <<tabVars, calls, replies, companies, quotaVars, inv, mails, accounts, disturbed>>

\* The transaction commits: the invitations it saw are revoked and its own is
\* inserted as pending.  One committed meanwhile for the address makes the
\* insert fail on the unique index of live invitations.
deliverInvitation(s) ==
    LET clash == LiveOf(EmailOf(s)) \ found[s]
    IN  /\ Stage(s, "insert")
        /\ found' = [found EXCEPT ![s] = {}]
        /\ IF clash # {}
           THEN /\ Tell(s, "delivery_failed")
                /\ lock' = lock \ {s}
                /\ inv' = inv
           ELSE /\ Goto(s, "send")
                /\ inv' = [t \in Submissions |->
                             CASE t = s -> {[status |-> "pending", revoked |-> FALSE, accepted |-> FALSE]}
                               [] t # s /\ t \in LiveOf(EmailOf(s)) ->
                                    {[row EXCEPT !.revoked = TRUE] : row \in inv[t]}
                               [] OTHER -> inv[t]]
                /\ lock' = lock
        /\ UNCHANGED <<tabVars, calls, replies, companies, quotaVars, mails, accounts, disturbed>>

\* The provider takes the message and says so, refuses it before delivery, or
\* the outcome stays unknown (it may have taken it).  The first two lead to
\* the receipt, the last leaves the row pending.
sendAuthEmail(s) ==
    /\ Stage(s, "send")
    /\ \/ /\ mails' = [mails EXCEPT ![s] = @ + 1]
          /\ Goto(s, "accepted")
          /\ lock' = lock
       \/ /\ mails' = mails
          /\ Goto(s, "failed")
          /\ lock' = lock
       \/ /\ mails' \in {mails, [mails EXCEPT ![s] = @ + 1]}
          /\ Tell(s, "delivery_unknown")
          /\ lock' = lock \ {s}
    /\ UNCHANGED <<tabVars, calls, replies, companies, quotaVars, inv, found, accounts, disturbed>>

\* The receipt: provider_accepted, or failed, which also revokes.  A row that
\* is no longer pending would make it fail; only this submission writes the
\* status.
recordInvitationDelivery(s) ==
    /\ sub[s].pc \in {"accepted", "failed"}
    /\ inv' = [inv EXCEPT ![s] =
                 {[row EXCEPT !.status = IF Stage(s, "accepted") THEN "provider_accepted" ELSE "failed",
                              !.revoked = @ \/ Stage(s, "failed")] : row \in @}]
    /\ Tell(s, IF Stage(s, "accepted") THEN "sent" ELSE "delivery_failed")
    /\ lock' = lock \ {s}
    /\ UNCHANGED <<tabVars, calls, replies, companies, quotaVars, found, mails, accounts, disturbed>>

\* The receipt transaction fails: the row stays pending, the outcome unknown
\* (after a definite failure the route still reports that failure).
receiptFails(s) ==
    /\ sub[s].pc \in {"accepted", "failed"}
    /\ Disturb
    /\ Tell(s, IF Stage(s, "accepted") THEN "delivery_unknown" ELSE "delivery_failed")
    /\ lock' = lock \ {s}
    /\ UNCHANGED <<tabVars, calls, replies, companies, quotaVars, inv, found, mails, accounts>>

\* The front dies under a submission: the connection's lock and open
\* transaction go with it.
crashFront(s) ==
    /\ sub[s].pc \notin {"unused", "gone"}
    /\ Disturb
    /\ Goto(s, "gone")
    /\ lock' = lock \ {s}
    /\ found' = [found EXCEPT ![s] = {}]
    /\ UNCHANGED <<tabVars, calls, replies, companies, quotaVars, inv, mails, accounts>>

\* The invited owner opens a link that reached the mailbox, signs in and
\* accepts: only a live invitation of the address is taken.
acceptInvitation(s) ==
    /\ mails[s] > 0
    /\ Live(s)
    /\ inv' = [inv EXCEPT ![s] = {[row EXCEPT !.accepted = TRUE] : row \in @}]
    /\ accounts' = accounts \cup {EmailOf(s)}
    /\ UNCHANGED <<tabVars, sub, calls, replies, companies, quotaVars, found, lock, mails, disturbed>>

ProvisioningNext ==
    \/ \E s \in Submissions, d \in Drafts, hashed, signedIn \in BOOLEAN :
         provision(s, d, hashed, signedIn)
    \/ \E s \in Submissions, d \in Drafts : inviteByHand(s, d)
    \/ abandonSubmission
    \/ loadCompanyProvisioningRetry
    \/ \E n \in Quotas : setTenantQuota(n)
    \/ \E s \in Submissions :
         \/ receiveProvisioned(s)
         \/ provisionTenant(s)
         \/ loseCall(s)
         \/ engineAnswered(s)
         \/ engineTimesOut(s)
         \/ createInvitation(s)
         \/ deliverInvitation(s)
         \/ sendAuthEmail(s)
         \/ recordInvitationDelivery(s)
         \/ receiptFails(s)
         \/ crashFront(s)
         \/ acceptInvitation(s)

ProvisioningSpec == ProvisioningInit /\ [][ProvisioningNext]_provisioningVars

-----------------------------------------------------------------------------
(* Properties.                                                             *)

\* A submission refused because the identifier is taken or the command was used
\* for something else is refused for good: its command has no company and no
\* attempt of it still under way creates one, so a retry that kept the command of
\* a lost call is never refused because of the company that call made.  A refusal
\* for the quota stands until an administrator raises the quota: only then may a
\* late first attempt of the command still create the company.  (An answer of 401
\* or 403 is no refusal of the engine; the tab drops the command all the same, and
\* its next submission, under a new one, may find its own company in the way.)
RefusalIsFinal ==
    \A s \in Submissions :
        (sub[s].told \in {"slug", "conflict"} \/ (sub[s].told = "quota" /\ s \notin outgrown)) =>
            \A c \in companies : c.cmd # sub[s].cmd

\* The owner of a company gets at most one invitation message per command,
\* however often it is retried, interrupted or overtaken; "sent" is only told
\* of a message the provider took; an invitation told as not delivered was not
\* delivered, unless a newer one replaced it; and no address has two live
\* invitations.
InvitationHonest ==
    /\ \A s, t \in Submissions :
         (sub[s].cmd # Direct /\ sub[s].cmd = sub[t].cmd /\ mails[s] > 0 /\ mails[t] > 0) =>
            s = t /\ mails[s] = 1
    /\ \A s \in Submissions :
         sub[s].told = "sent" =>
            \E t \in Submissions :
               /\ t = s \/ (sub[s].cmd # Direct /\ sub[t].cmd = sub[s].cmd)
               /\ mails[t] > 0
    /\ \A s \in Submissions : \A row \in inv[s] :
         row.status = "failed" => mails[s] = 0
    /\ \A email \in Emails : Cardinality(LiveOf(email)) <= 1

\* What the console tells the administrator of a company and its owner's
\* invitation is true, whatever was lost, repeated or late.
ProvisioningHonest == RefusalIsFinal /\ InvitationHonest
=============================================================================

--------------------------- MODULE WorkflowControl ---------------------------
(***************************************************************************)
(* The workflow control plane of one company (workflow-store.mjs): editors *)
(* of the owner console load the draft of a workflow, save it and publish  *)
(* it as numbered revisions; owners set members; people who sign in claim  *)
(* the grants made to their email.                                         *)
(*                                                                         *)
(* A document is the set of edits that went into it.  Transactions run at  *)
(* read committed: what a transaction has written is in its own record     *)
(* until it commits, and others read only what is committed.               *)
(***************************************************************************)
EXTENDS Naturals, Sequences, FiniteSets

CONSTANTS
    Editors,        \* sessions of the owner console
    People,         \* emails; whoever signs in with one is one principal
    FirstOwners,    \* those who are owners at the start
    MaxEdits,       \* bound: edits made in all consoles
    MaxChanges      \* bound: setMember commands and claims

\* A company starts with an owner.
ASSUME ControlAssumption ==
    /\ FirstOwners \subseteq People /\ FirstOwners # {}
    /\ {MaxEdits, MaxChanges} \subseteq Nat

VARIABLES
    draft,          \* workflow_draft: version and document
    revisions,      \* workflow_revision: document, what its publisher saw, and if he said so
    editor,         \* what each console has loaded
    edits,          \* how many edits were made
    saved,          \* edits whose save was confirmed
    grant,          \* tenant_membership_grant
    member,         \* tenant_membership
    change,         \* the setMember or listTenants transactions under way
    changes,
    crossed         \* history: one has committed across another

controlVars == <<draft, revisions, editor, edits, saved, grant, member, change, changes, crossed>>

Nothing == [version |-> 0, document |-> {}]
\* A row of either table: its roles are reduced to whether owner is among them.
Row == [status : {"none", "active", "disabled"}, owner : BOOLEAN]
NoRow == [status |-> "none", owner |-> FALSE]
OwnerRow == [status |-> "active", owner |-> TRUE]
NoChange == [pc |-> "idle", who |-> {}, grant |-> NoRow, hit |-> FALSE]

\* createWorkflow left version 1 of the draft.
ControlInit ==
    /\ draft = [version |-> 1, document |-> {}]
    /\ revisions = <<>> /\ saved = {} /\ edits = 0
    /\ editor = [e \in Editors |-> Nothing]
    /\ grant = [p \in People |-> IF p \in FirstOwners THEN OwnerRow ELSE NoRow]
    /\ member = [p \in People |-> IF p \in FirstOwners THEN OwnerRow ELSE NoRow]
    /\ change = [t \in 1..2 |-> NoChange]
    /\ changes = 0
    /\ crossed = FALSE

(***************************************************************************)
(* Drafts and revisions                                                    *)
(***************************************************************************)

\* listWorkflows: the console shows the draft and remembers its version.
listWorkflows(e) ==
    /\ editor[e] # draft
    /\ editor' = [editor EXCEPT ![e] = draft]
    /\ UNCHANGED <<draft, revisions, edits, saved, grant, member, change, changes, crossed>>

\* Mutant: the save does not ask which version the editor had loaded.
updateDraft_Blind(e) ==
    /\ editor[e].version > 0 /\ edits < MaxEdits
    /\ edits' = edits + 1
    /\ draft' = [version |-> draft.version + 1, document |-> editor[e].document \cup {edits + 1}]
    /\ saved' = saved \cup {edits + 1}
    /\ editor' = [editor EXCEPT ![e] = draft']
    /\ UNCHANGED <<revisions, grant, member, change, changes, crossed>>

\* One update statement, conditional on the version the console had loaded.
updateDraft(e) ==
    /\ editor[e].version > 0 /\ edits < MaxEdits
    /\ edits' = edits + 1
    /\ editor[e].version = draft.version
    /\ draft' = [version |-> draft.version + 1, document |-> editor[e].document \cup {edits + 1}]
    /\ saved' = saved \cup {edits + 1}
    /\ editor' = [editor EXCEPT ![e] = draft']
    /\ UNCHANGED <<revisions, grant, member, change, changes, crossed>>

\* The draft is locked and becomes the next revision, its bindings resolved
\* (Artifacts).  The consoles send the version on the publisher's screen; the
\* command compares it only when it is there.
publishWorkflow(e, expected) ==
    /\ expected => editor[e].version = draft.version
    /\ Len(revisions) < MaxEdits
    /\ revisions' = Append(revisions, [document |-> draft.document, seen |-> editor[e].document,
                                       expected |-> expected])
    /\ UNCHANGED <<draft, editor, edits, saved, grant, member, change, changes, crossed>>

(***************************************************************************)
(* Members                                                                 *)
(***************************************************************************)

Writing(t) == change[t].pc \in {"written", "counted"}
\* on conflict waits for a transaction that has written the same grant row.
GrantRowFree(t, p) == \A u \in 1..2 \ {t} : ~(Writing(u) /\ change[u].who = {p})
\* The membership of p as transaction t sees it; its update has hit the row only
\* if that was committed by then.
SeenMember(t, p) ==
    IF Writing(t) /\ change[t].who = {p} /\ change[t].hit THEN change[t].grant ELSE member[p]

\* The commit of t falls between what another transaction has read, the owners or
\* a grant, and that one's own commit, or the other is about the same person.
Crosses(t) ==
    \E u \in 1..2 \ {t} : \/ change[u].pc \in {"counted", "claiming"}
                          \/ Writing(u) /\ change[u].who = change[t].who

\* requirePermission, the upsert of the grant and the update of the membership.
setMember(t, p, row) ==
    /\ change[t].pc = "idle" /\ changes < MaxChanges
    /\ \E o \in People : member[o] = OwnerRow
    /\ GrantRowFree(t, p)
    /\ changes' = changes + 1
    /\ change' = [change EXCEPT ![t] =
          [pc |-> "written", who |-> {p}, grant |-> row, hit |-> member[p].status # "none"]]
    /\ UNCHANGED <<draft, revisions, editor, edits, saved, grant, member, crossed>>

\* The active owners are counted as the transaction sees them; without one it
\* is rolled back with last_owner_required.
countOwners(t) ==
    /\ change[t].pc = "written"
    /\ change' = IF \E o \in People : SeenMember(t, o) = OwnerRow
                 THEN [change EXCEPT ![t].pc = "counted"] ELSE [change EXCEPT ![t] = NoChange]
    /\ UNCHANGED <<draft, revisions, editor, edits, saved, grant, member, changes, crossed>>

commitMember(t) ==
    /\ change[t].pc = "counted"
    /\ \E p \in change[t].who :
          /\ grant' = [grant EXCEPT ![p] = change[t].grant]
          /\ member' = [member EXCEPT ![p] = SeenMember(t, p)]
    /\ crossed' = (crossed \/ Crosses(t))
    /\ change' = [change EXCEPT ![t] = NoChange]
    /\ UNCHANGED <<draft, revisions, editor, edits, saved, changes>>

\* listTenants of a person with an active grant reads it ...
readGrant(t, p) ==
    /\ change[t].pc = "idle" /\ changes < MaxChanges
    /\ grant[p].status = "active"
    /\ changes' = changes + 1
    /\ change' = [change EXCEPT ![t] =
          [pc |-> "claiming", who |-> {p}, grant |-> grant[p], hit |-> FALSE]]
    /\ UNCHANGED <<draft, revisions, editor, edits, saved, grant, member, crossed>>

\* ... and makes it a membership.
claimMembershipGrants(t) ==
    /\ change[t].pc = "claiming"
    /\ \E p \in change[t].who :
          /\ member[p].status # "none" => GrantRowFree(t, p)
          /\ member' = [member EXCEPT ![p] = change[t].grant]
    /\ crossed' = (crossed \/ Crosses(t))
    /\ change' = [change EXCEPT ![t] = NoChange]
    /\ UNCHANGED <<draft, revisions, editor, edits, saved, grant, changes>>

MemberNext ==
    \E t \in 1..2 :
       \/ \E p \in People :
            \/ \E row \in Row \ {NoRow, [status |-> "none", owner |-> TRUE]} : setMember(t, p, row)
            \/ readGrant(t, p)
       \/ countOwners(t) \/ commitMember(t) \/ claimMembershipGrants(t)

DraftNext ==
    \E e \in Editors :
       listWorkflows(e) \/ updateDraft(e) \/ \E expected \in BOOLEAN : publishWorkflow(e, expected)

ControlSpec == ControlInit /\ [][DraftNext \/ MemberNext]_controlVars

(***************************************************************************)
(* Properties                                                              *)
(***************************************************************************)

(* No confirmed edit disappears from a draft although several consoles edit   *)
(* it at once: a save from a stale console is refused.  No revision loses     *)
(* what one before it had, and a revision whose publisher said what was on    *)
(* screen is that document; a publication without the version may be of a     *)
(* draft its caller has not seen.                                             *)
EditsSurvive ==
    /\ saved \subseteq draft.document
    /\ \A n \in DOMAIN revisions :
         /\ revisions[n].expected => revisions[n].document = revisions[n].seen
         /\ \A m \in 1..n : revisions[m].document \subseteq revisions[n].document

(* The company keeps an active owner however membership changes and claims    *)
(* overlap, as long as none commits after another has counted the owners or   *)
(* read its grant and before that one commits, or while another is about the  *)
(* same person.                                                               *)
OwnersRemain == ~crossed => \E p \in People : member[p] = OwnerRow

(* The control plane loses neither edits nor, but for such a crossing, its    *)
(* last owner.                                                                *)
ControlSound == EditsSurvive /\ OwnersRemain

(* What an owner is told who tries to remove the last owner (src/lib/         *)
(* engine-response.ts): "A company must retain at least one active owner."    *)
OwnerAlwaysRemains == \E p \in People : member[p] = OwnerRow
=============================================================================

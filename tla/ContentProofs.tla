--------------------------- MODULE ContentProofs ---------------------------
(***************************************************************************)
(* What owners author and hand out, for any number of editors, people,     *)
(* exports, documents and readers: edits survive one another and a tenant  *)
(* keeps an owner (WorkflowControl), a report is disclosed as it was       *)
(* sealed and every disclosure is on record (Reports), the revisions of an *)
(* assignment stay apart and within the quota, and whatever a reader gets  *)
(* of a document is what was inspected and scanned (Artifacts); nothing    *)
(* that did not happen is credited to a participant (TelemetryCredit), the *)
(* telemetry of an activity is what its page emitted and verifies          *)
(* (TelemetryRecorder); a walk through a workflow goes forward on verdicts *)
(* it has branches for (ActivityRules), and a copy of a bundle that        *)
(* verifies is the bundle as it was built (EvidenceBundle).                *)
(***************************************************************************)
EXTENDS WorkflowControl, Reports, Artifacts, TelemetryCredit, TelemetryRecorder,
        ActivityRules, EvidenceBundle,
        SequenceTheorems, FiniteSetTheorems, WellFoundedInduction, TLAPS

-----------------------------------------------------------------------------
(* WorkflowControl.                                                        *)

Screens == [version : Nat, document : SUBSET Nat]
Revisions == [document : SUBSET Nat, seen : SUBSET Nat, expected : BOOLEAN]
Changes == [pc : {"idle", "written", "counted", "claiming"}, who : SUBSET People, grant : Row, hit : BOOLEAN]

DraftsTyped ==
  /\ draft \in Screens /\ draft.version > 0
  /\ editor \in [Editors -> Screens]
  /\ edits \in Nat
  /\ revisions \in Seq(Revisions)

\* A console that shows the version of the draft shows the draft, and the draft has what any
\* revision has.
DraftInv ==
  /\ DraftsTyped
  /\ \A e \in Editors : /\ editor[e].version <= draft.version
                        /\ editor[e].version = draft.version => editor[e] = draft
  /\ \A n \in DOMAIN revisions : revisions[n].document \subseteq draft.document
  /\ EditsSurvive

MembersTyped ==
  /\ grant \in [People -> Row] /\ member \in [People -> Row]
  /\ change \in [1..2 -> Changes]
  /\ crossed \in BOOLEAN

\* While no commit has crossed another transaction: what one that has counted the owners or read
\* a grant has read is still committed, its update hits the row it did, and a membership is the
\* grant it was made from.
ReadStands(t) ==
  /\ change[t].pc # "idle" => \E p \in People : change[t].who = {p}
  /\ \A p \in change[t].who :
       /\ change[t].pc = "claiming" => change[t].grant = grant[p]
       /\ Writing(t) => (change[t].hit <=> member[p].status # "none")
  /\ change[t].pc = "counted" => \E o \in People : SeenMember(t, o) = OwnerRow
MembersStand ==
  /\ \A t \in 1..2 : ReadStands(t)
  /\ \A p \in People : member[p].status # "none" => member[p] = grant[p]
  /\ \E p \in People : member[p] = OwnerRow

MemberInv == MembersTyped /\ (~crossed => MembersStand)

\* A company starts with its owners and the first version of a draft.
LEMMA InitControl ==
  ASSUME ControlInit
  PROVE  DraftInv /\ MemberInv
<1>1. DraftInv
  BY DEF ControlInit, DraftInv, DraftsTyped, Screens, Nothing, EditsSurvive
<1>2. OwnerRow \in Row /\ NoRow \in Row /\ NoChange \in Changes /\ NoChange.pc = "idle" /\ NoChange.who = {}
  BY DEF OwnerRow, NoRow, Row, NoChange, Changes
<1>3. MembersTyped
  BY <1>2 DEF ControlInit, MembersTyped
<1>4. MembersStand
  <2>1. \E p \in People : member[p] = OwnerRow
    BY ControlAssumption DEF ControlInit
  <2>2. \A p \in People : member[p] = grant[p]
    BY DEF ControlInit
  <2>3. \A t \in 1..2 : ReadStands(t)
    BY <1>2 DEF ControlInit, ReadStands, Writing
  <2> QED
    BY <2>1, <2>2, <2>3 DEF MembersStand
<1> QED
  BY <1>1, <1>3, <1>4 DEF MemberInv

\* Loading, saving and publishing a draft.
LEMMA DraftsKept ==
  ASSUME DraftInv, NEW e \in Editors, NEW expected \in BOOLEAN,
         listWorkflows(e) \/ updateDraft(e) \/ publishWorkflow(e, expected)
  PROVE  DraftInv'
<1>1. CASE listWorkflows(e)
  <2>1. /\ editor' = [editor EXCEPT ![e] = draft]
        /\ UNCHANGED <<draft, revisions, edits, saved>>
    BY <1>1 DEF listWorkflows
  <2> QED
    BY <2>1 DEF DraftInv, DraftsTyped, EditsSurvive, Screens
<1>2. CASE updateDraft(e)
  <2>1. /\ editor[e].version = draft.version /\ edits' = edits + 1 /\ UNCHANGED revisions
        /\ draft' = [version |-> draft.version + 1, document |-> editor[e].document \cup {edits + 1}]
        /\ saved' = saved \cup {edits + 1} /\ editor' = [editor EXCEPT ![e] = draft']
    BY <1>2 DEF updateDraft
  <2>2. editor[e] = draft /\ saved \subseteq draft.document
    BY <2>1 DEF DraftInv, EditsSurvive
  <2>3. draft' \in Screens /\ draft'.version = draft.version + 1 /\ draft'.document = draft.document \cup {edits + 1}
    BY <2>1, <2>2 DEF DraftInv, DraftsTyped, Screens
  <2>4. DraftsTyped'
    BY <2>1, <2>3 DEF DraftInv, DraftsTyped, Screens
  <2>5. EditsSurvive' /\ \A n \in DOMAIN revisions : revisions[n].document \subseteq draft'.document
    BY <2>1, <2>2, <2>3 DEF DraftInv, EditsSurvive
  <2>6. ASSUME NEW f \in Editors
        PROVE  /\ editor'[f].version <= draft'.version
               /\ editor'[f].version = draft'.version => editor'[f] = draft'
    <3>1. /\ editor[f].version \in Nat /\ draft.version \in Nat
          /\ editor'[f] = IF f = e THEN draft' ELSE editor[f]
      BY <2>1 DEF DraftInv, DraftsTyped, Screens
    <3>2. editor[f].version <= draft.version
      BY DEF DraftInv
    <3> QED
      BY <2>3, <3>1, <3>2
  <2> QED
    BY <2>1, <2>4, <2>5, <2>6 DEF DraftInv
<1>3. CASE publishWorkflow(e, expected)
  <2>1. PICK new : new = [document |-> draft.document, seen |-> editor[e].document, expected |-> expected]
    OBVIOUS
  <2>2. /\ revisions' = Append(revisions, new) /\ UNCHANGED <<draft, editor, edits, saved>>
        /\ expected => editor[e].version = draft.version
    BY <1>3, <2>1 DEF publishWorkflow
  <2>3. new \in Revisions /\ new.document = draft.document /\ new.seen = editor[e].document /\ new.expected = expected
    BY <2>1 DEF DraftInv, DraftsTyped, Screens, Revisions
  <2>4. new.expected => new.document = new.seen
    BY <2>2, <2>3 DEF DraftInv
  <2>5. /\ revisions \in Seq(Revisions) /\ revisions' \in Seq(Revisions)
        /\ Len(revisions) \in Nat /\ DOMAIN revisions = 1..Len(revisions) /\ DOMAIN revisions' = 1..(Len(revisions) + 1)
        /\ \A n \in 1..Len(revisions) : revisions'[n] = revisions[n]
        /\ revisions'[Len(revisions) + 1] = new
    BY <2>2, <2>3 DEF DraftInv, DraftsTyped
  <2>6. \A n \in DOMAIN revisions' : revisions'[n].document \subseteq draft.document
    BY <2>3, <2>5 DEF DraftInv
  <2>7. ASSUME NEW n \in DOMAIN revisions'
        PROVE  /\ revisions'[n].expected => revisions'[n].document = revisions'[n].seen
               /\ \A m \in 1..n : revisions'[m].document \subseteq revisions'[n].document
    <3>1. CASE n \in 1..Len(revisions)
      BY <2>5, <3>1 DEF DraftInv, EditsSurvive
    <3>2. CASE n = Len(revisions) + 1
      BY <2>3, <2>4, <2>5, <2>6, <3>2
    <3> QED
      BY <2>5, <3>1, <3>2
  <2> QED
    BY <2>2, <2>5, <2>6, <2>7 DEF DraftInv, DraftsTyped, EditsSurvive
<1> QED
  BY <1>1, <1>2, <1>3

\* Beginning a transaction: of setMember, or a claim of a grant.
LEMMA ChangeBegins ==
  ASSUME MemberInv, NEW t \in 1..2, NEW p \in People, readGrant(t, p) \/ \E row \in Row : setMember(t, p, row)
  PROVE  MemberInv'
<1>1. PICK row \in Row, pc \in {"written", "claiming"}, hit \in BOOLEAN :
        /\ change' = [change EXCEPT ![t] = [pc |-> pc, who |-> {p}, grant |-> row, hit |-> hit]]
        /\ pc = "claiming" => row = grant[p]
        /\ pc = "written" => (hit <=> member[p].status # "none")
  <2>1. grant[p] \in Row /\ (member[p].status # "none") \in BOOLEAN
    BY DEF MemberInv, MembersTyped
  <2>2. ASSUME NEW row \in Row, setMember(t, p, row)
        PROVE  change' = [change EXCEPT ![t] = [pc |-> "written", who |-> {p}, grant |-> row,
                                                hit |-> member[p].status # "none"]]
    BY <2>2 DEF setMember
  <2>3. ASSUME readGrant(t, p)
        PROVE  change' = [change EXCEPT ![t] = [pc |-> "claiming", who |-> {p}, grant |-> grant[p], hit |-> FALSE]]
    BY <2>3 DEF readGrant
  <2>4. CASE readGrant(t, p)
    BY <2>1, <2>3, <2>4
  <2>5. CASE \E row \in Row : setMember(t, p, row)
    BY <2>1, <2>2, <2>5
  <2> QED
    BY <2>4, <2>5
<1>2. UNCHANGED <<grant, member, crossed>> /\ change[t].pc = "idle"
  BY DEF readGrant, setMember
<1>3. [pc |-> pc, who |-> {p}, grant |-> row, hit |-> hit] \in Changes
  BY DEF Changes
<1>4. MembersTyped'
  BY <1>1, <1>2, <1>3 DEF MemberInv, MembersTyped
<1>5. ASSUME ~crossed'
      PROVE  MembersStand'
  <2>1. MembersStand
    BY <1>2, <1>5 DEF MemberInv
  <2>2. /\ change'[t] = [pc |-> pc, who |-> {p}, grant |-> row, hit |-> hit]
        /\ \A u \in (1..2) \ {t} : change'[u] = change[u]
    BY <1>1 DEF MemberInv, MembersTyped
  <2>3. ReadStands(t)'
    BY <1>1, <1>2, <2>1, <2>2 DEF ReadStands, Writing
  <2>4. \A u \in (1..2) \ {t} : ReadStands(u)'
    BY <1>2, <2>1, <2>2 DEF MembersStand, ReadStands, Writing, SeenMember
  <2> QED
    BY <1>2, <2>1, <2>3, <2>4 DEF MembersStand
<1> QED
  BY <1>4, <1>5 DEF MemberInv

\* Ending it, or counting the owners first.
LEMMA ChangeEnds ==
  ASSUME MemberInv, NEW t \in 1..2, countOwners(t) \/ commitMember(t) \/ claimMembershipGrants(t)
  PROVE  MemberInv'
<1>1. /\ crossed' \in BOOLEAN /\ (crossed => crossed')
      /\ countOwners(t) => crossed' = crossed
      /\ commitMember(t) \/ claimMembershipGrants(t) => (~crossed' => ~Crosses(t))
  BY DEF countOwners, commitMember, claimMembershipGrants, MemberInv, MembersTyped
<1>2. NoChange \in Changes /\ NoChange.pc = "idle" /\ NoChange.who = {}
  BY DEF NoChange, Changes, NoRow, Row
<1>3. CASE countOwners(t)
  <2>1. /\ change[t].pc = "written" /\ UNCHANGED <<grant, member>>
        /\ change' = IF \E o \in People : SeenMember(t, o) = OwnerRow
                     THEN [change EXCEPT ![t].pc = "counted"] ELSE [change EXCEPT ![t] = NoChange]
    BY <1>3 DEF countOwners
  <2>2. MembersTyped'
    BY <1>1, <1>2, <2>1 DEF MemberInv, MembersTyped, Changes
  <2>3. ASSUME MembersStand, \E o \in People : SeenMember(t, o) = OwnerRow
        PROVE  MembersStand'
    <3>1. /\ \A u \in (1..2) \ {t} : change'[u] = change[u]
          /\ change'[t].pc = "counted" /\ change'[t].who = change[t].who
          /\ change'[t].grant = change[t].grant /\ (change'[t].hit <=> change[t].hit)
      BY <2>1, <2>3 DEF MemberInv, MembersTyped, Changes
    <3>2. \A o \in People : SeenMember(t, o)' = SeenMember(t, o)
      BY <2>1, <3>1 DEF SeenMember, Writing
    <3>3. ReadStands(t)
      BY <2>3 DEF MembersStand
    <3>4. ReadStands(t)'
      BY <2>1, <2>3, <3>1, <3>2, <3>3 DEF ReadStands, Writing
    <3>5. \A u \in (1..2) \ {t} : ReadStands(u)'
      <4> SUFFICES ASSUME NEW u \in (1..2) \ {t}
                   PROVE  ReadStands(u)'
        OBVIOUS
      <4>1. change'[u] = change[u] /\ ReadStands(u)
        BY <2>3, <3>1 DEF MembersStand
      <4> QED
        BY <2>1, <4>1 DEF ReadStands, Writing, SeenMember
    <3> QED
      BY <2>1, <2>3, <3>4, <3>5 DEF MembersStand
  <2>4. ASSUME MembersStand, ~\E o \in People : SeenMember(t, o) = OwnerRow
        PROVE  MembersStand'
    <3>1. change'[t] = NoChange /\ \A u \in (1..2) \ {t} : change'[u] = change[u]
      BY <2>1, <2>4 DEF MemberInv, MembersTyped
    <3>2. \A u \in (1..2) \ {t} : ReadStands(u)
      BY <2>4 DEF MembersStand
    <3>3. ReadStands(t)'
      BY <1>2, <3>1 DEF ReadStands, Writing
    <3>4. \A u \in (1..2) \ {t} : ReadStands(u)'
      BY <2>1, <3>1, <3>2 DEF ReadStands, Writing, SeenMember
    <3> QED
      BY <2>1, <2>4, <3>3, <3>4 DEF MembersStand
  <2> QED
    BY <1>1, <2>2, <2>3, <2>4 DEF MemberInv
<1>4. ASSUME NEW p \in People, change[t].who = {p}, change[t].pc # "idle", NEW new \in Row, NEW g \in Row,
             change' = [change EXCEPT ![t] = NoChange],
             member' = [member EXCEPT ![p] = new], grant' = [grant EXCEPT ![p] = g],
             MembersStand => /\ new.status # "none" => new = g
                             /\ \E o \in People : member'[o] = OwnerRow,
             commitMember(t) \/ claimMembershipGrants(t)
      PROVE  MemberInv'
  <2>1. MembersTyped'
    BY <1>1, <1>2, <1>4 DEF MemberInv, MembersTyped
  <2>2. ASSUME MembersStand, ~Crosses(t)
        PROVE  MembersStand'
    <3>1. change'[t] = NoChange /\ \A u \in (1..2) \ {t} : change'[u] = change[u]
      BY <1>4 DEF MemberInv, MembersTyped
    <3>2. ASSUME NEW u \in (1..2) \ {t}
          PROVE  ReadStands(u)'
      <4>1. /\ ReadStands(u) /\ change[u].pc \in {"idle", "written", "counted", "claiming"}
            /\ change'[u] = change[u]
        BY <2>2, <3>1 DEF MembersStand, MemberInv, MembersTyped, Changes
      <4>2. change[u].pc \in {"idle", "written"} /\ (Writing(u) => change[u].who # {p})
        BY <1>4, <2>2, <4>1 DEF Crosses
      <4>3. \A q \in change[u].who : Writing(u) => q \in People /\ q # p
        BY <4>1, <4>2 DEF ReadStands, Writing
      <4>4. \A q \in People : q # p => member'[q] = member[q]
        BY <1>4 DEF MemberInv, MembersTyped
      <4> QED
        BY <4>1, <4>2, <4>3, <4>4 DEF ReadStands, Writing
    <3>3. ReadStands(t)'
      BY <1>2, <3>1 DEF ReadStands, Writing
    <3>4. \A u \in 1..2 : ReadStands(u)'
      BY <3>2, <3>3
    <3>5. \A q \in People : member'[q].status # "none" => member'[q] = grant'[q]
      BY <1>4, <2>2 DEF MembersStand, MemberInv, MembersTyped
    <3> QED
      BY <1>4, <2>2, <3>4, <3>5 DEF MembersStand
  <2>3. crossed' \/ (~crossed /\ ~Crosses(t))
    BY <1>1, <1>4
  <2>4. crossed' \/ MembersStand'
    BY <2>2, <2>3 DEF MemberInv
  <2> QED
    BY <2>1, <2>4 DEF MemberInv
<1>5. CASE commitMember(t)
  <2>1. change[t].pc = "counted" /\ change' = [change EXCEPT ![t] = NoChange]
    BY <1>5 DEF commitMember
  <2>2. PICK p \in change[t].who : /\ grant' = [grant EXCEPT ![p] = change[t].grant]
                                   /\ member' = [member EXCEPT ![p] = SeenMember(t, p)]
    BY <1>5 DEF commitMember
  <2>3. p \in People /\ change[t].grant \in Row /\ member[p] \in Row /\ change[t].hit \in BOOLEAN
    BY <2>2 DEF MemberInv, MembersTyped, Changes
  <2>4. SeenMember(t, p) \in Row
    BY <2>3 DEF SeenMember
  <2>5. CASE crossed
    <3>1. MembersTyped'
      BY <1>1, <1>2, <2>1, <2>2, <2>3, <2>4 DEF MemberInv, MembersTyped
    <3>2. crossed'
      BY <1>1, <2>5
    <3> QED
      BY <3>1, <3>2 DEF MemberInv
  <2>6. CASE MembersStand
    <3>1. ReadStands(t) /\ change[t].who = {p}
      BY <2>1, <2>2, <2>6 DEF MembersStand, ReadStands
    <3>2. SeenMember(t, p).status # "none" => SeenMember(t, p) = change[t].grant
      BY <2>1, <2>2, <2>3, <3>1 DEF SeenMember, ReadStands, Writing
    <3>3. PICK o \in People : SeenMember(t, o) = OwnerRow
      BY <2>1, <3>1 DEF ReadStands
    <3>4. o # p => member[o] = OwnerRow
      BY <3>1, <3>3 DEF SeenMember
    <3>5. member'[o] = OwnerRow
      BY <2>2, <2>3, <3>3, <3>4 DEF MemberInv, MembersTyped
    <3> QED
      BY <1>4, <1>5, <2>1, <2>2, <2>3, <2>4, <3>1, <3>2, <3>5
  <2> QED
    BY <2>5, <2>6 DEF MemberInv, MembersTyped
<1>6. CASE claimMembershipGrants(t)
  <2>1. change[t].pc = "claiming" /\ change' = [change EXCEPT ![t] = NoChange] /\ grant' = grant
    BY <1>6 DEF claimMembershipGrants
  <2>2. PICK p \in change[t].who : member' = [member EXCEPT ![p] = change[t].grant]
    BY <1>6 DEF claimMembershipGrants
  <2>3. p \in People /\ change[t].grant \in Row /\ member[p] \in Row
    BY <2>2 DEF MemberInv, MembersTyped, Changes
  <2>4. CASE crossed
    <3>1. MembersTyped'
      BY <1>1, <1>2, <2>1, <2>2, <2>3 DEF MemberInv, MembersTyped
    <3>2. crossed'
      BY <1>1, <2>4
    <3> QED
      BY <3>1, <3>2 DEF MemberInv
  <2>5. CASE MembersStand
    <3>1. ReadStands(t) /\ change[t].who = {p} /\ change[t].grant = grant[p]
      BY <2>1, <2>2, <2>5 DEF MembersStand, ReadStands
    <3>2. grant' = [grant EXCEPT ![p] = grant[p]]
      BY <2>1, <2>3 DEF MemberInv, MembersTyped
    <3>3. PICK o \in People : member[o] = OwnerRow
      BY <2>5 DEF MembersStand
    <3>4. o = p => grant[p] = OwnerRow
      BY <2>5, <3>3 DEF MembersStand, OwnerRow
    <3>5. member'[o] = OwnerRow
      BY <2>2, <2>3, <3>1, <3>3, <3>4 DEF MemberInv, MembersTyped
    <3> QED
      BY <1>4, <1>6, <2>1, <2>2, <2>3, <3>1, <3>2, <3>5
  <2> QED
    BY <2>4, <2>5 DEF MemberInv, MembersTyped
<1> QED
  BY <1>3, <1>5, <1>6

\* The steps of editors, owners and members, taken together.
LEMMA NextControl ==
  ASSUME DraftInv, MemberInv, [DraftNext \/ MemberNext]_controlVars
  PROVE  (DraftInv /\ MemberInv)'
<1>1. ASSUME UNCHANGED <<draft, revisions, editor, edits, saved>>
      PROVE  DraftInv'
  BY <1>1 DEF DraftInv, DraftsTyped, EditsSurvive
<1>2. ASSUME UNCHANGED <<grant, member, change, crossed>>
      PROVE  MemberInv'
  BY <1>2 DEF MemberInv, MembersTyped, MembersStand, ReadStands, Writing, SeenMember
<1>3. CASE DraftNext
  <2>1. DraftInv'
    BY <1>3, DraftsKept DEF DraftNext
  <2>2. UNCHANGED <<grant, member, change, crossed>>
    BY <1>3 DEF DraftNext, listWorkflows, updateDraft, publishWorkflow
  <2> QED
    BY <1>2, <2>1, <2>2
<1>4. CASE MemberNext
  <2>1. MemberInv'
    BY <1>4, ChangeBegins, ChangeEnds DEF MemberNext
  <2>2. UNCHANGED <<draft, revisions, editor, edits, saved>>
    BY <1>4 DEF MemberNext, setMember, readGrant, countOwners, commitMember, claimMembershipGrants
  <2> QED
    BY <1>1, <2>1, <2>2
<1>5. CASE UNCHANGED controlVars
  BY <1>1, <1>2, <1>5 DEF controlVars
<1> QED
  BY <1>3, <1>4, <1>5

\* No confirmed edit is lost, no revision loses what one before it had and one whose publisher
\* named the version is what he saw, and a company keeps an owner however its membership changes
\* overlap as long as none commits across another: for any number of editors and people.
THEOREM ControlIsSound == ControlSpec => []ControlSound
<1>1. ControlInit => DraftInv /\ MemberInv
  BY InitControl
<1>2. DraftInv /\ MemberInv /\ [DraftNext \/ MemberNext]_controlVars => (DraftInv /\ MemberInv)'
  BY NextControl
<1>3. DraftInv /\ MemberInv => ControlSound
  BY DEF DraftInv, MemberInv, MembersStand, ControlSound, OwnersRemain
<1> QED
  BY <1>1, <1>2, <1>3, PTL DEF ControlSpec

-----------------------------------------------------------------------------
(* Reports.                                                                *)

ChunkRows == Exports \X (1..Chunks) \X {"intact", "rotten"}
Requests == [pc : {"idle", "found", "missing", "locked", "streaming", "delivered"},
             export : SUBSET Exports, writes : SUBSET Exports, got : Seq(ChunkRows)]

ReportsTyped ==
  /\ record \in {"sealed", "purged"}
  /\ exports \subseteq Exports
  /\ exportChunks \subseteq ChunkRows
  /\ reader \in [Readers -> Requests]

\* What a request has written and read so far.
Fetched(row, x) == Len(row.got) <= Chunks /\ \A n \in 1..Len(row.got) : row.got[n] = <<x, n, "intact">>
RequestStands(row) ==
  /\ row.pc # "idle" => \E x \in Exports : row.export = {x}
  /\ row.writes # {} => row.pc = "locked" /\ row.writes = row.export
  /\ row.pc \in {"streaming", "delivered"} => \A x \in row.export : Fetched(row, x)
  /\ row.pc = "delivered" => Len(row.got) = Chunks

\* Whoever holds the lock of an export is the only one to make it, and it is not there;
\* every row of a chunk belongs to an export and is the only one of its number.
ExportsStand ==
  /\ \A r \in Readers : RequestStands(reader[r])
  /\ \A r, q \in Readers : (/\ reader[r].pc = "locked" /\ reader[q].pc = "locked"
                            /\ reader[r].export = reader[q].export) => r = q
  /\ \A r \in Readers : reader[r].pc = "locked" => reader[r].export \cap exports = {}
  /\ \A c \in exportChunks : c[1] \in exports
  /\ \A c, d \in exportChunks : c[1] = d[1] /\ c[2] = d[2] => c = d

\* The purge begins to delete the assignment when nothing refers to it, and from then on
\* nothing does.
PurgeStands ==
  /\ purge.pc = "deleted" \/ record = "purged" => \A r \in Readers : reader[r].writes = {}
  /\ record = "purged" => tombstone
  /\ lookup = "unsealed" => record = "purged"
  /\ FingerprintRemembered /\ NothingOutlivesPurge

ReportsInv == ReportsTyped /\ ExportsStand /\ PurgeStands

\* A step that writes only the request of r.
LEMMA RequestWritten ==
  ASSUME ReportsInv, NEW r \in Readers, NEW row \in Requests, RequestStands(row),
         reader' = [reader EXCEPT ![r] = row],
         row.pc = "locked" => /\ row.export \cap exports = {}
                              /\ \A q \in Readers \ {r} : reader[q].pc = "locked" => reader[q].export # row.export,
         row.writes = {} \/ (purge.pc # "deleted" /\ record = "sealed"),
         UNCHANGED <<record, tombstone, exports, exportChunks, accesses, purge, lookup>>
  PROVE  ReportsInv'
<1>1. ReportsTyped /\ ExportsStand /\ PurgeStands
  BY DEF ReportsInv
<1>2. reader'[r] = row /\ \A q \in Readers \ {r} : reader'[q] = reader[q]
  BY <1>1 DEF ReportsTyped
<1>3. ReportsTyped'
  BY <1>1 DEF ReportsTyped
<1>4. ExportsStand'
  <2>1. \A q \in Readers : RequestStands(reader'[q])
    BY <1>1, <1>2 DEF ExportsStand
  <2>2. \A q, s \in Readers : (/\ reader'[q].pc = "locked" /\ reader'[s].pc = "locked"
                               /\ reader'[q].export = reader'[s].export) => q = s
    BY <1>1, <1>2 DEF ExportsStand
  <2>3. \A q \in Readers : reader'[q].pc = "locked" => reader'[q].export \cap exports = {}
    BY <1>1, <1>2 DEF ExportsStand
  <2> QED
    BY <1>1, <2>1, <2>2, <2>3 DEF ExportsStand, RequestStands, Fetched
<1>5. PurgeStands'
  BY <1>1, <1>2 DEF PurgeStands, FingerprintRemembered, NothingOutlivesPurge, ReportsTyped
<1> QED
  BY <1>3, <1>4, <1>5 DEF ReportsInv

\* A request that gave up.
LEMMA GaveUp == NoExport \in Requests /\ RequestStands(NoExport) /\ NoExport.pc = "idle" /\ NoExport.writes = {}
BY DEF NoExport, Requests, RequestStands

\* A request for export x, at its beginning or with nothing read yet.
LEMMA Begun ==
  ASSUME NEW x \in Exports, NEW pc \in {"found", "missing", "streaming"},
         NEW row, row = [NoExport EXCEPT !.pc = pc, !.export = {x}]
  PROVE  row \in Requests /\ row.pc = pc /\ row.export = {x} /\ row.writes = {} /\ RequestStands(row)
<1>1. NoExport.got = <<>>
  BY DEF NoExport
<1>2. row \in Requests /\ row.pc = pc /\ row.export = {x} /\ row.writes = {} /\ row.got = NoExport.got
  BY GaveUp DEF Requests
<1>3. row \in Requests
  BY <1>2
<1>4. Len(row.got) = 0 /\ 1..Len(row.got) = {}
  BY <1>1, <1>2
<1>5. Fetched(row, x)
  BY <1>4, ReportsAssumption DEF Fetched
<1> QED
  BY <1>2, <1>3, <1>5 DEF RequestStands

\* Opening, looking again under the lock, and inserting.
LEMMA Opens ==
  ASSUME ReportsInv, NEW r \in Readers,
         \/ \E x \in Exports : openExport(r, x)
         \/ findExport(r) \/ persistExport(r)
  PROVE  ReportsInv'
<1>1. ReportsTyped /\ ExportsStand /\ reader[r] \in Requests /\ RequestStands(reader[r])
  BY DEF ReportsInv, ReportsTyped, ExportsStand
<1>2. ASSUME NEW x \in Exports, openExport(r, x)
      PROVE  ReportsInv'
  <2>1. PICK pc \in {"found", "missing"} :
          reader' = [reader EXCEPT ![r] = [NoExport EXCEPT !.pc = pc, !.export = {x}]]
    BY <1>2 DEF openExport
  <2>2. PICK row : row = [NoExport EXCEPT !.pc = pc, !.export = {x}]
    OBVIOUS
  <2>3. row \in Requests /\ row.pc = pc /\ row.writes = {} /\ RequestStands(row)
    BY <2>2, Begun
  <2> QED
    BY <1>2, <2>1, <2>2, <2>3, RequestWritten DEF openExport
<1>3. CASE findExport(r)
  <2>1. PICK x \in reader[r].export :
          /\ LockFree(r, x)
          /\ reader' = [reader EXCEPT ![r].pc = IF x \in exports THEN "found" ELSE "locked"]
    BY <1>3 DEF findExport
  <2>2. PICK row : row = [reader[r] EXCEPT !.pc = IF x \in exports THEN "found" ELSE "locked"]
    OBVIOUS
  <2>3. reader' = [reader EXCEPT ![r] = row]
    BY <2>1, <2>2
  <2>4. /\ row \in Requests /\ row.pc = IF x \in exports THEN "found" ELSE "locked"
        /\ row.export = reader[r].export /\ row.writes = reader[r].writes
    BY <1>1, <2>2 DEF Requests
  <2>5. reader[r].pc = "missing" /\ row.export = {x} /\ row.writes = {}
    BY <1>1, <1>3, <2>1, <2>4 DEF findExport, RequestStands
  <2>6. RequestStands(row)
    BY <1>1, <2>1, <2>4, <2>5 DEF RequestStands, Requests
  <2>7. row.pc = "locked" => /\ row.export \cap exports = {}
                             /\ \A q \in Readers \ {r} : reader[q].pc = "locked" => reader[q].export # row.export
    BY <2>1, <2>4, <2>5 DEF LockFree
  <2> QED
    BY <1>3, <2>3, <2>4, <2>5, <2>6, <2>7, RequestWritten DEF findExport
<1>4. CASE persistExport(r)
  <2>1. PICK x \in reader[r].export :
          /\ ~PurgeHolds(x)
          /\ reader' = IF record # "sealed" THEN [reader EXCEPT ![r] = NoExport]
                       ELSE IF x \in exports THEN [reader EXCEPT ![r].pc = "conflict"]
                       ELSE [reader EXCEPT ![r].writes = {x}]
    BY <1>4 DEF persistExport
  <2>2. reader[r].pc = "locked" /\ reader[r].export = {x} /\ reader[r].export \cap exports = {}
    BY <1>1, <1>4, <2>1 DEF persistExport, RequestStands, ExportsStand
  <2>3. CASE record # "sealed"
    BY <1>4, <2>1, <2>3, GaveUp, RequestWritten DEF persistExport
  <2>4. CASE record = "sealed"
    <3>1. PICK row : row = [reader[r] EXCEPT !.writes = {x}]
      OBVIOUS
    <3>2. reader' = [reader EXCEPT ![r] = row]
      BY <2>1, <2>2, <2>4, <3>1
    <3>3. /\ row \in Requests /\ row.pc = "locked" /\ row.export = reader[r].export /\ row.writes = {x}
      BY <1>1, <2>1, <2>2, <3>1 DEF Requests
    <3>4. RequestStands(row)
      BY <1>1, <2>2, <3>3 DEF RequestStands, Requests
    <3>5. \A q \in Readers \ {r} : reader[q].pc = "locked" => reader[q].export # row.export
      BY <1>1, <2>2, <3>3 DEF ExportsStand
    <3>6. purge.pc # "deleted"
      BY <2>1 DEF PurgeHolds
    <3> QED
      BY <1>4, <2>2, <2>4, <3>2, <3>3, <3>4, <3>5, <3>6, RequestWritten DEF persistExport
  <2> QED
    BY <2>3, <2>4
<1> QED
  BY <1>2, <1>3, <1>4

\* The commit of an access, and of the export with it.
LEMMA ExportRecords ==
  ASSUME ReportsInv, NEW r \in Readers, recordAccess(r)
  PROVE  ReportsInv'
<1>1. ReportsTyped /\ ExportsStand /\ PurgeStands /\ reader[r] \in Requests /\ RequestStands(reader[r])
  BY DEF ReportsInv, ReportsTyped, ExportsStand
<1>2. PICK x \in reader[r].export :
        /\ ~PurgeHolds(x)
        /\ exports' = exports \cup reader[r].writes
        /\ exportChunks' = exportChunks \cup (reader[r].writes \X (1..Chunks) \X {"intact"})
        /\ accesses' = IF x \in exports \cup reader[r].writes THEN accesses \cup {<<r, x>>} ELSE accesses
        /\ reader' = [reader EXCEPT ![r] =
              IF x \in exports \cup reader[r].writes
              THEN [NoExport EXCEPT !.pc = "streaming", !.export = {x}] ELSE NoExport]
  BY DEF recordAccess
<1>3. UNCHANGED <<record, tombstone, purge, lookup>>
  BY DEF recordAccess
<1>4. PICK row : row = IF x \in exports \cup reader[r].writes THEN [NoExport EXCEPT !.pc = "streaming", !.export = {x}] ELSE NoExport
  OBVIOUS
<1>5. /\ row \in Requests /\ row.pc # "locked" /\ row.writes = {} /\ RequestStands(row)
  <2>1. x \in Exports
    BY <1>1 DEF Requests
  <2>2. CASE x \in exports \cup reader[r].writes
    BY <1>4, <2>1, <2>2, Begun
  <2>3. CASE x \notin exports \cup reader[r].writes
    BY <1>4, <2>3, GaveUp
  <2> QED
    BY <2>2, <2>3
<1>6. reader' = [reader EXCEPT ![r] = row] /\ reader'[r] = row /\ \A q \in Readers \ {r} : reader'[q] = reader[q]
  BY <1>1, <1>2, <1>4 DEF ReportsTyped
<1>7. reader[r].writes # {} => reader[r].pc = "locked" /\ reader[r].writes = reader[r].export /\ reader[r].export = {x}
  BY <1>1, <1>2 DEF RequestStands
<1>8. ReportsTyped'
  <2>1. \A y \in reader[r].writes, n \in 1..Chunks : <<y, n, "intact">> \in ChunkRows
    BY <1>1 DEF Requests, ChunkRows
  <2>2. exportChunks' \subseteq ChunkRows
    BY <1>1, <1>2, <2>1 DEF ReportsTyped
  <2>3. exports' \subseteq Exports
    BY <1>1, <1>2 DEF ReportsTyped, Requests
  <2> QED
    BY <1>1, <1>3, <1>5, <1>6, <2>2, <2>3 DEF ReportsTyped
<1>9. ExportsStand'
  <2>1. \A q \in Readers : RequestStands(reader'[q])
    BY <1>1, <1>5, <1>6 DEF ExportsStand
  <2>2. \A q, s \in Readers : (/\ reader'[q].pc = "locked" /\ reader'[s].pc = "locked"
                               /\ reader'[q].export = reader'[s].export) => q = s
    BY <1>1, <1>5, <1>6 DEF ExportsStand
  <2>3. ASSUME NEW q \in Readers, reader'[q].pc = "locked"
        PROVE  reader'[q].export \cap exports' = {}
    <3>1. q # r /\ reader'[q] = reader[q]
      BY <1>5, <1>6, <2>3
    <3>2. reader[q].export \cap exports = {} /\ \E y \in Exports : reader[q].export = {y}
      BY <1>1, <2>3, <3>1 DEF ExportsStand, RequestStands
    <3>3. reader[r].writes # {} => reader[q].export # {x}
      BY <1>1, <1>7, <2>3, <3>1 DEF ExportsStand
    <3> QED
      BY <1>2, <1>7, <3>1, <3>2, <3>3
  <2>4. \A c \in exportChunks' : c[1] \in exports'
    BY <1>1, <1>2 DEF ExportsStand
  <2>5. \A c, d \in exportChunks' : c[1] = d[1] /\ c[2] = d[2] => c = d
    <3>1. reader[r].writes # {} => x \notin exports
      BY <1>1, <1>7 DEF ExportsStand
    <3>2. \A c \in exportChunks' : c \in exportChunks \/ (c[1] = x /\ x \notin exports /\ c = <<x, c[2], "intact">>)
      BY <1>2, <1>7, <3>1
    <3>3. \A c \in exportChunks : c[1] \in exports
      BY <1>1 DEF ExportsStand
    <3>4. \A c, d \in exportChunks : c[1] = d[1] /\ c[2] = d[2] => c = d
      BY <1>1 DEF ExportsStand
    <3> QED
      BY <3>2, <3>3, <3>4
  <2> QED
    BY <2>1, <2>2, <2>3, <2>4, <2>5 DEF ExportsStand, RequestStands, Fetched
<1>10. PurgeStands'
  <2>1. purge.pc # "deleted"
    BY <1>2 DEF PurgeHolds
  <2>2. \A q \in Readers : reader[q].writes = {} => reader'[q].writes = {}
    BY <1>5, <1>6
  <2>3. ASSUME record = "purged"
        PROVE  exports' = {} /\ accesses' = {}
    <3>1. exports = {} /\ accesses = {} /\ reader[r].writes = {}
      BY <1>1, <2>3 DEF PurgeStands, NothingOutlivesPurge
    <3> QED
      BY <1>2, <3>1
  <2> QED
    BY <1>1, <1>3, <2>1, <2>2, <2>3 DEF PurgeStands, FingerprintRemembered, NothingOutlivesPurge
<1> QED
  BY <1>8, <1>9, <1>10 DEF ReportsInv

\* Chunk by chunk, and the end of the stream.
LEMMA ReadsOn ==
  ASSUME ReportsInv, NEW r \in Readers, readChunk(r) \/ closeStream(r)
  PROVE  ReportsInv'
<1>1. ReportsTyped /\ ExportsStand /\ reader[r] \in Requests /\ RequestStands(reader[r])
  BY DEF ReportsInv, ReportsTyped, ExportsStand
<1>2. reader[r].pc = "streaming" /\ reader[r].writes = {}
  BY <1>1 DEF readChunk, closeStream, RequestStands
<1>3. CASE closeStream(r)
  <2>1. PICK row : row = [reader[r] EXCEPT !.pc = "delivered"]
    OBVIOUS
  <2>2. reader' = [reader EXCEPT ![r] = row] /\ Len(reader[r].got) = Chunks
    BY <1>3, <2>1 DEF closeStream
  <2>3. /\ row \in Requests /\ row.pc = "delivered" /\ row.export = reader[r].export
        /\ row.writes = {} /\ row.got = reader[r].got
    BY <1>1, <1>2, <2>1 DEF Requests
  <2>4. RequestStands(row)
    BY <1>1, <1>2, <2>2, <2>3 DEF RequestStands, Fetched
  <2> QED
    BY <1>3, <2>2, <2>3, <2>4, RequestWritten DEF closeStream
<1>4. CASE readChunk(r)
  <2>1. PICK x \in reader[r].export :
          LET n == Len(reader[r].got) + 1
              rows == {c \in exportChunks : c[1] = x /\ c[2] = n}
          IN  reader' = IF participantAssignment(r, x) /\ \E c \in rows : ChunkIntact(c)
                        THEN [reader EXCEPT ![r].got = Append(@, CHOOSE c \in rows : TRUE)]
                        ELSE [reader EXCEPT ![r] = NoExport]
    BY <1>4 DEF readChunk
  <2>2. PICK n, rows : n = Len(reader[r].got) + 1 /\ rows = {c \in exportChunks : c[1] = x /\ c[2] = n}
    OBVIOUS
  <2>3. Len(reader[r].got) < Chunks /\ reader[r].got \in Seq(ChunkRows)
    BY <1>1, <1>4 DEF readChunk, Requests
  <2>4. CASE reader' = [reader EXCEPT ![r] = NoExport]
    BY <1>4, <2>4, GaveUp, RequestWritten DEF readChunk
  <2>5. CASE reader' # [reader EXCEPT ![r] = NoExport]
    <3>1. /\ reader' = [reader EXCEPT ![r].got = Append(reader[r].got, CHOOSE c \in rows : TRUE)]
          /\ \E c \in rows : ChunkIntact(c)
      BY <2>1, <2>2, <2>5
    <3>2. PICK c \in rows : ChunkIntact(c)
      BY <3>1
    <3>3. \A d \in rows : d = c
      BY <1>1, <2>2 DEF ExportsStand
    <3>4. (CHOOSE d \in rows : TRUE) = c
      BY <3>3
    <3>5. c \in ChunkRows /\ c = <<x, n, "intact">>
      BY <1>1, <2>2, <3>2 DEF ReportsTyped, ChunkRows, ChunkIntact
    <3>6. PICK row : row = [reader[r] EXCEPT !.got = Append(reader[r].got, c)]
      OBVIOUS
    <3>7. reader' = [reader EXCEPT ![r] = row]
      BY <3>1, <3>4, <3>6
    <3>8. /\ row \in Requests /\ row.pc = "streaming" /\ row.export = reader[r].export
          /\ row.writes = {} /\ row.got = Append(reader[r].got, c)
      <4>1. Append(reader[r].got, c) \in Seq(ChunkRows)
        BY <2>3, <3>5
      <4> QED
        BY <1>1, <1>2, <3>6, <4>1 DEF Requests
    <3>9. row.export = {x} /\ Fetched(reader[r], x)
      BY <1>1, <1>2, <3>8 DEF RequestStands
    <3>10. Fetched(row, x)
      <4>1. Len(row.got) = Len(reader[r].got) + 1 /\ Len(reader[r].got) \in Nat
        BY <2>3, <3>5, <3>8
      <4>2. \A k \in 1..Len(row.got) : row.got[k] = IF k <= Len(reader[r].got) THEN reader[r].got[k] ELSE c
        BY <2>3, <3>5, <3>8, <4>1
      <4>3. Len(row.got) <= Chunks
        BY <2>3, <4>1, ReportsAssumption
      <4>4. ASSUME NEW k \in 1..Len(row.got)
            PROVE  row.got[k] = <<x, k, "intact">>
        <5>1. CASE k <= Len(reader[r].got)
          <6>1. k \in 1..Len(reader[r].got)
            BY <4>1, <5>1
          <6>2. reader[r].got[k] = <<x, k, "intact">>
            BY <3>9, <6>1 DEF Fetched
          <6> QED
            BY <4>2, <5>1, <6>2
        <5>2. CASE ~(k <= Len(reader[r].got))
          <6>1. k = n
            BY <2>2, <4>1, <5>2
          <6> QED
            BY <3>5, <4>2, <5>2, <6>1
        <5> QED
          BY <5>1, <5>2
      <4> QED
        BY <4>3, <4>4 DEF Fetched
    <3>11. RequestStands(row)
      BY <1>1, <3>8, <3>9, <3>10 DEF RequestStands, Requests
    <3> QED
      BY <1>4, <3>7, <3>8, <3>11, RequestWritten DEF readChunk
  <2> QED
    BY <2>4, <2>5
<1> QED
  BY <1>3, <1>4

\* Decay, expiry, the purge and the public lookup.
LEMMA OthersAct ==
  ASSUME ReportsInv,
         \/ rot \/ expireHistory
         \/ purgeRows \/ deleteAssignment \/ commitPurge
         \/ lookupManifest \/ lookupAnswer \/ nextLookup
  PROVE  ReportsInv'
<1>1. ReportsTyped /\ ExportsStand /\ PurgeStands
  BY DEF ReportsInv
<1>2. reader' = reader
  BY DEF rot, expireHistory, purgeRows, deleteAssignment, commitPurge, lookupManifest, lookupAnswer, nextLookup
<1>3. CASE rot
  <2>1. PICK c \in exportChunks : exportChunks' = (exportChunks \ {c}) \cup {<<c[1], c[2], "rotten">>}
    BY <1>3 DEF rot
  <2>2. UNCHANGED <<record, tombstone, exports, accesses, purge, lookup>>
    BY <1>3 DEF rot
  <2>3. <<c[1], c[2], "rotten">> \in ChunkRows
    BY <1>1 DEF ReportsTyped, ChunkRows
  <2>4. ReportsTyped'
    BY <1>1, <1>2, <2>1, <2>2, <2>3 DEF ReportsTyped
  <2>5. /\ \A d \in exportChunks' : d[1] \in exports
        /\ \A d, b \in exportChunks' : d[1] = b[1] /\ d[2] = b[2] => d = b
    BY <1>1, <2>1 DEF ExportsStand
  <2>6. ExportsStand'
    BY <1>1, <1>2, <2>2, <2>5 DEF ExportsStand, RequestStands, Fetched
  <2>7. PurgeStands'
    BY <1>1, <1>2, <2>2 DEF PurgeStands, FingerprintRemembered, NothingOutlivesPurge
  <2> QED
    BY <2>4, <2>6, <2>7 DEF ReportsInv
<1>4. CASE commitPurge
  <2>1. /\ record' = "purged" /\ tombstone' = TRUE /\ exports' = {} /\ exportChunks' = {} /\ accesses' = {}
        /\ purge.pc = "deleted" /\ purge' = NoPurge /\ lookup' = lookup
    BY <1>4 DEF commitPurge
  <2>2. ReportsTyped'
    BY <1>1, <1>2, <2>1 DEF ReportsTyped
  <2>3. ExportsStand'
    BY <1>1, <1>2, <2>1 DEF ExportsStand, RequestStands, Fetched
  <2>4. PurgeStands'
    BY <1>1, <1>2, <2>1 DEF PurgeStands, FingerprintRemembered, NothingOutlivesPurge
  <2> QED
    BY <2>2, <2>3, <2>4 DEF ReportsInv
<1>5. CASE \/ expireHistory \/ purgeRows \/ deleteAssignment \/ lookupManifest \/ lookupAnswer \/ nextLookup
  <2>1. UNCHANGED <<record, tombstone, exports, exportChunks, accesses>>
    BY <1>5 DEF expireHistory, purgeRows, deleteAssignment, lookupManifest, lookupAnswer, nextLookup
  <2>2. ReportsTyped' /\ ExportsStand'
    BY <1>1, <1>2, <2>1 DEF ReportsTyped, ExportsStand, RequestStands, Fetched
  <2>3. CASE purgeRows \/ deleteAssignment
    <3>1. lookup' = lookup
      BY <2>3 DEF purgeRows, deleteAssignment
    <3>2. purge'.pc = "deleted" => \A r \in Readers : reader[r].writes = {}
      <4>1. CASE purgeRows
        BY <4>1 DEF purgeRows
      <4>2. CASE deleteAssignment
        BY <4>2 DEF deleteAssignment, Referring
      <4> QED
        BY <2>3, <4>1, <4>2
    <3> QED
      BY <1>1, <1>2, <2>1, <2>2, <3>1, <3>2 DEF ReportsInv, PurgeStands, FingerprintRemembered, NothingOutlivesPurge
  <2>4. CASE expireHistory \/ lookupManifest \/ lookupAnswer \/ nextLookup
    <3>1. purge' = purge
      BY <2>4 DEF expireHistory, lookupManifest, lookupAnswer, nextLookup
    <3>2. lookup' # "unknown" /\ (lookup' = "unsealed" => record = "purged")
      <4>1. CASE expireHistory
        BY <1>1, <4>1 DEF expireHistory, PurgeStands, FingerprintRemembered
      <4>2. CASE lookupManifest
        BY <1>1, <4>2 DEF lookupManifest, ReportsTyped
      <4>3. CASE lookupAnswer
        BY <1>1, <4>3 DEF lookupAnswer, PurgeStands
      <4>4. CASE nextLookup
        BY <4>4 DEF nextLookup
      <4> QED
        BY <2>4, <4>1, <4>2, <4>3, <4>4
    <3> QED
      BY <1>1, <1>2, <2>1, <2>2, <3>1, <3>2 DEF ReportsInv, PurgeStands, FingerprintRemembered, NothingOutlivesPurge
  <2> QED
    BY <1>5, <2>3, <2>4
<1> QED
  BY <1>3, <1>4, <1>5

\* Disclosure and purge do not harm each other, for any number of requests and exports: an
\* export is made once and delivered whole, nothing of it outlives the purge, and a sealed
\* fingerprint is never unknown.
THEOREM DisclosureIsSound == ReportsSpec => []DisclosureSound
<1>1. ReportsInit => ReportsInv
  <2> SUFFICES ASSUME ReportsInit
               PROVE  ReportsInv
    OBVIOUS
  <2>1. ReportsTyped
    BY GaveUp DEF ReportsInit, ReportsTyped
  <2>2. ExportsStand
    BY GaveUp DEF ReportsInit, ExportsStand
  <2>3. PurgeStands
    BY GaveUp DEF ReportsInit, PurgeStands, NoPurge, FingerprintRemembered, NothingOutlivesPurge
  <2> QED
    BY <2>1, <2>2, <2>3 DEF ReportsInv
<1>2. ReportsInv /\ [ReportsNext]_disclosureVars => ReportsInv'
  <2> SUFFICES ASSUME ReportsInv, [ReportsNext]_disclosureVars
               PROVE  ReportsInv'
    OBVIOUS
  <2>1. CASE UNCHANGED disclosureVars
    BY <2>1 DEF disclosureVars, ReportsInv, ReportsTyped, ExportsStand, PurgeStands, RequestStands, Fetched,
                FingerprintRemembered, NothingOutlivesPurge
  <2> QED
    BY <2>1, Opens, ExportRecords, ReadsOn, OthersAct DEF ReportsNext
<1>3. ReportsInv => DisclosureSound
  <2> SUFFICES ASSUME ReportsInv
               PROVE  DisclosureSound
    OBVIOUS
  <2>1. ExportsDoNotCollide
    BY DEF ReportsInv, ReportsTyped, Requests, ExportsDoNotCollide
  <2>2. ASSUME NEW r \in Readers, reader[r].pc = "delivered"
        PROVE  reader[r].got = [n \in 1..Chunks |-> <<CHOOSE x \in reader[r].export : TRUE, n, "intact">>]
    <3>1. reader[r] \in Requests /\ RequestStands(reader[r])
      BY DEF ReportsInv, ReportsTyped, ExportsStand
    <3>2. PICK x \in Exports : reader[r].export = {x}
      BY <2>2, <3>1 DEF RequestStands
    <3>3. (CHOOSE y \in reader[r].export : TRUE) = x
      BY <3>2
    <3>4. reader[r].got \in Seq(ChunkRows) /\ Len(reader[r].got) = Chunks /\ Fetched(reader[r], x)
      BY <2>2, <3>1, <3>2 DEF RequestStands, Requests
    <3>5. reader[r].got = [n \in 1..Chunks |-> reader[r].got[n]]
      BY <3>4
    <3> QED
      BY <3>3, <3>4, <3>5 DEF Fetched
  <2>3. FingerprintRemembered /\ NothingOutlivesPurge
    BY DEF ReportsInv, PurgeStands
  <2> QED
    BY <2>1, <2>2, <2>3 DEF DisclosureSound, DeliveredWhole
<1> QED
  BY <1>1, <1>2, <1>3, PTL DEF ReportsSpec

-----------------------------------------------------------------------------
(* Artifacts.                                                              *)

\* A set of naturals that is not empty has a least one.
LEMMA LeastNatural ==
  ASSUME NEW T, T \subseteq Nat, T # {}
  PROVE  \E x \in T : \A y \in T : x <= y
<1>1. PICK R : IsWellFoundedOn(R, Nat) /\ \A x, y \in Nat : <<y, x>> \in R <=> y < x
  <2>1. \A x, y \in Nat : <<y, x>> \in OpToRel(<, Nat) <=> y < x
    BY DEF OpToRel
  <2> QED
    BY <2>1, NatLessThanWellFounded, Zenon
<1>2. PICK x \in T : \A y \in T : ~(<<y, x>> \in R)
  BY <1>1, WFMin
<1>3. \A y \in T : ~(y < x)
  BY <1>1, <1>2
<1> QED
  BY <1>3

\* The Max of a bounded set of naturals is one of them and above the rest.
LEMMA MaxIsMax ==
  ASSUME NEW T, T \subseteq Nat, T # {}, NEW top \in Nat, \A x \in T : x <= top
  PROVE  Max(T) \in T /\ \A x \in T : x <= Max(T)
<1>1. PICK U : U = {m \in Nat : \A x \in T : x <= m}
  OBVIOUS
<1>2. PICK m \in U : \A n \in U : m <= n
  BY <1>1, LeastNatural
<1>3. m \in T
  <2> SUFFICES ASSUME m \notin T PROVE FALSE
    OBVIOUS
  <2>1. \A x \in T : x < m
    BY <1>1
  <2>2. m \in Nat /\ m > 0
    <3>1. PICK x : x \in T
      OBVIOUS
    <3>2. m \in Nat /\ x \in Nat /\ x < m
      BY <1>1, <2>1, <3>1
    <3> QED
      BY <3>2
  <2>3. m - 1 \in Nat /\ \A x \in T : x <= m - 1
    BY <2>1, <2>2
  <2> QED
    BY <1>1, <1>2, <2>2, <2>3
<1>4. \A x \in T : m >= x
  BY <1>1
<1> QED
  BY <1>3, <1>4 DEF Max

\* The Min of a set of naturals is one of them.
LEMMA MinIsMin ==
  ASSUME NEW T, T \subseteq Nat, T # {}
  PROVE  Min(T) \in T
<1>1. \E x \in T : \A y \in T : x =< y
  BY LeastNatural
<1> QED
  BY <1>1 DEF Min

ArtifactRows == [status : {"none", "quarantined", "published", "rejected"}, family : SUBSET Artifacts,
                 revision : Nat, expected : Nat, sha256 : Seq(Bytes), external : BOOLEAN]
UploadRows == [pc : {"idle", "creating", "sending", "finalizing", "aborting", "ended"}, doc : Seq(Bytes),
               family : SUBSET Artifacts, revision : Nat]
FinalizationRows == [pc : {"none", "scanning"}, scan : Nat]
Verdicts == {"none", "clean", "malicious", "suspicious", "failed"}
ScanRows == [pc : {"idle", "sent", "streaming", "answered", "committed"}, artifact : SUBSET Artifacts,
             sha256 : Seq(Bytes), sent : Seq(Bytes), verdict : Verdicts]
StreamRows == [pc : {"idle", "open", "closed", "error"}, artifact : SUBSET Artifacts, participant : BOOLEAN,
               got : Seq(Bytes), chunkCount : Nat]

ArtifactsTyped ==
  /\ artifact \in [Artifacts -> ArtifactRows]
  /\ chunks \in [Artifacts -> Seq(Bytes)]
  /\ upload \in [Artifacts -> UploadRows]
  /\ finalization \in [Artifacts -> FinalizationRows]
  /\ scans \in [ScanIds -> ScanRows]
  /\ stream \in StreamRows

\* What was inspected is complete and carries no marker.
Inspected(a) == Len(chunks[a]) = artifact[a].expected /\ Marker \notin Range(chunks[a])
Scanned(a) == \E t \in attempts : t.artifact = {a} /\ t.sha256 = chunks[a] /\ t.verdict = "clean"

\* A published artifact is what was inspected and scanned; a finalization that waits for
\* the scanner holds the artifact as it was when the command was sent.
ArtifactStands(a) ==
  /\ Published(a) => /\ artifact[a].sha256 = chunks[a] /\ Inspected(a)
                     /\ artifact[a].external => Scanned(a)
  /\ upload[a].pc \in {"idle", "creating"} => ~Exists(a)
  /\ finalization[a].pc = "scanning" =>
       /\ artifact[a].status = "quarantined" /\ Inspected(a)
       /\ finalization[a].scan \in ScanIds
       /\ scans[finalization[a].scan].pc # "idle"
       /\ scans[finalization[a].scan].artifact = {a}
       /\ scans[finalization[a].scan].sha256 = chunks[a]

\* A command is about one artifact, and what the gateway answered is recorded.
ScanStands(i) ==
  /\ scans[i].pc # "idle" => \E a \in Artifacts : scans[i].artifact = {a}
  /\ scans[i].pc = "committed" =>
       \E t \in attempts : /\ t.artifact = scans[i].artifact /\ t.sha256 = scans[i].sha256
                           /\ t.verdict = scans[i].verdict

\* Bindings and streams are of published artifacts.
BindingsStand == \A b \in bound : b.artifact \in Artifacts /\ Published(b.artifact) /\ b.sha256 = chunks[b.artifact]
StreamStands ==
  /\ stream.pc # "idle" => \E a \in Artifacts : stream.artifact = {a}
  /\ \A a \in stream.artifact :
       /\ Published(a) /\ stream.chunkCount = Len(chunks[a]) /\ Len(stream.got) <= stream.chunkCount
       /\ \A n \in 1..Len(stream.got) : stream.got[n] = chunks[a][n]
  /\ stream.pc = "closed" => Len(stream.got) = stream.chunkCount

\* The declared chunks are within the quota, with those of the upload that holds the
\* profile lock.
QuotaStands ==
  /\ IsFiniteSet(DeclaredChunks) /\ UsedBytes <= ByteQuota
  /\ \A a \in Artifacts : upload[a].pc = "creating" => UsedBytes + Len(upload[a].doc) <= ByteQuota

\* The revision of an upload that holds the profile lock is above all of its family,
\* and its document fits in.
RevisionsStand ==
  /\ ~clash
  /\ \E top \in Nat : \A a \in Artifacts : artifact[a].revision <= top
  /\ \A a \in Artifacts : upload[a].pc = "creating" =>
       /\ profileLock = {a}
       /\ \A b \in Artifacts : artifact[b].family = upload[a].family => artifact[b].revision < upload[a].revision
  /\ QuotaStands

ArtifactInv ==
  /\ ArtifactsTyped
  /\ \A a \in Artifacts : ArtifactStands(a)
  /\ \A i \in ScanIds : ScanStands(i)
  /\ BindingsStand /\ StreamStands /\ RevisionsStand

\* What is said of bindings and streams stays while what is published stays.
LEMMA ReadersKept ==
  ASSUME ArtifactInv, \A a \in Artifacts : Published(a) => Published(a)' /\ chunks'[a] = chunks[a],
         UNCHANGED <<bound, stream>>
  PROVE  BindingsStand' /\ StreamStands'
<1>1. BindingsStand'
  BY DEF ArtifactInv, BindingsStand
<1>2. \A a \in stream.artifact : a \in Artifacts
  BY DEF ArtifactInv, ArtifactsTyped, StreamRows
<1>3. StreamStands'
  BY <1>2 DEF ArtifactInv, StreamStands
<1> QED
  BY <1>1, <1>3

\* No artifact declares more: the quota stands.
LEMMA QuotaKept ==
  ASSUME QuotaStands,
         \A a \in Artifacts : /\ artifact'[a].expected = artifact[a].expected
                              /\ upload'[a].pc = "creating" => upload'[a] = upload[a]
  PROVE  QuotaStands'
<1>1. DeclaredChunks' = DeclaredChunks
  BY DEF DeclaredChunks
<1>2. UsedBytes' = UsedBytes
  BY <1>1 DEF UsedBytes
<1> QED
  BY <1>1, <1>2 DEF QuotaStands

\* The chunks one more document adds.
LEMMA DocumentCounts ==
  ASSUME NEW a, NEW n \in Nat, NEW S, IsFiniteSet(S)
  PROVE  /\ IsFiniteSet({a} \X (1..n)) /\ Cardinality({a} \X (1..n)) = n
         /\ IsFiniteSet(S \cup ({a} \X (1..n))) /\ Cardinality(S \cup ({a} \X (1..n))) <= Cardinality(S) + n
<1>1. IsFiniteSet({a}) /\ Cardinality({a}) = 1
  BY FS_Singleton
<1>2. IsFiniteSet(1..n) /\ Cardinality(1..n) = n
  BY FS_Interval
<1>3. PICK T : T = {a} \X (1..n)
  OBVIOUS
<1>4. IsFiniteSet(T) /\ Cardinality(T) = n
  <2>1. IsFiniteSet(T) /\ Cardinality(T) = Cardinality({a}) * Cardinality(1..n)
    BY <1>1, <1>2, <1>3, FS_Product
  <2>2. Cardinality(T) = 1 * n
    BY <1>1, <1>2, <2>1
  <2> QED
    BY <2>1, <2>2
<1>5. /\ IsFiniteSet(S \cup T) /\ IsFiniteSet(S \cap T)
      /\ Cardinality(S \cup T) = Cardinality(S) + Cardinality(T) - Cardinality(S \cap T)
  BY <1>4, FS_Union, FS_Intersection
<1>6. Cardinality(S) \in Nat /\ Cardinality(S \cap T) \in Nat /\ Cardinality(S \cup T) \in Nat
  BY <1>5, FS_CardinalityType
<1>7. Cardinality(S \cup T) <= Cardinality(S) + n
  BY <1>4, <1>5, <1>6
<1> QED
  BY <1>3, <1>4, <1>5, <1>7

\* What is said of revisions stays while no upload begins and no artifact is inserted.
LEMMA RevisionsKept ==
  ASSUME ArtifactInv, UNCHANGED <<clash, profileLock>>,
         \A a \in Artifacts : /\ artifact'[a].family = artifact[a].family /\ artifact'[a].revision = artifact[a].revision
                              /\ artifact'[a].expected = artifact[a].expected
                              /\ upload'[a].pc = "creating" => upload'[a] = upload[a]
  PROVE  RevisionsStand'
<1>1. QuotaStands'
  BY QuotaKept DEF ArtifactInv, RevisionsStand
<1> QED
  BY <1>1 DEF ArtifactInv, RevisionsStand

\* A step on artifact a alone.
LEMMA OneArtifact ==
  ASSUME ArtifactInv, NEW a \in Artifacts, ArtifactsTyped', RevisionsStand', ArtifactStands(a)',
         \A b \in Artifacts \ {a} : /\ artifact'[b] = artifact[b] /\ chunks'[b] = chunks[b]
                                    /\ finalization'[b] = finalization[b] /\ upload'[b].pc = upload[b].pc,
         Published(a) => Published(a)' /\ chunks'[a] = chunks[a],
         \A i \in ScanIds : scans[i].pc # "idle" => scans'[i] = scans[i],
         \A i \in ScanIds : scans'[i] # scans[i] => scans'[i].artifact = {a} /\ scans'[i].pc = "sent",
         UNCHANGED <<attempts, bound, stream>>
  PROVE  ArtifactInv'
<1>1. ASSUME NEW b \in Artifacts \ {a}
      PROVE  ArtifactStands(b)'
  <2>1. ArtifactStands(b) /\ finalization[b] \in FinalizationRows
    BY DEF ArtifactInv, ArtifactsTyped
  <2>2. (Inspected(b)' <=> Inspected(b)) /\ (Scanned(b)' <=> Scanned(b))
    BY DEF Inspected, Scanned
  <2> QED
    BY <2>1, <2>2 DEF ArtifactStands, Published, Exists
<1>2. ASSUME NEW i \in ScanIds
      PROVE  ScanStands(i)'
  <2>1. ScanStands(i)
    BY DEF ArtifactInv
  <2> QED
    BY <2>1 DEF ScanStands
<1>3. \A b \in Artifacts : Published(b) => Published(b)' /\ chunks'[b] = chunks[b]
  BY DEF Published
<1>4. BindingsStand' /\ StreamStands'
  BY <1>3, ReadersKept
<1> QED
  BY <1>1, <1>2, <1>4 DEF ArtifactInv

\* The rows before anything is written.
LEMMA EmptyRows ==
  /\ NoArtifact \in ArtifactRows /\ NoArtifact.status = "none" /\ NoArtifact.revision = 0
  /\ NoFinalization \in FinalizationRows /\ NoFinalization.pc = "none"
  /\ NoScan \in ScanRows /\ NoScan.pc = "idle"
  /\ NoStream \in StreamRows /\ NoStream.pc = "idle" /\ NoStream.artifact = {}
BY DEF NoArtifact, ArtifactRows, NoFinalization, FinalizationRows, NoScan, ScanRows, Verdicts, NoStream, StreamRows

\* The route of a moves on and stays past the insert; the other routes stand.
RouteMoves(a) ==
  /\ upload' \in [Artifacts -> UploadRows]
  /\ upload'[a].pc \notin {"idle", "creating"}
  /\ \A b \in Artifacts \ {a} : upload'[b] = upload[b]

\* A write of the route's program counter past the insert is such a move.
LEMMA RouteWrites ==
  ASSUME ArtifactsTyped, NEW a \in Artifacts, upload[a].pc \notin {"idle", "creating"},
         \/ upload' = upload
         \/ \E p \in {"sending", "finalizing", "aborting", "ended"} : upload' = [upload EXCEPT ![a].pc = p]
  PROVE  RouteMoves(a)
<1>1. CASE upload' = upload
  BY <1>1 DEF ArtifactsTyped, RouteMoves
<1>2. ASSUME NEW p \in {"sending", "finalizing", "aborting", "ended"}, upload' = [upload EXCEPT ![a].pc = p]
      PROVE  RouteMoves(a)
  <2>1. PICK row : row = [upload[a] EXCEPT !.pc = p]
    OBVIOUS
  <2>2. upload[a] \in UploadRows
    BY DEF ArtifactsTyped
  <2>3. row.pc = p /\ row \in UploadRows
    BY <2>1, <2>2 DEF UploadRows
  <2>4. upload' = [upload EXCEPT ![a] = row]
    BY <1>2, <2>1
  <2> QED
    BY <2>3, <2>4 DEF ArtifactsTyped, RouteMoves
<1> QED
  BY <1>1, <1>2

\* One document is published, the rest is empty.
LEMMA InitArtifacts ==
  ASSUME ArtifactInit
  PROVE  ArtifactInv
<1>1. PICK doc \in {d \in Docs : Marker \notin Range(d) /\ Len(d) <= ByteQuota} :
        /\ artifact = [a \in Artifacts |-> IF a # Original THEN NoArtifact ELSE
              [status |-> "published", family |-> {a}, revision |-> 1,
               expected |-> Len(doc), sha256 |-> doc, external |-> FALSE]]
        /\ chunks = [a \in Artifacts |-> IF a = Original THEN doc ELSE <<>>]
  BY DEF ArtifactInit
<1>2. doc \in Seq(Bytes) /\ Len(doc) \in Nat /\ Marker \notin Range(doc) /\ Len(doc) <= ByteQuota
  BY ArtifactAssumption
<1>3. /\ NoArtifact \in ArtifactRows /\ NoArtifact.status = "none" /\ NoArtifact.revision = 0
      /\ NoFinalization \in FinalizationRows /\ NoFinalization.pc = "none"
      /\ NoScan \in ScanRows /\ NoScan.pc = "idle"
      /\ NoStream \in StreamRows /\ NoStream.pc = "idle" /\ NoStream.artifact = {}
  BY EmptyRows
<1>4. ArtifactsTyped
  <2>1. artifact \in [Artifacts -> ArtifactRows]
    BY <1>1, <1>2, <1>3 DEF ArtifactRows
  <2>2. chunks \in [Artifacts -> Seq(Bytes)]
    BY <1>1, <1>2
  <2>3. NoUpload \in UploadRows
    BY DEF NoUpload, UploadRows
  <2>4. upload \in [Artifacts -> UploadRows]
    BY <2>3 DEF ArtifactInit, UploadRows
  <2> QED
    BY <1>3, <2>1, <2>2, <2>4 DEF ArtifactInit, ArtifactsTyped
<1>5. \A a \in Artifacts : upload[a].pc = IF a = Original THEN "ended" ELSE "idle"
  BY DEF ArtifactInit, NoUpload
<1>6. ASSUME NEW a \in Artifacts
      PROVE  ArtifactStands(a)
  <2>1. finalization[a].pc = "none"
    BY <1>3 DEF ArtifactInit
  <2>2. CASE a = Original
    <3>1. /\ artifact[a].status = "published" /\ artifact[a].sha256 = doc /\ artifact[a].expected = Len(doc)
          /\ artifact[a].external = FALSE /\ chunks[a] = doc
      BY <1>1, <2>2
    <3> QED
      BY <1>2, <1>5, <2>1, <2>2, <3>1 DEF ArtifactStands, Inspected
  <2>3. CASE a # Original
    BY <1>1, <1>3, <2>1, <2>3 DEF ArtifactStands, Published, Exists
  <2> QED
    BY <2>2, <2>3
<1>7. \A i \in ScanIds : ScanStands(i)
  BY <1>3 DEF ArtifactInit, ScanStands
<1>8. BindingsStand /\ StreamStands
  BY <1>3 DEF ArtifactInit, BindingsStand, StreamStands
<1>9. RevisionsStand
  <2>1. \A a \in Artifacts : artifact[a].revision <= 1
    <3>1. ASSUME NEW a \in Artifacts
          PROVE  artifact[a].revision \in {0, 1}
      BY <1>1, <1>3
    <3> QED
      BY <3>1
  <2>2. ~clash /\ \A a \in Artifacts : upload[a].pc # "creating"
    BY <1>5 DEF ArtifactInit
  <2>3. \E top \in Nat : \A a \in Artifacts : artifact[a].revision <= top
    BY <2>1
  <2>4. QuotaStands
    <3>1. PICK n \in Nat : n = Len(doc)
      BY <1>2
    <3>2. DeclaredChunks = {Original} \X (1..n)
      <4>1. \A a \in Artifacts : artifact[a].expected = IF a = Original THEN n ELSE 0
        BY <1>1, <3>1 DEF NoArtifact
      <4>2. Original \in Artifacts /\ 1..0 = {}
        BY ArtifactAssumption
      <4> QED
        BY <4>1, <4>2 DEF DeclaredChunks
    <3>3. IsFiniteSet({Original} \X (1..n)) /\ Cardinality({Original} \X (1..n)) = n
      BY DocumentCounts, FS_EmptySet
    <3> QED
      BY <1>2, <2>2, <3>1, <3>2, <3>3 DEF QuotaStands, UsedBytes
  <2> QED
    BY <2>2, <2>3, <2>4 DEF RevisionsStand
<1> QED
  BY <1>4, <1>6, <1>7, <1>8, <1>9 DEF ArtifactInv

\* An upload takes the profile lock and the next revision.
LEMMA Reserves ==
  ASSUME ArtifactInv, NEW a \in Artifacts, NEW doc \in Docs, NEW replaces,
         replaces = {} \/ \E b \in Artifacts : replaces = {b}, assertArtifactCapacity(a, doc, replaces)
  PROVE  ArtifactInv'
<1>1. ArtifactsTyped /\ RevisionsStand /\ ArtifactStands(a)
  BY DEF ArtifactInv
<1>2. PICK f : f = IF replaces = {} THEN {a} ELSE UNION {artifact[r].family : r \in replaces}
  OBVIOUS
<1>3. /\ upload' = [upload EXCEPT ![a] = [pc |-> "creating", doc |-> doc, family |-> f, revision |-> NextRevision(f)]]
      /\ profileLock = {} /\ profileLock' = {a} /\ upload[a].pc = "idle"
      /\ UNCHANGED <<artifact, chunks, bound, scanner, attempts, finalization, scans, stream, clash>>
  BY <1>2 DEF assertArtifactCapacity
<1>4. f \subseteq Artifacts
  <2>1. CASE replaces = {}
    BY <1>2, <2>1
  <2>2. ASSUME NEW b \in Artifacts, replaces = {b}
        PROVE  f \subseteq Artifacts
    <3>1. f = artifact[b].family
      BY <1>2, <2>2
    <3> QED
      BY <1>1, <3>1 DEF ArtifactsTyped, ArtifactRows
  <2> QED
    BY <2>1, <2>2
<1>5. PICK T : T = {0} \cup {artifact[b].revision : b \in {c \in Artifacts : artifact[c].family = f}}
  OBVIOUS
<1>6. PICK top \in Nat : \A b \in Artifacts : artifact[b].revision <= top
  BY <1>1 DEF RevisionsStand
<1>7. T \subseteq Nat /\ T # {} /\ \A x \in T : x <= top
  BY <1>1, <1>5, <1>6 DEF ArtifactsTyped, ArtifactRows
<1>8. Max(T) \in Nat /\ \A x \in T : x <= Max(T)
  BY <1>7, MaxIsMax
<1>9. NextRevision(f) = Max(T) + 1
  BY <1>5 DEF NextRevision
<1>10. \A b \in Artifacts : artifact[b].family = f => artifact[b].revision < NextRevision(f)
  <2> SUFFICES ASSUME NEW b \in Artifacts, artifact[b].family = f
               PROVE  artifact[b].revision < NextRevision(f)
    OBVIOUS
  <2>1. artifact[b].revision \in T
    BY <1>5
  <2>2. artifact[b].revision \in Nat /\ Max(T) \in Nat /\ artifact[b].revision <= Max(T)
    BY <1>7, <1>8, <2>1
  <2>3. PICK m \in Nat : m = Max(T)
    BY <2>2
  <2> QED
    BY <1>9, <2>2, <2>3
<1>11. ArtifactsTyped'
  <2>1. [pc |-> "creating", doc |-> doc, family |-> f, revision |-> NextRevision(f)] \in UploadRows
    BY <1>4, <1>8, <1>9, ArtifactAssumption DEF UploadRows
  <2> QED
    BY <1>1, <1>3, <2>1 DEF ArtifactsTyped
<1>12. /\ upload'[a].pc = "creating" /\ upload'[a].family = f /\ upload'[a].revision = NextRevision(f)
       /\ \A b \in Artifacts \ {a} : upload'[b] = upload[b]
  BY <1>1, <1>3 DEF ArtifactsTyped
<1>13. \A b \in Artifacts : upload[b].pc # "creating"
  BY <1>1, <1>3 DEF RevisionsStand
<1>14. RevisionsStand'
  <2>1. UsedBytes + Len(doc) <= ByteQuota
    BY DEF assertArtifactCapacity
  <2>2. DeclaredChunks' = DeclaredChunks /\ UsedBytes' = UsedBytes
    BY <1>3 DEF DeclaredChunks, UsedBytes
  <2>3. upload'[a].doc = doc /\ \A b \in Artifacts : upload'[b].pc = "creating" => b = a
    BY <1>1, <1>3, <1>12, <1>13 DEF ArtifactsTyped
  <2>4. QuotaStands'
    BY <1>1, <2>1, <2>2, <2>3 DEF QuotaStands, RevisionsStand
  <2> QED
    BY <1>1, <1>3, <1>10, <1>12, <1>13, <2>4 DEF RevisionsStand
<1>15. ArtifactStands(a)'
  BY <1>1, <1>3, <1>12 DEF ArtifactStands, Published, Exists, Inspected, Scanned
<1> QED
  BY <1>3, <1>11, <1>12, <1>14, <1>15, OneArtifact DEF Published

\* The insert: nothing has its revision.
LEMMA Creates ==
  ASSUME ArtifactInv, NEW a \in Artifacts, createArtifact(a)
  PROVE  ArtifactInv'
<1>1. ArtifactsTyped /\ RevisionsStand /\ ArtifactStands(a) /\ upload[a] \in UploadRows
  BY DEF ArtifactInv, ArtifactsTyped
<1>2. /\ upload[a].pc = "creating" /\ profileLock' = {}
      /\ UNCHANGED <<chunks, bound, scanner, attempts, finalization, scans, stream>>
  BY DEF createArtifact
<1>3. \A b \in Artifacts : artifact[b].family = upload[a].family => artifact[b].revision < upload[a].revision
  BY <1>1, <1>2 DEF RevisionsStand
<1>4. Unique(upload[a].family, upload[a].revision)
  BY <1>1, <1>3 DEF Unique, ArtifactsTyped, ArtifactRows, UploadRows
<1>5. PICK row : row = [NoArtifact EXCEPT !.status = "quarantined", !.family = upload[a].family,
                                          !.revision = upload[a].revision, !.expected = Len(upload[a].doc)]
  OBVIOUS
<1>6. /\ artifact' = [artifact EXCEPT ![a] = row] /\ upload' = [upload EXCEPT ![a].pc = "sending"] /\ clash' = clash
  BY <1>4, <1>5 DEF createArtifact
<1>7. /\ row \in ArtifactRows /\ row.status = "quarantined" /\ row.expected = Len(upload[a].doc)
      /\ row.family = upload[a].family /\ row.revision = upload[a].revision
  <2>1. NoArtifact \in ArtifactRows
    BY EmptyRows
  <2>2. upload[a].family \in SUBSET Artifacts /\ upload[a].revision \in Nat /\ Len(upload[a].doc) \in Nat
    BY <1>1 DEF UploadRows
  <2> QED
    BY <1>5, <2>1, <2>2 DEF ArtifactRows
<1>8. ArtifactsTyped'
  BY <1>1, <1>2, <1>6, <1>7 DEF ArtifactsTyped, UploadRows
<1>9. /\ artifact'[a] = row /\ upload'[a].pc = "sending"
      /\ \A b \in Artifacts \ {a} : artifact'[b] = artifact[b] /\ upload'[b] = upload[b]
  BY <1>1, <1>6 DEF ArtifactsTyped, UploadRows
<1>10. \A b \in Artifacts : upload'[b].pc # "creating"
  <2>1. \A b \in Artifacts \ {a} : upload[b].pc # "creating"
    BY <1>1, <1>2 DEF RevisionsStand
  <2> QED
    BY <1>9, <2>1
<1>11. RevisionsStand'
  <2>1. PICK top \in Nat : \A b \in Artifacts : artifact[b].revision <= top
    BY <1>1 DEF RevisionsStand
  <2>2. upload[a].revision \in Nat /\ top + upload[a].revision \in Nat
    BY <1>1 DEF UploadRows
  <2>3. \A b \in Artifacts : artifact[b].revision \in Nat
    BY <1>1 DEF ArtifactsTyped, ArtifactRows
  <2>4. \A b \in Artifacts : artifact'[b].revision <= top + upload[a].revision
    BY <1>7, <1>9, <2>1, <2>2, <2>3
  <2>5. QuotaStands'
    <3>1. PICK n \in Nat : n = Len(upload[a].doc)
      BY <1>1 DEF UploadRows
    <3>2. IsFiniteSet(DeclaredChunks) /\ Cardinality(DeclaredChunks) + n <= ByteQuota
      BY <1>1, <1>2, <3>1 DEF RevisionsStand, QuotaStands, UsedBytes
    <3>3. DeclaredChunks' \subseteq DeclaredChunks \cup ({a} \X (1..n))
      <4>1. \A b \in Artifacts : artifact'[b].expected = IF b = a THEN n ELSE artifact[b].expected
        BY <1>7, <1>9, <3>1
      <4> QED
        BY <4>1 DEF DeclaredChunks
    <3>4. PICK S : S = DeclaredChunks \cup ({a} \X (1..n))
      OBVIOUS
    <3>5. IsFiniteSet(S) /\ Cardinality(S) <= Cardinality(DeclaredChunks) + n
      BY <3>2, <3>4, DocumentCounts
    <3>6. IsFiniteSet(DeclaredChunks') /\ Cardinality(DeclaredChunks') <= Cardinality(S)
      BY <3>3, <3>4, <3>5, FS_Subset
    <3>7. Cardinality(DeclaredChunks') \in Nat /\ Cardinality(S) \in Nat /\ Cardinality(DeclaredChunks) \in Nat
      BY <3>2, <3>5, <3>6, FS_CardinalityType
    <3>8. ByteQuota \in Nat
      BY ArtifactAssumption
    <3>9. Cardinality(DeclaredChunks') <= ByteQuota
      BY <3>2, <3>5, <3>6, <3>7, <3>8
    <3> QED
      BY <1>10, <3>6, <3>9 DEF QuotaStands, UsedBytes
  <2> QED
    BY <1>1, <1>6, <1>10, <2>2, <2>4, <2>5 DEF RevisionsStand
<1>12. ~Published(a) /\ finalization[a].pc # "scanning"
  BY <1>1, <1>2 DEF ArtifactStands, Published, Exists
<1>13. ArtifactStands(a)'
  BY <1>2, <1>7, <1>9, <1>12 DEF ArtifactStands, Published
<1> QED
  BY <1>2, <1>8, <1>9, <1>11, <1>12, <1>13, OneArtifact

\* The route goes on, or gives up: it writes its own progress, and a chunk of an artifact
\* whose row nobody has locked.
LEMMA RouteGoes ==
  ASSUME ArtifactInv, NEW a \in Artifacts,
         appendChunk(a) \/ refuseChunk(a) \/ interruptUpload(a) \/ loseAbort(a)
  PROVE  ArtifactInv'
<1>1. ArtifactsTyped /\ ArtifactStands(a)
  BY DEF ArtifactInv
<1>2. /\ upload[a].pc \notin {"idle", "creating"}
      /\ UNCHANGED <<artifact, bound, attempts, profileLock, finalization, scans, stream, clash>>
  BY DEF appendChunk, refuseChunk, interruptUpload, loseAbort
<1>3. RouteMoves(a)
  <2>1. \/ upload' = upload
        \/ upload' = [upload EXCEPT ![a].pc = "aborting"]
        \/ upload' = [upload EXCEPT ![a].pc = "ended"]
    BY DEF appendChunk, refuseChunk, interruptUpload, loseAbort
  <2> QED
    BY <1>1, <1>2, <2>1, RouteWrites
<1>4. /\ chunks' \in [Artifacts -> Seq(Bytes)]
      /\ \A b \in Artifacts \ {a} : chunks'[b] = chunks[b]
      /\ chunks'[a] # chunks[a] => artifact[a].status = "quarantined" /\ finalization[a].pc = "none"
  <2>1. CASE appendChunk(a)
    <3>1. /\ chunks' = [chunks EXCEPT ![a] = Append(chunks[a], upload[a].doc[Len(chunks[a]) + 1])]
          /\ Len(chunks[a]) < Len(upload[a].doc) /\ artifact[a].status = "quarantined" /\ RowFree(a)
      BY <2>1 DEF appendChunk
    <3>2. chunks[a] \in Seq(Bytes) /\ upload[a].doc \in Seq(Bytes)
      BY <1>1 DEF ArtifactsTyped, UploadRows
    <3>3. upload[a].doc[Len(chunks[a]) + 1] \in Bytes
      BY <3>1, <3>2
    <3>4. Append(chunks[a], upload[a].doc[Len(chunks[a]) + 1]) \in Seq(Bytes)
      BY <3>2, <3>3
    <3> QED
      BY <1>1, <3>1, <3>4 DEF ArtifactsTyped, RowFree
  <2>2. CASE ~appendChunk(a)
    <3>1. chunks' = chunks
      BY <2>2 DEF refuseChunk, interruptUpload, loseAbort
    <3> QED
      BY <1>1, <3>1 DEF ArtifactsTyped
  <2> QED
    BY <2>1, <2>2
<1>5. ArtifactsTyped'
  BY <1>1, <1>2, <1>3, <1>4 DEF ArtifactsTyped, RouteMoves
<1>6. RevisionsStand'
  BY <1>2, <1>3, RevisionsKept DEF RouteMoves
<1>7. ArtifactStands(a)'
  <2>1. CASE chunks'[a] = chunks[a]
    BY <1>1, <1>2, <1>3, <2>1 DEF ArtifactStands, Published, Exists, Inspected, Scanned, RouteMoves
  <2>2. CASE chunks'[a] # chunks[a]
    BY <1>2, <1>3, <1>4, <2>2 DEF ArtifactStands, Published, RouteMoves
  <2> QED
    BY <2>1, <2>2
<1>8. Published(a) => Published(a)' /\ chunks'[a] = chunks[a]
  BY <1>2, <1>4 DEF Published
<1> QED
  BY <1>2, <1>3, <1>4, <1>5, <1>6, <1>7, <1>8, OneArtifact DEF RouteMoves

\* The end of a finalization or an abort: the artifact stays, is rejected as it is, or is
\* published as it is once inspected and scanned.
LEMMA Settles ==
  ASSUME ArtifactInv, NEW a \in Artifacts, NEW external \in BOOLEAN,
         \/ artifact' = artifact
         \/ artifact' = Rejected(a) /\ artifact[a].status = "quarantined"
         \/ /\ artifact' = PublishedRow(a, external) /\ artifact[a].status = "quarantined"
            /\ Inspected(a) /\ (external => Scanned(a)),
         \/ finalization' = finalization /\ finalization[a].pc = "none"
         \/ finalization' = [finalization EXCEPT ![a] = NoFinalization],
         RouteMoves(a),
         UNCHANGED <<chunks, bound, attempts, profileLock, scans, stream, clash>>
  PROVE  ArtifactInv'
<1>1. ArtifactsTyped /\ ArtifactStands(a) /\ artifact[a] \in ArtifactRows /\ chunks[a] \in Seq(Bytes)
  BY DEF ArtifactInv, ArtifactsTyped
<1>2. /\ finalization' \in [Artifacts -> FinalizationRows] /\ finalization'[a].pc = "none"
      /\ \A b \in Artifacts \ {a} : finalization'[b] = finalization[b]
  BY <1>1, EmptyRows DEF ArtifactsTyped
<1>3. /\ artifact' \in [Artifacts -> ArtifactRows]
      /\ artifact'[a].family = artifact[a].family /\ artifact'[a].revision = artifact[a].revision
      /\ artifact'[a].expected = artifact[a].expected
      /\ \A b \in Artifacts \ {a} : artifact'[b] = artifact[b]
      /\ artifact'[a] = artifact[a] \/ artifact[a].status = "quarantined"
      /\ artifact'[a].status = "published" =>
           artifact'[a].sha256 = chunks[a] /\ Inspected(a) /\ (artifact'[a].external => Scanned(a))
  <2>1. CASE artifact' = Rejected(a) /\ artifact[a].status = "quarantined"
    BY <1>1, <2>1 DEF ArtifactsTyped, Rejected, ArtifactRows
  <2>2. CASE artifact' = artifact
    BY <1>1, <2>2 DEF ArtifactsTyped, ArtifactStands, Published
  <2>3. CASE /\ artifact' = PublishedRow(a, external) /\ artifact[a].status = "quarantined"
             /\ Inspected(a) /\ (external => Scanned(a))
    <3>1. /\ artifact'[a].status = "published" /\ artifact'[a].external = external /\ artifact'[a].sha256 = chunks[a]
          /\ artifact'[a].family = artifact[a].family /\ artifact'[a].revision = artifact[a].revision
          /\ artifact'[a].expected = artifact[a].expected
          /\ \A b \in Artifacts \ {a} : artifact'[b] = artifact[b]
      BY <1>1, <2>3 DEF ArtifactsTyped, PublishedRow, ArtifactRows
    <3>2. artifact' \in [Artifacts -> ArtifactRows]
      BY <1>1, <2>3 DEF ArtifactsTyped, PublishedRow, ArtifactRows
    <3> QED
      BY <2>3, <3>1, <3>2
  <2> QED
    BY <2>1, <2>2, <2>3
<1>4. ArtifactsTyped'
  BY <1>1, <1>2, <1>3 DEF ArtifactsTyped, RouteMoves
<1>5. RevisionsStand'
  BY <1>3, RevisionsKept DEF RouteMoves
<1>6. ArtifactStands(a)'
  <2>1. (Inspected(a)' <=> Inspected(a)) /\ (Scanned(a)' <=> Scanned(a))
    BY <1>3 DEF Inspected, Scanned
  <2> QED
    BY <1>2, <1>3, <2>1 DEF ArtifactStands, Published, RouteMoves
<1>7. Published(a) => Published(a)' /\ chunks'[a] = chunks[a]
  BY <1>3 DEF Published
<1> QED
  BY <1>2, <1>3, <1>4, <1>5, <1>6, <1>7, OneArtifact DEF RouteMoves

\* An abort settles an artifact that nobody has locked.
LEMMA Aborts ==
  ASSUME ArtifactInv, NEW a \in Artifacts, abortArtifact(a)
  PROVE  ArtifactInv'
<1>1. /\ upload[a].pc = "aborting" /\ finalization[a].pc = "none" /\ finalization' = finalization
      /\ upload' = [upload EXCEPT ![a].pc = "ended"]
      /\ UNCHANGED <<chunks, bound, attempts, profileLock, scans, stream, clash>>
  BY DEF abortArtifact, RowFree
<1>2. artifact' = artifact \/ (artifact' = Rejected(a) /\ artifact[a].status = "quarantined")
  BY DEF abortArtifact
<1>3. RouteMoves(a)
  BY <1>1, RouteWrites DEF ArtifactInv
<1> QED
  BY <1>1, <1>2, <1>3, Settles

\* A finalization rejects, publishes without a scanner, or sends a scan and keeps the row.
LEMMA Finalizes ==
  ASSUME ArtifactInv, NEW a \in Artifacts, finalizeArtifact(a)
  PROVE  ArtifactInv'
<1>1. ArtifactsTyped /\ ArtifactStands(a) /\ chunks[a] \in Seq(Bytes) /\ upload[a] \in UploadRows
  BY DEF ArtifactInv, ArtifactsTyped
<1>2. /\ Exists(a) /\ finalization[a].pc = "none"
      /\ UNCHANGED <<chunks, bound, attempts, profileLock, stream, clash>>
  BY DEF finalizeArtifact, RowFree
<1>3. upload[a].pc \notin {"idle", "creating"}
  BY <1>1, <1>2 DEF ArtifactStands
<1>4. PICK asked : asked = IF upload[a].pc = "sending" /\ Len(chunks[a]) = Len(upload[a].doc)
                           THEN [upload EXCEPT ![a].pc = "finalizing"] ELSE upload
  OBVIOUS
<1>5. PICK ended : ended = IF asked[a].pc = "finalizing" THEN [asked EXCEPT ![a].pc = "ended"] ELSE asked
  OBVIOUS
<1>6. PICK fits : fits <=> (chunks[a] # <<>> /\ Len(chunks[a]) = artifact[a].expected)
  OBVIOUS
<1>7. /\ asked \in [Artifacts -> UploadRows] /\ asked[a].pc \notin {"idle", "creating"}
      /\ \A b \in Artifacts \ {a} : asked[b] = upload[b]
  BY <1>1, <1>3, <1>4 DEF ArtifactsTyped, UploadRows
<1>8. /\ ended \in [Artifacts -> UploadRows] /\ ended[a].pc \notin {"idle", "creating"}
      /\ \A b \in Artifacts \ {a} : ended[b] = upload[b]
  BY <1>5, <1>7 DEF UploadRows
<1>9. \/ /\ upload' = ended
         /\ UNCHANGED <<artifact, finalization, scans>>
      \/ /\ artifact[a].status = "quarantined"
         /\ artifact' = Rejected(a) /\ upload' = ended
         /\ UNCHANGED <<finalization, scans>>
      \/ /\ artifact[a].status = "quarantined" /\ fits /\ InspectionPassed(a)
         /\ artifact' = PublishedRow(a, FALSE) /\ upload' = ended
         /\ UNCHANGED <<finalization, scans>>
      \/ /\ artifact[a].status = "quarantined" /\ fits /\ InspectionPassed(a)
         /\ FreeScans # {}
         /\ SendScan(a, Min(FreeScans))
         /\ finalization' = [finalization EXCEPT ![a] = [pc |-> "scanning", scan |-> Min(FreeScans)]]
         /\ upload' = asked
         /\ artifact' = artifact
  BY <1>4, <1>5, <1>6 DEF finalizeArtifact
<1>10. ASSUME upload' = ended PROVE RouteMoves(a)
  BY <1>8, <1>10 DEF RouteMoves
<1>11. CASE upload' = ended /\ UNCHANGED <<artifact, finalization, scans>>
  BY <1>2, <1>10, <1>11, Settles
<1>12. CASE /\ artifact[a].status = "quarantined"
            /\ artifact' = Rejected(a) /\ upload' = ended
            /\ UNCHANGED <<finalization, scans>>
  BY <1>2, <1>10, <1>12, Settles
<1>13. CASE /\ artifact[a].status = "quarantined" /\ fits /\ InspectionPassed(a)
            /\ artifact' = PublishedRow(a, FALSE) /\ upload' = ended
            /\ UNCHANGED <<finalization, scans>>
  <2>1. Inspected(a)
    BY <1>6, <1>13 DEF Inspected, InspectionPassed
  <2> QED
    BY <1>2, <1>10, <1>13, <2>1, Settles
<1>14. CASE /\ artifact[a].status = "quarantined" /\ fits /\ InspectionPassed(a)
            /\ FreeScans # {}
            /\ SendScan(a, Min(FreeScans))
            /\ finalization' = [finalization EXCEPT ![a] = [pc |-> "scanning", scan |-> Min(FreeScans)]]
            /\ upload' = asked
            /\ artifact' = artifact
  <2>1. PICK i : i = Min(FreeScans)
    OBVIOUS
  <2>2. i \in ScanIds /\ scans[i].pc = "idle" /\ i \in Nat
    <3>1. FreeScans \subseteq Nat
      BY DEF FreeScans, ScanIds
    <3> QED
      BY <1>14, <2>1, <3>1, MinIsMin DEF FreeScans, ScanIds
  <2>3. PICK row : row = [NoScan EXCEPT !.pc = "sent", !.artifact = {a}, !.sha256 = chunks[a]]
    OBVIOUS
  <2>4. row \in ScanRows /\ row.pc = "sent" /\ row.artifact = {a} /\ row.sha256 = chunks[a]
    BY <1>1, <2>3, EmptyRows DEF ScanRows
  <2>5. scans' = [scans EXCEPT ![i] = row]
    BY <1>14, <2>1, <2>3 DEF SendScan
  <2>6. /\ scans' \in [ScanIds -> ScanRows] /\ scans'[i] = row
        /\ \A j \in ScanIds \ {i} : scans'[j] = scans[j]
    BY <1>1, <2>2, <2>4, <2>5 DEF ArtifactsTyped
  <2>7. /\ finalization' \in [Artifacts -> FinalizationRows]
        /\ finalization'[a].pc = "scanning" /\ finalization'[a].scan = i
        /\ \A b \in Artifacts \ {a} : finalization'[b] = finalization[b]
    BY <1>1, <1>14, <2>1, <2>2 DEF ArtifactsTyped, FinalizationRows
  <2>8. RouteMoves(a)
    BY <1>7, <1>14 DEF RouteMoves
  <2>9. ArtifactsTyped'
    BY <1>1, <1>2, <1>14, <2>6, <2>7, <2>8 DEF ArtifactsTyped, RouteMoves
  <2>10. RevisionsStand'
    BY <1>2, <1>14, <2>8, RevisionsKept DEF RouteMoves
  <2>11. ArtifactStands(a)'
    <3>1. Inspected(a)'
      BY <1>2, <1>6, <1>14 DEF Inspected, InspectionPassed
    <3> QED
      BY <1>2, <1>14, <2>2, <2>4, <2>6, <2>7, <2>8, <3>1 DEF ArtifactStands, Published, RouteMoves
  <2>12. /\ \A j \in ScanIds : scans[j].pc # "idle" => scans'[j] = scans[j]
         /\ \A j \in ScanIds : scans'[j] # scans[j] => scans'[j].artifact = {a} /\ scans'[j].pc = "sent"
    BY <2>2, <2>4, <2>6
  <2>13. Published(a) => Published(a)' /\ chunks'[a] = chunks[a]
    BY <1>14 DEF Published
  <2> QED
    BY <1>2, <1>14, <2>7, <2>8, <2>9, <2>10, <2>11, <2>12, <2>13, OneArtifact DEF RouteMoves
<1> QED
  BY <1>9, <1>11, <1>12, <1>13, <1>14

\* A verdict publishes only what its command named, and that is what the row still holds.
LEMMA Receives ==
  ASSUME ArtifactInv, NEW a \in Artifacts, receiveVerdict(a)
  PROVE  ArtifactInv'
<1>1. ArtifactsTyped /\ ArtifactStands(a) /\ upload[a].pc \notin {"idle", "creating"}
  BY DEF ArtifactInv, ArtifactStands, receiveVerdict, Exists
<1>2. PICK i : i = finalization[a].scan
  OBVIOUS
<1>3. /\ finalization[a].pc = "scanning" /\ finalization' = [finalization EXCEPT ![a] = NoFinalization]
      /\ upload' = Answered(a)
      /\ UNCHANGED <<chunks, bound, attempts, profileLock, scans, stream, clash>>
  BY DEF receiveVerdict
<1>4. /\ artifact[a].status = "quarantined" /\ Inspected(a) /\ i \in ScanIds
      /\ scans[i].artifact = {a} /\ scans[i].sha256 = chunks[a] /\ ScanStands(i)
  BY <1>1, <1>2, <1>3 DEF ArtifactStands, ArtifactInv
<1>5. RouteMoves(a)
  BY <1>1, <1>3, RouteWrites DEF Answered
<1>6. \/ artifact' = artifact
      \/ artifact' = Rejected(a)
      \/ artifact' = PublishedRow(a, TRUE) /\ Scanned(a)
  <2>1. CASE scans[i].pc = "committed" /\ finishScan(a, validateResponse(scans[i].verdict))
    <3>1. scans[i].verdict = "clean" => Scanned(a)
      BY <1>4, <2>1 DEF ScanStands, Scanned
    <3>2. CASE scans[i].verdict = "clean"
      BY <2>1, <3>1, <3>2 DEF finishScan, validateResponse
    <3>3. CASE scans[i].verdict \in {"malicious", "suspicious"}
      BY <2>1, <3>3 DEF finishScan, validateResponse
    <3>4. CASE scans[i].verdict \notin {"clean", "malicious", "suspicious"}
      BY <2>1, <3>4 DEF finishScan, validateResponse
    <3> QED
      BY <3>2, <3>3, <3>4
  <2>2. CASE finishScan(a, "failed")
    BY <2>2 DEF finishScan
  <2> QED
    BY <1>2, <2>1, <2>2 DEF receiveVerdict
<1> QED
  BY <1>3, <1>4, <1>5, <1>6, Settles

\* A step of the gateway on one command, which stays about its artifact and its digest.
LEMMA GatewayGoes ==
  ASSUME ArtifactInv, NEW i \in ScanIds, GatewayStep(i)
  PROVE  ArtifactInv'
<1>1. ArtifactsTyped /\ ScanStands(i) /\ scans[i] \in ScanRows
  BY DEF ArtifactInv, ArtifactsTyped
<1>2. /\ scans[i].pc \notin {"idle", "committed"}
      /\ UNCHANGED <<artifact, chunks, bound, profileLock, upload, finalization, stream, clash>>
  BY DEF GatewayStep, scan, streamArtifactChunks, validateScannerResponse, insertAttempt
<1>3. PICK c \in Artifacts : scans[i].artifact = {c}
  BY <1>1, <1>2 DEF ScanStands
<1>4. PICK a : a = CHOOSE b \in Artifacts : b \in scans[i].artifact
  OBVIOUS
<1>5. a \in Artifacts
  BY <1>3, <1>4
<1>6. \/ Fails(i)
      \/ scans' = [scans EXCEPT ![i].pc = "streaming"]
      \/ \E b \in Bytes : scans' = [scans EXCEPT ![i].sent = Append(scans[i].sent, b)]
      \/ \E verdict \in {"clean", "malicious", "suspicious"} :
            scans' = [scans EXCEPT ![i].pc = "answered", ![i].verdict = verdict]
      \/ scans' = [scans EXCEPT ![i].pc = "committed"]
  <2>1. CASE scan(i)
    BY <2>1 DEF scan
  <2>2. CASE streamArtifactChunks(i)
    <3>1. CASE Fails(i)
      BY <3>1
    <3>2. CASE ~Fails(i)
      <4>1. /\ Len(scans[i].sent) < Len(chunks[a])
            /\ scans' = [scans EXCEPT ![i].sent = Append(scans[i].sent, chunks[a][Len(scans[i].sent) + 1])]
        BY <1>4, <2>2, <3>2 DEF streamArtifactChunks
      <4>2. chunks[a] \in Seq(Bytes) /\ scans[i].sent \in Seq(Bytes)
        BY <1>1, <1>5 DEF ArtifactsTyped, ScanRows
      <4>3. chunks[a][Len(scans[i].sent) + 1] \in Bytes
        BY <4>1, <4>2
      <4> QED
        BY <4>1, <4>3
    <3> QED
      BY <3>1, <3>2
  <2>3. CASE validateScannerResponse(i)
    BY <2>3 DEF validateScannerResponse
  <2>4. CASE insertAttempt(i)
    BY <2>4 DEF insertAttempt
  <2> QED
    BY <2>1, <2>2, <2>3, <2>4 DEF GatewayStep
<1>7. /\ scans' \in [ScanIds -> ScanRows]
      /\ \A j \in ScanIds \ {i} : scans'[j] = scans[j]
      /\ scans'[i].artifact = scans[i].artifact /\ scans'[i].sha256 = scans[i].sha256
      /\ scans'[i].pc # "idle"
  <2>1. CASE Fails(i)
    BY <1>1, <2>1 DEF Fails, ArtifactsTyped, ScanRows, Verdicts
  <2>2. CASE scans' = [scans EXCEPT ![i].pc = "streaming"]
    BY <1>1, <2>2 DEF ArtifactsTyped, ScanRows, Verdicts
  <2>3. ASSUME NEW b \in Bytes, scans' = [scans EXCEPT ![i].sent = Append(scans[i].sent, b)]
        PROVE  <1>7!:
    <3>1. PICK sent : sent = Append(scans[i].sent, b)
      OBVIOUS
    <3>2. sent \in Seq(Bytes)
      BY <1>1, <3>1 DEF ScanRows
    <3>3. scans' = [scans EXCEPT ![i].sent = sent]
      BY <2>3, <3>1
    <3> QED
      BY <1>1, <1>2, <3>2, <3>3 DEF ArtifactsTyped, ScanRows
  <2>4. ASSUME NEW verdict \in {"clean", "malicious", "suspicious"},
               scans' = [scans EXCEPT ![i].pc = "answered", ![i].verdict = verdict]
        PROVE  <1>7!:
    BY <1>1, <2>4 DEF ArtifactsTyped, ScanRows, Verdicts
  <2>5. CASE scans' = [scans EXCEPT ![i].pc = "committed"]
    BY <1>1, <2>5 DEF ArtifactsTyped, ScanRows
  <2> QED
    BY <1>6, <2>1, <2>2, <2>3, <2>4, <2>5
<1>8. attempts \subseteq attempts'
  BY DEF GatewayStep, scan, streamArtifactChunks, validateScannerResponse, insertAttempt
<1>9. ScanStands(i)'
  <2>1. CASE scans'[i].pc = "committed"
    <3>1. insertAttempt(i)
      <4>1. CASE scan(i)
        BY <1>1, <1>2, <2>1, <4>1 DEF scan, Fails, ArtifactsTyped, ScanRows
      <4>2. CASE streamArtifactChunks(i)
        <5>1. \/ Fails(i)
              \/ \E sent : scans' = [scans EXCEPT ![i].sent = sent]
          BY <4>2 DEF streamArtifactChunks
        <5>2. CASE Fails(i)
          BY <1>1, <2>1, <5>2 DEF Fails, ArtifactsTyped, ScanRows
        <5>3. ASSUME NEW sent, scans' = [scans EXCEPT ![i].sent = sent]
              PROVE  FALSE
          BY <1>1, <1>2, <2>1, <5>3 DEF ArtifactsTyped, ScanRows
        <5> QED
          BY <5>1, <5>2, <5>3
      <4>3. CASE validateScannerResponse(i)
        BY <1>1, <1>2, <2>1, <4>3 DEF validateScannerResponse, Fails, ArtifactsTyped, ScanRows
      <4> QED
        BY <4>1, <4>2, <4>3 DEF GatewayStep
    <3>2. PICK t : t = [id |-> i, artifact |-> scans[i].artifact, sha256 |-> scans[i].sha256, verdict |-> scans[i].verdict]
      OBVIOUS
    <3>3. /\ t \in attempts' /\ scans' = [scans EXCEPT ![i].pc = "committed"]
          /\ t.artifact = scans[i].artifact /\ t.sha256 = scans[i].sha256 /\ t.verdict = scans[i].verdict
      BY <3>1, <3>2 DEF insertAttempt
    <3>4. scans'[i].verdict = scans[i].verdict
      BY <1>1, <3>3 DEF ArtifactsTyped, ScanRows
    <3> QED
      BY <1>3, <1>7, <3>3, <3>4 DEF ScanStands
  <2>2. CASE scans'[i].pc # "committed"
    BY <1>3, <1>7, <2>2 DEF ScanStands
  <2> QED
    BY <2>1, <2>2
<1>10. ASSUME NEW j \in ScanIds \ {i}
       PROVE  ScanStands(j)'
  <2>1. ScanStands(j) /\ scans'[j] = scans[j]
    BY <1>7 DEF ArtifactInv
  <2> QED
    BY <1>8, <2>1 DEF ScanStands
<1>11. ASSUME NEW b \in Artifacts
       PROVE  ArtifactStands(b)'
  <2>1. ArtifactStands(b)
    BY DEF ArtifactInv
  <2>2. (Inspected(b)' <=> Inspected(b)) /\ (Scanned(b) => Scanned(b)')
    BY <1>2, <1>8 DEF Inspected, Scanned
  <2> QED
    BY <1>2, <1>7, <2>1, <2>2 DEF ArtifactStands, Published, Exists
<1>12. BindingsStand' /\ StreamStands'
  BY <1>2, ReadersKept DEF Published
<1>13. RevisionsStand'
  BY <1>2, RevisionsKept
<1>14. ArtifactsTyped'
  BY <1>1, <1>2, <1>7 DEF ArtifactsTyped
<1> QED
  BY <1>9, <1>10, <1>11, <1>12, <1>13, <1>14 DEF ArtifactInv

\* What is not a reader's stays while only readers move.
LEMMA OnlyReaders ==
  ASSUME ArtifactInv, UNCHANGED <<artifact, chunks, attempts, profileLock, upload, finalization, scans, clash>>,
         stream' \in StreamRows, BindingsStand', StreamStands'
  PROVE  ArtifactInv'
<1>1. ArtifactsTyped'
  BY DEF ArtifactInv, ArtifactsTyped
<1>2. RevisionsStand'
  BY RevisionsKept
<1>3. ASSUME NEW b \in Artifacts
      PROVE  ArtifactStands(b)'
  BY DEF ArtifactInv, ArtifactStands, Published, Exists, Inspected, Scanned
<1>4. \A i \in ScanIds : ScanStands(i)'
  BY DEF ArtifactInv, ScanStands
<1> QED
  BY <1>1, <1>2, <1>3, <1>4 DEF ArtifactInv

\* A workflow revision binds a published artifact by its digest.
LEMMA Binds ==
  ASSUME ArtifactInv, NEW a \in Artifacts, resolveWorkflowArtifactBindings(a)
  PROVE  ArtifactInv'
<1>1. /\ Published(a) /\ bound' = bound \cup {[artifact |-> a, sha256 |-> artifact[a].sha256]}
      /\ UNCHANGED <<artifact, chunks, attempts, profileLock, upload, finalization, scans, stream, clash>>
  BY DEF resolveWorkflowArtifactBindings
<1>2. artifact[a].sha256 = chunks[a] /\ stream \in StreamRows
  BY <1>1 DEF ArtifactInv, ArtifactStands, ArtifactsTyped
<1>3. BindingsStand'
  BY <1>1, <1>2 DEF ArtifactInv, BindingsStand, Published
<1>4. StreamStands'
  BY <1>1 DEF ArtifactInv, StreamStands, Published
<1> QED
  BY <1>1, <1>2, <1>3, <1>4, OnlyReaders

\* A stream opens on a published artifact.
LEMMA ArtifactOpens ==
  ASSUME ArtifactInv, NEW a \in Artifacts, NEW participant \in BOOLEAN, openArtifact(a, participant)
  PROVE  ArtifactInv'
<1>1. /\ Published(a)
      /\ stream' = [pc |-> "open", artifact |-> {a}, participant |-> participant,
                    got |-> <<>>, chunkCount |-> Len(chunks[a])]
      /\ UNCHANGED <<artifact, chunks, bound, attempts, profileLock, upload, finalization, scans, clash>>
  BY DEF openArtifact
<1>2. chunks[a] \in Seq(Bytes)
  BY DEF ArtifactInv, ArtifactsTyped
<1>3. stream' \in StreamRows
  BY <1>1, <1>2 DEF StreamRows
<1>4. BindingsStand'
  BY <1>1 DEF ArtifactInv, BindingsStand, Published
<1>5. StreamStands'
  BY <1>1, <1>2 DEF StreamStands, Published
<1> QED
  BY <1>1, <1>3, <1>4, <1>5, OnlyReaders

\* A stream delivers the next chunk, ends after the last, or is interrupted.
LEMMA StreamGoes ==
  ASSUME ArtifactInv, streamEngineArtifact \/ interruptStream
  PROVE  ArtifactInv'
<1>1. /\ stream.pc = "open" /\ stream \in StreamRows /\ StreamStands /\ ArtifactsTyped
      /\ UNCHANGED <<artifact, chunks, bound, attempts, profileLock, upload, finalization, scans, clash>>
  BY DEF streamEngineArtifact, interruptStream, ArtifactInv, ArtifactsTyped
<1>2. PICK a \in Artifacts : stream.artifact = {a}
  BY <1>1 DEF StreamStands
<1>3. /\ Published(a) /\ stream.chunkCount = Len(chunks[a]) /\ Len(stream.got) <= stream.chunkCount
      /\ \A n \in 1..Len(stream.got) : stream.got[n] = chunks[a][n]
      /\ chunks[a] \in Seq(Bytes) /\ stream.got \in Seq(Bytes) /\ Len(stream.got) \in Nat /\ Len(chunks[a]) \in Nat
  BY <1>1, <1>2 DEF StreamStands, ArtifactsTyped, StreamRows
<1>4. a = CHOOSE b \in Artifacts : b \in stream.artifact
  BY <1>2
<1>5. BindingsStand'
  BY <1>1 DEF ArtifactInv, BindingsStand, Published
<1>6. stream' \in StreamRows /\ StreamStands'
  <2>1. CASE interruptStream
    <3>1. stream' = [stream EXCEPT !.pc = "error"]
      BY <2>1 DEF interruptStream
    <3>2. /\ stream' \in StreamRows /\ stream'.pc = "error" /\ stream'.artifact = {a}
          /\ stream'.got = stream.got /\ stream'.chunkCount = stream.chunkCount
      BY <1>1, <1>2, <3>1 DEF StreamRows
    <3> QED
      BY <1>1, <1>3, <3>2 DEF StreamStands, Published
  <2>2. CASE streamEngineArtifact /\ Len(stream.got) >= stream.chunkCount
    <3>1. stream' = [stream EXCEPT !.pc = "closed"]
      BY <2>2 DEF streamEngineArtifact
    <3>2. /\ stream' \in StreamRows /\ stream'.pc = "closed" /\ stream'.artifact = {a}
          /\ stream'.got = stream.got /\ stream'.chunkCount = stream.chunkCount
      BY <1>1, <1>2, <3>1 DEF StreamRows
    <3>3. Len(stream.got) = stream.chunkCount
      BY <1>3, <2>2
    <3> QED
      BY <1>1, <1>3, <3>2, <3>3 DEF StreamStands, Published
  <2>3. CASE streamEngineArtifact /\ ~(Len(stream.got) >= stream.chunkCount)
    <3>1. PICK got : got = Append(stream.got, chunks[a][Len(stream.got) + 1])
      OBVIOUS
    <3>2. stream' = [stream EXCEPT !.got = got]
      BY <1>4, <2>3, <3>1 DEF streamEngineArtifact
    <3>3. Len(stream.got) < Len(chunks[a]) /\ chunks[a][Len(stream.got) + 1] \in Bytes
      BY <1>3, <2>3
    <3>4. /\ got \in Seq(Bytes) /\ Len(got) = Len(stream.got) + 1
          /\ got[Len(stream.got) + 1] = chunks[a][Len(stream.got) + 1]
          /\ \A n \in 1..Len(stream.got) : got[n] = stream.got[n]
      BY <1>3, <3>1, <3>3
    <3>5. \A n \in 1..Len(got) : got[n] = chunks[a][n]
      BY <1>3, <3>4
    <3>6. Len(got) <= stream.chunkCount
      BY <1>3, <3>3, <3>4
    <3>7. /\ stream' \in StreamRows /\ stream'.pc = "open" /\ stream'.artifact = {a}
          /\ stream'.got = got /\ stream'.chunkCount = stream.chunkCount
      BY <1>1, <1>2, <3>2, <3>4 DEF StreamRows
    <3> QED
      BY <1>1, <1>2, <1>3, <3>5, <3>6, <3>7 DEF StreamStands, Published
  <2> QED
    BY <1>1, <2>1, <2>2, <2>3
<1> QED
  BY <1>1, <1>5, <1>6, OnlyReaders

\* ArtifactInv is inductive.
LEMMA ArtifactStep ==
  ASSUME ArtifactInv, [ArtifactNext]_artifactVars
  PROVE  ArtifactInv'
<1>1. CASE disableScanner \/ UNCHANGED artifactVars
  <2>1. UNCHANGED <<artifact, chunks, bound, attempts, profileLock, upload, finalization, scans, stream, clash>>
    BY <1>1 DEF disableScanner, artifactVars
  <2>2. stream' \in StreamRows /\ BindingsStand' /\ StreamStands'
    BY <2>1, ReadersKept DEF ArtifactInv, ArtifactsTyped, Published
  <2> QED
    BY <2>1, <2>2, OnlyReaders
<1>2. ASSUME NEW a \in Artifacts, NEW doc \in Docs, NEW r \in {{}} \cup {{b} : b \in Artifacts},
             assertArtifactCapacity(a, doc, r)
      PROVE  ArtifactInv'
  <2>1. r = {} \/ \E b \in Artifacts : r = {b}
    OBVIOUS
  <2> QED
    BY <1>2, <2>1, Reserves
<1>3. ASSUME NEW a \in Artifacts,
             \/ createArtifact(a) \/ appendChunk(a) \/ refuseChunk(a)
             \/ interruptUpload(a) \/ abortArtifact(a) \/ loseAbort(a)
             \/ finalizeArtifact(a) \/ receiveVerdict(a)
             \/ resolveWorkflowArtifactBindings(a)
      PROVE  ArtifactInv'
  BY <1>3, Creates, RouteGoes, Aborts, Finalizes, Receives, Binds
<1>4. ASSUME NEW a \in Artifacts, NEW participant \in BOOLEAN, openArtifact(a, participant)
      PROVE  ArtifactInv'
  BY <1>4, ArtifactOpens
<1>5. ASSUME NEW i \in ScanIds, GatewayStep(i)
      PROVE  ArtifactInv'
  BY <1>5, GatewayGoes
<1>6. CASE streamEngineArtifact \/ interruptStream
  BY <1>6, StreamGoes
<1> QED
  BY <1>1, <1>2, <1>3, <1>4, <1>5, <1>6 DEF ArtifactNext

\* ArtifactInv says what readers get, that no insert was refused and none exceeds the
\* quota.
LEMMA ArtifactInvSays ==
  ASSUME ArtifactInv
  PROVE  DeliveredAsScanned /\ RevisionsNeverClash
<1>1. \A a \in Artifacts : Published(a) =>
          /\ artifact[a].sha256 = chunks[a] /\ Len(chunks[a]) = artifact[a].expected
          /\ Marker \notin Range(chunks[a])
          /\ artifact[a].external => \E t \in attempts :
                t.artifact = {a} /\ t.sha256 = chunks[a] /\ t.verdict = "clean"
  BY DEF ArtifactInv, ArtifactStands, Inspected, Scanned
<1>2. \A b \in bound : b.sha256 = chunks[b.artifact]
  BY DEF ArtifactInv, BindingsStand
<1>3. ASSUME NEW a \in stream.artifact
      PROVE  /\ Published(a) /\ IsPrefix(stream.got, artifact[a].sha256)
             /\ stream.pc = "closed" => stream.got = artifact[a].sha256
  <2>1. /\ a \in Artifacts /\ Published(a) /\ Len(stream.got) <= Len(chunks[a])
        /\ chunks[a] \in Seq(Bytes) /\ stream.got \in Seq(Bytes)
        /\ \A n \in 1..Len(stream.got) : stream.got[n] = chunks[a][n]
        /\ stream.pc = "closed" => Len(stream.got) = Len(chunks[a])
    BY DEF ArtifactInv, ArtifactsTyped, StreamRows, StreamStands
  <2>2. artifact[a].sha256 = chunks[a]
    BY <1>1, <2>1
  <2>3. IsPrefix(stream.got, chunks[a])
    BY <2>1 DEF IsPrefix
  <2>4. stream.pc = "closed" => stream.got = chunks[a]
    BY <2>1
  <2> QED
    BY <2>1, <2>2, <2>3, <2>4
<1> QED
  BY <1>1, <1>2, <1>3 DEF DeliveredAsScanned, RevisionsNeverClash, ArtifactInv, RevisionsStand, QuotaStands

\* Whatever owners, routes, finalizations and the gateway interleave: readers get what was
\* published, which was inspected and, where a scanner was asked, found clean.
THEOREM DeliveredIsScanned == ArtifactSpec => []DeliveredAsScanned
<1>1. ArtifactSpec => []ArtifactInv
  BY InitArtifacts, ArtifactStep, PTL DEF ArtifactSpec
<1> QED
  BY <1>1, ArtifactInvSays, PTL

\* createArtifact never meets the unique constraint of a family's revisions, and what a
\* tenant declared stays within its quota: RevisionsNeverClash for any artifacts,
\* documents and quota, whatever uploads interleave.
THEOREM RevisionsDoNotClash == ArtifactSpec => []RevisionsNeverClash
<1>1. ArtifactSpec => []ArtifactInv
  BY InitArtifacts, ArtifactStep, PTL DEF ArtifactSpec
<1> QED
  BY <1>1, ArtifactInvSays, PTL

-----------------------------------------------------------------------------
(* TelemetryCredit.                                                        *)

Worlds == [clock : Nat, connected : BOOLEAN, visible : BOOLEAN, focused : BOOLEAN,
           player : {"playing", "paused", "buffering", "ended"},
           position : 0..MaxPosition, known : 0..MaxPosition, rate : Nat \ {0},
           prior : SUBSET [at : Nat, position : Nat], touched : SUBSET Nat, acts : Nat]
Truths == [open : Nat, foreground : Nat, engaged : Nat, played : SUBSET Nat, skips : Nat, asleep : Nat]
Presences == [last : SUBSET Nat, opened : BOOLEAN, visible : BOOLEAN, focused : BOOLEAN,
              interaction : SUBSET Nat, open : Nat, foreground : Nat, engaged : Nat,
              uncredited : Nat]

\* Of a singleton and zero, the singleton is the greatest.
LEMMA LatestIs == ASSUME NEW l \in Nat PROVE Max({l}) = l /\ Max({l} \cup {0}) = l
  <1>1. \A x \in {l} : \A y \in {l} : x >= y
    OBVIOUS
  <1>2. \A x \in {l} \cup {0} : (\A y \in {l} \cup {0} : x >= y) => x = l
    OBVIOUS
  <1>3. \E x \in {l} \cup {0} : \A y \in {l} \cup {0} : x >= y
    OBVIOUS
  <1> QED
    BY <1>1, <1>2, <1>3 DEF Max

\* What the loop credits with the next event, if that comes at t.
Busy(i, l) == \E x \in i.interaction : l - x <= IdleSeconds
Owed(i, l, t, tr) ==
    t - l <= MaxCreditedGapSeconds =>
        /\ i.open + (t - l) <= tr.open - tr.asleep
        /\ i.visible /\ i.focused => i.foreground + (t - l) <= tr.foreground
        /\ i.visible /\ i.focused /\ Busy(i, l) => i.engaged + (t - l) <= tr.engaged

Within(i, tr) ==
    /\ i.open <= tr.open - tr.asleep /\ i.foreground <= tr.foreground /\ i.engaged <= tr.engaged

\* An event of an open session credits at most what it owes.
LEMMA TimeCredits ==
    ASSUME NEW i \in Presences, NEW tr \in Truths, NEW t \in Nat, NEW l \in Nat, l <= t,
           i.last = {l}, i.opened, Within(i, tr), Owed(i, l, t, tr)
    PROVE  LET j == InteractionTime(i, t) IN
           /\ j \in Presences /\ Within(j, tr)
           /\ j.last = i.last /\ j.opened = i.opened /\ j.visible = i.visible /\ j.focused = i.focused
           /\ j.interaction = i.interaction
  <1>1. CreditAssumption /\ Delta(i, t) = t - l /\ Max(i.last) = l
    BY LatestIs, CreditAssumption DEF Delta
  <1>2. CASE t - l > MaxCreditedGapSeconds
    <2>1. InteractionTime(i, t) = [i EXCEPT !.uncredited = @ + (t - l)]
      BY <1>1, <1>2 DEF InteractionTime
    <2>2. i.uncredited + (t - l) \in Nat
      BY DEF Presences
    <2> QED
      BY <2>1, <2>2 DEF Within, Presences
  <1>3. CASE ~(t - l > MaxCreditedGapSeconds)
    <2> DEFINE shown == i.visible /\ i.focused
               busy == Busy(i, l)
    <2>1. InteractionTime(i, t) =
            [i EXCEPT !.open = @ + (t - l), !.foreground = IF shown THEN @ + (t - l) ELSE @,
                      !.engaged = IF shown /\ busy THEN @ + (t - l) ELSE @]
      BY <1>1, <1>3 DEF InteractionTime, Busy
    <2>2. /\ i.open + (t - l) <= tr.open - tr.asleep
          /\ shown => i.foreground + (t - l) <= tr.foreground
          /\ shown /\ busy => i.engaged + (t - l) <= tr.engaged
      BY <1>3, CreditAssumption DEF Owed
    <2> DEFINE o == i.open + (t - l)
               f == IF shown THEN i.foreground + (t - l) ELSE i.foreground
               g == IF shown /\ busy THEN i.engaged + (t - l) ELSE i.engaged
    <2>3. InteractionTime(i, t) = [i EXCEPT !.open = o, !.foreground = f, !.engaged = g]
      BY <2>1
    <2>4. /\ o \in Nat /\ f \in Nat /\ g \in Nat
          /\ o <= tr.open - tr.asleep /\ f <= tr.foreground /\ g <= tr.engaged
      BY <2>2 DEF Within, Presences, Truths
    <2> HIDE DEF o, f, g
    <2> QED
      BY <2>3, <2>4 DEF Within, Presences
  <1> QED
    BY <1>2, <1>3

EventTypes == {"presented", "visible", "hidden", "focus", "blur", "interaction", "disconnect",
               "position", "heartbeat", "pause", "ended", "play", "buffer_start", "buffer_end",
               "rate", "seek"}
Events == [at : Nat, type : EventTypes, position : Nat, rate : Nat \ {0}]

\* The event itself changes only the state of the page that it reports.
LEMMA EventTells ==
    ASSUME NEW i \in Presences, NEW e \in Events
    PROVE  LET j == [InteractionType(i, e) EXCEPT !.last = {e.at}] IN
           /\ j \in Presences /\ j.last = {e.at}
           /\ j.open = i.open /\ j.foreground = i.foreground /\ j.engaged = i.engaged
           /\ e.type # "disconnect" =>
                /\ j.opened = (e.type = "presented" \/ i.opened)
                /\ j.visible = IF e.type \in {"visible", "hidden"} THEN e.type = "visible" ELSE i.visible
                /\ j.focused = IF e.type \in {"focus", "blur"} THEN e.type = "focus" ELSE i.focused
                /\ j.interaction = IF e.type = "interaction" THEN {e.at} ELSE i.interaction
  <1>1. CASE e.type = "presented"
    BY <1>1 DEF InteractionType, Presences, Events
  <1>2. CASE e.type \in {"visible", "hidden"}
    BY <1>2 DEF InteractionType, Presences, Events
  <1>3. CASE e.type \in {"focus", "blur"}
    BY <1>3 DEF InteractionType, Presences, Events
  <1>4. CASE e.type = "interaction"
    BY <1>4 DEF InteractionType, Presences, Events
  <1>5. CASE e.type = "disconnect"
    BY <1>5 DEF InteractionType, Presences, Events
  <1>6. CASE e.type \notin {"presented", "visible", "hidden", "focus", "blur", "interaction", "disconnect"}
    BY <1>6 DEF InteractionType, Presences, Events
  <1> QED
    BY <1>1, <1>2, <1>3, <1>4, <1>5, <1>6

Samples == [at : Nat, position : Nat, rate : Nat \ {0}]
Playbacks == [last : SUBSET Nat, visible : BOOLEAN, playing : BOOLEAN, buffering : BOOLEAN,
              rate : Nat \ {0}, sample : SUBSET Samples, credited : SUBSET Nat, gaps : Nat,
              ended : BOOLEAN]
Sampling == {"position", "heartbeat", "pause", "ended"}

\* The fastest rate is one of the rates.
LEMMA FastestIs == Max(Rates) \in Rates /\ Max(Rates) \in Nat \ {0} /\ \A r \in Rates : r <= Max(Rates)
  <1>1. \E x \in Rates : \A y \in Rates : x >= y
    BY CreditAssumption
  <1>2. Max(Rates) \in Rates /\ \A y \in Rates : Max(Rates) >= y
    BY <1>1 DEF Max
  <1> QED
    BY <1>2, CreditAssumption

\* What one plausible way between two samples can add, in halves of a second.
Tolerance == 3 * HeartbeatSeconds * Max(Rates) + 3

\* The tolerance is a positive number.
LEMMA ToleranceIs == Tolerance \in Nat \ {0}
  BY FastestIs, CreditAssumption DEF Tolerance, activityInteractionPolicy

\* A product grows with its factors.
LEMMA ProductGrows ==
    ASSUME NEW a \in Nat, NEW b \in Nat, NEW x \in Nat, NEW y \in Nat, a <= b, x <= y
    PROVE  a * x <= b * y
  <1>1. PICK c \in Nat : b = a + c
    <2>1. b - a \in Nat /\ b = a + (b - a)
      OBVIOUS
    <2> QED
      BY <2>1
  <1>2. PICK z \in Nat : y = x + z
    <2>1. y - x \in Nat /\ y = x + (y - x)
      OBVIOUS
    <2> QED
      BY <2>1
  <1>3. (a + c) * (x + z) = a * x + a * z + c * x + c * z
    OBVIOUS
  <1>4. a * z \in Nat /\ c * x \in Nat /\ c * z \in Nat /\ a * x \in Nat
    OBVIOUS
  <1> QED
    BY <1>1, <1>2, <1>3, <1>4

\* A plausible way between samples no more than a heartbeat apart is within the tolerance.
LEMMA WayIsShort ==
    ASSUME NEW elapsed \in Nat, NEW rate \in Nat \ {0}, NEW advance \in Int,
           elapsed <= HeartbeatSeconds, rate <= Max(Rates), Plausible(elapsed, rate, advance)
    PROVE  advance \in Nat /\ 2 * advance <= Tolerance
  <1>1. elapsed * rate <= HeartbeatSeconds * Max(Rates)
    BY ProductGrows, FastestIs, CreditAssumption DEF activityInteractionPolicy
  <1>2. (IF rate > 1 THEN rate ELSE 1) = rate
    OBVIOUS
  <1>3. advance >= 0 /\ 2 * advance <= 3 * elapsed * rate + 3
    BY <1>2 DEF Plausible
  <1>4. 3 * elapsed * rate = 3 * (elapsed * rate)
    OBVIOUS
  <1>5. 3 * HeartbeatSeconds * Max(Rates) = 3 * (HeartbeatSeconds * Max(Rates))
    BY FastestIs, CreditAssumption DEF activityInteractionPolicy
  <1>6. elapsed * rate \in Int /\ HeartbeatSeconds * Max(Rates) \in Int
    BY FastestIs, CreditAssumption DEF activityInteractionPolicy
  <1> QED
    BY <1>1, <1>3, <1>4, <1>5, <1>6 DEF Tolerance

\* A remainder counts up until it starts again.
LEMMA RemainderCounts ==
    ASSUME NEW n \in Nat, NEW h \in Nat \ {0}
    PROVE  /\ n % h \in Nat /\ n % h < h
           /\ (n + 1) % h # 0 => (n + 1) % h = (n % h) + 1
  <1>1. n % h \in 0..(h - 1) /\ (n + 1) % h \in 0..(h - 1)
    OBVIOUS
  <1>2. \A m \in Nat : m \div h \in Int /\ m % h = m - h * (m \div h)
    BY Z3
  <1>3. n \div h \in Int /\ (n + 1) \div h \in Int
    BY <1>2
  <1> DEFINE p == n \div h
             q == (n + 1) \div h
             a == n % h
             b == (n + 1) % h
  <1>4. p \in Int /\ q \in Int /\ a \in 0..(h-1) /\ b \in 0..(h-1) /\ h * p + a + 1 = h * q + b
    BY <1>1, <1>2, <1>3
  <1> HIDE DEF p, q, a, b
  <1>5. b # 0 => b = a + 1
    <2> SUFFICES ASSUME b # 0 PROVE b = a + 1
      OBVIOUS
    <2>1. h * (q - p) = a + 1 - b
      BY <1>4
    <2>2. CASE q = p
      BY <2>1, <2>2, <1>4
    <2>3. CASE q > p
      <3>1. h * 1 <= h * (q - p)
        BY <2>3, <1>4, ProductGrows
      <3> QED
        BY <2>1, <3>1, <1>4
    <2>4. CASE q < p
      <3>1. h * 1 <= h * (p - q)
        BY <2>4, <1>4, ProductGrows
      <3>2. h * (p - q) = b - a - 1
        BY <1>4
      <3> QED
        BY <3>1, <3>2, <1>4
    <2> QED
      BY <2>2, <2>3, <2>4, <1>4
  <1> QED
    BY <1>1, <1>5 DEF a, b

\* What the loop relies on when an event comes at t: one sample at most, of a known rate, and
\* taken at most b seconds before unless the silence was too long.
Fit(v, t, b) ==
    /\ v \in Playbacks /\ IsFiniteSet(v.credited) /\ v.rate <= Max(Rates)
    /\ \A s \in v.sample : s.rate <= Max(Rates) /\ \A r \in v.sample : r = s
    /\ \/ v.last = {} /\ v.sample = {}
       \/ \E l \in v.last : /\ v.last = {l} /\ l <= t
                            /\ t - l <= MaxCreditedGapSeconds =>
                                 \A s \in v.sample : s.at <= t /\ t - s.at <= b

\* What an event may add to the credit of v: the way from the sample to a position n.
Way(v, n, I) ==
    \/ I = {}
    \/ /\ playbackWasCreditable(v)
       /\ \E s \in v.sample : /\ I = (s.position + 1)..n /\ s.position <= n
                              /\ 2 * (n - s.position) <= Tolerance

\* A sampling event takes a new sample and credits the way to it, others credit nothing.
LEMMA SampleCredits ==
    ASSUME NEW v, NEW e \in Events, v \in Playbacks, v.rate <= Max(Rates),
           \A s \in v.sample : s.rate <= Max(Rates) /\ \A r \in v.sample : r = s,
           \A s \in v.sample : s.at <= e.at /\ e.at - s.at <= HeartbeatSeconds
    PROVE  LET u == PlaybackSample(v, e) IN
           /\ u \in Playbacks
           /\ u.last = v.last /\ u.visible = v.visible /\ u.playing = v.playing
           /\ u.buffering = v.buffering /\ u.rate = v.rate
           /\ e.type \notin Sampling => u = v
           /\ e.type \in Sampling =>
                /\ u.sample = {[at |-> e.at, position |-> e.position, rate |-> v.rate]}
                /\ \E I : Way(v, e.position, I) /\ u.credited = v.credited \cup I
  <1>1. CASE e.type \notin Sampling
    BY <1>1 DEF PlaybackSample, Sampling
  <1>2. CASE e.type \in Sampling
    <2> DEFINE new == {[at |-> e.at, position |-> e.position, rate |-> v.rate]}
               way == {s \in v.sample : playbackWasCreditable(v)
                                      /\ Plausible(e.at - s.at, s.rate, e.position - s.position)}
               I == UNION {(s.position + 1)..e.position : s \in way}
               g == IF playbackWasCreditable(v) /\ v.sample # way THEN v.gaps + 1 ELSE v.gaps
    <2>1. PlaybackSample(v, e) = [v EXCEPT !.sample = new, !.credited = v.credited \cup I, !.gaps = g]
      BY <1>2 DEF PlaybackSample, Sampling
    <2>2. g \in Nat
      BY DEF Playbacks
    <2>3. new \in SUBSET Samples
      BY DEF Samples, Events, Playbacks
    <2>4. v.sample \in SUBSET Samples
      BY DEF Playbacks
    <2>5. I \subseteq Nat
      BY <2>4 DEF Samples, Events
    <2>6. v.credited \cup I \in SUBSET Nat
      BY <2>5 DEF Playbacks
    <2>7. Way(v, e.position, I)
      <3>1. CASE way = {}
        BY <3>1 DEF Way
      <3>2. CASE way # {}
        <4>1. PICK s \in way : TRUE
          BY <3>2
        <4>2. way = {s} /\ s \in v.sample /\ playbackWasCreditable(v)
          BY <4>1
        <4>3. s \in Samples /\ s.at <= e.at /\ e.at - s.at <= HeartbeatSeconds /\ s.rate <= Max(Rates)
          BY <2>4, <4>2
        <4>4. Plausible(e.at - s.at, s.rate, e.position - s.position)
          BY <4>1
        <4>5. /\ e.at - s.at \in Nat /\ s.rate \in Nat \ {0} /\ e.position - s.position \in Int
              /\ e.position \in Nat /\ s.position \in Nat
          BY <4>3 DEF Samples, Events
        <4>6. e.position - s.position \in Nat /\ 2 * (e.position - s.position) <= Tolerance
          BY <4>3, <4>4, <4>5, WayIsShort
        <4>7. I = (s.position + 1)..e.position
          BY <4>2
        <4> QED
          BY <4>2, <4>5, <4>6, <4>7 DEF Way
      <3> QED
        BY <3>1, <3>2
    <2> HIDE DEF new, I, g
    <2>8. [v EXCEPT !.sample = new, !.credited = v.credited \cup I, !.gaps = g] \in Playbacks
      BY <2>2, <2>3, <2>6 DEF Playbacks
    <2>9. LET u == [v EXCEPT !.sample = new, !.credited = v.credited \cup I, !.gaps = g] IN
          /\ u.last = v.last /\ u.visible = v.visible /\ u.playing = v.playing
          /\ u.buffering = v.buffering /\ u.rate = v.rate /\ u.sample = new
          /\ u.credited = v.credited \cup I
      BY DEF Playbacks
    <2> QED
      BY <1>2, <2>1, <2>7, <2>8, <2>9 DEF new
  <1> QED
    BY <1>1, <1>2

\* The event itself changes the state of the player, and a seek forgets the sample.
LEMMA PlayerTells ==
    ASSUME NEW v \in Playbacks, NEW e \in Events
    PROVE  LET u == [PlaybackType(v, e) EXCEPT !.last = {e.at}] IN
           /\ u \in Playbacks /\ u.last = {e.at} /\ u.credited = v.credited
           /\ u.sample = IF e.type = "seek" THEN {} ELSE v.sample
           /\ u.rate = IF e.type = "rate" THEN e.rate ELSE v.rate
           /\ u.visible = IF e.type \in {"visible", "hidden"} THEN e.type = "visible" ELSE v.visible
           /\ u.playing = IF e.type = "play" THEN TRUE
                          ELSE IF e.type \in {"pause", "ended"} THEN FALSE ELSE v.playing
           /\ u.buffering = IF e.type = "play" THEN FALSE
                            ELSE IF e.type \in {"buffer_start", "buffer_end"}
                            THEN e.type = "buffer_start" ELSE v.buffering
  <1>1. CASE e.type \in {"visible", "hidden"}
    BY <1>1 DEF PlaybackType, Playbacks, Events
  <1>2. CASE e.type = "play"
    BY <1>2 DEF PlaybackType, Playbacks, Events
  <1>3. CASE e.type = "pause"
    BY <1>3 DEF PlaybackType, Playbacks, Events
  <1>4. CASE e.type = "ended"
    BY <1>4 DEF PlaybackType, Playbacks, Events
  <1>5. CASE e.type \in {"buffer_start", "buffer_end"}
    BY <1>5 DEF PlaybackType, Playbacks, Events
  <1>6. CASE e.type = "rate"
    BY <1>6 DEF PlaybackType, Playbacks, Events
  <1>7. CASE e.type = "seek"
    BY <1>7 DEF PlaybackType, Playbacks, Events
  <1>8. CASE e.type \notin {"visible", "hidden", "play", "pause", "ended", "buffer_start", "buffer_end",
                            "rate", "seek"}
    BY <1>8 DEF PlaybackType, Playbacks, Events
  <1> QED
    BY <1>1, <1>2, <1>3, <1>4, <1>5, <1>6, <1>7, <1>8

\* What one turn of the loop makes of v with the event e: u.
Turned(v, u, e, b) ==
    /\ Fit(u, e.at, b)
    /\ e.type \in Sampling => /\ Fit(u, e.at, 0)
                              /\ u.sample = {[at |-> e.at, position |-> e.position, rate |-> v.rate]}
    /\ e.type \notin Sampling => u.credited = v.credited /\ u.sample \subseteq v.sample
    /\ e.type = "seek" => u.sample = {}
    /\ \E I : Way(v, e.position, I) /\ u.credited = v.credited \cup I
    /\ u.rate = IF e.type = "rate" THEN e.rate ELSE v.rate
    /\ u.visible = IF e.type \in {"visible", "hidden"} THEN e.type = "visible" ELSE v.visible
    /\ u.playing = IF e.type = "play" THEN TRUE
                   ELSE IF e.type \in {"pause", "ended"} THEN FALSE ELSE v.playing
    /\ u.buffering = IF e.type = "play" THEN FALSE
                     ELSE IF e.type \in {"buffer_start", "buffer_end"}
                     THEN e.type = "buffer_start" ELSE v.buffering

\* One turn of the loop.
LEMMA MediaEvent ==
    ASSUME NEW v, NEW e \in Events, NEW b \in Nat, b <= HeartbeatSeconds, Fit(v, e.at, b),
           e.rate <= Max(Rates)
    PROVE  Turned(v, calculateMediaSummary(v, e), e, b)
  <1> DEFINE silent == v.last # {} /\ Delta(v, e.at) > MaxCreditedGapSeconds
             heard == IF silent THEN [v EXCEPT !.sample = {}, !.gaps = @ + 1] ELSE v
             x == PlaybackSample(heard, e)
             u == calculateMediaSummary(v, e)
  <1>0. e.at \in Nat /\ e.position \in Nat /\ e.rate \in Nat \ {0}
    BY DEF Events
  <1>1. /\ heard \in Playbacks /\ heard.last = v.last /\ heard.visible = v.visible
        /\ heard.playing = v.playing /\ heard.buffering = v.buffering /\ heard.rate = v.rate
        /\ heard.credited = v.credited /\ heard.sample \subseteq v.sample
    <2>1. v \in Playbacks /\ v.gaps + 1 \in Nat
      BY DEF Fit, Playbacks
    <2>2. CASE silent
      <3>1. heard = [v EXCEPT !.sample = {}, !.gaps = v.gaps + 1]
        BY <2>2
      <3> HIDE DEF heard
      <3> QED
        BY <2>1, <3>1 DEF Playbacks
    <2>3. CASE ~silent
      BY <2>1, <2>3
    <2> HIDE DEF heard
    <2> QED
      BY <2>2, <2>3
  <1>2. \A s \in heard.sample : s.at <= e.at /\ e.at - s.at <= b
    <2>1. CASE v.last = {}
      BY <1>1, <2>1 DEF Fit
    <2>2. CASE v.last # {}
      <3>1. PICK l \in Nat : /\ v.last = {l} /\ l <= e.at
                             /\ e.at - l <= MaxCreditedGapSeconds =>
                                  \A s \in v.sample : s.at <= e.at /\ e.at - s.at <= b
        BY <2>2 DEF Fit, Playbacks
      <3>2. Delta(v, e.at) = e.at - l
        BY <3>1, LatestIs DEF Delta
      <3>3. CASE silent
        <4>1. heard.sample = {}
          BY <3>3 DEF Fit, Playbacks
        <4> QED
          BY <4>1
      <3>4. CASE ~silent
        BY <1>0, <2>2, <3>1, <3>2, <3>4, CreditAssumption
      <3> QED
        BY <3>3, <3>4
    <2> QED
      BY <2>1, <2>2
  <1>3. u = [PlaybackType(x, e) EXCEPT !.last = {e.at}]
    BY DEF calculateMediaSummary
  <1> HIDE DEF heard
  <1>4. /\ heard.rate <= Max(Rates)
        /\ \A s \in heard.sample : s.rate <= Max(Rates) /\ \A r \in heard.sample : r = s
    BY <1>1 DEF Fit
  <1>a. \A s \in heard.sample : s.at <= e.at /\ e.at - s.at <= HeartbeatSeconds
    <2> SUFFICES ASSUME NEW s \in heard.sample PROVE s.at <= e.at /\ e.at - s.at <= HeartbeatSeconds
      OBVIOUS
    <2>1. s.at \in Nat
      BY <1>1 DEF Playbacks, Samples
    <2> QED
      BY <1>0, <1>2, <2>1, CreditAssumption DEF activityInteractionPolicy
  <1>5. /\ x \in Playbacks /\ x.visible = v.visible /\ x.playing = v.playing
        /\ x.buffering = v.buffering /\ x.rate = v.rate
        /\ e.type \notin Sampling => x.credited = v.credited /\ x.sample \subseteq v.sample
                                     /\ x.sample = heard.sample
        /\ e.type \in Sampling => x.sample = {[at |-> e.at, position |-> e.position, rate |-> v.rate]}
        /\ \E I : Way(heard, e.position, I) /\ x.credited = v.credited \cup I
    <2>1. CASE e.type \in Sampling
      BY <1>1, <1>a, <1>4, <2>1, SampleCredits
    <2>2. CASE e.type \notin Sampling
      <3>1. x = heard
        BY <1>1, <1>a, <1>4, <2>2, SampleCredits
      <3>2. Way(heard, e.position, {}) /\ x.credited = v.credited \cup {}
        BY <1>1, <3>1 DEF Way
      <3> QED
        BY <1>1, <2>2, <3>1, <3>2
    <2> QED
      BY <2>1, <2>2
  <1>6. PICK I : Way(heard, e.position, I) /\ x.credited = v.credited \cup I
    BY <1>5
  <1>7. Way(v, e.position, I)
    BY <1>1, <1>6 DEF Way, playbackWasCreditable
  <1>8. IsFiniteSet(I)
    <2>1. CASE I = {}
      BY <2>1, FS_EmptySet
    <2>2. CASE I # {}
      <3>1. PICK s \in v.sample : I = (s.position + 1)..e.position
        BY <1>7, <2>2 DEF Way
      <3>2. s.position + 1 \in Int /\ e.position \in Int
        BY <1>0, <3>1 DEF Fit, Playbacks, Samples
      <3> QED
        BY <3>1, <3>2, FS_Interval
    <2> QED
      BY <2>1, <2>2
  <1> HIDE DEF x, u
  <1>9. /\ u \in Playbacks /\ u.last = {e.at} /\ u.credited = x.credited
        /\ u.sample = (IF e.type = "seek" THEN {} ELSE x.sample)
        /\ u.rate = (IF e.type = "rate" THEN e.rate ELSE x.rate)
        /\ u.visible = (IF e.type \in {"visible", "hidden"} THEN e.type = "visible" ELSE x.visible)
        /\ u.playing = (IF e.type = "play" THEN TRUE
                          ELSE IF e.type \in {"pause", "ended"} THEN FALSE ELSE x.playing)
        /\ u.buffering = (IF e.type = "play" THEN FALSE
                            ELSE IF e.type \in {"buffer_start", "buffer_end"}
                            THEN e.type = "buffer_start" ELSE x.buffering)
    BY <1>3, <1>5, PlayerTells
  <1>10. \A s \in u.sample : /\ s.rate <= Max(Rates) /\ \A r \in u.sample : r = s
                             /\ s.at <= e.at /\ e.at - s.at <= b
                             /\ e.type \in Sampling => e.at - s.at <= 0
    <2>1. CASE e.type \in Sampling
      BY <1>0, <1>1, <1>4, <1>5, <1>9, <2>1
    <2>2. CASE e.type \notin Sampling
      BY <1>2, <1>4, <1>5, <1>9, <2>2
    <2> QED
      BY <2>1, <2>2
  <1>11. IsFiniteSet(u.credited)
    <2>1. IsFiniteSet(v.credited \cup I)
      BY <1>8, FS_Union DEF Fit
    <2> QED
      BY <1>6, <1>9, <2>1
  <1>12. Fit(u, e.at, b) /\ (e.type \in Sampling => Fit(u, e.at, 0))
    <2>1. u.rate <= Max(Rates)
      BY <1>1, <1>4, <1>5, <1>9
    <2>2. e.at \in u.last /\ u.last = {e.at} /\ e.at <= e.at
      BY <1>0, <1>9
    <2> QED
      BY <1>0, <1>9, <1>10, <1>11, <2>1, <2>2 DEF Fit
  <1>13. u.sample \subseteq x.sample /\ (e.type = "seek" => u.sample = {})
    BY <1>9
  <1>14. e.type \in Sampling => e.type # "seek"
    BY DEF Sampling
  <1> QED
    BY <1>5, <1>6, <1>7, <1>9, <1>12, <1>13, <1>14 DEF u, Turned

\* Skips that no event has told of yet: between the sample and what the page knows, and between
\* that and where the player is.
Debt(v, known, position) ==
    (IF \E s \in v.sample : s.position # known THEN 1 ELSE 0) + (IF known # position THEN 1 ELSE 0)

\* Every skip pays for one way, those that no event has told of do later.
Paid(v, played, known, position, skips) ==
    2 * Cardinality(v.credited \ played) + Debt(v, known, position) * Tolerance <= skips * Tolerance

\* At most two skips are untold at once.
LEMMA DebtIs == ASSUME NEW v, NEW known, NEW position PROVE Debt(v, known, position) \in 0..2
  BY DEF Debt

\* What a way adds to the credit of what was not played is at most its length.
LEMMA WayAdds ==
    ASSUME NEW C, NEW P, NEW Q, NEW I, IsFiniteSet(C), P \subseteq Q,
           NEW a \in Nat, NEW b \in Nat, a <= b, I = (a + 1)..b
    PROVE  /\ Cardinality((C \cup I) \ Q) \in Nat /\ Cardinality(C \ P) \in Nat
           /\ Cardinality((C \cup I) \ Q) <= Cardinality(C \ P) + (b - a)
           /\ I \subseteq Q => Cardinality((C \cup I) \ Q) <= Cardinality(C \ P)
  <1>1. IsFiniteSet(C \ P) /\ Cardinality(C \ P) \in Nat
    BY FS_Difference, FS_CardinalityType
  <1>2. IsFiniteSet(I) /\ Cardinality(I) = b - a
    <2>1. a + 1 \in Int /\ b \in Int
      OBVIOUS
    <2>2. IsFiniteSet(I) /\ Cardinality(I) = IF a + 1 > b THEN 0 ELSE b - (a + 1) + 1
      BY <2>1, FS_Interval
    <2> QED
      BY <2>2
  <1>3. /\ IsFiniteSet((C \ P) \cup I)
        /\ Cardinality((C \ P) \cup I) = Cardinality(C \ P) + Cardinality(I) - Cardinality((C \ P) \cap I)
        /\ Cardinality((C \ P) \cup I) \in Nat
    BY <1>1, <1>2, FS_Union, FS_CardinalityType
  <1>4. Cardinality((C \ P) \cap I) \in Nat
    BY <1>1, FS_Intersection, FS_CardinalityType
  <1>5. (C \cup I) \ Q \subseteq (C \ P) \cup I
    OBVIOUS
  <1>6. Cardinality((C \cup I) \ Q) \in Nat /\ Cardinality((C \cup I) \ Q) <= Cardinality((C \ P) \cup I)
    BY <1>3, <1>5, FS_Subset, FS_CardinalityType
  <1>7. ASSUME I \subseteq Q PROVE Cardinality((C \cup I) \ Q) <= Cardinality(C \ P)
    <2>1. (C \cup I) \ Q \subseteq C \ P
      BY <1>7
    <2> QED
      BY <1>1, <2>1, FS_Subset
  <1> QED
    BY <1>1, <1>2, <1>3, <1>4, <1>6, <1>7

\* What was paid stays paid when more was played.
LEMMA MorePlayed ==
    ASSUME NEW C, NEW P, NEW Q, IsFiniteSet(C), P \subseteq Q
    PROVE  /\ Cardinality(C \ Q) \in Nat /\ Cardinality(C \ P) \in Nat
           /\ Cardinality(C \ Q) <= Cardinality(C \ P)
  <1>1. IsFiniteSet(C \ P)
    BY FS_Difference
  <1>2. C \ Q \subseteq C \ P
    OBVIOUS
  <1> QED
    BY <1>1, <1>2, FS_Subset, FS_CardinalityType

\* An event that takes no sample leaves every debt, also when the page learns the position.
LEMMA QuietPays ==
    ASSUME NEW v, NEW u, NEW P, NEW Q, NEW known, NEW position, NEW now, NEW skips \in Nat,
           IsFiniteSet(v.credited), P \subseteq Q, u.credited = v.credited, u.sample \subseteq v.sample,
           now \in {known, position}, Paid(v, P, known, position, skips)
    PROVE  Paid(u, Q, now, position, skips)
  <1>1. Debt(u, now, position) <= Debt(v, known, position)
    BY DEF Debt
  <1>2. /\ Cardinality(u.credited \ Q) \in Nat /\ Cardinality(v.credited \ P) \in Nat
        /\ Cardinality(u.credited \ Q) <= Cardinality(v.credited \ P)
    BY MorePlayed
  <1>3. Debt(u, now, position) \in Nat /\ Debt(v, known, position) \in Nat /\ Tolerance \in Nat
    BY DebtIs, ToleranceIs
  <1>4. /\ Debt(u, now, position) * Tolerance <= Debt(v, known, position) * Tolerance
        /\ Debt(u, now, position) * Tolerance \in Nat /\ Debt(v, known, position) * Tolerance \in Nat
        /\ skips * Tolerance \in Nat
    BY <1>1, <1>3, ProductGrows
  <1> QED
    BY <1>2, <1>4 DEF Paid

\* A sample at n credits the way to n, and pays for it if that was not played.
LEMMA SamplePays ==
    ASSUME NEW v, NEW u, NEW P, NEW Q, NEW known \in Nat, NEW position \in Nat, NEW n \in Nat,
           NEW learned \in Nat, NEW now \in Nat, NEW skips \in Nat, NEW I, NEW q \in Samples,
           v \in Playbacks, IsFiniteSet(v.credited), P \subseteq Q,
           \A s, r \in v.sample : s = r,
           Paid(v, P, known, position, skips),
           Way(v, n, I), u.credited = v.credited \cup I, u.sample = {q}, q.position = n,
           \/ n = known /\ learned = known /\ now = position
           \/ n = learned /\ n = now /\ (I # {} => (position + 1)..n \subseteq Q)
    PROVE  Paid(u, Q, learned, now, skips)
  <1> DEFINE c == Cardinality(v.credited \ P)
             d == Cardinality(u.credited \ Q)
             D == Debt(v, known, position)
             E == Debt(u, learned, now)
  <1>1. Tolerance \in Nat /\ D \in Nat /\ E \in Nat /\ c \in Nat /\ d \in Nat
    <2>1. Tolerance \in Nat /\ D \in Nat /\ E \in Nat
      BY DebtIs, ToleranceIs
    <2>2. IsFiniteSet(v.credited \ P)
      BY FS_Difference
    <2>3. IsFiniteSet(I)
      <3>1. CASE I = {}
        BY <3>1, FS_EmptySet
      <3>2. CASE I # {}
        <4>1. PICK s \in v.sample : I = (s.position + 1)..n
          BY <3>2 DEF Way
        <4>2. s.position + 1 \in Int
          BY <4>1 DEF Playbacks, Samples
        <4>3. n \in Int
          OBVIOUS
        <4>4. IsFiniteSet((s.position + 1)..n)
          BY ONLY <4>2, <4>3, FS_Interval
        <4> QED
          BY <4>1, <4>4
      <3> QED
        BY <3>1, <3>2
    <2>4. IsFiniteSet(v.credited \cup I)
      BY <2>3, FS_Union
    <2>5. IsFiniteSet(u.credited \ Q)
      BY <2>4, FS_Difference
    <2> QED
      BY <2>1, <2>2, <2>5, FS_CardinalityType
  <1>2. E <= D
    BY DEF Debt
  <1>3. \/ d <= c
        \/ E < D /\ 2 * d <= 2 * c + Tolerance
    <2>1. CASE I = {}
      <3>1. u.credited = v.credited
        BY <2>1
      <3> QED
        BY <3>1, MorePlayed
    <2>2. CASE I # {}
      <3>1. PICK s \in v.sample : /\ I = (s.position + 1)..n /\ s.position <= n
                                  /\ 2 * (n - s.position) <= Tolerance
        BY <2>2 DEF Way
      <3>2. s.position \in Nat
        BY DEF Playbacks, Samples
      <3>3. /\ d <= c + (n - s.position)
            /\ I \subseteq Q => d <= c
        BY <3>1, <3>2, WayAdds
      <3>4. s.position # n
        BY <2>2, <3>1, <3>2
      <3>5. E < D \/ I \subseteq Q
        <4>1. CASE n = known /\ learned = known /\ now = position
          BY <3>4, <4>1 DEF Debt
        <4>2. CASE n = learned /\ n = now /\ (I # {} => (position + 1)..n \subseteq Q)
          <5>1. E = 0
            BY <4>2 DEF Debt
          <5>2. D = 0 => s.position = position
            BY DEF Debt
          <5> QED
            BY <1>1, <2>2, <3>1, <4>2, <5>1, <5>2
        <4> QED
          BY <4>1, <4>2
      <3>6. CASE I \subseteq Q
        BY <3>3, <3>6
      <3>7. CASE E < D
        <4>1. ASSUME NEW x \in Nat, NEW y \in Nat, NEW z \in Nat, z <= n, x <= y + (n - z),
                     2 * (n - z) <= Tolerance
              PROVE  2 * x <= 2 * y + Tolerance
          BY <1>1, <4>1
        <4>2. 2 * d <= 2 * c + Tolerance
          BY <1>1, <3>1, <3>2, <3>3, <4>1
        <4> QED
          BY <3>7, <4>2
      <3> QED
        BY <3>5, <3>6, <3>7
    <2> QED
      BY <2>1, <2>2
  <1>4. 2 * c + D * Tolerance <= skips * Tolerance /\ skips * Tolerance \in Nat
    BY <1>1 DEF Paid
  <1> HIDE DEF c, d, D, E
  <1>5. CASE d <= c
    <2>1. E * Tolerance <= D * Tolerance /\ E * Tolerance \in Nat /\ D * Tolerance \in Nat
      BY <1>1, <1>2, ProductGrows
    <2>2. 2 * d + E * Tolerance <= skips * Tolerance
      BY <1>1, <1>4, <1>5, <2>1
    <2> QED
      BY <2>2 DEF Paid, d, E
  <1>6. CASE E < D /\ 2 * d <= 2 * c + Tolerance
    <2>1. (E + 1) * Tolerance <= D * Tolerance /\ E * Tolerance \in Nat /\ D * Tolerance \in Nat
      BY <1>1, <1>6, ProductGrows
    <2>2. (E + 1) * Tolerance = E * Tolerance + Tolerance
      BY <1>1
    <2>3. 2 * d + E * Tolerance <= skips * Tolerance
      BY <1>1, <1>4, <1>6, <2>1, <2>2
    <2> QED
      BY <2>3 DEF Paid, d, E
  <1> QED
    BY <1>3, <1>5, <1>6

\* The loop of the presence knows the page as it is, and will credit at most what happened.
Shows(i, w, tr) ==
    /\ i.opened /\ i.visible = w.visible /\ i.focused = w.focused /\ i.interaction = w.touched
    /\ \E l \in i.last : i.last = {l} /\ l <= w.clock /\ Owed(i, l, w.clock, tr)

PresenceStands ==
    /\ presence \in Presences /\ Within(presence, truth)
    /\ world.connected => Shows(presence, world, truth)
    /\ ~world.connected /\ world.clock = 0 => presence.last = {} /\ presence.interaction = world.touched

\* The loop of the playback knows the player as it is, its sample is of the last heartbeat
\* interval, and what it credited beyond what was played is paid for.
PlaybackStands ==
    /\ playback \in Playbacks /\ IsFiniteSet(playback.credited)
    /\ Paid(playback, truth.played, world.known, world.position, truth.skips)
    /\ (playback.playing /\ ~playback.buffering) <=> world.player = "playing"
    /\ world.connected => playback.visible = world.visible
    /\ world.connected \/ world.clock = 0 => Fit(playback, world.clock, world.clock % HeartbeatSeconds)

CreditInv ==
    /\ world \in Worlds /\ truth \in Truths /\ world.rate <= Max(Rates)
    /\ PresenceStands /\ PlaybackStands

\* What one turn of the loop makes of i with the event e: j.
Told(i, j, e, tr) ==
    /\ j \in Presences /\ Within(j, tr) /\ j.last = {e.at} /\ Owed(j, e.at, e.at, tr)
    /\ e.type # "disconnect" =>
         /\ j.opened
         /\ j.visible = IF e.type \in {"visible", "hidden"} THEN e.type = "visible" ELSE i.visible
         /\ j.focused = IF e.type \in {"focus", "blur"} THEN e.type = "focus" ELSE i.focused
         /\ j.interaction = IF e.type = "interaction" THEN {e.at} ELSE i.interaction

\* One turn of the loop, in an open session.
LEMMA PresenceTurn ==
    ASSUME NEW i \in Presences, NEW tr \in Truths, NEW e \in Events, NEW l \in Nat, l <= e.at,
           i.last = {l}, i.opened, Within(i, tr), Owed(i, l, e.at, tr)
    PROVE  Told(i, calculateActivityInteractionSummary(i, e), e, tr)
  <1> DEFINE x == InteractionTime(i, e.at)
             j == calculateActivityInteractionSummary(i, e)
  <1>0. e.at \in Nat
    BY DEF Events
  <1>1. /\ x \in Presences /\ Within(x, tr)
        /\ x.last = i.last /\ x.opened = i.opened /\ x.visible = i.visible /\ x.focused = i.focused
        /\ x.interaction = i.interaction
    BY <1>0, TimeCredits
  <1>2. j = [InteractionType(x, e) EXCEPT !.last = {e.at}]
    BY DEF calculateActivityInteractionSummary
  <1> HIDE DEF x, j
  <1>3. /\ j \in Presences /\ j.last = {e.at}
        /\ j.open = x.open /\ j.foreground = x.foreground /\ j.engaged = x.engaged
        /\ e.type # "disconnect" =>
             /\ j.opened = (e.type = "presented" \/ x.opened)
             /\ j.visible = IF e.type \in {"visible", "hidden"} THEN e.type = "visible" ELSE x.visible
             /\ j.focused = IF e.type \in {"focus", "blur"} THEN e.type = "focus" ELSE x.focused
             /\ j.interaction = IF e.type = "interaction" THEN {e.at} ELSE x.interaction
    BY <1>1, <1>2, EventTells
  <1>4. Within(j, tr)
    BY <1>1, <1>3 DEF Within
  <1>5. Owed(j, e.at, e.at, tr)
    BY <1>0, <1>3, <1>4 DEF Owed, Within, Presences, Truths
  <1> QED
    BY <1>1, <1>3, <1>4, <1>5 DEF j, Told

\* An event of the page or the player.
LEMMA EventTyped ==
    ASSUME NEW w \in Worlds, NEW type \in EventTypes, NEW position \in Nat
    PROVE  LET e == Event(w, type, position) IN
           /\ e \in Events /\ e.at = w.clock /\ e.type = type /\ e.position = position /\ e.rate = w.rate
  BY DEF Event, Events, Worlds

\* What one event changes in both loops.
LEMMA EmitOne ==
    ASSUME NEW w, NEW type, Emit(w, <<type>>)
    PROVE  /\ presence' = calculateActivityInteractionSummary(presence, Event(w, type, w.known))
           /\ playback' = calculateMediaSummary(playback, Event(w, type, w.known))
  <1>1. DOMAIN <<type>> # 1..3 /\ <<type>>[1] = type
    OBVIOUS
  <1> QED
    BY <1>1 DEF Emit

\* The numbers of a page are naturals.
LEMMA KnownIs == ASSUME NEW w \in Worlds
                 PROVE  w.known \in Nat /\ w.position \in Nat /\ w.clock \in Nat /\ w.rate \in Nat \ {0}
  BY CreditAssumption DEF Worlds

\* A remainder of the clock is less than a heartbeat.
LEMMA PhaseIs ==
    ASSUME NEW t \in Nat
    PROVE  /\ t % HeartbeatSeconds \in Nat /\ t % HeartbeatSeconds <= HeartbeatSeconds
           /\ (t % HeartbeatSeconds) + 1 <= HeartbeatSeconds
           /\ (t + 1) % HeartbeatSeconds # 0 =>
                 (t + 1) % HeartbeatSeconds = (t % HeartbeatSeconds) + 1
  <1>1. HeartbeatSeconds \in Nat \ {0}
    BY CreditAssumption DEF activityInteractionPolicy
  <1>2. /\ t % HeartbeatSeconds \in Nat /\ t % HeartbeatSeconds < HeartbeatSeconds
        /\ (t + 1) % HeartbeatSeconds # 0 =>
              (t + 1) % HeartbeatSeconds = (t % HeartbeatSeconds) + 1
    BY <1>1, RemainderCounts
  <1>3. ASSUME NEW a \in Nat, NEW h \in Nat, a < h PROVE a <= h /\ a + 1 <= h
    BY <1>3
  <1> QED
    BY <1>1, <1>2, <1>3

PageTypes == {"visible", "hidden", "focus", "blur", "interaction"}

\* The page reports a change of itself.
LEMMA PageReports ==
    ASSUME CreditInv, world.connected, NEW type \in PageTypes, Emit(world', <<type>>),
           truth' = truth, world' \in Worlds, world'.connected,
           world'.clock = world.clock, world'.known = world.known, world'.position = world.position,
           world'.rate = world.rate, world'.player = world.player,
           world'.visible = (IF type \in {"visible", "hidden"} THEN type = "visible" ELSE world.visible),
           world'.focused = (IF type \in {"focus", "blur"} THEN type = "focus" ELSE world.focused),
           world'.touched = (IF type = "interaction" THEN {world.clock} ELSE world.touched)
    PROVE  CreditInv'
  <1> DEFINE e == Event(world', type, world'.known)
  <1>1. /\ world.clock \in Nat /\ world'.known \in Nat /\ truth \in Truths
        /\ world.known \in Nat /\ world.position \in Nat
    BY KnownIs DEF CreditInv
  <1>2. /\ e \in Events /\ e.at = world.clock /\ e.type = type /\ e.position = world.known
        /\ e.rate = world.rate
    <2>1. type \in EventTypes
      BY DEF PageTypes, EventTypes
    <2> QED
      BY <1>1, <2>1, EventTyped
  <1>3. /\ presence' = calculateActivityInteractionSummary(presence, e)
        /\ playback' = calculateMediaSummary(playback, e)
    BY EmitOne
  <1> HIDE DEF e
  <1>4. PresenceStands'
    <2>1. PICK l \in presence.last : presence.last = {l} /\ l <= world.clock /\ Owed(presence, l, world.clock, truth)
      BY DEF CreditInv, PresenceStands, Shows
    <2>2. l \in Nat /\ presence \in Presences /\ presence.opened /\ Within(presence, truth)
      BY <2>1 DEF CreditInv, PresenceStands, Shows, Presences
    <2>3. /\ presence' \in Presences /\ Within(presence', truth) /\ presence'.last = {world.clock}
          /\ Owed(presence', world.clock, world.clock, truth) /\ presence'.opened
          /\ presence'.visible = IF type \in {"visible", "hidden"} THEN type = "visible" ELSE presence.visible
          /\ presence'.focused = IF type \in {"focus", "blur"} THEN type = "focus" ELSE presence.focused
          /\ presence'.interaction = IF type = "interaction" THEN {world.clock} ELSE presence.interaction
      <3>1. l <= e.at /\ Owed(presence, l, e.at, truth)
        BY <1>2, <2>1
      <3>2. Told(presence, presence', e, truth)
        BY <1>1, <1>2, <1>3, <2>1, <2>2, <3>1, PresenceTurn
      <3>3. e.type # "disconnect"
        BY <1>2 DEF PageTypes
      <3> QED
        BY <1>2, <3>2, <3>3 DEF Told
    <2>4. presence.visible = world.visible /\ presence.focused = world.focused /\ presence.interaction = world.touched
      BY DEF CreditInv, PresenceStands, Shows
    <2>5. Shows(presence', world', truth')
      BY <1>1, <2>3, <2>4 DEF Shows
    <2> QED
      BY <2>3, <2>5 DEF PresenceStands
  <1>5. PlaybackStands'
    <2> DEFINE b == world.clock % HeartbeatSeconds
    <2>1. b \in Nat /\ b <= HeartbeatSeconds /\ Fit(playback, world.clock, b) /\ world.rate <= Max(Rates)
      BY <1>1, PhaseIs DEF CreditInv, PlaybackStands
    <2>2. type \notin Sampling /\ type \notin {"seek", "play", "pause", "ended", "buffer_start", "buffer_end", "rate"}
      BY DEF PageTypes, Sampling
    <2> HIDE DEF b
    <2>3. /\ Fit(playback', world.clock, b) /\ playback'.credited = playback.credited
          /\ playback'.sample \subseteq playback.sample
          /\ playback'.visible = (IF type \in {"visible", "hidden"} THEN type = "visible" ELSE playback.visible)
          /\ playback'.playing = playback.playing /\ playback'.buffering = playback.buffering
      <3>1. Fit(playback, e.at, b) /\ e.rate <= Max(Rates)
        BY <1>2, <2>1
      <3>2. Turned(playback, playback', e, b)
        BY <1>2, <1>3, <2>1, <3>1, MediaEvent
      <3> QED
        BY <1>2, <2>2, <3>2 DEF Turned
    <2>4. Paid(playback', truth.played, world.known, world.position, truth.skips)
      BY <1>1, <2>3, QuietPays DEF CreditInv, PlaybackStands, Truths
    <2>5. playback' \in Playbacks /\ IsFiniteSet(playback'.credited)
      BY <2>3 DEF Fit
    <2> QED
      BY <2>3, <2>4, <2>5 DEF PlaybackStands, CreditInv, b
  <1> QED
    BY <1>4, <1>5 DEF CreditInv

\* The page's own reports keep the invariant.
LEMMA ReportsKeep ==
    ASSUME CreditInv, reportVisibility \/ reportFocus \/ interact
    PROVE  CreditInv'
  <1>0. world \in Worlds /\ world.acts + 1 \in Nat /\ world.clock \in Nat
    BY DEF CreditInv, Worlds
  <1>1. CASE reportVisibility
    <2>1. /\ world.connected /\ truth' = truth
          /\ world' = [world EXCEPT !.acts = @ + 1, !.visible = ~@]
      BY <1>1 DEF reportVisibility, UserAct, Acted
    <2>2. PICK type : type = IF world'.visible THEN "visible" ELSE "hidden"
      OBVIOUS
    <2>3. Emit(world', <<type>>)
      BY <1>1, <2>2 DEF reportVisibility
    <2>4. /\ world' \in Worlds /\ world'.connected
          /\ world'.clock = world.clock /\ world'.known = world.known /\ world'.position = world.position
          /\ world'.rate = world.rate /\ world'.player = world.player
          /\ world'.focused = world.focused /\ world'.touched = world.touched
      BY <1>0, <2>1 DEF Worlds
    <2>5. type \in {"visible", "hidden"} /\ (type = "visible") = world'.visible
      BY <2>2, <2>4 DEF Worlds
    <2>6. type \in PageTypes /\ type \notin {"focus", "blur"} /\ type # "interaction"
      BY <2>5 DEF PageTypes
    <2> QED
      BY <2>1, <2>3, <2>4, <2>5, <2>6, PageReports
  <1>2. CASE reportFocus
    <2>1. /\ world.connected /\ truth' = truth
          /\ world' = [world EXCEPT !.acts = @ + 1, !.focused = ~@]
      BY <1>2 DEF reportFocus, UserAct, Acted
    <2>2. PICK type : type = IF world'.focused THEN "focus" ELSE "blur"
      OBVIOUS
    <2>3. Emit(world', <<type>>)
      BY <1>2, <2>2 DEF reportFocus
    <2>4. /\ world' \in Worlds /\ world'.connected
          /\ world'.clock = world.clock /\ world'.known = world.known /\ world'.position = world.position
          /\ world'.rate = world.rate /\ world'.player = world.player
          /\ world'.visible = world.visible /\ world'.touched = world.touched
      BY <1>0, <2>1 DEF Worlds
    <2>5. type \in {"focus", "blur"} /\ (type = "focus") = world'.focused
      BY <2>2, <2>4 DEF Worlds
    <2>6. type \in PageTypes /\ type \notin {"visible", "hidden"} /\ type # "interaction"
      BY <2>5 DEF PageTypes
    <2> QED
      BY <2>1, <2>3, <2>4, <2>5, <2>6, PageReports
  <1>3. CASE interact
    <2>1. /\ world.connected /\ truth' = truth /\ Emit(world', <<"interaction">>)
          /\ world' = [world EXCEPT !.acts = @ + 1, !.touched = {world.clock}]
      BY <1>3 DEF interact, UserAct, Acted
    <2>2. /\ world' \in Worlds /\ world'.connected
          /\ world'.clock = world.clock /\ world'.known = world.known /\ world'.position = world.position
          /\ world'.rate = world.rate /\ world'.player = world.player
          /\ world'.visible = world.visible /\ world'.focused = world.focused
          /\ world'.touched = {world.clock}
      BY <1>0, <2>1 DEF Worlds
    <2>3. "interaction" \in PageTypes
      BY DEF PageTypes
    <2> QED
      BY <2>1, <2>2, <2>3, PageReports
  <1> QED
    BY <1>1, <1>2, <1>3

\* Nothing of the presence moves while its page stays as it is.
LEMMA PresenceKept ==
    ASSUME CreditInv, presence' = presence, world.connected, world'.connected,
           truth'.open = truth.open, truth'.asleep = truth.asleep,
           truth'.foreground = truth.foreground, truth'.engaged = truth.engaged,
           world'.clock = world.clock, world'.visible = world.visible,
           world'.focused = world.focused, world'.touched = world.touched
    PROVE  PresenceStands'
  <1>1. Within(presence', truth')
    BY DEF CreditInv, PresenceStands, Within
  <1>2. Shows(presence', world', truth')
    BY DEF CreditInv, PresenceStands, Shows, Owed, Busy
  <1> QED
    BY <1>1, <1>2 DEF CreditInv, PresenceStands

\* The player changes its state; a pause takes a sample.
LEMMA PlayerKeeps ==
    ASSUME CreditInv,
           NEW s \in {<<"playing", "play">>, <<"paused", "pause">>, <<"buffering", "buffer_start">>},
           onStateChange(s[1], s[2])
    PROVE  CreditInv'
  <1> DEFINE state == s[1]
             type == s[2]
             e == Event(world', type, world.position)
             b == world.clock % HeartbeatSeconds
  <1>1. /\ \/ state = "playing" /\ type = "play"
           \/ state = "paused" /\ type = "pause"
           \/ state = "buffering" /\ type = "buffer_start"
        /\ type \in EventTypes /\ state \in {"playing", "paused", "buffering"}
    BY DEF EventTypes
  <1>2. /\ world.connected /\ truth' = truth /\ presence' = presence
        /\ playback' = calculateMediaSummary(playback, e)
        /\ state = "buffering" => world.player = "playing"
        /\ world' = [world EXCEPT !.acts = @ + 1, !.player = state, !.known = world.position,
                    !.prior = IF state = "playing"
                              THEN {[at |-> world.clock, position |-> world.position]} ELSE @]
    BY DEF onStateChange, UserAct, Acted, EmitPlayer
  <1>3. world.clock \in Nat /\ world.position \in Nat /\ world.known \in Nat /\ world \in Worlds
    BY KnownIs DEF CreditInv
  <1> HIDE DEF state, type
  <1>4. /\ world' \in Worlds /\ world'.connected /\ world'.clock = world.clock
        /\ world'.known = world.position /\ world'.position = world.position
        /\ world'.rate = world.rate /\ world'.player = state /\ world'.visible = world.visible
        /\ world'.focused = world.focused /\ world'.touched = world.touched
    <2>1. {[at |-> world.clock, position |-> world.position]} \in SUBSET [at : Nat, position : Nat]
      BY <1>3
    <2>2. world.acts + 1 \in Nat
      BY <1>3 DEF Worlds
    <2>3. \/ world' = [world EXCEPT !.acts = world.acts + 1, !.player = state, !.known = world.position,
                         !.prior = {[at |-> world.clock, position |-> world.position]}]
          \/ world' = [world EXCEPT !.acts = world.acts + 1, !.player = state, !.known = world.position]
      BY <1>2, <1>3 DEF Worlds
    <2>4. state \in {"playing", "paused", "buffering", "ended"} /\ world.position \in 0..MaxPosition
      BY <1>1, <1>3 DEF Worlds
    <2> QED
      BY <1>2, <1>3, <2>1, <2>2, <2>3, <2>4 DEF Worlds
  <1>5. /\ e \in Events /\ e.at = world.clock /\ e.type = type /\ e.position = world.position
        /\ e.rate = world.rate
    BY <1>1, <1>3, <1>4, EventTyped
  <1>6. b \in Nat /\ b <= HeartbeatSeconds /\ Fit(playback, world.clock, b) /\ world.rate <= Max(Rates)
    BY <1>2, <1>3, PhaseIs DEF CreditInv, PlaybackStands
  <1>7. PresenceStands'
    BY <1>2, <1>4, PresenceKept
  <1> HIDE DEF e, b
  <1>8. /\ Fit(playback', world.clock, b)
        /\ type \in Sampling =>
              playback'.sample = {[at |-> world.clock, position |-> world.position, rate |-> playback.rate]}
        /\ type \notin Sampling => playback'.credited = playback.credited /\ playback'.sample \subseteq playback.sample
        /\ \E I : Way(playback, world.position, I) /\ playback'.credited = playback.credited \cup I
        /\ playback'.visible = (IF type \in {"visible", "hidden"} THEN type = "visible" ELSE playback.visible)
        /\ playback'.playing = (IF type = "play" THEN TRUE
                          ELSE IF type \in {"pause", "ended"} THEN FALSE ELSE playback.playing)
        /\ playback'.buffering = (IF type = "play" THEN FALSE
                            ELSE IF type \in {"buffer_start", "buffer_end"}
                            THEN type = "buffer_start" ELSE playback.buffering)
    <2>1. Fit(playback, e.at, b) /\ e.rate <= Max(Rates)
      BY <1>5, <1>6
    <2>2. Turned(playback, playback', e, b)
      BY <1>2, <1>5, <1>6, <2>1, MediaEvent
    <2> QED
      BY <1>5, <2>2 DEF Turned
  <1>9. /\ playback \in Playbacks /\ IsFiniteSet(playback.credited) /\ truth.skips \in Nat
        /\ Paid(playback, truth.played, world.known, world.position, truth.skips)
        /\ \A p, q \in playback.sample : p = q
    BY <1>6 DEF CreditInv, PlaybackStands, Truths, Fit
  <1>10. Paid(playback', truth.played, world.position, world.position, truth.skips)
    <2>1. CASE type = "pause"
      <3> DEFINE q == [at |-> world.clock, position |-> world.position, rate |-> playback.rate]
      <3>1. q \in Samples /\ q.position = world.position
        BY <1>3, <1>9 DEF Samples, Playbacks
      <3>2. playback'.sample = {q}
        BY <1>8, <2>1 DEF Sampling
      <3>3. PICK I : Way(playback, world.position, I) /\ playback'.credited = playback.credited \cup I
        BY <1>8
      <3>4. (world.position + 1)..world.position = {}
        BY <1>3
      <3> HIDE DEF q
      <3> QED
        BY <1>3, <1>9, <3>1, <3>2, <3>3, <3>4, SamplePays
    <2>2. CASE type # "pause"
      <3>1. playback'.credited = playback.credited /\ playback'.sample \subseteq playback.sample
        BY <1>1, <1>8, <2>2 DEF Sampling
      <3> QED
        BY <1>3, <1>9, <3>1, QuietPays
    <2> QED
      BY <2>1, <2>2
  <1>11. (playback'.playing /\ ~playback'.buffering) <=> world'.player = "playing"
    <2>1. CASE state = "playing" /\ type = "play"
      BY <1>4, <1>8, <2>1
    <2>2. CASE state = "paused" /\ type = "pause"
      BY <1>4, <1>8, <2>2
    <2>3. CASE state = "buffering" /\ type = "buffer_start"
      BY <1>4, <1>8, <2>3
    <2> QED
      BY <1>1, <2>1, <2>2, <2>3
  <1>12. playback'.visible = world'.visible
    BY <1>1, <1>2, <1>4, <1>8 DEF CreditInv, PlaybackStands
  <1>13. playback' \in Playbacks /\ IsFiniteSet(playback'.credited)
    BY <1>8 DEF Fit
  <1>14. PlaybackStands'
    BY <1>2, <1>4, <1>8, <1>10, <1>11, <1>12, <1>13 DEF PlaybackStands, b
  <1> QED
    BY <1>2, <1>4, <1>6, <1>7, <1>14 DEF CreditInv

\* A change of the playback rate is told at once and samples nothing.
LEMMA RateKeeps ==
    ASSUME CreditInv, NEW rate \in Rates, onPlaybackRateChange(rate)
    PROVE  CreditInv'
  <1> DEFINE e == Event(world', "rate", world.position)
             b == world.clock % HeartbeatSeconds
  <1>1. /\ world.connected /\ truth' = truth /\ presence' = presence
        /\ playback' = calculateMediaSummary(playback, e)
        /\ world' = [world EXCEPT !.acts = @ + 1, !.rate = rate]
    BY DEF onPlaybackRateChange, UserAct, Acted, EmitPlayer
  <1>2. world.clock \in Nat /\ world.position \in Nat /\ world.known \in Nat /\ world \in Worlds
    BY KnownIs DEF CreditInv
  <1>3. rate \in Nat \ {0} /\ rate <= Max(Rates)
    BY FastestIs, CreditAssumption
  <1>4. /\ world' \in Worlds /\ world'.connected /\ world'.clock = world.clock
        /\ world'.known = world.known /\ world'.position = world.position
        /\ world'.rate = rate /\ world'.player = world.player /\ world'.visible = world.visible
        /\ world'.focused = world.focused /\ world'.touched = world.touched
    <2>1. world' = [world EXCEPT !.acts = world.acts + 1, !.rate = rate] /\ world.acts + 1 \in Nat
      BY <1>1, <1>2 DEF Worlds
    <2> QED
      BY <1>1, <1>2, <1>3, <2>1 DEF Worlds
  <1>5. e \in Events /\ e.at = world.clock /\ e.type = "rate" /\ e.rate = rate
    <2>1. "rate" \in EventTypes
      BY DEF EventTypes
    <2> QED
      BY <1>2, <1>4, <2>1, EventTyped
  <1>6. b \in Nat /\ b <= HeartbeatSeconds /\ Fit(playback, world.clock, b)
    BY <1>1, <1>2, PhaseIs DEF CreditInv, PlaybackStands
  <1>7. PresenceStands'
    BY <1>1, <1>4, PresenceKept
  <1> HIDE DEF e, b
  <1>8. Turned(playback, playback', e, b)
    <2>1. Fit(playback, e.at, b) /\ e.rate <= Max(Rates)
      BY <1>3, <1>5, <1>6
    <2> QED
      BY <1>1, <1>5, <1>6, <2>1, MediaEvent
  <1>9. /\ Fit(playback', world.clock, b) /\ playback'.credited = playback.credited
        /\ playback'.sample \subseteq playback.sample /\ playback'.visible = playback.visible
        /\ playback'.playing = playback.playing /\ playback'.buffering = playback.buffering
    BY <1>5, <1>8 DEF Turned, Sampling
  <1>10. Paid(playback', truth.played, world.known, world.position, truth.skips)
    BY <1>2, <1>9, QuietPays DEF CreditInv, PlaybackStands, Truths
  <1>11. playback' \in Playbacks /\ IsFiniteSet(playback'.credited)
    BY <1>9 DEF Fit
  <1>12. PlaybackStands'
    BY <1>1, <1>4, <1>9, <1>10, <1>11 DEF CreditInv, PlaybackStands, b
  <1> QED
    BY <1>1, <1>3, <1>4, <1>7, <1>12 DEF CreditInv

\* A skip pays for what it may gain.
LEMMA SkipKeeps ==
    ASSUME CreditInv, NEW by \in Jumps, skip(by)
    PROVE  CreditInv'
  <1>1. /\ world.connected /\ world.position + by \in 0..MaxPosition
        /\ world' = [world EXCEPT !.acts = @ + 1, !.position = @ + by]
        /\ truth' = [truth EXCEPT !.skips = @ + 1]
        /\ presence' = presence /\ playback' = playback
    BY DEF skip, UserAct, Acted
  <1>2. world \in Worlds /\ truth \in Truths /\ truth.skips \in Nat
    BY DEF CreditInv, Truths
  <1>3. /\ world' \in Worlds /\ world'.connected /\ world'.clock = world.clock
        /\ world'.known = world.known /\ world'.position = world.position + by
        /\ world'.rate = world.rate /\ world'.player = world.player /\ world'.visible = world.visible
        /\ world'.focused = world.focused /\ world'.touched = world.touched
    <2>1. /\ world' = [world EXCEPT !.acts = world.acts + 1, !.position = world.position + by]
          /\ world.acts + 1 \in Nat
      BY <1>1, <1>2 DEF Worlds
    <2> QED
      BY <1>1, <1>2, <2>1 DEF Worlds
  <1>4. /\ truth' \in Truths /\ truth'.open = truth.open /\ truth'.asleep = truth.asleep
        /\ truth'.foreground = truth.foreground /\ truth'.engaged = truth.engaged
        /\ truth'.played = truth.played /\ truth'.skips = truth.skips + 1
    BY <1>1, <1>2 DEF Truths
  <1>5. PresenceStands'
    BY <1>1, <1>3, <1>4, PresenceKept
  <1>6. Paid(playback, truth.played, world.known, world.position + by, truth.skips + 1)
    <2> DEFINE D == Debt(playback, world.known, world.position)
               E == Debt(playback, world.known, world.position + by)
               c == Cardinality(playback.credited \ truth.played)
               n == truth.skips
    <2>1. 2 * c + D * Tolerance <= n * Tolerance
      BY DEF CreditInv, PlaybackStands, Paid
    <2>2. c \in Nat
      BY MorePlayed DEF CreditInv, PlaybackStands
    <2>3. D \in Nat /\ E \in Nat /\ Tolerance \in Nat /\ n \in Nat
      BY <1>2, DebtIs, ToleranceIs
    <2>4. E <= D + 1
      BY DEF Debt
    <2> HIDE DEF D, E, c, n
    <2>5. /\ E * Tolerance <= (D + 1) * Tolerance /\ E * Tolerance \in Nat /\ D * Tolerance \in Nat
          /\ n * Tolerance \in Nat
      BY <2>3, <2>4, ProductGrows
    <2>6. (D + 1) * Tolerance = D * Tolerance + Tolerance /\ (n + 1) * Tolerance = n * Tolerance + Tolerance
      BY <2>3
    <2>7. 2 * c + E * Tolerance <= (n + 1) * Tolerance
      BY <2>1, <2>2, <2>3, <2>5, <2>6
    <2> QED
      BY <2>7 DEF Paid, D, E, c, n
  <1>7. PlaybackStands'
    BY <1>1, <1>3, <1>4, <1>6 DEF CreditInv, PlaybackStands
  <1> QED
    BY <1>3, <1>4, <1>5, <1>7 DEF CreditInv

\* A suspended machine is silent for longer than is credited.
LEMMA SuspendKeeps ==
    ASSUME CreditInv, suspend
    PROVE  CreditInv'
  <1> DEFINE n == MaxCreditedGapSeconds + 1
  <1>0. n \in Nat /\ n > MaxCreditedGapSeconds /\ MaxCreditedGapSeconds \in Nat
    BY CreditAssumption
  <1>1. /\ world.connected /\ presence' = presence /\ playback' = playback
        /\ world' = [world EXCEPT !.acts = world.acts + 1, !.clock = world.clock + n]
        /\ truth' = [truth EXCEPT !.open = truth.open + n, !.asleep = truth.asleep + n]
    <2>1. /\ world.connected /\ presence' = presence /\ playback' = playback
          /\ world' = [world EXCEPT !.acts = world.acts + 1,
                                   !.clock = world.clock + MaxCreditedGapSeconds + 1]
          /\ truth' = [truth EXCEPT !.open = truth.open + MaxCreditedGapSeconds + 1,
                                   !.asleep = truth.asleep + MaxCreditedGapSeconds + 1]
      BY DEF suspend, UserAct, Acted, CreditInv, Worlds, Truths
    <2>2. /\ world.clock + MaxCreditedGapSeconds + 1 = world.clock + n
          /\ truth.open + MaxCreditedGapSeconds + 1 = truth.open + n
          /\ truth.asleep + MaxCreditedGapSeconds + 1 = truth.asleep + n
      BY <1>0 DEF CreditInv, Worlds, Truths
    <2> QED
      BY <2>1, <2>2
  <1> HIDE DEF n
  <1>2. /\ world \in Worlds /\ truth \in Truths /\ world.clock \in Nat /\ world.acts + 1 \in Nat
        /\ world.clock + n \in Nat /\ truth.open + n \in Nat /\ truth.asleep + n \in Nat
    BY <1>0 DEF CreditInv, Worlds, Truths
  <1>3. /\ world' \in Worlds /\ world'.connected /\ world'.clock = world.clock + n
        /\ world'.known = world.known /\ world'.position = world.position
        /\ world'.rate = world.rate /\ world'.player = world.player /\ world'.visible = world.visible
        /\ world'.focused = world.focused /\ world'.touched = world.touched
    BY <1>1, <1>2 DEF Worlds
  <1>4. /\ truth' \in Truths /\ truth'.open = truth.open + n /\ truth'.asleep = truth.asleep + n
        /\ truth'.foreground = truth.foreground /\ truth'.engaged = truth.engaged
        /\ truth'.played = truth.played /\ truth'.skips = truth.skips
    BY <1>1, <1>2 DEF Truths
  <1>5. PresenceStands'
    <2>1. PICK l \in presence.last : presence.last = {l} /\ l <= world.clock
      BY <1>1 DEF CreditInv, PresenceStands, Shows
    <2>2. l \in Nat
      BY <2>1 DEF CreditInv, PresenceStands, Presences
    <2>3. l <= world'.clock /\ ~(world'.clock - l <= MaxCreditedGapSeconds)
      BY <1>0, <1>2, <1>3, <2>1, <2>2
    <2>4. Shows(presence', world', truth')
      BY <1>1, <1>3, <2>1, <2>3 DEF CreditInv, PresenceStands, Shows, Owed
    <2>5. Within(presence', truth')
      BY <1>0, <1>1, <1>2, <1>4 DEF CreditInv, PresenceStands, Within, Truths
    <2> QED
      BY <1>1, <1>3, <2>4, <2>5 DEF CreditInv, PresenceStands
  <1>6. Fit(playback', world'.clock, world'.clock % HeartbeatSeconds)
    <2>1. Fit(playback, world.clock, world.clock % HeartbeatSeconds)
      BY <1>1 DEF CreditInv, PlaybackStands
    <2>2. CASE playback.last = {}
      BY <1>1, <2>1, <2>2 DEF Fit
    <2>3. CASE playback.last # {}
      <3>1. PICK l \in playback.last : playback.last = {l} /\ l <= world.clock
        BY <2>1, <2>3 DEF Fit
      <3>2. l \in Nat
        BY <2>1, <3>1 DEF Fit, Playbacks
      <3>3. l <= world'.clock /\ ~(world'.clock - l <= MaxCreditedGapSeconds)
        BY <1>0, <1>2, <1>3, <3>1, <3>2
      <3> QED
        BY <1>1, <2>1, <3>1, <3>3 DEF Fit
    <2> QED
      BY <2>2, <2>3
  <1>7. PlaybackStands'
    BY <1>1, <1>3, <1>4, <1>6 DEF CreditInv, PlaybackStands
  <1> QED
    BY <1>3, <1>4, <1>5, <1>7 DEF CreditInv

\* The farewell closes the session.
LEMMA LeaveKeeps ==
    ASSUME CreditInv, leave
    PROVE  CreditInv'
  <1> DEFINE e == Event(world, "disconnect", world.known)
             b == world.clock % HeartbeatSeconds
  <1>1. /\ world.connected /\ truth' = truth /\ Emit(world, <<"disconnect">>)
        /\ world' = [world EXCEPT !.connected = FALSE, !.clock = MaxSeconds]
    BY DEF leave
  <1>2. /\ world.clock \in Nat /\ world.position \in Nat /\ world.known \in Nat /\ world \in Worlds
        /\ truth \in Truths
    BY KnownIs DEF CreditInv
  <1>3. /\ world' \in Worlds /\ ~world'.connected /\ world'.clock # 0
        /\ world'.known = world.known /\ world'.position = world.position
        /\ world'.rate = world.rate /\ world'.player = world.player
    BY <1>1, <1>2, CreditAssumption DEF Worlds
  <1>4. /\ presence' = calculateActivityInteractionSummary(presence, e)
        /\ playback' = calculateMediaSummary(playback, e)
    BY <1>1, EmitOne
  <1>5. e \in Events /\ e.at = world.clock /\ e.type = "disconnect" /\ e.rate = world.rate
    <2>1. "disconnect" \in EventTypes
      BY DEF EventTypes
    <2> QED
      BY <1>2, <2>1, EventTyped
  <1> HIDE DEF e
  <1>6. PresenceStands'
    <2>1. PICK l \in presence.last : presence.last = {l} /\ l <= world.clock /\ Owed(presence, l, world.clock, truth)
      BY <1>1 DEF CreditInv, PresenceStands, Shows
    <2>2. l \in Nat /\ presence \in Presences /\ presence.opened /\ Within(presence, truth)
      BY <1>1, <2>1 DEF CreditInv, PresenceStands, Shows, Presences
    <2>3. presence' \in Presences /\ Within(presence', truth)
      <3>1. l <= e.at /\ Owed(presence, l, e.at, truth)
        BY <1>5, <2>1
      <3>2. Told(presence, presence', e, truth)
        BY <1>2, <1>4, <1>5, <2>1, <2>2, <3>1, PresenceTurn
      <3> QED
        BY <3>2 DEF Told
    <2> QED
      BY <1>1, <1>3, <2>3 DEF PresenceStands
  <1>7. b \in Nat /\ b <= HeartbeatSeconds /\ Fit(playback, world.clock, b) /\ world.rate <= Max(Rates)
    BY <1>1, <1>2, PhaseIs DEF CreditInv, PlaybackStands
  <1> HIDE DEF b
  <1>8. Turned(playback, playback', e, b)
    <2>1. Fit(playback, e.at, b) /\ e.rate <= Max(Rates)
      BY <1>5, <1>7
    <2> QED
      BY <1>4, <1>5, <1>7, <2>1, MediaEvent
  <1>9. /\ Fit(playback', world.clock, b) /\ playback'.credited = playback.credited
        /\ playback'.sample \subseteq playback.sample
        /\ playback'.playing = playback.playing /\ playback'.buffering = playback.buffering
    BY <1>5, <1>8 DEF Turned, Sampling
  <1>10. Paid(playback', truth.played, world.known, world.position, truth.skips)
    BY <1>2, <1>9, QuietPays DEF CreditInv, PlaybackStands, Truths
  <1>11. playback' \in Playbacks /\ IsFiniteSet(playback'.credited)
    BY <1>9 DEF Fit
  <1>12. PlaybackStands'
    BY <1>1, <1>3, <1>9, <1>10, <1>11 DEF CreditInv, PlaybackStands
  <1> QED
    BY <1>1, <1>2, <1>3, <1>6, <1>12 DEF CreditInv

\* The presence of a page that opens.
LEMMA PresentKeeps ==
    ASSUME CreditInv, NEW visible \in BOOLEAN, NEW focused \in BOOLEAN, present(visible, focused)
    PROVE  CreditInv'
  <1> DEFINE a == "presented"
             v == IF visible THEN "visible" ELSE "hidden"
             f == IF focused THEN "focus" ELSE "blur"
             k == world'.known
             e1 == Event(world', a, k)
             e2 == Event(world', v, k)
             e3 == Event(world', f, k)
             i1 == calculateActivityInteractionSummary(presence, e1)
             i2 == calculateActivityInteractionSummary(i1, e2)
             i3 == calculateActivityInteractionSummary(i2, e3)
             m1 == calculateMediaSummary(playback, e1)
             m2 == calculateMediaSummary(m1, e2)
             m3 == calculateMediaSummary(m2, e3)
  <1>1. /\ ~world.connected /\ world.clock = 0 /\ truth' = truth
        /\ world' = [world EXCEPT !.connected = TRUE, !.visible = visible, !.focused = focused]
        /\ Emit(world', <<a, v, f>>)
    BY DEF present
  <1>2. presence' = i3 /\ playback' = m3
    <2>1. DOMAIN <<a, v, f>> = 1..3 /\ <<a, v, f>>[1] = a /\ <<a, v, f>>[2] = v /\ <<a, v, f>>[3] = f
      OBVIOUS
    <2> QED
      BY <1>1, <2>1 DEF Emit
  <1>3. /\ v \in {"visible", "hidden"} /\ (v = "visible") = visible
        /\ f \in {"focus", "blur"} /\ (f = "focus") = focused
    OBVIOUS
  <1> HIDE DEF v, f
  <1>4. world \in Worlds /\ truth \in Truths /\ presence \in Presences
    BY DEF CreditInv, PresenceStands
  <1>5. /\ world' \in Worlds /\ world'.connected /\ world'.clock = 0
        /\ world'.known = world.known /\ world'.position = world.position
        /\ world'.rate = world.rate /\ world'.player = world.player /\ world'.visible = visible
        /\ world'.focused = focused /\ world'.touched = world.touched
    BY <1>1, <1>4 DEF Worlds
  <1>6. /\ e1 \in Events /\ e1.at = 0 /\ e1.type = "presented" /\ e1.rate = world.rate
        /\ e2 \in Events /\ e2.at = 0 /\ e2.type = v /\ e2.rate = world.rate
        /\ e3 \in Events /\ e3.at = 0 /\ e3.type = f /\ e3.rate = world.rate
    <2>1. a \in EventTypes /\ v \in EventTypes /\ f \in EventTypes
      BY <1>3 DEF EventTypes
    <2>2. k \in Nat
      BY <1>5, KnownIs
    <2> QED
      BY <1>5, <2>1, <2>2, EventTyped
  <1> HIDE DEF e1, e2, e3
  <1>7. /\ i1 \in Presences /\ i1.last = {0} /\ i1.opened /\ Within(i1, truth)
        /\ i1.interaction = world.touched
    <2>1. presence.last = {} /\ presence.interaction = world.touched /\ Within(presence, truth)
      BY <1>1 DEF CreditInv, PresenceStands
    <2>2. InteractionTime(presence, e1.at) = presence
      BY <2>1 DEF InteractionTime
    <2>3. i1 = [InteractionType(presence, e1) EXCEPT !.last = {e1.at}]
      BY <2>2 DEF calculateActivityInteractionSummary
    <2> HIDE DEF i1
    <2>4. /\ i1 \in Presences /\ i1.last = {e1.at}
          /\ i1.open = presence.open /\ i1.foreground = presence.foreground
          /\ i1.engaged = presence.engaged
          /\ e1.type # "disconnect" =>
               /\ i1.opened = (e1.type = "presented" \/ presence.opened)
               /\ i1.interaction = IF e1.type = "interaction" THEN {e1.at} ELSE presence.interaction
      BY <1>4, <1>6, <2>3, EventTells
    <2> QED
      BY <1>6, <2>1, <2>4 DEF Within
  <1> HIDE DEF i1
  <1>8. /\ i2 \in Presences /\ i2.last = {0} /\ i2.opened /\ Within(i2, truth) /\ Owed(i2, 0, 0, truth)
        /\ i2.interaction = world.touched /\ i2.visible = visible
    <2>1. Owed(i1, 0, e2.at, truth)
      BY <1>4, <1>6, <1>7 DEF Owed, Within, Presences, Truths
    <2>2. 0 \in Nat /\ 0 <= e2.at
      BY <1>6
    <2> QED
      <3>1. Told(i1, i2, e2, truth)
        BY <1>4, <1>6, <1>7, <2>1, <2>2, PresenceTurn
      <3>2. e2.type # "disconnect" /\ e2.type \in {"visible", "hidden"} /\ e2.type # "interaction"
        BY <1>3, <1>6
      <3> HIDE DEF i2
      <3> QED
        BY <1>3, <1>6, <1>7, <3>1, <3>2 DEF Told
  <1> HIDE DEF i2
  <1>9. /\ i3 \in Presences /\ i3.last = {0} /\ i3.opened /\ Within(i3, truth) /\ Owed(i3, 0, 0, truth)
        /\ i3.interaction = world.touched /\ i3.visible = visible /\ i3.focused = focused
    <2>1. Owed(i2, 0, e3.at, truth) /\ 0 \in Nat /\ 0 <= e3.at
      BY <1>6, <1>8
    <2> QED
      <3>1. Told(i2, i3, e3, truth)
        BY <1>4, <1>6, <1>8, <2>1, PresenceTurn
      <3>2. /\ e3.type # "disconnect" /\ e3.type \in {"focus", "blur"} /\ e3.type # "interaction"
            /\ e3.type \notin {"visible", "hidden"}
        BY <1>3, <1>6
      <3> HIDE DEF i3
      <3> QED
        BY <1>3, <1>6, <1>8, <3>1, <3>2 DEF Told
  <1>10. PresenceStands'
    <2>1. Shows(presence', world', truth')
      BY <1>1, <1>2, <1>5, <1>9 DEF Shows
    <2> QED
      BY <1>1, <1>2, <1>5, <1>9, <2>1 DEF PresenceStands
  <1>11. /\ 0 % HeartbeatSeconds \in Nat /\ 0 % HeartbeatSeconds <= HeartbeatSeconds
         /\ Fit(playback, 0, 0 % HeartbeatSeconds) /\ world.rate <= Max(Rates)
    BY <1>1, PhaseIs DEF CreditInv, PlaybackStands
  <1> DEFINE b == 0 % HeartbeatSeconds
  <1> HIDE DEF b
  <1>12. Turned(playback, m1, e1, b)
    <2>1. Fit(playback, e1.at, b) /\ b \in Nat /\ b <= HeartbeatSeconds /\ e1.rate <= Max(Rates)
      BY <1>6, <1>11 DEF b
    <2> QED
      BY <1>6, <2>1, MediaEvent
  <1> HIDE DEF m1
  <1>13. Turned(m1, m2, e2, b)
    <2>1. Fit(m1, e2.at, b) /\ b \in Nat /\ b <= HeartbeatSeconds /\ e2.rate <= Max(Rates)
      BY <1>6, <1>11, <1>12 DEF b, Turned
    <2> QED
      BY <1>6, <2>1, MediaEvent
  <1> HIDE DEF m2
  <1>14. Turned(m2, m3, e3, b)
    <2>1. Fit(m2, e3.at, b) /\ b \in Nat /\ b <= HeartbeatSeconds /\ e3.rate <= Max(Rates)
      BY <1>6, <1>11, <1>13 DEF b, Turned
    <2> QED
      BY <1>6, <2>1, MediaEvent
  <1> HIDE DEF m3
  <1>15. /\ m1.credited = playback.credited /\ m1.sample \subseteq playback.sample
         /\ m1.playing = playback.playing /\ m1.buffering = playback.buffering
    BY <1>6, <1>12 DEF Turned, Sampling
  <1>16. /\ m2.credited = m1.credited /\ m2.sample \subseteq m1.sample
         /\ m2.playing = m1.playing /\ m2.buffering = m1.buffering /\ m2.visible = visible
    BY <1>3, <1>6, <1>13 DEF Turned, Sampling
  <1>17. /\ m3.credited = m2.credited /\ m3.sample \subseteq m2.sample
         /\ m3.playing = m2.playing /\ m3.buffering = m2.buffering /\ m3.visible = m2.visible
         /\ Fit(m3, 0, b)
    BY <1>3, <1>6, <1>14 DEF Turned, Sampling
  <1>18. Paid(m3, truth.played, world.known, world.position, truth.skips)
    <2>1. m3.credited = playback.credited /\ m3.sample \subseteq playback.sample
      BY <1>15, <1>16, <1>17
    <2> QED
      BY <2>1, QuietPays DEF CreditInv, PlaybackStands, Truths
  <1>19. m3 \in Playbacks /\ IsFiniteSet(m3.credited)
    BY <1>17 DEF Fit
  <1>20. (m3.playing /\ ~m3.buffering) <=> world.player = "playing"
    BY <1>15, <1>16, <1>17 DEF CreditInv, PlaybackStands
  <1>21. PlaybackStands'
    BY <1>1, <1>2, <1>5, <1>16, <1>17, <1>18, <1>19, <1>20 DEF PlaybackStands, b
  <1> QED
    BY <1>1, <1>4, <1>5, <1>10, <1>11, <1>21 DEF CreditInv

\* A second later the sample is still of the last heartbeat interval, or the heartbeat is due.
LEMMA SecondFits ==
    ASSUME CreditInv, world.connected
    PROVE  LET t == world.clock + 1 IN
           /\ Fit(playback, t, HeartbeatSeconds)
           /\ t % HeartbeatSeconds # 0 => Fit(playback, t, t % HeartbeatSeconds)
  <1> DEFINE c == world.clock
             t == world.clock + 1
             h == HeartbeatSeconds
  <1>1. Fit(playback, c, c % h) /\ playback \in Playbacks /\ c \in Nat
    BY KnownIs DEF CreditInv, PlaybackStands
  <1>2. /\ c % h \in Nat /\ (c % h) + 1 <= h /\ h \in Nat /\ t \in Nat
        /\ t % h # 0 => t % h = (c % h) + 1
    BY <1>1, PhaseIs, CreditAssumption DEF activityInteractionPolicy
  <1>3. CASE playback.last = {}
    BY <1>1, <1>3 DEF Fit
  <1>4. CASE playback.last # {}
    <2>1. PICK l \in playback.last : /\ playback.last = {l} /\ l <= c
                                     /\ c - l <= MaxCreditedGapSeconds =>
                                          \A s \in playback.sample : s.at <= c /\ c - s.at <= c % h
      BY <1>1, <1>4 DEF Fit
    <2>2. l \in Nat
      BY <1>1 DEF Playbacks
    <2>3. \A s \in playback.sample : s.at \in Nat
      BY <1>1 DEF Playbacks, Samples
    <2>4. ASSUME t - l <= MaxCreditedGapSeconds, NEW s \in playback.sample
          PROVE  s.at <= t /\ t - s.at <= (c % h) + 1
      <3>1. c - l <= MaxCreditedGapSeconds
        BY <1>1, <2>2, <2>4, CreditAssumption
      <3>2. s.at <= c /\ c - s.at <= c % h
        BY <2>1, <3>1
      <3> HIDE DEF h
      <3> QED
        BY <1>1, <1>2, <2>3, <3>2
    <2>5. \A s \in playback.sample : t - l <= MaxCreditedGapSeconds => t - s.at <= h
      <3> SUFFICES ASSUME NEW s \in playback.sample, t - l <= MaxCreditedGapSeconds PROVE t - s.at <= h
        OBVIOUS
      <3>1. t - s.at <= (c % h) + 1 /\ s.at \in Nat
        BY <2>3, <2>4
      <3>2. ASSUME NEW x \in Int, NEW y \in Nat, x <= y + 1, y + 1 <= h PROVE x <= h
        BY <1>2, <3>2
      <3>3. t - s.at \in Int
        BY <1>2, <3>1
      <3> QED
        BY <1>2, <3>1, <3>2, <3>3
    <2>6. l <= t
      BY <1>1, <2>1, <2>2
    <2>7. Fit(playback, t, h)
      BY <1>1, <2>1, <2>4, <2>5, <2>6 DEF Fit
    <2>8. ASSUME t % h # 0 PROVE Fit(playback, t, t % h)
      <3>1. t % h = (c % h) + 1
        BY <1>2, <2>8
      <3>2. Fit(playback, t, (c % h) + 1)
        BY <1>1, <2>1, <2>4, <2>6 DEF Fit
      <3> QED
        BY <3>1, <3>2
    <2> QED
      BY <2>7, <2>8
  <1> QED
    BY <1>3, <1>4

\* One second of the player.
LEMMA SecondIs ==
    ASSUME NEW w \in Worlds
    PROVE  LET x == Second(w) IN
           /\ x \in Worlds /\ x.clock = w.clock + 1 /\ x.known = w.known /\ x.rate = w.rate
           /\ x.player = w.player /\ x.visible = w.visible /\ x.focused = w.focused
           /\ x.touched = w.touched /\ x.connected = w.connected /\ x.prior = w.prior
           /\ w.player # "playing" => x.position = w.position
           /\ w.position <= x.position
  <1> DEFINE end == IF w.position + w.rate > MaxPosition THEN MaxPosition ELSE w.position + w.rate
             p == IF w.player = "playing" THEN end ELSE w.position
  <1>1. /\ w.position \in 0..MaxPosition /\ w.rate \in Nat \ {0} /\ MaxPosition \in Nat
        /\ w.clock + 1 \in Nat
    BY CreditAssumption DEF Worlds
  <1>2. p \in 0..MaxPosition /\ w.position <= p /\ (w.player # "playing" => p = w.position)
    BY <1>1
  <1>3. Second(w) = [w EXCEPT !.clock = w.clock + 1, !.position = p]
    BY DEF Second
  <1> HIDE DEF p
  <1> QED
    BY <1>1, <1>2, <1>3 DEF Worlds

\* What a second adds to the truth.
LEMMA LivedIs ==
    ASSUME NEW w \in Worlds, truth \in Truths
    PROVE  LET tr == Lived(w, 1)
               shown == w.visible /\ w.focused
               busy == \E x \in w.touched : w.clock - x < IdleSeconds + MaxCreditedGapSeconds
           IN
           /\ tr \in Truths /\ tr.open = truth.open + 1 /\ tr.asleep = truth.asleep
           /\ tr.skips = truth.skips
           /\ tr.foreground = (IF shown THEN truth.foreground + 1 ELSE truth.foreground)
           /\ tr.engaged = (IF shown /\ busy THEN truth.engaged + 1 ELSE truth.engaged)
           /\ truth.played \subseteq tr.played
           /\ w.visible /\ w.player = "playing" => (w.position + 1)..Second(w).position \subseteq tr.played
  <1> DEFINE shown == w.visible /\ w.focused
             busy == \E x \in w.touched : w.clock - x < IdleSeconds + MaxCreditedGapSeconds
             f == IF shown THEN truth.foreground + 1 ELSE truth.foreground
             g == IF shown /\ busy THEN truth.engaged + 1 ELSE truth.engaged
             J == (w.position + 1)..Second(w).position
             P == IF w.visible /\ w.player = "playing" THEN truth.played \cup J ELSE truth.played
  <1>1. Lived(w, 1) = [truth EXCEPT !.open = truth.open + 1, !.foreground = f, !.engaged = g, !.played = P]
    BY DEF Lived
  <1>2. w.position \in Nat /\ Second(w).position \in Nat
    BY KnownIs, SecondIs
  <1>3. J \in SUBSET Nat
    BY <1>2
  <1>4. f \in Nat /\ g \in Nat /\ truth.open + 1 \in Nat
    BY DEF Truths
  <1>5. P \in SUBSET Nat /\ truth.played \subseteq P /\ (w.visible /\ w.player = "playing" => J \subseteq P)
    BY <1>3 DEF Truths
  <1> HIDE DEF f, g, J, P
  <1>6. /\ Lived(w, 1) \in Truths /\ Lived(w, 1).open = truth.open + 1 /\ Lived(w, 1).asleep = truth.asleep
        /\ Lived(w, 1).skips = truth.skips /\ Lived(w, 1).foreground = f /\ Lived(w, 1).engaged = g
        /\ Lived(w, 1).played = P
    BY <1>1, <1>4, <1>5 DEF Truths
  <1> QED
    BY <1>5, <1>6 DEF f, g, J

\* The presence of one more second.
LEMMA SecondPresence ==
    ASSUME CreditInv, second
    PROVE  PresenceStands'
  <1> DEFINE w == Second(world)
             e == Event(w, "heartbeat", 0)
             t == world.clock + 1
  <1>1. /\ world.connected /\ truth' = Lived(world, 1)
        /\ presence' = IF w.clock % HeartbeatSeconds = 0
                       THEN calculateActivityInteractionSummary(presence, e) ELSE presence
        /\ \E known, player, prior :
              world' = [w EXCEPT !.known = known, !.player = player, !.prior = prior]
    BY DEF second
  <1>2. world \in Worlds /\ world.clock \in Nat /\ truth \in Truths /\ presence \in Presences /\ t \in Nat
    BY KnownIs DEF CreditInv, PresenceStands
  <1>3. /\ w \in Worlds /\ w.clock = t /\ w.visible = world.visible /\ w.focused = world.focused
        /\ w.touched = world.touched /\ w.connected = world.connected
    BY <1>2, SecondIs
  <1>4. e \in Events /\ e.at = t /\ e.type = "heartbeat"
    <2>1. "heartbeat" \in EventTypes /\ 0 \in Nat
      BY DEF EventTypes
    <2> QED
      BY <1>3, <2>1, EventTyped
  <1> HIDE DEF w, e
  <1>5. /\ world'.clock = t /\ world'.visible = world.visible /\ world'.focused = world.focused
        /\ world'.touched = world.touched /\ world'.connected
    BY <1>1, <1>3 DEF Worlds
  <1>6. /\ truth' \in Truths /\ truth'.open = truth.open + 1 /\ truth'.asleep = truth.asleep
        /\ world.visible /\ world.focused => truth'.foreground = truth.foreground + 1
        /\ truth'.foreground >= truth.foreground /\ truth'.engaged >= truth.engaged
        /\ world.visible /\ world.focused
             /\ (\E x \in world.touched : world.clock - x < IdleSeconds + MaxCreditedGapSeconds)
             => truth'.engaged = truth.engaged + 1
    BY <1>1, <1>2, LivedIs DEF Truths
  <1>7. PICK l \in presence.last : /\ presence.last = {l} /\ l <= world.clock
                                   /\ Owed(presence, l, world.clock, truth)
    BY <1>1 DEF CreditInv, PresenceStands, Shows
  <1>8. l \in Nat /\ Within(presence, truth) /\ presence.opened /\ presence.interaction = world.touched
        /\ presence.visible = world.visible /\ presence.focused = world.focused
    BY <1>1, <1>2, <1>7 DEF CreditInv, PresenceStands, Shows, Presences
  <1>9. Within(presence, truth')
    BY <1>2, <1>6, <1>8 DEF Within, Presences, Truths
  <1>10. Owed(presence, l, t, truth')
    <2> SUFFICES ASSUME t - l <= MaxCreditedGapSeconds
                 PROVE  /\ presence.open + (t - l) <= truth'.open - truth'.asleep
                        /\ presence.visible /\ presence.focused =>
                             presence.foreground + (t - l) <= truth'.foreground
                        /\ presence.visible /\ presence.focused /\ Busy(presence, l) =>
                             presence.engaged + (t - l) <= truth'.engaged
      BY DEF Owed
    <2>1. world.clock - l <= MaxCreditedGapSeconds /\ world.clock - l < MaxCreditedGapSeconds
      BY <1>2, <1>8, CreditAssumption
    <2>2. /\ presence.open + (world.clock - l) <= truth.open - truth.asleep
          /\ presence.visible /\ presence.focused =>
               presence.foreground + (world.clock - l) <= truth.foreground
          /\ presence.visible /\ presence.focused /\ Busy(presence, l) =>
               presence.engaged + (world.clock - l) <= truth.engaged
      BY <1>7, <2>1 DEF Owed
    <2>3. Busy(presence, l) => \E x \in world.touched : world.clock - x < IdleSeconds + MaxCreditedGapSeconds
      <3> SUFFICES ASSUME NEW x \in presence.interaction, l - x <= IdleSeconds
                   PROVE  world.clock - x < IdleSeconds + MaxCreditedGapSeconds
        BY <1>8 DEF Busy
      <3>1. x \in Nat
        BY <1>2 DEF Presences
      <3> QED
        BY <1>2, <1>8, <2>1, <3>1, CreditAssumption
    <2>4. /\ presence.open \in Nat /\ presence.foreground \in Nat /\ presence.engaged \in Nat
          /\ truth.open \in Nat /\ truth.asleep \in Nat /\ truth.foreground \in Nat /\ truth.engaged \in Nat
      BY <1>2 DEF Presences, Truths
    <2>5. presence.open + (t - l) <= truth'.open - truth'.asleep
      BY <1>2, <1>6, <1>8, <2>2, <2>4
    <2>6. presence.visible /\ presence.focused => presence.foreground + (t - l) <= truth'.foreground
      BY <1>2, <1>6, <1>8, <2>2, <2>4
    <2>7. presence.visible /\ presence.focused /\ Busy(presence, l) =>
             presence.engaged + (t - l) <= truth'.engaged
      BY <1>2, <1>6, <1>8, <2>2, <2>3, <2>4
    <2> QED
      BY <2>5, <2>6, <2>7
  <1>11. CASE presence' = presence
    <2>1. l <= world'.clock
      BY <1>2, <1>5, <1>7, <1>8
    <2>2. Shows(presence', world', truth')
      BY <1>5, <1>7, <1>8, <1>10, <1>11, <2>1 DEF Shows
    <2> QED
      BY <1>2, <1>5, <1>9, <1>11, <2>2 DEF PresenceStands
  <1>12. CASE presence' = calculateActivityInteractionSummary(presence, e)
    <2>1. l <= e.at /\ Owed(presence, l, e.at, truth')
      BY <1>2, <1>4, <1>7, <1>8, <1>10
    <2>2. Told(presence, presence', e, truth')
      BY <1>2, <1>4, <1>6, <1>7, <1>8, <1>9, <1>12, <2>1, PresenceTurn
    <2>3. /\ presence' \in Presences /\ Within(presence', truth') /\ presence'.last = {t}
          /\ Owed(presence', t, t, truth') /\ presence'.opened /\ presence'.visible = presence.visible
          /\ presence'.focused = presence.focused /\ presence'.interaction = presence.interaction
      BY <1>4, <2>2 DEF Told
    <2>4. Shows(presence', world', truth')
      BY <1>2, <1>5, <1>8, <2>3 DEF Shows
    <2> QED
      BY <1>5, <2>3, <2>4 DEF PresenceStands
  <1> QED
    BY <1>1, <1>11, <1>12

Same(v, u) == u.visible = v.visible /\ u.playing = v.playing /\ u.buffering = v.buffering

\* An event that samples the position n: what it credits is paid for.
LEMMA SampledAt ==
    ASSUME NEW v, NEW u, NEW e, NEW b, NEW P, NEW Q, NEW known \in Nat, NEW position \in Nat,
           NEW learned \in Nat, NEW now \in Nat, NEW skips \in Nat,
           Turned(v, u, e, b), e \in Events, e.type \in Sampling, v \in Playbacks,
           IsFiniteSet(v.credited), \A s, r \in v.sample : s = r, P \subseteq Q,
           Paid(v, P, known, position, skips),
           \/ e.position = known /\ learned = known /\ now = position
           \/ /\ e.position = learned /\ e.position = now
              /\ playbackWasCreditable(v) => (position + 1)..now \subseteq Q
    PROVE  Paid(u, Q, learned, now, skips)
  <1> DEFINE q == [at |-> e.at, position |-> e.position, rate |-> v.rate]
  <1>1. q \in Samples /\ q.position = e.position /\ e.position \in Nat
    BY DEF Samples, Playbacks, Events
  <1>2. u.sample = {q}
    BY DEF Turned
  <1>3. PICK I : Way(v, e.position, I) /\ u.credited = v.credited \cup I
    BY DEF Turned
  <1>4. I # {} => playbackWasCreditable(v)
    BY <1>3 DEF Way
  <1> HIDE DEF q
  <1> QED
    BY <1>1, <1>2, <1>3, <1>4, SamplePays

\* The playback of one more second: a heartbeat with the position the page knew, a seek if the
\* surface notices one, the position, and the end.
LEMMA SecondPlayback ==
    ASSUME CreditInv, second
    PROVE  /\ PlaybackStands' /\ world' \in Worlds /\ world'.rate = world.rate
  <1> DEFINE w == Second(world)
             t == world.clock + 1
             b == t % HeartbeatSeconds
             n == w.position
             beat == w.clock % HeartbeatSeconds = 0
             sampled == w.player = "playing"
             e1 == Event(w, "heartbeat", w.known)
             e2 == Event(w, "seek", 0)
             e3 == Event(w, "position", w.position)
             e4 == Event(w, "ended", w.position)
             p1 == IF beat THEN calculateMediaSummary(playback, e1) ELSE playback
             p2 == IF sampled /\ Seeked(w) THEN calculateMediaSummary(p1, e2) ELSE p1
             p3 == IF sampled THEN calculateMediaSummary(p2, e3) ELSE p2
             over == sampled /\ w.position = MaxPosition
             p4 == IF over THEN calculateMediaSummary(p3, e4) ELSE p3
             Q == Lived(world, 1).played
  <1>1. /\ world.connected /\ truth' = Lived(world, 1) /\ playback' = p4
        /\ world' = [w EXCEPT !.known = IF sampled THEN w.position ELSE @,
                              !.player = IF over THEN "ended" ELSE @,
                              !.prior = IF sampled THEN {[at |-> w.clock, position |-> w.position]} ELSE @]
    BY DEF second
  <1>2. /\ world \in Worlds /\ world.clock \in Nat /\ world.known \in Nat /\ world.position \in Nat
        /\ truth \in Truths /\ t \in Nat /\ world.rate <= Max(Rates) /\ truth.skips \in Nat
    BY KnownIs DEF CreditInv, Truths
  <1>3. /\ w \in Worlds /\ w.clock = t /\ w.known = world.known /\ w.rate = world.rate
        /\ w.player = world.player /\ w.visible = world.visible /\ w.connected = world.connected
        /\ (~sampled => n = world.position)
    BY <1>2, SecondIs
  <1>4. n \in Nat
    BY <1>3, KnownIs
  <1>5. /\ e1 \in Events /\ e1.at = t /\ e1.type = "heartbeat" /\ e1.position = world.known
        /\ e1.rate = world.rate
        /\ e2 \in Events /\ e2.at = t /\ e2.type = "seek" /\ e2.rate = world.rate
        /\ e3 \in Events /\ e3.at = t /\ e3.type = "position" /\ e3.position = n /\ e3.rate = world.rate
        /\ e4 \in Events /\ e4.at = t /\ e4.type = "ended" /\ e4.position = n /\ e4.rate = world.rate
    <2>1. /\ "heartbeat" \in EventTypes /\ "seek" \in EventTypes /\ "position" \in EventTypes
          /\ "ended" \in EventTypes /\ 0 \in Nat
      BY DEF EventTypes
    <2> QED
      BY <1>2, <1>3, <1>4, <2>1, EventTyped
  <1>6. /\ Lived(world, 1).skips = truth.skips /\ truth.played \subseteq Q
        /\ world.visible /\ sampled => (world.position + 1)..n \subseteq Q
    BY <1>2, <1>3, LivedIs
  <1>7. b \in Nat /\ b <= HeartbeatSeconds /\ HeartbeatSeconds \in Nat
    BY <1>2, PhaseIs, CreditAssumption DEF activityInteractionPolicy
  <1> HIDE DEF w, n, e1, e2, e3, e4, Q, b
  <1>8. /\ playback \in Playbacks /\ IsFiniteSet(playback.credited)
        /\ Paid(playback, truth.played, world.known, world.position, truth.skips)
        /\ ((playback.playing /\ ~playback.buffering) <=> world.player = "playing")
        /\ playback.visible = world.visible
    BY <1>1 DEF CreditInv, PlaybackStands
  <1>9. /\ Fit(p1, t, b) /\ Same(playback, p1)
        /\ Paid(p1, truth.played, world.known, world.position, truth.skips)
    <2>1. CASE ~beat
      <3>1. Fit(playback, t, b)
        BY <1>1, <1>3, <2>1, SecondFits DEF b
      <3> QED
        BY <1>8, <2>1, <3>1 DEF Same
    <2>2. CASE beat
      <3>1. Fit(playback, t, HeartbeatSeconds)
        BY <1>1, SecondFits
      <3>2. Fit(playback, e1.at, HeartbeatSeconds) /\ e1.rate <= Max(Rates) /\ HeartbeatSeconds <= HeartbeatSeconds
        BY <1>2, <1>5, <1>7, <3>1
      <3>3. Turned(playback, p1, e1, HeartbeatSeconds)
        BY <1>5, <1>7, <2>2, <3>2, MediaEvent
      <3> HIDE DEF p1
      <3>4. b = 0 /\ e1.type \in Sampling
        BY <1>3, <1>5, <2>2 DEF b, Sampling
      <3>5. Fit(p1, t, b) /\ Same(playback, p1)
        BY <1>5, <3>3, <3>4 DEF Turned, Same
      <3>6. \A s, r \in playback.sample : s = r
        BY <3>1 DEF Fit
      <3>7. Paid(p1, truth.played, world.known, world.position, truth.skips)
        BY <1>2, <1>5, <1>8, <3>3, <3>4, <3>6, SampledAt
      <3> QED
        BY <3>5, <3>7
    <2> QED
      BY <2>1, <2>2
  <1> HIDE DEF p1
  <1>10. /\ Fit(p2, t, b) /\ Same(playback, p2)
         /\ Paid(p2, truth.played, world.known, world.position, truth.skips)
         /\ ~sampled => p2 = p1
    <2>1. CASE ~(sampled /\ Seeked(w))
      BY <1>9, <2>1
    <2>2. CASE sampled /\ Seeked(w)
      <3>1. Fit(p1, e2.at, b) /\ e2.rate <= Max(Rates)
        BY <1>2, <1>5, <1>9
      <3>2. Turned(p1, p2, e2, b)
        BY <1>5, <1>7, <2>2, <3>1, MediaEvent
      <3> HIDE DEF p2
      <3>3. /\ Fit(p2, t, b) /\ Same(p1, p2) /\ p2.credited = p1.credited /\ p2.sample \subseteq p1.sample
        BY <1>5, <3>2 DEF Turned, Same, Sampling
      <3>4. IsFiniteSet(p1.credited)
        BY <1>9 DEF Fit
      <3>5. Paid(p2, truth.played, world.known, world.position, truth.skips)
        BY <1>2, <1>9, <3>3, <3>4, QuietPays
      <3> QED
        BY <1>9, <2>2, <3>3, <3>5 DEF Same
    <2> QED
      BY <2>1, <2>2
  <1> HIDE DEF p2
  <1> DEFINE k == IF sampled THEN n ELSE world.known
  <1>11. /\ Fit(p3, t, b) /\ Same(playback, p3) /\ Paid(p3, Q, k, n, truth.skips)
    <2>0. p2 \in Playbacks /\ IsFiniteSet(p2.credited) /\ \A s, r \in p2.sample : s = r
      BY <1>10 DEF Fit
    <2>1. CASE ~sampled
      <3>1. n = world.position /\ k = world.known /\ p3 = p2
        BY <1>3, <2>1
      <3>2. Paid(p2, Q, world.known, world.position, truth.skips)
        BY <1>2, <1>6, <1>10, <2>0, QuietPays
      <3> QED
        BY <1>10, <3>1, <3>2
    <2>2. CASE sampled
      <3>1. Fit(p2, e3.at, b) /\ e3.rate <= Max(Rates)
        BY <1>2, <1>5, <1>10
      <3>2. Turned(p2, p3, e3, b)
        BY <1>5, <1>7, <2>2, <3>1, MediaEvent
      <3> HIDE DEF p3
      <3>3. e3.type \in Sampling /\ k = n
        BY <1>5, <2>2 DEF Sampling
      <3>4. Fit(p3, t, b) /\ Same(p2, p3)
        BY <1>5, <3>2 DEF Turned, Same
      <3>5. playbackWasCreditable(p2) => (world.position + 1)..n \subseteq Q
        BY <1>6, <1>8, <1>10, <2>2 DEF playbackWasCreditable, Same
      <3>6. Paid(p3, Q, n, n, truth.skips)
        BY <1>2, <1>4, <1>5, <1>6, <1>10, <2>0, <3>2, <3>3, <3>5, SampledAt
      <3> QED
        BY <1>10, <3>3, <3>4, <3>6 DEF Same
    <2> QED
      BY <2>1, <2>2
  <1> HIDE DEF p3
  <1>12. /\ Fit(p4, t, b) /\ Paid(p4, Q, k, n, truth.skips) /\ p4.visible = playback.visible
         /\ over => ~p4.playing
         /\ ~over => Same(playback, p4)
    <2>1. CASE ~over
      BY <1>11, <2>1 DEF Same
    <2>2. CASE over
      <3>0. p3 \in Playbacks /\ IsFiniteSet(p3.credited) /\ \A s, r \in p3.sample : s = r
        BY <1>11 DEF Fit
      <3>1. Fit(p3, e4.at, b) /\ e4.rate <= Max(Rates)
        BY <1>2, <1>5, <1>11
      <3>2. Turned(p3, p4, e4, b)
        BY <1>5, <1>7, <2>2, <3>1, MediaEvent
      <3> HIDE DEF p4
      <3>3. e4.type \in Sampling /\ k = n
        BY <1>5, <2>2 DEF Sampling
      <3>4. Fit(p4, t, b) /\ p4.visible = p3.visible /\ ~p4.playing
        BY <1>5, <3>2 DEF Turned
      <3>5. (n + 1)..n = {}
        BY <1>4
      <3>6. Paid(p3, Q, n, n, truth.skips)
        BY <1>11, <3>3
      <3>7. Paid(p4, Q, n, n, truth.skips)
        BY <1>2, <1>4, <1>5, <3>0, <3>2, <3>3, <3>5, <3>6, SampledAt
      <3> QED
        BY <1>11, <2>2, <3>3, <3>4, <3>7 DEF Same
    <2> QED
      BY <2>1, <2>2
  <1> HIDE DEF p4
  <1>13. /\ world' \in Worlds /\ world'.connected /\ world'.clock = t /\ world'.position = n
         /\ world'.known = k /\ world'.rate = world.rate /\ world'.visible = world.visible
         /\ world'.player = IF over THEN "ended" ELSE world.player
    <2> DEFINE pl == IF over THEN "ended" ELSE world.player
               pr == IF sampled THEN {[at |-> w.clock, position |-> w.position]} ELSE w.prior
    <2>1. world' = [w EXCEPT !.known = k, !.player = pl, !.prior = pr]
      BY <1>1, <1>3 DEF n
    <2>2. k \in 0..MaxPosition /\ pl \in {"playing", "paused", "buffering", "ended"}
      BY <1>2, <1>3 DEF Worlds, n
    <2>3. pr \in SUBSET [at : Nat, position : Nat]
      <3>1. w.prior \in SUBSET [at : Nat, position : Nat] /\ w.clock \in Nat /\ w.position \in Nat
        BY <1>3, KnownIs DEF Worlds
      <3>2. {[at |-> w.clock, position |-> w.position]} \in SUBSET [at : Nat, position : Nat]
        BY <3>1
      <3> QED
        BY <3>1, <3>2
    <2> HIDE DEF k, pl, pr
    <2>4. /\ [w EXCEPT !.known = k, !.player = pl, !.prior = pr] \in Worlds
      BY <1>3, <2>2, <2>3 DEF Worlds
    <2>5. /\ world'.connected = w.connected /\ world'.clock = w.clock /\ world'.position = w.position
          /\ world'.known = k /\ world'.rate = w.rate /\ world'.visible = w.visible /\ world'.player = pl
      BY <1>3, <2>1 DEF Worlds
    <2> QED
      BY <1>1, <1>3, <2>1, <2>4, <2>5 DEF n, pl
  <1>14. p4 \in Playbacks /\ IsFiniteSet(p4.credited)
    BY <1>12 DEF Fit
  <1>15. (p4.playing /\ ~p4.buffering) <=> world'.player = "playing"
    <2>1. CASE over
      BY <1>12, <1>13, <2>1
    <2>2. CASE ~over
      BY <1>8, <1>12, <1>13, <2>2 DEF Same
    <2> QED
      BY <2>1, <2>2
  <1>16. truth'.played = Q /\ truth'.skips = truth.skips
    BY <1>1, <1>6 DEF Q
  <1>17. PlaybackStands'
    <2>1. Paid(playback', truth'.played, world'.known, world'.position, truth'.skips)
      BY <1>1, <1>12, <1>13, <1>16
    <2>2. Fit(playback', world'.clock, world'.clock % HeartbeatSeconds)
      BY <1>1, <1>12, <1>13 DEF b
    <2>3. playback'.visible = world'.visible
      BY <1>1, <1>8, <1>12, <1>13
    <2> QED
      BY <1>1, <1>13, <1>14, <1>15, <2>1, <2>2, <2>3 DEF PlaybackStands
  <1> QED
    BY <1>13, <1>17

\* A second that passes keeps the invariant.
LEMMA SecondKeeps ==
    ASSUME CreditInv, second
    PROVE  CreditInv'
  <1>1. PlaybackStands' /\ world' \in Worlds /\ world'.rate = world.rate
    BY SecondPlayback
  <1>2. truth' \in Truths
    <2>1. truth' = Lived(world, 1)
      BY DEF second
    <2> QED
      BY <2>1, LivedIs DEF CreditInv
  <1> QED
    BY <1>1, <1>2, SecondPresence DEF CreditInv

\* Nothing is credited before the page opens.
LEMMA CreditStarts == CreditInit => CreditInv
  <1> SUFFICES ASSUME CreditInit PROVE CreditInv
    OBVIOUS
  <1>1. /\ 1 <= Max(Rates) /\ 0 \in 0..MaxPosition
    BY FastestIs, CreditAssumption
  <1>2. world \in Worlds /\ truth \in Truths /\ world.rate <= Max(Rates)
    BY <1>1 DEF CreditInit, Worlds, Truths
  <1>3. PresenceStands
    BY DEF CreditInit, PresenceStands, Presences, Within
  <1>4. playback \in Playbacks /\ playback.credited = {} /\ playback.sample = {} /\ playback.last = {}
    BY DEF CreditInit, Playbacks
  <1>5. IsFiniteSet({}) /\ Cardinality({}) = 0
    BY FS_EmptySet
  <1>6. Fit(playback, world.clock, world.clock % HeartbeatSeconds)
    BY <1>1, <1>4, <1>5 DEF Fit, CreditInit
  <1>7. Paid(playback, truth.played, world.known, world.position, truth.skips)
    <2>1. Debt(playback, world.known, world.position) = 0
      BY <1>4 DEF Debt, CreditInit
    <2>2. playback.credited \ truth.played = {}
      BY <1>4
    <2>3. truth.skips = 0 /\ Tolerance \in Nat
      BY ToleranceIs DEF CreditInit
    <2> QED
      BY <1>5, <2>1, <2>2, <2>3 DEF Paid
  <1>8. PlaybackStands
    BY <1>4, <1>5, <1>6, <1>7 DEF PlaybackStands, CreditInit
  <1> QED
    BY <1>2, <1>3, <1>8 DEF CreditInv

\* What is paid for is honest.
LEMMA CreditFollows == CreditInv => CreditHonest
  <1> SUFFICES ASSUME CreditInv PROVE CreditHonest
    OBVIOUS
  <1>1. PresenceHonest
    BY DEF CreditInv, PresenceStands, Within, PresenceHonest
  <1> DEFINE c == Cardinality(playback.credited \ truth.played)
             D == Debt(playback, world.known, world.position)
  <1>2. IsFiniteSet(playback.credited \ truth.played) /\ c \in Nat
    BY FS_Difference, FS_CardinalityType DEF CreditInv, PlaybackStands
  <1>3. 2 * c + D * Tolerance <= truth.skips * Tolerance /\ truth.skips \in Nat
    BY DEF CreditInv, PlaybackStands, Paid, Truths
  <1>4. D \in Nat /\ Tolerance \in Nat
    BY DebtIs, ToleranceIs
  <1>5. playback.credited \ truth.played = {} <=> c = 0
    BY <1>2, FS_EmptySet
  <1> HIDE DEF c, D
  <1>6. D * Tolerance \in Nat /\ truth.skips * Tolerance \in Nat
    BY <1>3, <1>4
  <1>7. 2 * c <= truth.skips * Tolerance
    BY <1>2, <1>3, <1>6
  <1>8. truth.skips = 0 => c = 0
    BY <1>2, <1>4, <1>7
  <1>9. truth.skips = 0 => playback.credited \subseteq truth.played
    BY <1>5, <1>8
  <1>10. PlaybackHonest
    BY <1>7, <1>9 DEF PlaybackHonest, Tolerance, c
  <1> QED
    BY <1>1, <1>10 DEF CreditHonest

\* Whatever the participant does with page and player, in any order and for any settings the
\* engine accepts, nothing is credited as presence or as playback that did not happen, but for
\* what the tolerance lets a skip gain.
THEOREM CreditIsHonest == CreditInit /\ [][CreditNext]_creditVars => []CreditHonest
  <1>1. CreditInv /\ [CreditNext]_creditVars => CreditInv'
    <2> SUFFICES ASSUME CreditInv, [CreditNext]_creditVars PROVE CreditInv'
      OBVIOUS
    <2>1. CASE CreditNext
      BY <2>1, PresentKeeps, ReportsKeep, SecondKeeps, SuspendKeeps, LeaveKeeps, PlayerKeeps,
         RateKeeps, SkipKeeps DEF CreditNext
    <2>2. CASE UNCHANGED creditVars
      BY <2>2 DEF creditVars, CreditInv, PresenceStands, PlaybackStands, Shows
    <2> QED
      BY <2>1, <2>2
  <1> QED
    BY <1>1, CreditStarts, CreditFollows, PTL

-----------------------------------------------------------------------------
(* TelemetryRecorder.                                                      *)

QueuedEvent == [session : Session, sequence : Nat \ {0}]

\* The queue holds the events of one session after the other, each without a gap and to
\* its last; a session that is entered within the queue begins with its first event.
QueueStands(q, seq, t) ==
    /\ q \in Seq(QueuedEvent)
    /\ \A i \in 1..Len(q) : q[i].sequence <= seq[q[i].session]
    /\ \A i, j \in 1..Len(q) : i < j => \/ q[i].session < q[j].session
                                        \/ /\ q[i].session = q[j].session
                                           /\ q[j].sequence = q[i].sequence + (j - i)
    /\ \A i \in 1..Len(q) :
         \/ i = Len(q) /\ q[i].session = t /\ q[i].sequence = seq[t]
         \/ i < Len(q) /\ q[i + 1].session = q[i].session
         \/ /\ i < Len(q) /\ q[i + 1].session = q[i].session + 1 /\ q[i + 1].sequence = 1
            /\ q[i].sequence = seq[q[i].session]
    /\ \A s \in Session : s > t => seq[s] = 0

\* How many events of a session have left the queue.
Gone(q, seq, s) ==
    IF q = <<>> \/ s < q[1].session THEN seq[s]
    ELSE IF s = q[1].session THEN q[1].sequence - 1 ELSE 0

Batch == [id : Nat, session : Session, events : Seq(Nat)]
Message == [kind : {"request"}, awaited : BOOLEAN, batch : Batch]
           \cup [kind : {"answer"}, awaited : BOOLEAN, ok : BOOLEAN]

\* The batches that the engine may still be asked to record.
Unrecorded(p, w, bs) == {b \in p.pendingBatch \cup {m.batch : m \in {x \in w : x.kind = "request"}} : b \notin bs}

Page == [session : 0..MaxSessions, sequence : [Session -> Nat], disconnected : BOOLEAN,
         queue : Seq(QueuedEvent), pendingBatch : SUBSET Batch, made : Nat, timer : BOOLEAN,
         waiting : SUBSET Batch, keepalive : BOOLEAN, alive : BOOLEAN]

RecorderTypes(p, w, bs, st) ==
    p \in Page /\ w \subseteq Message /\ bs \subseteq Batch /\ st \in [Session -> Seq(Nat)]

\* The page waits for the answer to one batch at most, its only one, and an answer that
\* it accepts is of a batch that is recorded.
WaitStands(p, w, bs) ==
    /\ p.waiting \subseteq p.pendingBatch
    /\ \A b, c \in p.pendingBatch : b = c
    /\ ~p.alive => p.pendingBatch = {}
    /\ \A m \in w : m.awaited =>
         /\ p.waiting # {}
         /\ \A k \in w : k.awaited => k = m
         /\ m.kind = "request" => m.batch \in p.waiting
         /\ m.kind = "answer" /\ m.ok => p.waiting \subseteq bs

\* There is one batch at most that is not recorded; it goes on where the engine's events of its session
\* end, and the queue goes on where it ends.
FrontStands(p, w, bs, st) ==
    LET U == Unrecorded(p, w, bs) IN
    /\ \A b \in bs \cup U : b.id <= p.made
    /\ \A b, c \in U : b = c
    /\ p.alive => U \subseteq p.pendingBatch
    /\ \A b \in U : /\ b.events = [i \in 1..Len(b.events) |-> Len(st[b.session]) + i]
                    /\ Len(st[b.session]) + Len(b.events) <= p.sequence[b.session]
                    /\ p.alive => Len(st[b.session]) + Len(b.events) = Gone(p.queue, p.sequence, b.session)
    /\ p.alive => \A s \in Session : (\A b \in U : b.session # s) => Len(st[s]) = Gone(p.queue, p.sequence, s)

\* RecordedPrefix, of any page and store.
Prefix(p, st) ==
    \A s \in Session : st[s] = [i \in 1..Len(st[s]) |-> i] /\ Len(st[s]) <= p.sequence[s]

\* The inductive invariant, as an operator so that a step can be taken in several.
Reported(p, w, bs, st) ==
    /\ RecorderTypes(p, w, bs, st) /\ QueueStands(p.queue, p.sequence, p.session)
    /\ WaitStands(p, w, bs) /\ FrontStands(p, w, bs, st) /\ Prefix(p, st)

RecorderInv == Reported(page, wire, batches, stored) /\ (page.disconnected \/ page.session \in Session)

\* BatchLength is a number of events of one session at the head of the queue.
LEMMA BatchLengthIs ==
  ASSUME NEW q \in Seq(QueuedEvent), q # <<>>
  PROVE  /\ BatchLength(q) \in 1..Len(q)
         /\ \A i \in 1..BatchLength(q) : q[i].session = q[1].session
<1> DEFINE S == {n \in 1..Len(q) : n <= (IF kind = "context" THEN 1 ELSE BatchLimit) /\ \A i \in 1..n : q[i].session = q[1].session}
<1>1. Len(q) \in Nat /\ Len(q) >= 1
  OBVIOUS
<1>2. 1 \in S /\ S \subseteq Nat /\ \A x \in S : x <= Len(q)
  BY <1>1, RecorderAssumption
<1>3. Max(S) \in S
  <2> HIDE DEF S
  <2> QED BY <1>1, <1>2, MaxIsMax
<1>4. BatchLength(q) = Max(S)
  BY DEF BatchLength
<1> QED
  BY <1>3, <1>4

\* A queue and the numbers of a page after n more events of session u.
Longer(q, seq, u, n) == q \o [i \in 1..n |-> [session |-> u, sequence |-> seq[u] + i]]
Further(seq, u, n) == [seq EXCEPT ![u] = @ + n]

\* Events that are emitted go on where their session ends, and what has left the queue stays.
LEMMA PushKeepsQueue ==
  ASSUME NEW q \in Seq(QueuedEvent), NEW seq \in [Session -> Nat], NEW t \in 0..MaxSessions,
         NEW u \in Session, u \in {t, t + 1}, NEW n \in Nat \ {0}, QueueStands(q, seq, t)
  PROVE  /\ Longer(q, seq, u, n) \in Seq(QueuedEvent) /\ Further(seq, u, n) \in [Session -> Nat]
         /\ QueueStands(Longer(q, seq, u, n), Further(seq, u, n), u)
         /\ \A s \in Session : /\ Gone(Longer(q, seq, u, n), Further(seq, u, n), s) = Gone(q, seq, s)
                               /\ seq[s] <= Further(seq, u, n)[s]
<1> DEFINE more == [i \in 1..n |-> [session |-> u, sequence |-> seq[u] + i]]
           added == q \o more
           now == [seq EXCEPT ![u] = @ + n]
<1>1. more \in Seq(QueuedEvent) /\ Len(more) = n /\ now \in [Session -> Nat]
  BY DEF QueuedEvent
<1>2. /\ added \in Seq(QueuedEvent) /\ Len(added) = Len(q) + n
      /\ \A i \in 1..Len(q) + n : added[i] = IF i <= Len(q) THEN q[i] ELSE more[i - Len(q)]
  <2> HIDE DEF more
  <2> QED BY <1>1, ConcatProperties
<1>3. PICK L \in Nat : L = Len(q)
  OBVIOUS
<1>4. /\ \A i \in 1..L : added[i] = q[i] /\ q[i] \in QueuedEvent
      /\ \A i \in L + 1..L + n : added[i].session = u /\ added[i].sequence = seq[u] + (i - L)
  <2>1. \A i \in L + 1..L + n : added[i] = more[i - L] /\ i - L \in 1..n
    BY <1>2, <1>3
  <2>2. \A i \in 1..n : more[i].session = u /\ more[i].sequence = seq[u] + i
    OBVIOUS
  <2> QED BY <1>2, <1>3, <2>1, <2>2
<1>5. \A s \in Session : seq[s] \in Nat /\ now[s] = (IF s = u THEN seq[s] + n ELSE seq[s])
  OBVIOUS
<1>21. \A i, j \in 1..L : i < j => \/ q[i].session < q[j].session
                                  \/ /\ q[i].session = q[j].session
                                     /\ q[j].sequence = q[i].sequence + (j - i)
  BY <1>3 DEF QueueStands
<1>22. \A i \in 1..L :
         \/ i = L /\ q[i].session = t /\ q[i].sequence = seq[t]
         \/ i < L /\ q[i + 1].session = q[i].session
         \/ /\ i < L /\ q[i + 1].session = q[i].session + 1 /\ q[i + 1].sequence = 1
            /\ q[i].sequence = seq[q[i].session]
  BY <1>3 DEF QueueStands
<1>23. L > 0 => L \in 1..L /\ q[L].session = t /\ q[L].sequence = seq[t]
  BY <1>22
<1>24. \A i \in 1..L : q[i].session \in Session /\ q[i].session \in Nat /\ q[i].sequence \in Nat /\ q[i].sequence # 0
  <2> SUFFICES ASSUME NEW i \in 1..L
               PROVE  q[i].session \in Session /\ q[i].session \in Nat /\ q[i].sequence \in Nat /\ q[i].sequence # 0
    OBVIOUS
  <2>1. q[i] \in QueuedEvent
    BY <1>4
  <2>2. q[i].session \in Session /\ q[i].sequence \in Nat \ {0}
    BY <2>1 DEF QueuedEvent
  <2> QED BY <2>2, RecorderAssumption DEF Session
<1>6. \A i \in 1..L : q[i].session \in Session /\ q[i].session <= t /\ q[i].sequence \in Nat \ {0}
  <2> SUFFICES ASSUME NEW i \in 1..L PROVE q[i].session <= t
    BY <1>24
  <2>1. i = L \/ (i < L /\ (q[i].session < q[L].session \/ q[i].session = q[L].session))
    BY <1>21, <1>23
  <2> QED BY <1>23, <1>24, <2>1
<1>7. t = u \/ seq[u] = 0
  BY DEF QueueStands, Session
<1>8. L > 0 => q[L].session = t /\ q[L].sequence = seq[t]
  BY <1>23
<1> HIDE DEF more, added, now
<1>9. \A i, j \in 1..L + n : i < j => \/ added[i].session < added[j].session
                                      \/ /\ added[i].session = added[j].session
                                         /\ added[j].sequence = added[i].sequence + (j - i)
  <2> SUFFICES ASSUME NEW i \in 1..L + n, NEW j \in 1..L + n, i < j
               PROVE  \/ added[i].session < added[j].session
                      \/ /\ added[i].session = added[j].session
                         /\ added[j].sequence = added[i].sequence + (j - i)
    OBVIOUS
  <2>1. CASE j <= L
    BY <1>4, <1>21, <2>1
  <2>2. CASE i <= L /\ j > L
    <3>1. q[i].session = t => q[L].sequence = q[i].sequence + (L - i)
      <4>1. CASE i = L
        BY <1>24, <2>2, <4>1
      <4>2. CASE i < L
        <5>1. L \in 1..L /\ i \in 1..L /\ q[L].session = t
          BY <1>23, <2>2, <4>2
        <5>2. q[i].session < q[L].session \/ q[L].sequence = q[i].sequence + (L - i)
          BY <1>21, <4>2, <5>1
        <5>3. q[i].session \in Nat
          BY <1>24, <5>1
        <5> QED BY <5>1, <5>2, <5>3
      <4> QED BY <2>2, <4>1, <4>2
    <3>2. added[i] = q[i] /\ added[j].session = u /\ added[j].sequence = seq[u] + (j - L)
      BY <1>4, <2>2
    <3>3. q[i].session \in Nat /\ q[i].sequence \in Nat /\ q[i].session <= t /\ seq[u] \in Nat /\ L > 0
      BY <1>6, <1>24, <2>2
    <3>4. CASE q[i].session = t /\ u = t
      <4>1. q[L].sequence = q[i].sequence + (L - i) /\ q[L].sequence = seq[u]
        BY <1>8, <3>1, <3>3, <3>4
      <4>2. added[j].sequence = (q[i].sequence + (L - i)) + (j - L)
        BY <3>2, <4>1
      <4>3. added[j].sequence = q[i].sequence + (j - i)
        <5>1. PICK a \in Nat : a = q[i].sequence
          BY <3>3
        <5>2. (a + (L - i)) + (j - L) = a + (j - i)
          OBVIOUS
        <5> QED BY <4>2, <5>1, <5>2
      <4> QED BY <3>2, <3>4, <4>3
    <3>5. CASE q[i].session < u
      BY <3>2, <3>5
    <3> QED BY <3>3, <3>4, <3>5
  <2>3. CASE i > L
    BY <1>4, <1>5, <2>3
  <2> QED BY <2>1, <2>2, <2>3
<1>10. \A i \in 1..L + n :
         \/ i = L + n /\ added[i].session = u /\ added[i].sequence = now[u]
         \/ i < L + n /\ added[i + 1].session = added[i].session
         \/ /\ i < L + n /\ added[i + 1].session = added[i].session + 1 /\ added[i + 1].sequence = 1
            /\ added[i].sequence = now[added[i].session]
  <2> SUFFICES ASSUME NEW i \in 1..L + n
               PROVE  \/ i = L + n /\ added[i].session = u /\ added[i].sequence = now[u]
                      \/ i < L + n /\ added[i + 1].session = added[i].session
                      \/ /\ i < L + n /\ added[i + 1].session = added[i].session + 1 /\ added[i + 1].sequence = 1
                         /\ added[i].sequence = now[added[i].session]
    OBVIOUS
  <2>1. CASE i < L
    <3>1. added[i] = q[i] /\ added[i + 1] = q[i + 1] /\ i + 1 \in 1..L
      BY <1>4, <2>1
    <3>2. q[i + 1].session = q[i].session \/ (q[i + 1].session = q[i].session + 1 /\ q[i + 1].sequence = 1 /\ q[i].sequence = seq[q[i].session])
      BY <1>22, <2>1
    <3>3. q[i + 1].session = q[i].session + 1 => q[i].session # u
      BY <1>6, <3>1, <2>1 DEF Session
    <3>4. q[i].session # u => now[q[i].session] = seq[q[i].session]
      BY <1>5, <1>24, <2>1
    <3> QED BY <2>1, <3>1, <3>2, <3>3, <3>4
  <2>2. CASE i = L
    <3>1. added[L] = q[L] /\ L + 1 \in L + 1..L + n
      BY <1>4, <2>2
    <3>2. added[L + 1].session = u /\ added[L + 1].sequence = seq[u] + 1
      BY <1>3, <1>4, <3>1
    <3>3. t \in Session
      BY <1>6, <1>8, <2>2
    <3> QED BY <1>5, <1>7, <1>8, <2>2, <3>1, <3>2, <3>3
  <2>3. CASE i > L
    <3>1. CASE i = L + n
      BY <1>4, <1>5, <2>3, <3>1
    <3>2. CASE i < L + n
      <4>1. i \in L + 1..L + n /\ i + 1 \in L + 1..L + n
        BY <2>3, <3>2
      <4> QED BY <1>4, <3>2, <4>1
    <3> QED BY <3>1, <3>2
  <2> QED BY <1>3, <2>1, <2>2, <2>3
<1>11. \A s \in Session : s > u => now[s] = 0
  BY <1>5 DEF QueueStands, Session
<1>20. \A i \in 1..L + n : added[i].sequence <= now[added[i].session]
  <2> SUFFICES ASSUME NEW i \in 1..L + n PROVE added[i].sequence <= now[added[i].session]
    OBVIOUS
  <2>1. CASE i <= L
    <3>1. added[i] = q[i] /\ q[i].session \in Session /\ q[i].sequence <= seq[q[i].session] /\ q[i].sequence \in Nat
      BY <1>3, <1>4, <1>24, <2>1 DEF QueueStands
    <3>2. seq[q[i].session] \in Nat /\ now[q[i].session] \in Nat /\ seq[q[i].session] <= now[q[i].session]
      <4>1. PICK z \in Session : z = q[i].session
        BY <3>1
      <4>2. seq[z] \in Nat /\ now[z] = (IF z = u THEN seq[z] + n ELSE seq[z])
        BY <1>5
      <4>3. now[z] \in Nat /\ seq[z] <= now[z]
        BY <4>2
      <4> QED BY <4>1, <4>2, <4>3
    <3>3. PICK a \in Nat, b \in Nat, c \in Nat : a = q[i].sequence /\ b = seq[q[i].session] /\ c = now[q[i].session]
      BY <3>1, <3>2
    <3> QED BY <3>1, <3>2, <3>3
  <2>2. CASE i > L
    <3>1. added[i].session = u /\ added[i].sequence = seq[u] + (i - L)
      BY <1>4, <2>2
    <3> QED BY <1>5, <2>2, <3>1
  <2> QED BY <2>1, <2>2
<1>12. QueueStands(added, now, u)
  <2>1. Len(added) = L + n
    BY <1>2, <1>3
  <2> QED BY <1>2, <1>9, <1>10, <1>11, <1>20, <2>1 DEF QueueStands
<1>13. ASSUME NEW s \in Session PROVE Gone(added, now, s) = Gone(q, seq, s)
  <2>1. added # <<>> /\ (q = <<>> <=> L = 0)
    BY <1>2, <1>3
  <2>2. CASE L = 0
    <3>1. added[1].session = u /\ added[1].sequence = seq[u] + 1
      BY <1>4, <2>2
    <3> QED BY <1>5, <1>7, <2>1, <2>2, <3>1 DEF Gone, QueueStands, Session
  <2>3. CASE L > 0
    <3>1. added[1] = q[1] /\ q[1].session <= u
      BY <1>4, <1>6, <2>3 DEF Session
    <3> QED BY <1>5, <1>6, <2>1, <2>3, <3>1 DEF Gone, Session
  <2> QED BY <1>3, <2>2, <2>3
<1>14. \A s \in Session : seq[s] <= now[s]
  BY <1>5
<1> QED
  <2>1. Longer(q, seq, u, n) = added /\ Further(seq, u, n) = now
    BY DEF Longer, Further, more, added, now
  <2> QED BY <1>1, <1>2, <1>12, <1>13, <1>14, <2>1

\* The first n events, of session h, continue those that have left, and the rest continues them.
Cleared(q, seq, t, n, h, rest) ==
    /\ h \in Session /\ rest \in Seq(QueuedEvent) /\ QueueStands(rest, seq, t)
    /\ \A i \in 1..n : q[i].sequence = Gone(q, seq, h) + i
    /\ Gone(q, seq, h) \in Nat /\ Gone(rest, seq, h) = Gone(q, seq, h) + n /\ Gone(rest, seq, h) <= seq[h]
    /\ \A s \in Session : s # h => Gone(rest, seq, s) = Gone(q, seq, s)

\* What the flush cuts goes on where the session's earlier events end, and the rest of the queue
\* goes on where it ends.
LEMMA CutKeepsQueue ==
  ASSUME NEW q \in Seq(QueuedEvent), NEW seq \in [Session -> Nat], NEW t \in 0..MaxSessions,
         q # <<>>, QueueStands(q, seq, t), NEW n \in 1..Len(q), \A i \in 1..n : q[i].session = q[1].session
  PROVE  Cleared(q, seq, t, n, q[1].session, SubSeq(q, n + 1, Len(q)))
<1>1. PICK L \in Nat : L = Len(q) /\ L >= 1
  OBVIOUS
<1>2. \A i \in 1..L : q[i] \in QueuedEvent
  BY <1>1
<1>3. \A i \in 1..L : q[i].session \in Session /\ q[i].session \in Nat /\ q[i].sequence \in Nat /\ q[i].sequence # 0
  <2> SUFFICES ASSUME NEW i \in 1..L
               PROVE  q[i].session \in Session /\ q[i].session \in Nat /\ q[i].sequence \in Nat /\ q[i].sequence # 0
    OBVIOUS
  <2>1. q[i] \in QueuedEvent
    BY <1>2
  <2>2. q[i].session \in Session /\ q[i].sequence \in Nat \ {0}
    BY <2>1 DEF QueuedEvent
  <2> QED BY <2>2, RecorderAssumption DEF Session
<1>4. \A i, j \in 1..L : i < j => \/ q[i].session < q[j].session
                                  \/ /\ q[i].session = q[j].session
                                     /\ q[j].sequence = q[i].sequence + (j - i)
  BY <1>1 DEF QueueStands
<1>5. \A i \in 1..L :
         \/ i = L /\ q[i].session = t /\ q[i].sequence = seq[t]
         \/ i < L /\ q[i + 1].session = q[i].session
         \/ /\ i < L /\ q[i + 1].session = q[i].session + 1 /\ q[i + 1].sequence = 1
            /\ q[i].sequence = seq[q[i].session]
  BY <1>1 DEF QueueStands
<1>6. PICK rest : rest = SubSeq(q, n + 1, Len(q))
  OBVIOUS
<1>7. /\ rest \in Seq(QueuedEvent) /\ Len(rest) = L - n /\ L - n \in Nat
      /\ \A i \in 1..L - n : rest[i] = q[n + i] /\ n + i \in 1..L
  <2>1. \A i \in n + 1..Len(q) : q[i] \in QueuedEvent
    BY <1>1, <1>2
  <2>2. n + 1 \in Int /\ Len(q) \in Int
    OBVIOUS
  <2>3. /\ rest \in Seq(QueuedEvent) /\ Len(rest) = (IF n + 1 <= Len(q) THEN Len(q) - (n + 1) + 1 ELSE 0)
        /\ \A i \in 1..Len(q) - (n + 1) + 1 : rest[i] = q[n + 1 + i - 1]
    BY <1>6, <2>1, <2>2, SubSeqProperties
  <2> QED BY <1>1, <2>3
<1>8. PICK h \in Session : h = q[1].session /\ h \in Nat
  BY <1>1, <1>3
<1>9. Gone(q, seq, h) = q[1].sequence - 1 /\ q[1].sequence - 1 \in Nat
  BY <1>1, <1>3, <1>8 DEF Gone
<1>10. \A i \in 1..n : i \in 1..L /\ q[i].session = h /\ q[i].sequence = q[1].sequence - 1 + i
  <2> SUFFICES ASSUME NEW i \in 1..n
               PROVE  i \in 1..L /\ q[i].session = h /\ q[i].sequence = q[1].sequence - 1 + i
    OBVIOUS
  <2>1. i \in 1..L /\ q[i].session = h /\ 1 \in 1..L
    BY <1>1, <1>8
  <2>2. CASE i = 1
    BY <1>3, <2>1, <2>2
  <2>3. CASE i > 1
    <3>1. q[1].session < q[i].session \/ q[i].sequence = q[1].sequence + (i - 1)
      BY <1>4, <2>1, <2>3
    <3>2. q[1].sequence \in Nat /\ ~(q[1].session < q[i].session)
      BY <1>3, <1>8, <2>1
    <3>3. PICK a \in Nat : a = q[1].sequence
      BY <3>2
    <3>4. a + (i - 1) = a - 1 + i
      OBVIOUS
    <3> QED BY <2>1, <3>1, <3>2, <3>3, <3>4
  <2> QED BY <2>2, <2>3
<1>11. n \in 1..L /\ q[n].session = h /\ q[n].sequence = q[1].sequence - 1 + n /\ \A s \in Session : seq[s] \in Nat
  BY <1>1, <1>10
<1>12. QueueStands(rest, seq, t)
  <2>1. \A i, j \in 1..L - n : i < j => \/ rest[i].session < rest[j].session
                                  \/ /\ rest[i].session = rest[j].session
                                     /\ rest[j].sequence = rest[i].sequence + (j - i)
    <3> SUFFICES ASSUME NEW i \in 1..L - n, NEW j \in 1..L - n, i < j
                 PROVE  \/ rest[i].session < rest[j].session
                        \/ /\ rest[i].session = rest[j].session
                           /\ rest[j].sequence = rest[i].sequence + (j - i)
      OBVIOUS
    <3>1. rest[i] = q[n + i] /\ rest[j] = q[n + j] /\ n + i \in 1..L /\ n + j \in 1..L /\ n + i < n + j
      BY <1>7
    <3>2. (n + j) - (n + i) = j - i
      OBVIOUS
    <3>3. \/ q[n + i].session < q[n + j].session
          \/ /\ q[n + i].session = q[n + j].session
             /\ q[n + j].sequence = q[n + i].sequence + ((n + j) - (n + i))
      BY <1>4, <3>1
    <3> QED BY <3>1, <3>2, <3>3
  <2>2. \A i \in 1..L - n :
         \/ i = L - n /\ rest[i].session = t /\ rest[i].sequence = seq[t]
         \/ i < L - n /\ rest[i + 1].session = rest[i].session
         \/ /\ i < L - n /\ rest[i + 1].session = rest[i].session + 1 /\ rest[i + 1].sequence = 1
            /\ rest[i].sequence = seq[rest[i].session]
    <3> SUFFICES ASSUME NEW i \in 1..L - n
                 PROVE   \/ i = L - n /\ rest[i].session = t /\ rest[i].sequence = seq[t]
                         \/ i < L - n /\ rest[i + 1].session = rest[i].session
                         \/ /\ i < L - n /\ rest[i + 1].session = rest[i].session + 1 /\ rest[i + 1].sequence = 1
                            /\ rest[i].sequence = seq[rest[i].session]
      OBVIOUS
    <3>1. rest[i] = q[n + i] /\ n + i \in 1..L /\ (i < L - n => rest[i + 1] = q[(n + i) + 1])
      BY <1>7
    <3>2. (i = L - n <=> n + i = L) /\ (i < L - n <=> n + i < L)
      BY <1>1
    <3> QED BY <1>5, <3>1, <3>2
  <2>3. \A i \in 1..L - n : rest[i].sequence <= seq[rest[i].session]
    BY <1>1, <1>7 DEF QueueStands
  <2> QED BY <1>7, <2>1, <2>2, <2>3 DEF QueueStands
<1>13. ASSUME n = L PROVE rest = <<>> /\ h = t /\ Gone(q, seq, h) + n = seq[h] /\ \A s \in Session : s > h => seq[s] = 0
  <2>1. rest = <<>>
    BY <1>7, <1>13
  <2>2. q[L].session = t /\ q[L].sequence = seq[t]
    BY <1>5, <1>11, <1>13
  <2> QED BY <1>9, <1>11, <1>13, <2>1, <2>2 DEF QueueStands
<1>14. ASSUME n < L
       PROVE  /\ rest # <<>> /\ rest[1] = q[n + 1] /\ n + 1 \in 1..L
              /\ \/ q[n + 1].session = h /\ q[n + 1].sequence = q[1].sequence + n
                 \/ q[n + 1].session = h + 1 /\ q[n + 1].sequence = 1 /\ q[1].sequence - 1 + n = seq[h]
  <2>1. rest # <<>> /\ rest[1] = q[n + 1] /\ n + 1 \in 1..L /\ 1 \in 1..L
    BY <1>1, <1>7, <1>14
  <2>2. q[n + 1].session = h \/ (q[n + 1].session = h + 1 /\ q[n + 1].sequence = 1 /\ q[n].sequence = seq[h])
    BY <1>5, <1>11, <1>14
  <2>3. q[n + 1].session = h => q[n + 1].sequence = q[n].sequence + ((n + 1) - n)
    BY <1>4, <1>8, <1>11, <2>1
  <2> QED BY <1>3, <1>11, <2>1, <2>2, <2>3
<1>15. Gone(rest, seq, h) = Gone(q, seq, h) + n
  <2>1. CASE n = L
    BY <1>13, <2>1 DEF Gone
  <2>2. CASE n < L
    <3>1. rest # <<>> /\ rest[1] = q[n + 1] /\ q[n + 1].sequence \in Nat /\ q[1].sequence \in Nat /\ 1 \in 1..L
      BY <1>1, <1>3, <1>14, <2>2
    <3>2. CASE q[n + 1].session = h /\ q[n + 1].sequence = q[1].sequence + n
      <4>1. Gone(rest, seq, h) = q[n + 1].sequence - 1
        BY <1>8, <3>1, <3>2 DEF Gone
      <4> QED BY <1>9, <3>1, <3>2, <4>1
    <3>3. CASE q[n + 1].session = h + 1 /\ q[1].sequence - 1 + n = seq[h]
      <4>1. Gone(rest, seq, h) = seq[h]
        BY <1>8, <3>1, <3>3 DEF Gone
      <4> QED BY <1>9, <3>3, <4>1
    <3> QED BY <1>14, <2>2, <3>2, <3>3
  <2> QED BY <1>1, <2>1, <2>2
<1>16. ASSUME NEW s \in Session, s # h PROVE Gone(rest, seq, s) = Gone(q, seq, s)
  <2>0. s \in Nat /\ seq[s] \in Nat /\ q # <<>>
    BY RecorderAssumption DEF Session
  <2>1. CASE n = L
    BY <1>8, <1>13, <1>16, <2>0, <2>1 DEF Gone
  <2>2. CASE n < L
    <3>1. /\ rest # <<>> /\ rest[1] = q[n + 1] /\ q[n + 1].session \in {h, h + 1}
          /\ q[n + 1].session = h + 1 => q[n + 1].sequence = 1
      BY <1>8, <1>14, <2>2
    <3>2. CASE s < h
      <4>1. Gone(q, seq, s) = seq[s]
        BY <1>8, <2>0, <3>2 DEF Gone
      <4>2. Gone(rest, seq, s) = seq[s]
        BY <1>8, <2>0, <3>1, <3>2 DEF Gone
      <4> QED BY <4>1, <4>2
    <3>3. CASE s > h
      <4>1. Gone(q, seq, s) = 0
        BY <1>8, <2>0, <3>3 DEF Gone
      <4>2. Gone(rest, seq, s) = 0
        BY <1>8, <2>0, <3>1, <3>3 DEF Gone
      <4> QED BY <4>1, <4>2
    <3> QED BY <1>8, <1>16, <2>0, <3>2, <3>3
  <2> QED BY <1>1, <2>1, <2>2
<1>17. Gone(q, seq, h) + n <= seq[h]
  <2>1. \A i \in 1..L : q[i].sequence <= seq[q[i].session]
    BY <1>1 DEF QueueStands
  <2> QED BY <1>9, <1>11, <2>1
<1>18. \A i \in 1..n : q[i].sequence = Gone(q, seq, h) + i
  BY <1>9, <1>10
<1>19. Gone(q, seq, h) \in Nat /\ Gone(rest, seq, h) <= seq[h]
  BY <1>9, <1>15, <1>17
<1>20. Cleared(q, seq, t, n, h, rest)
  BY <1>7, <1>12, <1>15, <1>16, <1>18, <1>19 DEF Cleared
<1> QED
  BY <1>6, <1>8, <1>20

\* A sum below one bound is below a larger one.
LEMMA AtMost ==
  ASSUME NEW a \in Nat, NEW e \in Nat, NEW x \in Nat, NEW y \in Nat, a + e <= x, x <= y
  PROVE  a + e <= y
OBVIOUS

\* What is said of the page does not depend on its timer, its connection or its farewell, and
\* outlives what it emits.
LEMMA EmissionKeeps ==
  ASSUME NEW p, NEW w, NEW bs, NEW st, Reported(p, w, bs, st), NEW r \in Page,
         r.pendingBatch = p.pendingBatch, r.made = p.made, r.waiting = p.waiting, r.alive = p.alive,
         QueueStands(r.queue, r.sequence, r.session),
         \A s \in Session : /\ Gone(r.queue, r.sequence, s) = Gone(p.queue, p.sequence, s)
                            /\ p.sequence[s] <= r.sequence[s]
  PROVE  Reported(r, w, bs, st)
<1>1. RecorderTypes(r, w, bs, st) /\ WaitStands(r, w, bs)
  BY DEF Reported, RecorderTypes, WaitStands
<1>2. Unrecorded(r, w, bs) = Unrecorded(p, w, bs)
  BY DEF Unrecorded
<1>3. \A s \in Session : Len(st[s]) \in Nat /\ p.sequence[s] \in Nat /\ r.sequence[s] \in Nat /\ p.sequence[s] <= r.sequence[s]
  BY DEF Reported, RecorderTypes, Page
<1>4. \A b \in Unrecorded(p, w, bs) : b.session \in Session /\ Len(b.events) \in Nat
  BY DEF Reported, RecorderTypes, Unrecorded, Page, Batch, Message
<1>5. FrontStands(r, w, bs, st)
  <2>1. \A b \in Unrecorded(p, w, bs) : Len(st[b.session]) + Len(b.events) <= r.sequence[b.session]
    <3> SUFFICES ASSUME NEW b \in Unrecorded(p, w, bs)
                 PROVE  Len(st[b.session]) + Len(b.events) <= r.sequence[b.session]
      OBVIOUS
    <3>1. Len(st[b.session]) + Len(b.events) <= p.sequence[b.session]
      BY DEF Reported, FrontStands
    <3>2. /\ Len(st[b.session]) \in Nat /\ p.sequence[b.session] \in Nat /\ r.sequence[b.session] \in Nat
          /\ p.sequence[b.session] <= r.sequence[b.session] /\ Len(b.events) \in Nat
      BY <1>3, <1>4
    <3> QED BY <3>1, <3>2, AtMost, Zenon
  <2> QED BY <1>2, <1>4, <2>1 DEF Reported, FrontStands
<1>6. Prefix(r, st)
  BY <1>3 DEF Reported, Prefix
<1> QED
  BY <1>1, <1>5, <1>6 DEF Reported

\* Events of the page's session, or of the one it has just entered, join the queue.
LEMMA PushKeeps ==
  ASSUME NEW p, NEW w, NEW bs, NEW st, Reported(p, w, bs, st), NEW n \in Nat \ {0}, NEW r \in Page,
         r.queue = p.queue, r.sequence = p.sequence, r.session \in Session, r.session \in {p.session, p.session + 1},
         r.pendingBatch = p.pendingBatch, r.made = p.made, r.waiting = p.waiting, r.alive = p.alive
  PROVE  /\ Push(r, n) \in Page /\ Reported(Push(r, n), w, bs, st)
         /\ Push(r, n).waiting = p.waiting /\ Push(r, n).alive = p.alive
<1>1. PICK q \in Seq(QueuedEvent), seq \in [Session -> Nat], t \in 0..MaxSessions, u \in Session :
        /\ q = r.queue /\ seq = r.sequence /\ t = p.session /\ u = r.session
        /\ u \in {t, t + 1} /\ QueueStands(q, seq, t)
  <2>1. /\ r.queue \in Seq(QueuedEvent) /\ r.sequence \in [Session -> Nat] /\ p.session \in 0..MaxSessions
        /\ QueueStands(r.queue, r.sequence, p.session)
    BY DEF Reported, RecorderTypes, Page
  <2> QED BY <2>1
<1>6. PICK added, now : added = Longer(q, seq, u, n) /\ now = Further(seq, u, n)
  OBVIOUS
<1>2. /\ added \in Seq(QueuedEvent) /\ now \in [Session -> Nat] /\ QueueStands(added, now, u)
      /\ \A s \in Session : Gone(added, now, s) = Gone(q, seq, s) /\ seq[s] <= now[s]
  BY <1>1, <1>6, PushKeepsQueue
<1>3. Push(r, n) = [r EXCEPT !.sequence = now, !.queue = added, !.timer = TRUE]
  BY <1>1, <1>6 DEF Push, Page, Longer, Further
<1>4. /\ Push(r, n) \in Page /\ Push(r, n).queue = added /\ Push(r, n).sequence = now /\ Push(r, n).session = u
      /\ Push(r, n).pendingBatch = p.pendingBatch /\ Push(r, n).made = p.made
      /\ Push(r, n).waiting = p.waiting /\ Push(r, n).alive = p.alive
  BY <1>1, <1>2, <1>3 DEF Page
<1> QED
  BY <1>1, <1>2, <1>4, EmissionKeeps

\* A message less changes nothing.
LEMMA LossKeeps ==
  ASSUME NEW p, NEW w, NEW bs, NEW st, Reported(p, w, bs, st), NEW v, v \subseteq w
  PROVE  Reported(p, v, bs, st)
<1>1. Unrecorded(p, v, bs) \subseteq Unrecorded(p, w, bs)
  BY DEF Unrecorded
<1>2. RecorderTypes(p, v, bs, st) /\ WaitStands(p, v, bs)
  BY DEF Reported, RecorderTypes, WaitStands
<1>3. p.alive => Unrecorded(p, v, bs) = Unrecorded(p, w, bs)
  BY <1>1 DEF Reported, FrontStands, Unrecorded
<1> QED
  BY <1>1, <1>2, <1>3 DEF Reported, FrontStands

\* An attempt that fails leaves the batch; nothing that is still under way is waited for.
LEMMA FailureKeeps ==
  ASSUME NEW p, NEW w, NEW bs, NEW st, Reported(p, w, bs, st), NEW v, v \subseteq Message,
         \A m \in v : ~m.awaited /\ (m.kind = "request" => \E k \in w : k.kind = "request" /\ k.batch = m.batch)
  PROVE  Reported(flushFailed(p), v, bs, st)
<1> DEFINE r == flushFailed(p)
<1>1. /\ r \in Page /\ r.waiting = {} /\ r.pendingBatch = p.pendingBatch /\ r.made = p.made /\ r.alive = p.alive
      /\ r.session = p.session /\ r.sequence = p.sequence /\ r.queue = p.queue
  BY DEF Reported, RecorderTypes, Page, flushFailed
<1> HIDE DEF r
<1>2. Unrecorded(r, v, bs) \subseteq Unrecorded(p, w, bs)
  BY <1>1 DEF Unrecorded
<1>3. p.alive => Unrecorded(r, v, bs) = Unrecorded(p, w, bs)
  BY <1>1, <1>2 DEF Reported, FrontStands, Unrecorded
<1>4. RecorderTypes(r, v, bs, st) /\ WaitStands(r, v, bs)
  BY <1>1 DEF Reported, RecorderTypes, WaitStands
<1>5. FrontStands(r, v, bs, st)
  BY <1>1, <1>2, <1>3 DEF Reported, FrontStands
<1> QED
  BY <1>1, <1>4, <1>5 DEF Reported, Prefix, r

\* A page that goes leaves what it has sent.
LEMMA ClosingKeeps ==
  ASSUME NEW p, NEW w, NEW bs, NEW st, Reported(p, w, bs, st), NEW v, v \subseteq Message,
         \A m \in v : ~m.awaited /\ (m.kind = "request" => \E k \in w : k.kind = "request" /\ k.batch = m.batch)
  PROVE  Reported([p EXCEPT !.alive = FALSE, !.timer = FALSE, !.waiting = {}, !.queue = <<>>, !.pendingBatch = {}], v, bs, st)
<1> DEFINE r == [p EXCEPT !.alive = FALSE, !.timer = FALSE, !.waiting = {}, !.queue = <<>>, !.pendingBatch = {}]
<1>1. /\ r \in Page /\ r.waiting = {} /\ r.pendingBatch = {} /\ r.made = p.made /\ ~r.alive
      /\ r.session = p.session /\ r.sequence = p.sequence /\ r.queue = <<>>
  <2>1. <<>> \in Seq(QueuedEvent)
    OBVIOUS
  <2> QED BY <2>1 DEF Reported, RecorderTypes, Page
<1> HIDE DEF r
<1>2. Unrecorded(r, v, bs) \subseteq Unrecorded(p, w, bs)
  BY <1>1 DEF Unrecorded
<1>4. RecorderTypes(r, v, bs, st) /\ WaitStands(r, v, bs)
  BY <1>1 DEF Reported, RecorderTypes, WaitStands
<1>5. FrontStands(r, v, bs, st)
  BY <1>1, <1>2 DEF Reported, FrontStands
<1>6. QueueStands(r.queue, r.sequence, r.session)
  BY <1>1 DEF Reported, QueueStands
<1> QED
  BY <1>1, <1>4, <1>5, <1>6 DEF Reported, Prefix, r

\* The answer the page waits for is of the only batch there is, and says that it is recorded.
LEMMA AcceptedIsRecorded ==
  ASSUME NEW p, NEW w, NEW bs, NEW st, Reported(p, w, bs, st), NEW m \in w, m.kind = "answer", m.awaited, m.ok
  PROVE  LET done == [p EXCEPT !.waiting = {}, !.pendingBatch = {}]
         IN  /\ p.alive /\ Reported(done, w \ {m}, bs, st) /\ done.waiting = {} /\ done.alive
<1> DEFINE r == [p EXCEPT !.waiting = {}, !.pendingBatch = {}]
<1>1. /\ r \in Page /\ r.waiting = {} /\ r.pendingBatch = {} /\ r.made = p.made /\ r.alive = p.alive
      /\ r.session = p.session /\ r.sequence = p.sequence /\ r.queue = p.queue
  BY DEF Reported, RecorderTypes, Page
<1> HIDE DEF r
<1>2. p.alive /\ p.pendingBatch \subseteq bs /\ \A k \in w \ {m} : ~k.awaited
  BY DEF Reported, WaitStands, RecorderTypes, Page
<1>3. Unrecorded(p, w, bs) = {}
  BY <1>2 DEF Reported, FrontStands, Unrecorded
<1>4. Unrecorded(r, w \ {m}, bs) = {}
  BY <1>1, <1>3 DEF Unrecorded
<1>5. RecorderTypes(r, w \ {m}, bs, st) /\ WaitStands(r, w \ {m}, bs)
  BY <1>1, <1>2 DEF Reported, RecorderTypes, WaitStands
<1>6. FrontStands(r, w \ {m}, bs, st)
  BY <1>1, <1>3, <1>4 DEF Reported, FrontStands
<1> QED
  BY <1>1, <1>2, <1>5, <1>6 DEF Reported, Prefix, r

\* A timer that is set or spent tells nothing.
LEMMA TimerKeeps ==
  ASSUME NEW p, NEW w, NEW bs, NEW st, Reported(p, w, bs, st), NEW k \in BOOLEAN
  PROVE  Reported([p EXCEPT !.timer = k], w, bs, st)
<1>1. PICK r : r = [p EXCEPT !.timer = k]
  OBVIOUS
<1>2. /\ r \in Page /\ r.waiting = p.waiting /\ r.pendingBatch = p.pendingBatch /\ r.made = p.made /\ r.alive = p.alive
      /\ r.session = p.session /\ r.sequence = p.sequence /\ r.queue = p.queue
  BY <1>1 DEF Reported, RecorderTypes, Page
<1>3. \A s \in Session : p.sequence[s] <= r.sequence[s]
  BY <1>2 DEF Page
<1>4. QueueStands(r.queue, r.sequence, r.session)
  BY <1>2 DEF Reported
<1>5. Reported(r, w, bs, st)
  BY <1>2, <1>3, <1>4, EmissionKeeps
<1> QED
  BY <1>1, <1>5

\* Nor does a page that takes its leave.
LEMMA ConnectionKeeps ==
  ASSUME NEW p, NEW w, NEW bs, NEW st, Reported(p, w, bs, st), NEW k \in BOOLEAN
  PROVE  Reported([p EXCEPT !.disconnected = k], w, bs, st)
<1>1. PICK r : r = [p EXCEPT !.disconnected = k]
  OBVIOUS
<1>2. /\ r \in Page /\ r.waiting = p.waiting /\ r.pendingBatch = p.pendingBatch /\ r.made = p.made /\ r.alive = p.alive
      /\ r.session = p.session /\ r.sequence = p.sequence /\ r.queue = p.queue
  BY <1>1 DEF Reported, RecorderTypes, Page
<1>3. \A s \in Session : p.sequence[s] <= r.sequence[s]
  BY <1>2 DEF Page
<1>4. QueueStands(r.queue, r.sequence, r.session)
  BY <1>2 DEF Reported
<1>5. Reported(r, w, bs, st)
  BY <1>2, <1>3, <1>4, EmissionKeeps
<1> QED
  BY <1>1, <1>5

\* The next batch of the queue, and the page that has cut it.
NextBatch(p) == [id |-> p.made + 1, session |-> p.queue[1].session,
                 events |-> [i \in 1..BatchLength(p.queue) |-> p.queue[i].sequence]]
Cutting(p) == [p EXCEPT !.pendingBatch = {NextBatch(p)}, !.made = @ + 1,
                        !.queue = SubSeq(@, BatchLength(p.queue) + 1, Len(@))]

\* A batch that is cut goes on where the engine's events end: everything before it is recorded.
LEMMA CutKeeps ==
  ASSUME NEW p, NEW w, NEW bs, NEW st, Reported(p, w, bs, st), p.alive, p.pendingBatch = {}, p.waiting = {}, p.queue # <<>>
  PROVE  Reported(Cutting(p), w, bs, st)
<1>0. PICK n, b, r : n = BatchLength(p.queue) /\ b = NextBatch(p) /\ r = Cutting(p)
  OBVIOUS
<1>1. /\ p.queue \in Seq(QueuedEvent) /\ p.sequence \in [Session -> Nat] /\ p.session \in 0..MaxSessions
      /\ QueueStands(p.queue, p.sequence, p.session) /\ p.made \in Nat /\ p \in Page
      /\ bs \subseteq Batch /\ w \subseteq Message /\ st \in [Session -> Seq(Nat)]
  BY DEF Reported, RecorderTypes, Page
<1>2. n \in 1..Len(p.queue) /\ \A i \in 1..n : p.queue[i].session = p.queue[1].session
  BY <1>0, <1>1, BatchLengthIs
<1>3. PICK h \in Session, rest \in Seq(QueuedEvent) :
        /\ h = p.queue[1].session /\ rest = SubSeq(p.queue, n + 1, Len(p.queue))
        /\ QueueStands(rest, p.sequence, p.session)
        /\ \A i \in 1..n : p.queue[i].sequence = Gone(p.queue, p.sequence, h) + i
        /\ Gone(p.queue, p.sequence, h) \in Nat /\ Gone(rest, p.sequence, h) = Gone(p.queue, p.sequence, h) + n
        /\ Gone(rest, p.sequence, h) <= p.sequence[h]
        /\ \A s \in Session : s # h => Gone(rest, p.sequence, s) = Gone(p.queue, p.sequence, s)
  <2>1. PICK q \in Seq(QueuedEvent), seq \in [Session -> Nat], t \in 0..MaxSessions :
          q = p.queue /\ seq = p.sequence /\ t = p.session /\ QueueStands(q, seq, t) /\ q # <<>>
    BY <1>1
  <2>2. n \in 1..Len(q) /\ \A i \in 1..n : q[i].session = q[1].session
    BY <1>2, <2>1
  <2>3. PICK h, rest : h = q[1].session /\ rest = SubSeq(q, n + 1, Len(q))
    OBVIOUS
  <2>4. Cleared(q, seq, t, n, h, rest)
    BY <2>1, <2>2, <2>3, CutKeepsQueue
  <2> QED BY <2>1, <2>3, <2>4 DEF Cleared
<1>5. Unrecorded(p, w, bs) = {}
  BY DEF Reported, FrontStands
<1>6. \A s \in Session : Len(st[s]) = Gone(p.queue, p.sequence, s)
  BY <1>5 DEF Reported, FrontStands
<1>7. n \in Nat /\ b.id = p.made + 1 /\ b.session = h /\ Len(b.events) = n /\ b.events = [i \in 1..n |-> Len(st[h]) + i] /\ b.events \in Seq(Nat)
  <2>1. b.id = p.made + 1 /\ b.session = h /\ b.events = [i \in 1..n |-> p.queue[i].sequence]
    BY <1>0, <1>3 DEF NextBatch
  <2>2. n \in Nat
    BY <1>2
  <2>3. Len(st[h]) \in Nat
    BY <1>1
  <2>4. [i \in 1..n |-> p.queue[i].sequence] = [i \in 1..n |-> Len(st[h]) + i]
    BY <1>3, <1>6
  <2>5. [i \in 1..n |-> Len(st[h]) + i] \in Seq(Nat) /\ Len([i \in 1..n |-> Len(st[h]) + i]) = n
    BY <2>2, <2>3
  <2> QED BY <2>1, <2>2, <2>4, <2>5
<1>8. b \in Batch
  <2>1. p.made + 1 \in Nat
    BY <1>1
  <2>2. b = [id |-> b.id, session |-> b.session, events |-> b.events]
    BY <1>0 DEF NextBatch
  <2> QED BY <1>3, <1>7, <2>1, <2>2 DEF Batch
<1>9. b \notin bs
  <2>1. \A c \in bs : c.id \in Nat /\ c.id <= p.made
    BY <1>1 DEF Reported, FrontStands, Batch
  <2> QED BY <1>1, <1>7, <2>1
<1>10. /\ r \in Page /\ r.pendingBatch = {b} /\ r.made = p.made + 1 /\ r.queue = rest /\ r.sequence = p.sequence
       /\ r.session = p.session /\ r.waiting = {} /\ r.alive
  <2>1. p.made + 1 \in Nat /\ {b} \in SUBSET Batch
    BY <1>1, <1>8
  <2>2. r = [p EXCEPT !.pendingBatch = {b}, !.made = p.made + 1, !.queue = rest]
    BY <1>0, <1>1, <1>3 DEF Cutting, Page
  <2> QED BY <1>1, <2>1, <2>2 DEF Page
<1>11. Unrecorded(r, w, bs) = {b}
  BY <1>5, <1>9, <1>10 DEF Unrecorded
<1>12. RecorderTypes(r, w, bs, st) /\ WaitStands(r, w, bs)
  BY <1>1, <1>10 DEF Reported, RecorderTypes, WaitStands
<1>13. FrontStands(r, w, bs, st)
  <2>1. \A c \in bs \cup {b} : c.id <= r.made
    <3>1. \A c \in bs : c.id \in Nat /\ c.id <= p.made
      BY <1>1 DEF Reported, FrontStands, Batch
    <3> QED BY <1>1, <1>7, <1>10, <3>1
  <2>2. /\ b.events = [i \in 1..Len(b.events) |-> Len(st[b.session]) + i]
        /\ Len(st[b.session]) + Len(b.events) <= r.sequence[b.session]
        /\ Len(st[b.session]) + Len(b.events) = Gone(r.queue, r.sequence, b.session)
    <3>1. b.events = [i \in 1..Len(b.events) |-> Len(st[b.session]) + i]
      BY <1>7
    <3>2. Len(st[b.session]) + Len(b.events) = Gone(r.queue, r.sequence, b.session)
      BY <1>3, <1>6, <1>7, <1>10
    <3> QED BY <1>3, <1>7, <1>10, <3>1, <3>2
  <2>3. \A s \in Session : s # b.session => Len(st[s]) = Gone(r.queue, r.sequence, s)
    BY <1>3, <1>6, <1>7, <1>10
  <2> QED BY <1>10, <1>11, <2>1, <2>2, <2>3 DEF FrontStands
<1> QED
  BY <1>0, <1>3, <1>10, <1>12, <1>13 DEF Reported, Prefix

\* A flush sends the batch that waits, or the next one, again or for the first time.
LEMMA FlushKeeps ==
  ASSUME NEW p, NEW w, NEW bs, NEW st, Reported(p, w, bs, st), p.alive, p.waiting = {}, NEW k \in BOOLEAN,
         NEW r, r = FlushTurn(p, k)
  PROVE  Reported(r, w \cup Request(r), bs, st)
<1>1. PICK cut : /\ Reported(cut, w, bs, st) /\ cut.waiting = {} /\ cut.alive
                 /\ r = [cut EXCEPT !.waiting = cut.pendingBatch, !.keepalive = k]
  <2>1. CASE p.pendingBatch = {} /\ p.queue # <<>>
    <3> DEFINE c == Cutting(p)
    <3>1. r = [c EXCEPT !.waiting = c.pendingBatch, !.keepalive = k]
      BY <2>1 DEF FlushTurn, Cutting, NextBatch
    <3>2. c.waiting = {} /\ c.alive
      BY DEF Reported, RecorderTypes, Page, Cutting
    <3>3. Reported(c, w, bs, st)
      BY <2>1, CutKeeps
    <3> QED BY <3>1, <3>2, <3>3
  <2>2. CASE ~(p.pendingBatch = {} /\ p.queue # <<>>)
    BY <2>2 DEF FlushTurn
  <2> QED BY <2>1, <2>2
<1>2. /\ r \in Page /\ r.waiting = cut.pendingBatch /\ r.pendingBatch = cut.pendingBatch /\ r.made = cut.made /\ r.alive
      /\ r.session = cut.session /\ r.sequence = cut.sequence /\ r.queue = cut.queue /\ cut.pendingBatch \subseteq Batch
  BY <1>1 DEF Reported, RecorderTypes, Page
<1>3. PICK v : v = w \cup Request(r)
  OBVIOUS
<1>4. \A m \in v : m \in w \/ (m.kind = "request" /\ m.awaited /\ m.batch \in cut.pendingBatch /\ m \in Message)
  <2> SUFFICES ASSUME NEW m \in Request(r)
               PROVE  m.kind = "request" /\ m.awaited /\ m.batch \in cut.pendingBatch /\ m \in Message
    BY <1>3
  <2>1. PICK c \in r.waiting : m = [kind |-> "request", awaited |-> TRUE, batch |-> c]
    BY DEF Request
  <2> QED BY <1>2, <2>1 DEF Message
<1>5. Unrecorded(r, v, bs) = Unrecorded(cut, w, bs)
  BY <1>2, <1>3, <1>4 DEF Unrecorded
<1>6. \A m \in w : ~m.awaited
  BY <1>1 DEF Reported, WaitStands
<1>7. \A m, j \in v : m.awaited /\ j.awaited => m = j
  <2> SUFFICES ASSUME NEW m \in Request(r), NEW j \in Request(r) PROVE m = j
    BY <1>3, <1>6
  <2>1. PICK c \in r.waiting : m = [kind |-> "request", awaited |-> TRUE, batch |-> c]
    BY DEF Request
  <2>2. PICK d \in r.waiting : j = [kind |-> "request", awaited |-> TRUE, batch |-> d]
    BY DEF Request
  <2>3. c = d
    BY <1>1, <1>2 DEF Reported, WaitStands
  <2> QED BY <2>1, <2>2, <2>3
<1>8. RecorderTypes(r, v, bs, st)
  BY <1>1, <1>2, <1>4 DEF Reported, RecorderTypes
<1>9. WaitStands(r, v, bs)
  BY <1>1, <1>2, <1>4, <1>6, <1>7 DEF Reported, WaitStands
<1>10. FrontStands(r, v, bs, st)
  BY <1>1, <1>2, <1>5 DEF Reported, FrontStands
<1> QED
  BY <1>1, <1>2, <1>3, <1>8, <1>9, <1>10 DEF Reported, Prefix

\* The engine takes the one batch that goes on where its events end.
LEMMA RecordingKeeps ==
  ASSUME NEW p, NEW w, NEW bs, NEW st, Reported(p, w, bs, st), NEW b \in Unrecorded(p, w, bs)
  PROVE  Reported(p, w, bs \cup {b}, [st EXCEPT ![b.session] = @ \o b.events])
<1>1. b \in Batch /\ b.session \in Session /\ b.events \in Seq(Nat) /\ b \notin bs
  BY DEF Reported, RecorderTypes, Unrecorded, Page, Batch, Message
<1>2. PICK h \in Session, old \in Seq(Nat), e \in Seq(Nat) : h = b.session /\ old = st[h] /\ e = b.events
  BY <1>1 DEF Reported, RecorderTypes
<1>3. PICK new : new = old \o e
  OBVIOUS
<1>4. /\ new \in Seq(Nat) /\ Len(new) = Len(old) + Len(e)
      /\ \A i \in 1..Len(old) + Len(e) : new[i] = IF i <= Len(old) THEN old[i] ELSE e[i - Len(old)]
  BY <1>3, ConcatProperties
<1>5. PICK now : now = [st EXCEPT ![h] = new]
  OBVIOUS
<1>6. now \in [Session -> Seq(Nat)] /\ now[h] = new /\ \A s \in Session : s # h => now[s] = st[s]
  BY <1>4, <1>5 DEF Reported, RecorderTypes
<1>7. Unrecorded(p, w, bs) = {b} /\ Unrecorded(p, w, bs \cup {b}) = {}
  BY DEF Reported, FrontStands, Unrecorded
<1>8. RecorderTypes(p, w, bs \cup {b}, now)
  BY <1>1, <1>6 DEF Reported, RecorderTypes
<1>9. WaitStands(p, w, bs \cup {b})
  BY DEF Reported, WaitStands
<1>10. /\ e = [i \in 1..Len(e) |-> Len(old) + i] /\ Len(old) + Len(e) <= p.sequence[h]
       /\ p.alive => Len(old) + Len(e) = Gone(p.queue, p.sequence, h)
       /\ old = [i \in 1..Len(old) |-> i]
  BY <1>2 DEF Reported, FrontStands, Prefix
<1>11. FrontStands(p, w, bs \cup {b}, now)
  <2>1. \A c \in bs \cup {b} : c.id <= p.made
    BY DEF Reported, FrontStands
  <2>2. p.alive => \A s \in Session : Len(now[s]) = Gone(p.queue, p.sequence, s)
    BY <1>2, <1>4, <1>6, <1>7, <1>10 DEF Reported, FrontStands
  <2> QED BY <1>7, <2>1, <2>2 DEF FrontStands
<1>12. Prefix(p, now)
  <2>1. new = [i \in 1..Len(new) |-> i]
    <3>1. \A i \in 1..Len(new) : new[i] = i
      <4> SUFFICES ASSUME NEW i \in 1..Len(new) PROVE new[i] = i
        OBVIOUS
      <4>1. Len(old) \in Nat /\ Len(e) \in Nat /\ i \in 1..Len(old) + Len(e)
        BY <1>4
      <4>2. CASE i <= Len(old)
        <5>1. new[i] = old[i] /\ i \in 1..Len(old)
          BY <1>4, <4>1, <4>2
        <5> QED BY <1>10, <5>1
      <4>3. CASE i > Len(old)
        <5>1. new[i] = e[i - Len(old)] /\ i - Len(old) \in 1..Len(e)
          BY <1>4, <4>1, <4>3
        <5>2. e[i - Len(old)] = Len(old) + (i - Len(old))
          BY <1>10, <5>1
        <5> QED BY <4>1, <5>1, <5>2
      <4> QED BY <4>1, <4>2, <4>3
    <3>2. new \in Seq(Nat)
      BY <1>4
    <3> QED BY <3>1, <3>2
  <2>2. Len(new) <= p.sequence[h]
    BY <1>4, <1>10
  <2>3. \A s \in Session : s # h => now[s] = [i \in 1..Len(now[s]) |-> i] /\ Len(now[s]) <= p.sequence[s]
    BY <1>6 DEF Reported, Prefix
  <2>4. now[h] = [i \in 1..Len(now[h]) |-> i] /\ Len(now[h]) <= p.sequence[h]
    BY <1>6, <2>1, <2>2
  <2> QED BY <2>3, <2>4 DEF Prefix
<1> QED
  BY <1>2, <1>3, <1>5, <1>8, <1>9, <1>11, <1>12 DEF Reported

\* An answer takes the place of its request, and says so truly when the batch is recorded.
LEMMA AnswerKeeps ==
  ASSUME NEW p, NEW w, NEW bs, NEW st, Reported(p, w, bs, st), NEW m \in w, m.kind = "request",
         NEW yes \in BOOLEAN, yes => m.batch \in bs
  PROVE  Reported(p, (w \ {m}) \cup {[kind |-> "answer", awaited |-> m.awaited, ok |-> yes]}, bs, st)
<1>1. m.awaited \in BOOLEAN
  BY DEF Reported, RecorderTypes, Message
<1>2. PICK a \in Message : a = [kind |-> "answer", awaited |-> m.awaited, ok |-> yes]
  BY <1>1 DEF Message
<1>3. a.kind = "answer" /\ a.awaited = m.awaited /\ a.ok = yes
  BY <1>2
<1>4. PICK v : v = (w \ {m}) \cup {a}
  OBVIOUS
<1>5. Unrecorded(p, v, bs) \subseteq Unrecorded(p, w, bs)
  BY <1>3, <1>4 DEF Unrecorded
<1>6. p.alive => Unrecorded(p, v, bs) = Unrecorded(p, w, bs)
  BY <1>5 DEF Reported, FrontStands, Unrecorded
<1>7. RecorderTypes(p, v, bs, st)
  BY <1>2, <1>4 DEF Reported, RecorderTypes
<1>8. m.awaited => /\ p.waiting # {} /\ m.batch \in p.waiting /\ (yes => p.waiting \subseteq bs)
                   /\ \A k \in w \ {m} : ~k.awaited
  BY DEF Reported, WaitStands
<1>9. WaitStands(p, v, bs)
  <2>1. ASSUME NEW x \in v, x.awaited
        PROVE  /\ p.waiting # {} /\ \A k \in v : k.awaited => k = x
               /\ x.kind = "request" => x.batch \in p.waiting
               /\ x.kind = "answer" /\ x.ok => p.waiting \subseteq bs
    <3>1. CASE x = a
      BY <1>3, <1>4, <1>8, <2>1, <3>1
    <3>2. CASE x \in w /\ x # m
      <4>1. ~m.awaited
        BY <1>8, <2>1, <3>2
      <4> QED BY <1>3, <1>4, <2>1, <3>2, <4>1 DEF Reported, WaitStands
    <3> QED BY <1>4, <2>1, <3>1, <3>2
  <2> QED BY <2>1 DEF Reported, WaitStands
<1>10. FrontStands(p, v, bs, st)
  BY <1>5, <1>6 DEF Reported, FrontStands
<1> QED
  BY <1>2, <1>4, <1>7, <1>9, <1>10 DEF Reported

\* Forgetting a message keeps its batch.
LEMMA ForgottenIs ==
  ASSUME NEW w, w \subseteq Message
  PROVE  /\ Forgotten(w) \subseteq Message
         /\ \A m \in Forgotten(w) : ~m.awaited /\ (m.kind = "request" => \E k \in w : k.kind = "request" /\ k.batch = m.batch)
<1> SUFFICES ASSUME NEW m \in Forgotten(w)
             PROVE  /\ m \in Message /\ ~m.awaited
                    /\ m.kind = "request" => \E k \in w : k.kind = "request" /\ k.batch = m.batch
  OBVIOUS
<1>1. PICK k \in w : m = [k EXCEPT !.awaited = FALSE]
  BY DEF Forgotten
<1> QED
  BY <1>1 DEF Message

\* A page that has emitted nothing.
LEMMA RecorderStarts == RecorderInit => RecorderInv
<1> SUFFICES ASSUME RecorderInit PROVE RecorderInv
  OBVIOUS
<1>1. <<>> \in Seq(QueuedEvent) /\ <<>> \in Seq(Nat) /\ Len(<<>>) = 0 /\ 0 \in 0..MaxSessions /\ <<>> = [i \in 1..0 |-> i]
  BY RecorderAssumption
<1>2. /\ page \in Page /\ page.session = 0 /\ page.queue = <<>> /\ page.pendingBatch = {} /\ page.waiting = {}
      /\ page.disconnected /\ page.sequence = [s \in Session |-> 0] /\ wire = {} /\ batches = {} /\ stored = [s \in Session |-> <<>>]
  BY <1>1 DEF RecorderInit, Page
<1>3. RecorderTypes(page, wire, batches, stored) /\ WaitStands(page, wire, batches)
  BY <1>1, <1>2 DEF RecorderTypes, WaitStands
<1>4. Unrecorded(page, wire, batches) = {} /\ \A s \in Session : stored[s] = <<>> /\ page.sequence[s] = 0
  BY <1>2 DEF Unrecorded
<1>5. QueueStands(page.queue, page.sequence, page.session)
  BY <1>1, <1>2, <1>4 DEF QueueStands
<1>6. FrontStands(page, wire, batches, stored)
  BY <1>1, <1>2, <1>4 DEF FrontStands, Gone
<1>7. Prefix(page, stored)
  BY <1>1, <1>4 DEF Prefix
<1> QED
  BY <1>2, <1>3, <1>5, <1>6, <1>7 DEF RecorderInv, Reported

\* The engine's three handlers record and answer alike.
LEMMA HandlerKeeps ==
  ASSUME RecorderInv, NEW m \in wire, m.kind = "request", Answer(m), UNCHANGED page,
         \/ UNCHANGED <<batches, stored>> /\ ~Admissible(m.batch)
         \/ /\ Admissible(m.batch)
            /\ batches' = batches \cup {m.batch}
            /\ stored' = [stored EXCEPT ![m.batch.session] = @ \o m.batch.events]
  PROVE  Reported(page, wire, batches, stored)'
<1>1. Reported(page, wire, batches, stored)
  BY DEF RecorderInv
<1>2. PICK yes \in BOOLEAN :
        /\ yes = (Admissible(m.batch) \/ (accepting /\ Known(m.batch) = {m.batch}))
        /\ wire' = (wire \ {m}) \cup {[kind |-> "answer", awaited |-> m.awaited, ok |-> yes]}
  BY DEF Answer
<1>3. Reported(page, wire, batches', stored') /\ (yes => m.batch \in batches')
  <2>1. CASE Admissible(m.batch)
    <3>1. m.batch \in Unrecorded(page, wire, batches)
      BY <2>1 DEF Unrecorded, Admissible, Known
    <3>2. PICK b \in Unrecorded(page, wire, batches) : b = m.batch
      BY <3>1
    <3>3. Reported(page, wire, batches \cup {b}, [stored EXCEPT ![b.session] = @ \o b.events])
      BY <1>1, RecordingKeeps
    <3> QED BY <2>1, <3>2, <3>3
  <2>2. CASE ~Admissible(m.batch)
    BY <1>1, <1>2, <2>2 DEF Known
  <2> QED BY <2>1, <2>2
<1>4. Reported(page, wire', batches', stored')
  BY <1>2, <1>3, AnswerKeeps
<1> QED
  BY <1>4

\* Every step of the page, the wire and the engine.
LEMMA ReportedStep ==
  ASSUME RecorderInv, [RecorderNext]_recorderVars
  PROVE  Reported(page, wire, batches, stored)'
<1>0. /\ Reported(page, wire, batches, stored) /\ page \in Page /\ wire \subseteq Message
      /\ page.disconnected \/ page.session \in Session
  BY DEF RecorderInv, Reported, RecorderTypes
<1> USE DEF engineVars
<1>1. CASE resume
  <2>1. PICK r : r = [page EXCEPT !.session = @ + 1, !.disconnected = FALSE]
    OBVIOUS
  <2>2. page.session + 1 \in 1..MaxSessions /\ page.session + 1 \in 0..MaxSessions
    BY <1>0, <1>1, RecorderAssumption DEF resume, Sessions, Page
  <2>3. /\ r \in Page /\ r.session \in Session /\ r.session = page.session + 1 /\ r.queue = page.queue /\ r.sequence = page.sequence
        /\ r.pendingBatch = page.pendingBatch /\ r.made = page.made /\ r.waiting = page.waiting /\ r.alive = page.alive
    BY <1>0, <2>1, <2>2 DEF Page, Session
  <2>4. PICK n \in Nat \ {0} : n = Burst
    BY DEF Burst
  <2>5. Reported(Push(r, n), wire, batches, stored)
    BY <1>0, <2>3, PushKeeps
  <2> QED BY <1>1, <2>1, <2>4, <2>5 DEF resume
<1>2. CASE emit
  <2>1. CASE Emitted < MaxEmitted
    <3>1. page.session \in Session
      BY <1>0, <1>2 DEF emit, Page, Session
    <3>2. Reported(Push(page, 1), wire, batches, stored)
      BY <1>0, <3>1, PushKeeps
    <3> QED BY <1>2, <2>1, <3>2 DEF emit
  <2>2. CASE ~(Emitted < MaxEmitted)
    <3>1. page' = [page EXCEPT !.timer = TRUE] /\ UNCHANGED <<wire, batches, stored>>
      BY <1>2, <2>2 DEF emit
    <3> QED BY <1>0, <3>1, TimerKeeps
  <2> QED BY <2>1, <2>2
<1>3. CASE flush
  <2>1. PICK p : p = [page EXCEPT !.timer = FALSE]
    OBVIOUS
  <2>2. Reported(p, wire, batches, stored) /\ p.alive /\ p.waiting = {}
    BY <1>0, <1>3, <2>1, TimerKeeps DEF flush, CanFlush, Page
  <2>3. PICK r : r = FlushTurn(p, FALSE)
    OBVIOUS
  <2>4. Reported(r, wire \cup Request(r), batches, stored)
    BY <2>2, <2>3, FlushKeeps
  <2> QED BY <1>3, <2>1, <2>3, <2>4 DEF flush
<1>4. CASE flushMedia
  BY <1>0, <1>4, TimerKeeps DEF flushMedia
<1>5. CASE disconnect
  <2>1. PICK x, p : /\ x = (IF kind = "context" THEN page ELSE Push(page, 1)) /\ p = [x EXCEPT !.disconnected = TRUE]
    OBVIOUS
  <2>3. x \in Page /\ Reported(x, wire, batches, stored) /\ x.waiting = page.waiting /\ x.alive = page.alive
    <3>1. CASE kind = "context"
      BY <1>0, <2>1, <3>1
    <3>2. CASE kind # "context"
      <4>1. page.session \in Session
        BY <1>0, <1>5 DEF disconnect, Page
      <4> QED BY <1>0, <2>1, <3>2, <4>1, PushKeeps
    <3> QED BY <3>1, <3>2
  <2>4. Reported(p, wire, batches, stored) /\ p.waiting = page.waiting /\ p.alive = page.alive
    BY <2>1, <2>3, ConnectionKeeps DEF Page
  <2>5. CASE CanFlush
    <3>1. PICK r : r = FlushTurn(p, TRUE)
      OBVIOUS
    <3>2. Reported(r, wire \cup Request(r), batches, stored)
      BY <2>4, <2>5, <3>1, FlushKeeps DEF CanFlush
    <3> QED BY <1>5, <2>1, <2>5, <3>1, <3>2 DEF disconnect
  <2>6. CASE ~CanFlush
    BY <1>5, <2>1, <2>4, <2>6 DEF disconnect
  <2> QED BY <2>5, <2>6
<1>6. CASE closePage
  BY <1>0, <1>6, ForgottenIs, ClosingKeeps DEF closePage
<1>7. CASE timeout
  BY <1>0, <1>7, ForgottenIs, FailureKeeps DEF timeout
<1>8. ASSUME NEW m \in wire, recordParticipantEvents(m) \/ recordMediaEvents(m) \/ recordParticipantContext(m) PROVE Reported(page, wire, batches, stored)'
  <2>1. /\ m.kind = "request" /\ Answer(m) /\ UNCHANGED page
        /\ \/ UNCHANGED <<batches, stored>> /\ ~Admissible(m.batch)
           \/ /\ Admissible(m.batch) /\ batches' = batches \cup {m.batch}
              /\ stored' = [stored EXCEPT ![m.batch.session] = @ \o m.batch.events]
    BY <1>8 DEF recordParticipantEvents, recordMediaEvents, recordParticipantContext, RecordBatch, RecordSnapshot
  <2> QED BY <2>1, HandlerKeeps
<1>9. ASSUME NEW m \in wire, receiveAnswer(m) PROVE Reported(page, wire, batches, stored)'
  <2>0. m.kind = "answer" /\ UNCHANGED <<batches, stored>>
    BY <1>9 DEF receiveAnswer
  <2>1. CASE ~m.awaited
    <3>1. page' = page /\ wire' = wire \ {m}
      BY <1>9, <2>1 DEF receiveAnswer
    <3> QED BY <1>0, <2>0, <3>1, LossKeeps
  <2>2. CASE m.awaited /\ ~m.ok
    <3>1. page' = flushFailed(page) /\ wire' = wire \ {m}
      BY <1>9, <2>2 DEF receiveAnswer
    <3>2. \A k \in wire \ {m} : ~k.awaited
      BY <1>0, <2>2 DEF Reported, WaitStands
    <3>3. Reported(flushFailed(page), wire \ {m}, batches, stored)
      BY <1>0, <3>2, FailureKeeps
    <3> QED BY <2>0, <3>1, <3>3
  <2>3. CASE m.awaited /\ m.ok
    <3>1. PICK done : done = [page EXCEPT !.waiting = {}, !.pendingBatch = {}]
      OBVIOUS
    <3>2. Reported(done, wire \ {m}, batches, stored) /\ done.waiting = {} /\ done.alive
      BY <1>0, <2>0, <2>3, <3>1, AcceptedIsRecorded
    <3>3. CASE page.keepalive
      BY <1>9, <2>0, <2>3, <3>1, <3>2, <3>3 DEF receiveAnswer
    <3>4. CASE ~page.keepalive
      <4>1. PICK r : r = FlushTurn(done, FALSE)
        OBVIOUS
      <4>2. Reported(r, (wire \ {m}) \cup Request(r), batches, stored)
        BY <3>2, <4>1, FlushKeeps
      <4> QED BY <1>9, <2>0, <2>3, <3>1, <3>4, <4>1, <4>2 DEF receiveAnswer
    <3> QED BY <3>3, <3>4
  <2> QED BY <2>1, <2>2, <2>3
<1>10. ASSUME NEW m \in wire, loseMessage(m) PROVE Reported(page, wire, batches, stored)'
  <2>0. wire' = wire \ {m} /\ UNCHANGED <<batches, stored>>
    BY <1>10 DEF loseMessage
  <2>1. CASE ~m.awaited
    <3>1. page' = page
      BY <1>10, <2>1 DEF loseMessage
    <3> QED BY <1>0, <2>0, <3>1, LossKeeps
  <2>2. CASE m.awaited
    <3>1. page' = flushFailed(page)
      BY <1>10, <2>2 DEF loseMessage
    <3>2. \A k \in wire \ {m} : ~k.awaited
      BY <1>0, <2>2 DEF Reported, WaitStands
    <3>3. Reported(flushFailed(page), wire \ {m}, batches, stored)
      BY <1>0, <3>2, FailureKeeps
    <3> QED BY <2>0, <3>1, <3>3
  <2> QED BY <2>1, <2>2
<1>11. CASE completeActivity
  BY <1>0, <1>11 DEF completeActivity
<1>12. CASE UNCHANGED recorderVars
  BY <1>0, <1>12 DEF recorderVars
<1> QED
  BY <1>1, <1>2, <1>3, <1>4, <1>5, <1>6, <1>7, <1>8, <1>9, <1>10, <1>11, <1>12 DEF RecorderNext, Deliver

\* A page that is connected has a session.
LEMMA ConnectedStep ==
  ASSUME RecorderInv, [RecorderNext]_recorderVars
  PROVE  (page.disconnected \/ page.session \in Session)'
<1>0. page \in Page /\ (page.disconnected \/ page.session \in Session)
  BY DEF RecorderInv, Reported, RecorderTypes
<1>1. \A p \in Page : \A k \in BOOLEAN : FlushTurn(p, k).disconnected = p.disconnected /\ FlushTurn(p, k).session = p.session
  BY DEF FlushTurn, Page
<1> USE DEF engineVars
<1>2. CASE resume
  BY <1>0, <1>2, RecorderAssumption DEF resume, Push, Sessions, Page, Session
<1>3. CASE emit
  BY <1>0, <1>3 DEF emit, Push, Page
<1>4. CASE flush
  <2>1. [page EXCEPT !.timer = FALSE] \in Page
    BY <1>0 DEF Page
  <2> QED BY <1>0, <1>1, <1>4, <2>1 DEF flush, Page
<1>5. CASE flushMedia
  BY <1>0, <1>5 DEF flushMedia, Page
<1>6. CASE disconnect
  <2>1. page.session \in Session /\ Reported(page, wire, batches, stored)
    BY <1>0, <1>6 DEF disconnect, RecorderInv, Page
  <2>2. PICK x \in Page : x = (IF kind = "context" THEN page ELSE Push(page, 1))
    <3>1. Push(page, 1) \in Page
      BY <1>0, <2>1, PushKeeps
    <3> QED BY <1>0, <3>1
  <2>3. PICK p \in Page : p = [x EXCEPT !.disconnected = TRUE] /\ p.disconnected
    <3>1. [x EXCEPT !.disconnected = TRUE] \in Page /\ [x EXCEPT !.disconnected = TRUE].disconnected
      BY DEF Page
    <3> QED BY <3>1
  <2>4. page' \in {p, FlushTurn(p, TRUE)}
    BY <1>6, <2>2, <2>3 DEF disconnect
  <2> QED BY <1>1, <2>3, <2>4
<1>7. CASE closePage
  BY <1>0, <1>7 DEF closePage, Page
<1>8. CASE timeout
  BY <1>0, <1>8 DEF timeout, flushFailed, Page
<1>9. ASSUME NEW m \in wire, recordParticipantEvents(m) \/ recordMediaEvents(m) \/ recordParticipantContext(m)
      PROVE  page' = page
  BY <1>9 DEF recordParticipantEvents, recordMediaEvents, recordParticipantContext
<1>10. ASSUME NEW m \in wire, receiveAnswer(m)
       PROVE  page'.disconnected = page.disconnected /\ page'.session = page.session
  <2>1. PICK done : done = [page EXCEPT !.waiting = {}, !.pendingBatch = {}]
    OBVIOUS
  <2>2. done \in Page /\ done.disconnected = page.disconnected /\ done.session = page.session
    BY <1>0, <2>1 DEF Page
  <2>3. page' \in {page, flushFailed(page), done, FlushTurn(done, FALSE)}
    BY <1>10, <2>1 DEF receiveAnswer
  <2> QED BY <1>0, <1>1, <2>2, <2>3 DEF flushFailed, Page
<1>11. ASSUME NEW m \in wire, loseMessage(m)
       PROVE  page'.disconnected = page.disconnected /\ page'.session = page.session
  BY <1>0, <1>11 DEF loseMessage, flushFailed, Page
<1>12. CASE completeActivity
  BY <1>0, <1>12 DEF completeActivity
<1>13. CASE UNCHANGED recorderVars
  BY <1>0, <1>13 DEF recorderVars
<1> QED
  BY <1>0, <1>2, <1>3, <1>4, <1>5, <1>6, <1>7, <1>8, <1>9, <1>10, <1>11, <1>12, <1>13 DEF RecorderNext, Deliver

(* What the engine holds of a telemetry session is a prefix of what the page *)
(* emitted in it, for any number of sessions, events, batches, lost or late  *)
(* messages and timeouts, of the three recorders and their batch handlers:   *)
(* what the page repeats under a batch's id is recorded once, and a batch is *)
(* cut only when all before it are recorded.                                 *)
THEOREM RecordIsPrefix == RecorderInit /\ [][RecorderNext]_recorderVars => []RecordedPrefix
<1>1. RecorderInv => RecordedPrefix
  BY DEF RecorderInv, Reported, Prefix, RecordedPrefix
<1>2. RecorderInv /\ [RecorderNext]_recorderVars => RecorderInv'
  BY ReportedStep, ConnectedStep DEF RecorderInv
<1> QED
  BY <1>1, <1>2, RecorderStarts, PTL

\* The rows of the events, of any store and any batches.
StoredRowsOf(st) == UNION {{s} \X DOMAIN st[s] : s \in Session}
BatchRowsOf(bs) == UNION {{b} \X DOMAIN b.events : b \in bs}

\* Every recorded event is in one batch, by their number and within the limit.
BatchesBooked(bs, st) ==
    /\ \A b, c \in bs : b.id = c.id => b = c
    /\ \A b \in bs : Range(b.events) \subseteq Range(st[b.session])
    /\ IsFiniteSet(StoredRowsOf(st)) /\ IsFiniteSet(BatchRowsOf(bs))
    /\ Cardinality(BatchRowsOf(bs)) = Cardinality(StoredRowsOf(st))
    /\ Cardinality(StoredRowsOf(st)) <= EventLimit

\* The chain names every batch once.
LinksBooked(bs, li) ==
    /\ \A l \in li : l.batch \in bs
    /\ \A b \in bs : \E l \in li : l.batch = b
    /\ \A k, l \in li : k.batch = l.batch => k = l
    /\ IsFiniteSet(li) /\ IsFiniteSet(bs) /\ Cardinality(li) = Cardinality(bs)

\* The chain names every revision, and the last revision is of all events.
SummariesBooked(st, su, li) ==
    /\ su \in Seq([Session -> Seq(Nat)])
    /\ \A l \in li : l.revision \in 1..Len(su) /\ su[l.revision] = l.summary
    /\ \A n \in 1..Len(su) : \E l \in li : l.revision = n
    /\ IF su = <<>> THEN StoredRowsOf(st) = {} ELSE su[Len(su)] = st

\* The batches that the page holds or has under way.
UnderWay(p, w) == p.pendingBatch \cup {m.batch : m \in {x \in w : x.kind = "request"}}

\* A snapshot goes out by itself.
Single(p, w) == \A b \in UnderWay(p, w) : Len(b.events) = 1

\* The books of the engine, and of the snapshots their number.
BooksInv ==
    /\ BatchesBooked(batches, stored) /\ LinksBooked(batches, links)
    /\ kind # "context" => SummariesBooked(stored, summaries, links)
    /\ kind = "context" => /\ Single(page, wire)
                           /\ Cardinality(links) = Cardinality(StoredRowsOf(stored))

\* Rows, and n more of one owner after its m.
RowsAnd(R, x, m, n) == R \cup ({x} \X (m + 1 .. m + n))

\* The rows that a batch adds are as many as its events.
LEMMA RowsAdded ==
  ASSUME NEW R, IsFiniteSet(R), NEW x, NEW m \in Nat, NEW n \in Nat,
         \A i \in m + 1 .. m + n : <<x, i>> \notin R
  PROVE  IsFiniteSet(RowsAnd(R, x, m, n)) /\ Cardinality(RowsAnd(R, x, m, n)) = Cardinality(R) + n
<1>1. IsFiniteSet(m + 1 .. m + n) /\ Cardinality(m + 1 .. m + n) = n
  <2>1. m + 1 \in Int /\ m + n \in Int
    OBVIOUS
  <2>2. (IF m + 1 > m + n THEN 0 ELSE (m + n) - (m + 1) + 1) = n
    OBVIOUS
  <2> QED BY <2>1, <2>2, FS_Interval
<1>2. IsFiniteSet({x}) /\ Cardinality({x}) = 1
  BY FS_Singleton
<1>3. PICK T : T = {x} \X (m + 1 .. m + n)
  OBVIOUS
<1>4. IsFiniteSet(T) /\ Cardinality(T) = n
  <2>1. PICK I : I = m + 1 .. m + n
    OBVIOUS
  <2>2. IsFiniteSet({x} \X I) /\ Cardinality({x} \X I) = Cardinality({x}) * Cardinality(I)
    BY <1>1, <1>2, <2>1, FS_Product
  <2>3. 1 * n = n
    OBVIOUS
  <2> QED BY <1>1, <1>2, <1>3, <2>1, <2>2, <2>3
<1>5. R \cap T = {}
  BY <1>3
<1>6. Cardinality(R \cap T) = 0
  BY <1>5, FS_EmptySet
<1>7. IsFiniteSet(R \cup T) /\ Cardinality(R \cup T) = Cardinality(R) + Cardinality(T) - Cardinality(R \cap T)
  BY <1>4, FS_Union
<1>8. Cardinality(R) \in Nat
  BY FS_CardinalityType
<1> QED
  BY <1>3, <1>4, <1>6, <1>7, <1>8 DEF RowsAnd

\* The events of a batch follow those of its session.
Follows(st, b) == [st EXCEPT ![b.session] = @ \o b.events]

\* A batch whose id is new, taken within the limit.
LEMMA BatchesGrow ==
  ASSUME NEW bs, bs \subseteq Batch, NEW st \in [Session -> Seq(Nat)], BatchesBooked(bs, st), NEW b \in Batch,
         \A c \in bs : c.id # b.id, Cardinality(StoredRowsOf(st)) + Len(b.events) <= EventLimit
  PROVE  /\ BatchesBooked(bs \cup {b}, Follows(st, b))
         /\ Cardinality(StoredRowsOf(Follows(st, b))) = Cardinality(StoredRowsOf(st)) + Len(b.events)
<1>1. PICK h \in Session, old \in Seq(Nat), e \in Seq(Nat) : h = b.session /\ old = st[h] /\ e = b.events
  BY DEF Batch
<1>2. PICK m \in Nat, n \in Nat : m = Len(old) /\ n = Len(e)
  BY <1>1
<1>3. PICK new : new = old \o e
  OBVIOUS
<1>4. /\ new \in Seq(Nat) /\ Len(new) = m + n
      /\ \A i \in 1..m + n : new[i] = IF i <= m THEN old[i] ELSE e[i - m]
  BY <1>2, <1>3, ConcatProperties
<1>5. PICK now : now = [st EXCEPT ![h] = new]
  OBVIOUS
<1>6. /\ now \in [Session -> Seq(Nat)] /\ now[h] = new /\ \A s \in Session : s # h => now[s] = st[s]
      /\ Follows(st, b) = now
  BY <1>1, <1>3, <1>4, <1>5 DEF Follows
<1>7. DOMAIN old = 1..m /\ DOMAIN e = 1..n /\ DOMAIN new = 1..m + n
  BY <1>1, <1>2, <1>4
<1>8. StoredRowsOf(now) = RowsAnd(StoredRowsOf(st), h, m, n)
  <2>1. 1..m + n = (1..m) \cup (m + 1 .. m + n)
    OBVIOUS
  <2>2. \A s \in Session : DOMAIN now[s] = IF s = h THEN DOMAIN st[h] \cup (m + 1 .. m + n) ELSE DOMAIN st[s]
    BY <1>1, <1>6, <1>7, <2>1
  <2> QED BY <2>2 DEF StoredRowsOf, RowsAnd
<1>9. \A i \in m + 1 .. m + n : <<h, i>> \notin StoredRowsOf(st)
  BY <1>1, <1>7 DEF StoredRowsOf
<1>10. BatchRowsOf(bs \cup {b}) = RowsAnd(BatchRowsOf(bs), b, 0, n)
  <2>1. DOMAIN b.events = 0 + 1 .. 0 + n
    BY <1>1, <1>7
  <2> QED BY <2>1 DEF BatchRowsOf, RowsAnd
<1>11. \A i \in 0 + 1 .. 0 + n : <<b, i>> \notin BatchRowsOf(bs)
  BY DEF BatchRowsOf
<1>12. IsFiniteSet(StoredRowsOf(now)) /\ Cardinality(StoredRowsOf(now)) = Cardinality(StoredRowsOf(st)) + n
  <2>1. PICK R : R = StoredRowsOf(st)
    OBVIOUS
  <2>2. IsFiniteSet(R) /\ \A i \in m + 1 .. m + n : <<h, i>> \notin R
    BY <1>9, <2>1 DEF BatchesBooked
  <2>3. IsFiniteSet(RowsAnd(R, h, m, n)) /\ Cardinality(RowsAnd(R, h, m, n)) = Cardinality(R) + n
    BY <2>2, RowsAdded
  <2> QED BY <1>8, <2>1, <2>3
<1>13. IsFiniteSet(BatchRowsOf(bs \cup {b})) /\ Cardinality(BatchRowsOf(bs \cup {b})) = Cardinality(BatchRowsOf(bs)) + n
  <2>0. PICK z \in Nat : z = 0
    OBVIOUS
  <2>1. PICK R : R = BatchRowsOf(bs)
    OBVIOUS
  <2>2. IsFiniteSet(R) /\ \A i \in z + 1 .. z + n : <<b, i>> \notin R
    BY <1>11, <2>0, <2>1 DEF BatchesBooked
  <2>3. IsFiniteSet(RowsAnd(R, b, z, n)) /\ Cardinality(RowsAnd(R, b, z, n)) = Cardinality(R) + n
    BY <2>2, RowsAdded
  <2> QED BY <1>10, <2>0, <2>1, <2>3
<1>14. \A c \in bs \cup {b} : Range(c.events) \subseteq Range(now[c.session])
  <2>1. Range(old) \subseteq Range(new)
    <3>1. \A i \in 1..m : i \in 1..m + n /\ new[i] = old[i]
      BY <1>4
    <3> QED BY <1>7, <3>1 DEF Range
  <2>2. Range(e) \subseteq Range(new)
    <3>1. \A i \in 1..n : m + i \in 1..m + n /\ new[m + i] = e[i]
      BY <1>4
    <3> QED BY <1>7, <3>1 DEF Range
  <2>3. \A c \in bs : c.session \in Session /\ Range(c.events) \subseteq Range(st[c.session])
    BY DEF Batch, BatchesBooked
  <2> QED BY <1>1, <1>6, <2>1, <2>2, <2>3
<1>15. \A c, d \in bs \cup {b} : c.id = d.id => c = d
  BY DEF BatchesBooked
<1>16. Cardinality(StoredRowsOf(now)) <= EventLimit
  BY <1>1, <1>2, <1>12
<1>17. Cardinality(BatchRowsOf(bs \cup {b})) = Cardinality(StoredRowsOf(now))
  BY <1>12, <1>13 DEF BatchesBooked
<1> QED
  BY <1>1, <1>2, <1>6, <1>12, <1>13, <1>14, <1>15, <1>16, <1>17 DEF BatchesBooked

\* An event of the chain for a batch that has none.
LEMMA LinksGrow ==
  ASSUME NEW bs, NEW li, LinksBooked(bs, li), NEW b, b \notin bs, NEW l, l.batch = b
  PROVE  LinksBooked(bs \cup {b}, li \cup {l})
<1>1. l \notin li
  BY DEF LinksBooked
<1>2. /\ IsFiniteSet(li \cup {l}) /\ Cardinality(li \cup {l}) = Cardinality(li) + 1
      /\ IsFiniteSet(bs \cup {b}) /\ Cardinality(bs \cup {b}) = Cardinality(bs) + 1
  BY <1>1, FS_AddElement DEF LinksBooked
<1> QED
  BY <1>1, <1>2 DEF LinksBooked

\* A revision of the summary of all events, and the event of the chain that names it.
LEMMA SummariesGrow ==
  ASSUME NEW st, NEW su, NEW li, SummariesBooked(st, su, li), NEW now \in [Session -> Seq(Nat)],
         NEW l, l.revision = Len(su) + 1, l.summary = now
  PROVE  SummariesBooked(now, Append(su, now), li \cup {l})
<1>1. PICK n \in Nat : n = Len(su)
  BY DEF SummariesBooked
<1>2. PICK more : more = Append(su, now)
  OBVIOUS
<1>3. /\ more \in Seq([Session -> Seq(Nat)]) /\ Len(more) = n + 1 /\ more[n + 1] = now
      /\ \A i \in 1..n : more[i] = su[i]
  BY <1>1, <1>2, AppendProperties DEF SummariesBooked
<1>4. more # <<>>
  BY <1>1, <1>3
<1>5. \A k \in li \cup {l} : k.revision \in 1..n + 1 /\ more[k.revision] = k.summary
  BY <1>1, <1>3 DEF SummariesBooked
<1>6. \A i \in 1..n + 1 : \E k \in li \cup {l} : k.revision = i
  <2>1. \A i \in 1..n : \E k \in li : k.revision = i
    BY <1>1 DEF SummariesBooked
  <2> QED BY <1>1, <2>1
<1> QED
  BY <1>2, <1>3, <1>4, <1>5, <1>6 DEF SummariesBooked

\* The engine takes a batch within its books.
LEMMA RecordingBooks ==
  ASSUME RecorderInv, BooksInv, NEW m \in wire, m.kind = "request", Admissible(m.batch),
         RecordBatch(m.batch) \/ RecordSnapshot(m.batch)
  PROVE  /\ BatchesBooked(batches, stored)' /\ LinksBooked(batches, links)'
         /\ Cardinality(StoredRowsOf(stored')) = Cardinality(StoredRowsOf(stored)) + Len(m.batch.events)
         /\ Cardinality(links') = Cardinality(links) + 1
<1>1. PICK b \in Batch : b = m.batch
  BY DEF RecorderInv, Reported, RecorderTypes, Message
<1>2. /\ batches \subseteq Batch /\ stored \in [Session -> Seq(Nat)]
      /\ BatchesBooked(batches, stored) /\ LinksBooked(batches, links)
  BY DEF RecorderInv, Reported, RecorderTypes, BooksInv
<1>3. /\ \A c \in batches : c.id # b.id
      /\ Cardinality(StoredRowsOf(stored)) + Len(b.events) <= EventLimit
  BY <1>1 DEF Admissible, Known, StoredCount, StoredRows, StoredRowsOf
<1>4. batches' = batches \cup {b} /\ stored' = Follows(stored, b)
  BY <1>1 DEF RecordBatch, RecordSnapshot, Follows
<1>5. PICK l : l.batch = b /\ links' = links \cup {l}
  <2>1. CASE RecordBatch(m.batch)
    BY <1>1, <2>1 DEF RecordBatch
  <2>2. CASE RecordSnapshot(m.batch)
    BY <1>1, <2>2 DEF RecordSnapshot
  <2> QED BY <2>1, <2>2
<1>6. b \notin batches
  BY <1>3
<1>7. /\ BatchesBooked(batches \cup {b}, Follows(stored, b))
      /\ Cardinality(StoredRowsOf(Follows(stored, b))) = Cardinality(StoredRowsOf(stored)) + Len(b.events)
  BY <1>2, <1>3, BatchesGrow
<1>8. LinksBooked(batches \cup {b}, links \cup {l})
  BY <1>2, <1>5, <1>6, LinksGrow
<1>9. l \notin links /\ IsFiniteSet(links)
  BY <1>2, <1>5, <1>6 DEF LinksBooked
<1>10. Cardinality(links \cup {l}) = Cardinality(links) + 1
  BY <1>9, FS_AddElement
<1> QED
  BY <1>1, <1>4, <1>5, <1>7, <1>8, <1>10

\* A batch of the interaction or the media recorder has its summary.
LEMMA RecordingSummarized ==
  ASSUME RecorderInv, NEW m \in wire, m.kind = "request", RecordBatch(m.batch),
         SummariesBooked(stored, summaries, links)
  PROVE  SummariesBooked(stored, summaries, links)'
<1>1. PICK now \in [Session -> Seq(Nat)] : now = stored'
  <2>1. m.batch \in Batch /\ stored \in [Session -> Seq(Nat)]
    BY DEF RecorderInv, Reported, RecorderTypes, Message
  <2>2. m.batch.session \in Session /\ m.batch.events \in Seq(Nat) /\ stored[m.batch.session] \in Seq(Nat)
    BY <2>1 DEF Batch
  <2>3. stored[m.batch.session] \o m.batch.events \in Seq(Nat)
    BY <2>2, ConcatProperties
  <2>4. stored' \in [Session -> Seq(Nat)]
    BY <2>1, <2>2, <2>3 DEF RecordBatch
  <2> QED BY <2>4
<1>2. PICK l : /\ l.revision = Len(summaries) + 1 /\ l.summary = now /\ links' = links \cup {l}
  BY <1>1 DEF RecordBatch
<1>3. summaries' = Append(summaries, now)
  BY <1>1 DEF RecordBatch
<1>4. SummariesBooked(now, Append(summaries, now), links \cup {l})
  BY <1>2, SummariesGrow
<1> QED
  BY <1>1, <1>2, <1>3, <1>4

\* The context hook cuts one snapshot at a time.
LEMMA SnapshotCut ==
  ASSUME kind = "context", NEW p \in Page, \A b \in p.pendingBatch : Len(b.events) = 1, NEW k
  PROVE  /\ FlushTurn(p, k).waiting = FlushTurn(p, k).pendingBatch
         /\ \A b \in FlushTurn(p, k).pendingBatch : Len(b.events) = 1
<1>1. PICK q \in Seq(QueuedEvent) : q = p.queue
  BY DEF Page
<1>2. q # <<>> => BatchLength(q) = 1
  <2> SUFFICES ASSUME q # <<>> PROVE BatchLength(q) = 1
    OBVIOUS
  <2> DEFINE S == {n \in 1..Len(q) : n <= 1 /\ \A i \in 1..n : q[i].session = q[1].session}
  <2>1. BatchLength(q) = Max(S)
    BY DEF BatchLength
  <2>2. S = {1}
    <3>1. Len(q) \in Nat /\ Len(q) >= 1
      OBVIOUS
    <3> QED BY <3>1
  <2>3. Max({1}) = 1
    <3>1. Max({1}) \in {1}
      BY MaxIsMax
    <3> QED BY <3>1
  <2> HIDE DEF S
  <2> QED BY <2>1, <2>2, <2>3
<1>3. PICK n : n = BatchLength(q)
  OBVIOUS
<1>4. PICK cut : cut = IF p.pendingBatch = {} /\ p.queue # <<>>
                       THEN [p EXCEPT !.pendingBatch = {[id |-> p.made + 1, session |-> p.queue[1].session,
                                                         events |-> [i \in 1..n |-> p.queue[i].sequence]]},
                                      !.made = @ + 1, !.queue = SubSeq(@, n + 1, Len(@))]
                       ELSE p
  OBVIOUS
<1>5. FlushTurn(p, k) = [cut EXCEPT !.waiting = cut.pendingBatch, !.keepalive = k]
  BY <1>1, <1>3, <1>4 DEF FlushTurn
<1>6. FlushTurn(p, k).pendingBatch = cut.pendingBatch /\ FlushTurn(p, k).waiting = cut.pendingBatch
  BY <1>4, <1>5 DEF Page
<1>7. \A b \in cut.pendingBatch : Len(b.events) = 1
  <2>1. CASE p.pendingBatch = {} /\ p.queue # <<>>
    <3>1. n = 1
      BY <1>1, <1>2, <1>3, <2>1
    <3>2. PICK e : e = [i \in 1..1 |-> q[i].sequence]
      OBVIOUS
    <3>3. Len(e) = 1
      BY <3>2
    <3>4. PICK b : b = [id |-> p.made + 1, session |-> q[1].session, events |-> e]
      OBVIOUS
    <3>5. cut.pendingBatch = {b} /\ b.events = e
      BY <1>1, <1>4, <2>1, <3>1, <3>2, <3>4 DEF Page
    <3> QED BY <3>3, <3>5
  <2>2. CASE ~(p.pendingBatch = {} /\ p.queue # <<>>)
    BY <1>4, <2>2
  <2> QED BY <2>1, <2>2
<1> QED
  BY <1>6, <1>7

\* What is under way comes from there, or is what the page waits for.
LEMMA UnderWayIs ==
  ASSUME NEW p, NEW w, NEW r, NEW v, kind = "context", Single(p, w),
         \A b \in r.pendingBatch : Len(b.events) = 1,
         \A m \in v : m.kind = "request" => \/ m.batch \in r.pendingBatch
                                            \/ \E x \in w : x.kind = "request" /\ x.batch = m.batch
  PROVE  Single(r, v)
BY DEF Single, UnderWay

\* Every step of the context recorder keeps the snapshots single.
LEMMA SingleStep ==
  ASSUME RecorderInv, [RecorderNext]_recorderVars, kind = "context", Single(page, wire)
  PROVE  Single(page, wire)'
<1>1. page \in Page /\ wire \subseteq Message /\ \A b \in page.pendingBatch : Len(b.events) = 1
  BY DEF RecorderInv, Reported, RecorderTypes, Single, UnderWay
<1>2. \A m \in wire : m.kind = "request" => \E x \in wire : x.kind = "request" /\ x.batch = m.batch
  OBVIOUS
<1>3. \A m \in Forgotten(wire) : m.kind = "request" => \E x \in wire : x.kind = "request" /\ x.batch = m.batch
  BY <1>1, ForgottenIs
<1>4. \A r : \A m \in Request(r) : m.batch \in r.waiting
  BY DEF Request
<1> USE DEF engineVars
<1>5. ASSUME page'.pendingBatch = page.pendingBatch, wire' = wire
      PROVE  Single(page, wire)'
  BY <1>1, <1>2, <1>5, UnderWayIs
<1>6. CASE resume
  <2>0. page.session + 1 \in 0..MaxSessions
    BY <1>1, <1>6, RecorderAssumption DEF resume, Sessions, Page
  <2>1. PICK r : r = [page EXCEPT !.session = @ + 1, !.disconnected = FALSE]
    OBVIOUS
  <2>4. r \in Page /\ r.pendingBatch = page.pendingBatch
    BY <1>1, <2>0, <2>1 DEF Page
  <2>2. page' = Push(r, Burst) /\ wire' = wire
    BY <1>6, <2>1 DEF resume
  <2>3. page'.pendingBatch = r.pendingBatch
    BY <2>2, <2>4 DEF Push, Page
  <2> QED BY <1>5, <2>2, <2>3, <2>4
<1>7. CASE emit
  BY <1>1, <1>5, <1>7 DEF emit, Push, Page
<1>8. CASE flush
  <2>0. PICK p : p = [page EXCEPT !.timer = FALSE]
    OBVIOUS
  <2>1. p \in Page /\ p = [page EXCEPT !.timer = FALSE] /\ p.pendingBatch = page.pendingBatch
    BY <1>1, <2>0 DEF Page
  <2>2. PICK r : r = FlushTurn(p, FALSE)
    OBVIOUS
  <2>3. r.waiting = r.pendingBatch /\ \A b \in r.pendingBatch : Len(b.events) = 1
    BY <1>1, <2>1, <2>2, SnapshotCut
  <2>4. page' = r /\ wire' = wire \cup Request(r)
    BY <1>8, <2>1, <2>2 DEF flush
  <2>5. Single(r, wire \cup Request(r))
    BY <1>2, <1>4, <2>3, UnderWayIs
  <2> QED BY <2>4, <2>5
<1>9. CASE flushMedia
  BY <1>9 DEF flushMedia
<1>10. CASE disconnect
  <2>0. PICK p : p = [page EXCEPT !.disconnected = TRUE]
    OBVIOUS
  <2>1. p \in Page /\ p = [page EXCEPT !.disconnected = TRUE] /\ p.pendingBatch = page.pendingBatch
    BY <1>1, <2>0 DEF Page
  <2>2. CASE CanFlush
    <3>1. PICK r : r = FlushTurn(p, TRUE)
      OBVIOUS
    <3>2. r.waiting = r.pendingBatch /\ \A b \in r.pendingBatch : Len(b.events) = 1
      BY <1>1, <2>1, <3>1, SnapshotCut
    <3>3. page' = r /\ wire' = wire \cup Request(r)
      BY <1>10, <2>1, <2>2, <3>1 DEF disconnect
    <3>4. Single(r, wire \cup Request(r))
      BY <1>2, <1>4, <3>2, UnderWayIs
    <3> QED BY <3>3, <3>4
  <2>3. CASE ~CanFlush
    BY <1>5, <1>10, <2>1, <2>3 DEF disconnect
  <2> QED BY <2>2, <2>3
<1>11. CASE closePage
  <2>1. page'.pendingBatch = {} /\ wire' = Forgotten(wire)
    BY <1>1, <1>11 DEF closePage, Page
  <2> QED BY <1>3, <2>1, UnderWayIs
<1>12. CASE timeout
  <2>1. page'.pendingBatch = page.pendingBatch /\ wire' = Forgotten(wire)
    BY <1>1, <1>12 DEF timeout, flushFailed, Page
  <2> QED BY <1>1, <1>3, <2>1, UnderWayIs
<1>13. ASSUME NEW m \in wire, recordParticipantEvents(m) \/ recordMediaEvents(m) \/ recordParticipantContext(m)
       PROVE  Single(page, wire)'
  <2>1. page' = page /\ Answer(m)
    BY <1>13 DEF recordParticipantEvents, recordMediaEvents, recordParticipantContext
  <2>2. \A x \in wire' : x.kind = "request" => x \in wire
    BY <2>1 DEF Answer
  <2> QED BY <1>1, <2>1, <2>2, UnderWayIs
<1>14. ASSUME NEW m \in wire, receiveAnswer(m) PROVE Single(page, wire)'
  <2>0. PICK done : done = [page EXCEPT !.waiting = {}, !.pendingBatch = {}]
    OBVIOUS
  <2>1. done \in Page /\ done = [page EXCEPT !.waiting = {}, !.pendingBatch = {}] /\ done.pendingBatch = {}
    BY <1>1, <2>0 DEF Page
  <2>2. PICK r : r = FlushTurn(done, FALSE)
    OBVIOUS
  <2>3. r.waiting = r.pendingBatch /\ \A b \in r.pendingBatch : Len(b.events) = 1
    BY <2>1, <2>2, SnapshotCut
  <2>4. CASE m.awaited /\ m.ok /\ ~page.keepalive
    <3>1. page' = r /\ wire' = (wire \ {m}) \cup Request(r)
      BY <1>14, <2>1, <2>2, <2>4 DEF receiveAnswer
    <3>2. Single(r, (wire \ {m}) \cup Request(r))
      BY <1>2, <1>4, <2>3, UnderWayIs
    <3> QED BY <3>1, <3>2
  <2>5. CASE ~(m.awaited /\ m.ok /\ ~page.keepalive)
    <3>1. page' \in {page, flushFailed(page), done} /\ wire' = wire \ {m}
      BY <1>14, <2>1, <2>5 DEF receiveAnswer
    <3>2. page'.pendingBatch \in {page.pendingBatch, {}}
      BY <1>1, <2>1, <3>1 DEF flushFailed, Page
    <3>3. \A b \in page'.pendingBatch : Len(b.events) = 1
      BY <1>1, <3>2
    <3>4. Single(page', wire \ {m})
      BY <1>2, <3>3, UnderWayIs
    <3> QED BY <3>1, <3>4
  <2> QED BY <2>4, <2>5
<1>15. ASSUME NEW m \in wire, loseMessage(m) PROVE Single(page, wire)'
  <2>1. page'.pendingBatch = page.pendingBatch /\ wire' = wire \ {m}
    BY <1>1, <1>15 DEF loseMessage, flushFailed, Page
  <2> QED BY <1>1, <1>2, <2>1, UnderWayIs
<1>16. CASE completeActivity
  BY <1>16 DEF completeActivity
<1>17. CASE UNCHANGED recorderVars
  BY <1>17 DEF recorderVars
<1> QED
  BY <1>6, <1>7, <1>8, <1>9, <1>10, <1>11, <1>12, <1>13, <1>14, <1>15, <1>16, <1>17 DEF RecorderNext, Deliver

\* Only the engine's handlers write its books, and each recorder has its own.
LEMMA BooksChange ==
  ASSUME RecorderInv, [RecorderNext]_recorderVars
  PROVE  /\ kind' = kind
         /\ \/ UNCHANGED engineVars
            \/ \E m \in wire : /\ m.kind = "request" /\ Admissible(m.batch)
                               /\ IF kind = "context" THEN RecordSnapshot(m.batch) ELSE RecordBatch(m.batch)
<1>1. CASE \E m \in wire : recordParticipantEvents(m) \/ recordMediaEvents(m) \/ recordParticipantContext(m)
  <2>1. PICK m \in wire : recordParticipantEvents(m) \/ recordMediaEvents(m) \/ recordParticipantContext(m)
    BY <1>1
  <2>2. CASE recordParticipantEvents(m)
    BY <2>2 DEF recordParticipantEvents
  <2>3. CASE recordMediaEvents(m)
    BY <2>3 DEF recordMediaEvents
  <2>4. CASE recordParticipantContext(m)
    BY <2>4 DEF recordParticipantContext
  <2> QED BY <2>1, <2>2, <2>3, <2>4
<1>2. CASE \E m \in wire : receiveAnswer(m) \/ loseMessage(m)
  BY <1>2 DEF receiveAnswer, loseMessage
<1>3. CASE resume \/ emit \/ flush \/ flushMedia \/ disconnect \/ closePage \/ timeout \/ completeActivity
  BY <1>3 DEF resume, emit, flush, flushMedia, disconnect, closePage, timeout, completeActivity
<1>4. CASE UNCHANGED recorderVars
  BY <1>4 DEF recorderVars, engineVars
<1> QED
  BY <1>1, <1>2, <1>3, <1>4 DEF RecorderNext, Deliver

\* Empty books.
LEMMA BooksStart == RecorderInit => BooksInv
<1> SUFFICES ASSUME RecorderInit PROVE BooksInv
  OBVIOUS
<1>1. /\ batches = {} /\ links = {} /\ summaries = <<>> /\ stored = [s \in Session |-> <<>>]
      /\ page.pendingBatch = {} /\ wire = {}
  BY DEF RecorderInit
<1>2. StoredRowsOf(stored) = {} /\ BatchRowsOf(batches) = {}
  BY <1>1 DEF StoredRowsOf, BatchRowsOf
<1>3. IsFiniteSet({}) /\ Cardinality({}) = 0
  BY FS_EmptySet
<1>4. LinksBooked(batches, links)
  BY <1>1, <1>3 DEF LinksBooked
<1>5. 0 <= EventLimit
  BY RecorderAssumption
<1>6. BatchesBooked(batches, stored)
  BY <1>1, <1>2, <1>3, <1>5 DEF BatchesBooked
<1>7. SummariesBooked(stored, summaries, links) /\ Single(page, wire)
  BY <1>1, <1>2 DEF SummariesBooked, Single, UnderWay
<1> QED
  BY <1>1, <1>2, <1>4, <1>6, <1>7 DEF BooksInv

\* Every step keeps the books.
LEMMA BooksStep ==
  ASSUME RecorderInv, BooksInv, [RecorderNext]_recorderVars
  PROVE  BooksInv'
<1>1. kind' = kind
  BY BooksChange
<1>2. kind = "context" => Single(page, wire)'
  BY SingleStep DEF BooksInv
<1>3. CASE UNCHANGED engineVars
  BY <1>1, <1>2, <1>3 DEF engineVars, BooksInv, BatchesBooked, LinksBooked, SummariesBooked
<1>4. ASSUME NEW m \in wire, m.kind = "request", Admissible(m.batch),
             IF kind = "context" THEN RecordSnapshot(m.batch) ELSE RecordBatch(m.batch)
      PROVE  BooksInv'
  <2>1. /\ BatchesBooked(batches, stored)' /\ LinksBooked(batches, links)'
        /\ Cardinality(StoredRowsOf(stored')) = Cardinality(StoredRowsOf(stored)) + Len(m.batch.events)
        /\ Cardinality(links') = Cardinality(links) + 1
    BY <1>4, RecordingBooks
  <2>2. kind # "context" => SummariesBooked(stored, summaries, links)'
    BY <1>4, RecordingSummarized DEF BooksInv
  <2>3. kind = "context" => Len(m.batch.events) = 1 /\ Cardinality(links) = Cardinality(StoredRowsOf(stored))
    BY <1>4 DEF BooksInv, Single, UnderWay
  <2>4. kind = "context" => Cardinality(links') = Cardinality(StoredRowsOf(stored'))
    BY <2>1, <2>3
  <2> QED BY <1>1, <1>2, <2>1, <2>2, <2>4 DEF BooksInv
<1> QED
  BY <1>3, <1>4, BooksChange

\* Books that are kept verify.
LEMMA BooksVerify == RecorderInv /\ BooksInv => TelemetryVerifies
<1> SUFFICES ASSUME RecorderInv, BooksInv PROVE TelemetryVerifies
  OBVIOUS
<1>1. /\ BatchesBooked(batches, stored) /\ LinksBooked(batches, links)
      /\ stored \in [Session -> Seq(Nat)]
  BY DEF BooksInv, RecorderInv, Reported, RecorderTypes
<1>2. \A s \in Session : Increasing(stored[s]) /\ (stored[s] # <<>> => stored[s][1] = 1)
  <2> SUFFICES ASSUME NEW s \in Session
               PROVE  Increasing(stored[s]) /\ (stored[s] # <<>> => stored[s][1] = 1)
    OBVIOUS
  <2>1. PICK q \in Seq(Nat), n \in Nat : q = stored[s] /\ n = Len(q)
    BY <1>1
  <2>2. q = [i \in 1..n |-> i]
    BY <2>1 DEF RecorderInv, Reported, Prefix
  <2>3. DOMAIN q = 1..n /\ \A i \in 1..n : q[i] = i
    BY <2>2
  <2>4. q # <<>> => 1 \in 1..n
    BY <2>1
  <2> QED BY <2>1, <2>3, <2>4 DEF Increasing
<1>3. StoredCount = Cardinality(StoredRowsOf(stored)) /\ BatchRows = BatchRowsOf(batches)
  BY DEF StoredCount, StoredRows, StoredRowsOf, BatchRows, BatchRowsOf
<1>4. \A b \in batches : \E l \in links : LinksOf(b) = {l} /\ l.batch = b
  <2> SUFFICES ASSUME NEW b \in batches PROVE \E l \in links : LinksOf(b) = {l} /\ l.batch = b
    OBVIOUS
  <2>1. PICK l \in links : l.batch = b
    BY <1>1 DEF LinksBooked
  <2>2. \A k \in links : k.batch.id = b.id => k = l
    <3> SUFFICES ASSUME NEW k \in links, k.batch.id = b.id PROVE k = l
      OBVIOUS
    <3>1. k.batch \in batches
      BY <1>1 DEF LinksBooked
    <3>2. k.batch = b
      BY <1>1, <3>1 DEF BatchesBooked
    <3> QED BY <1>1, <2>1, <3>2 DEF LinksBooked
  <2> QED BY <2>1, <2>2 DEF LinksOf
<1>5. ASSUME kind = "interaction" PROVE verifyActivityInteractionEvidence
  <2>1. SummariesBooked(stored, summaries, links)
    BY <1>5 DEF BooksInv
  <2>2. PICK n \in Nat : n = Len(summaries) /\ DOMAIN summaries = 1..n
    BY <2>1 DEF SummariesBooked
  <2>3. \A l \in links : l.revision \in DOMAIN summaries /\ summaries[l.revision] = l.summary
    BY <2>1, <2>2 DEF SummariesBooked
  <2>4. {l.revision : l \in links} = DOMAIN summaries
    BY <2>1, <2>2 DEF SummariesBooked
  <2>5. IF summaries = <<>> THEN StoredCount = 0 ELSE Last(summaries) = stored
    BY <1>3, <2>1, FS_EmptySet DEF SummariesBooked, Last
  <2> QED BY <1>1, <1>2, <1>3, <1>4, <2>3, <2>4, <2>5
          DEF verifyActivityInteractionEvidence, BatchesBooked, LinksBooked
<1>6. ASSUME kind = "context" PROVE verifyParticipantContextEvidence
  BY <1>1, <1>2, <1>3, <1>4, <1>6 DEF verifyParticipantContextEvidence, BooksInv, BatchesBooked
<1> QED
  BY <1>5, <1>6 DEF TelemetryVerifies

(* The telemetry of an activity is what the page reported and verifies, for *)
(* any number of sessions, events, batches, limits and network faults: the  *)
(* engine's rows, batches, summaries and chain events agree in the way the  *)
(* independent verifier asks for, whichever of the three batch handlers     *)
(* wrote them.                                                              *)
THEOREM TelemetryIsSound == RecorderInit /\ [][RecorderNext]_recorderVars => []TelemetrySound
<1>1. RecorderInv /\ BooksInv => TelemetrySound
  BY BooksVerify DEF RecorderInv, Reported, Prefix, RecordedPrefix, TelemetrySound
<1>2. RecorderInv /\ BooksInv /\ [RecorderNext]_recorderVars => (RecorderInv /\ BooksInv)'
  BY ReportedStep, ConnectedStep, BooksStep DEF RecorderInv
<1> QED
  BY <1>1, <1>2, RecorderStarts, BooksStart, PTL

-----------------------------------------------------------------------------
(* EvidenceBundle.                                                         *)

\* The three entries the verifier starts from, which are nobody's but a bundle's.
Roots == Controls \cup {"record.json"}
BuiltOf(p) == \E r \in Records : copy[p] = buildEvidenceBundle(r)[p]

\* A copy is a set of entries, and those three are taken from bundles, maybe of
\* different records.
BundleInv ==
  /\ copy = [p \in DOMAIN copy |-> copy[p]]
  /\ \A p \in Roots \cap DOMAIN copy : BuiltOf(p)

\* Whatever a path is of, its content names the path and the record.
LEMMA ContentIs ==
  ASSUME NEW r, NEW p
  PROVE  Content(p, r) = [of |-> p, from |-> r]
BY DEF Content, buildEvidenceReports, buildReport, loadAuthoritativeArtifacts

\* What a bundle holds under each path.
LEMMA BundleIs ==
  ASSUME NEW r
  PROVE  /\ buildEvidenceBundle(r) = [p \in Declared \cup Controls |-> buildEvidenceBundle(r)[p]]
         /\ DOMAIN buildEvidenceBundle(r) = Declared \cup Controls
         /\ buildEvidenceBundle(r)["bundle-index.json"] = [of |-> "bundle-index.json", index |-> Index(r)]
         /\ buildEvidenceBundle(r)["bundle-seals.json"] = Seal(Index(r))
         /\ \A p \in Declared : buildEvidenceBundle(r)[p] = [of |-> p, from |-> r]
<1>1. Declared \cap Controls = {}
  BY BundleAssumption DEF Declared, Controls
<1>2. {"bundle-index.json", "bundle-seals.json"} = Controls
  BY DEF Controls
<1>3. ASSUME NEW p \in Declared PROVE buildEvidenceBundle(r)[p] = [of |-> p, from |-> r]
  <2>1. p \notin {"bundle-index.json", "bundle-seals.json"}
    BY <1>1, <1>2
  <2>2. buildEvidenceBundle(r)[p] = Content(p, r)
    BY <2>1 DEF buildEvidenceBundle
  <2> QED BY <2>2, ContentIs
<1> QED BY <1>2, <1>3 DEF buildEvidenceBundle

\* The index of a bundle declares every path but the controls, with its content.
LEMMA IndexIs ==
  ASSUME NEW r
  PROVE  /\ DOMAIN Index(r).entries = Declared /\ Index(r).sourceManifestHash = r
         /\ \A p \in Declared : Index(r).entries[p] = [of |-> p, from |-> r]
BY ContentIs DEF Index

\* Functions with one domain and the same values are the same.
LEMMA SameFunction ==
  ASSUME NEW S, NEW f, NEW g, f = [p \in S |-> f[p]], g = [p \in S |-> g[p]],
         \A p \in S : f[p] = g[p]
  PROVE  f = g
<1>1. [p \in S |-> f[p]] = [p \in S |-> g[p]]
  OBVIOUS
<1> QED BY <1>1

LEMMA BundleInvInit == BundleInit => BundleInv
<1> SUFFICES ASSUME BundleInit PROVE BundleInv
  OBVIOUS
<1>1. PICK r \in Records : copy = buildEvidenceBundle(r)
  BY DEF BundleInit
<1> QED BY <1>1, BundleIs DEF BundleInv, BuiltOf

LEMMA BundleInvStep == BundleInv /\ [BundleNext]_bundleVars => BundleInv'
<1> SUFFICES ASSUME BundleInv, [BundleNext]_bundleVars PROVE BundleInv'
  OBVIOUS
<1>1. CASE UNCHANGED bundleVars
  BY <1>1 DEF bundleVars, BundleInv, BuiltOf
<1>2. ASSUME NEW p \in Path, loseEntry(p) PROVE BundleInv'
  <2>1. copy' = [q \in DOMAIN copy \ {p} |-> copy[q]]
    BY <1>2 DEF loseEntry, Restrict
  <2> QED BY <2>1 DEF BundleInv, BuiltOf
<1>3. ASSUME NEW p \in Path, NEW r \in Records, mixEntry(p, r) PROVE BundleInv'
  <2>1. copy' = [q \in DOMAIN copy \cup {p} |->
                   IF q = p THEN buildEvidenceBundle(r)[p] ELSE copy[q]]
    BY <1>3 DEF mixEntry
  <2> QED BY <2>1 DEF BundleInv, BuiltOf
<1>4. ASSUME strayEntry PROVE BundleInv'
  <2>1. copy' = [q \in DOMAIN copy \cup {"stray"} |->
                   IF q = "stray" THEN [of |-> "stray", from |-> "nobody"] ELSE copy[q]]
    BY <1>4 DEF strayEntry
  <2>2. "stray" \notin Roots
    BY DEF Roots, Controls
  <2> QED BY <2>1, <2>2 DEF BundleInv, BuiltOf
<1> QED BY <1>1, <1>2, <1>3, <1>4 DEF BundleNext

\* The index names the record and binds every entry, so a copy that passes is
\* that record's bundle.
LEMMA PassedIsBuilt == BundleInv => VerifiedIsBuilt
<1> SUFFICES ASSUME BundleInv, verifyEvidenceBundle
             PROVE  \E r \in Records : copy = buildEvidenceBundle(r)
  BY DEF VerifiedIsBuilt
<1>1. Roots \subseteq DOMAIN copy
  BY DEF verifyEvidenceBundle, Roots
<1>2. PICK i \in Records : copy["bundle-index.json"] = buildEvidenceBundle(i)["bundle-index.json"]
  BY <1>1 DEF BundleInv, BuiltOf, Roots, Controls
<1>3. PICK s \in Records : copy["bundle-seals.json"] = buildEvidenceBundle(s)["bundle-seals.json"]
  BY <1>1 DEF BundleInv, BuiltOf, Roots, Controls
<1>4. copy["bundle-index.json"].index = Index(i)
  <2>1. copy["bundle-index.json"] = [of |-> "bundle-index.json", index |-> Index(i)]
    BY <1>2, BundleIs
  <2> QED BY <2>1
<1>5. EntriesMatchIndex(Index(i)) /\ SealVerifies(Index(i))
  BY <1>4 DEF verifyEvidenceBundle
<1>6. Seal(Index(s)) = Seal(Index(i))
  <2>1. copy["bundle-seals.json"] = Seal(Index(s))
    BY <1>3, BundleIs
  <2>2. copy["bundle-seals.json"].signed = Index(i)
    BY <1>5 DEF SealVerifies
  <2>3. Seal(Index(s)).signed = Index(s)
    BY DEF Seal
  <2> QED BY <2>1, <2>2, <2>3
<1>7. DOMAIN copy = Declared \cup Controls
  BY <1>5, <1>1, IndexIs DEF EntriesMatchIndex, Roots
<1>8. \A p \in Declared : copy[p] = buildEvidenceBundle(i)[p]
  <2> SUFFICES ASSUME NEW p \in Declared PROVE copy[p] = buildEvidenceBundle(i)[p]
    OBVIOUS
  <2>1. copy[p] = Index(i).entries[p]
    BY <1>5, IndexIs DEF EntriesMatchIndex
  <2>2. Index(i).entries[p] = [of |-> p, from |-> i]
    BY IndexIs
  <2>3. buildEvidenceBundle(i)[p] = [of |-> p, from |-> i]
    BY BundleIs
  <2> QED BY <2>1, <2>2, <2>3
<1>9. \A p \in Declared \cup Controls : copy[p] = buildEvidenceBundle(i)[p]
  <2>1. copy["bundle-seals.json"] = buildEvidenceBundle(i)["bundle-seals.json"]
    <3>1. copy["bundle-seals.json"] = Seal(Index(s))
      BY <1>3, BundleIs
    <3>2. buildEvidenceBundle(i)["bundle-seals.json"] = Seal(Index(i))
      BY BundleIs
    <3> QED BY <3>1, <3>2, <1>6
  <2> QED BY <2>1, <1>2, <1>8 DEF Controls
<1>10. copy = buildEvidenceBundle(i)
  <2>1. copy = [p \in DOMAIN copy |-> copy[p]]
    BY DEF BundleInv
  <2>2. copy = [p \in Declared \cup Controls |-> copy[p]]
    BY <2>1, <1>7
  <2>3. buildEvidenceBundle(i) = [p \in Declared \cup Controls |-> buildEvidenceBundle(i)[p]]
    BY BundleIs
  <2> QED BY <2>2, <2>3, <1>9, SameFunction
<1> QED BY <1>10

(* A copy that verifies is, entry by entry, the bundle that the engine built  *)
(* for one record: nothing lost, nothing added, nothing from another bundle.  *)
(* VerifiedIsBuilt for any records, profiles, documents and amount of damage. *)
THEOREM VerifiedBundleIsBuilt == BundleInit /\ [][BundleNext]_bundleVars => []VerifiedIsBuilt
<1>1. BundleInit => BundleInv
  BY BundleInvInit
<1>2. BundleInv /\ [BundleNext]_bundleVars => BundleInv'
  BY BundleInvStep
<1>3. BundleInv => VerifiedIsBuilt
  BY PassedIsBuilt
<1> QED BY <1>1, <1>2, <1>3, PTL

-----------------------------------------------------------------------------
(* ActivityRules.                                                          *)

\* A verdict on a response the rules accept of activity a: one its transition may
\* branch on, or the one nothing branches on.
Judgements == Outcomes \cup {"submitted"}
Judges(a, outcome) ==
  \/ outcome \in branchValuesForActivity(a)
  \/ branchValuesForActivity(a) = {} /\ outcome = "submitted"

\* The answers given lead forward, each with a verdict of its activity; a walk that
\* has begun is one through an accepted document.
RulesInv ==
  /\ trail \in Seq([at : 1..3, outcome : Judgements]) /\ at \in 0..3
  /\ at # 0 \/ trail # <<>> => workflow \in Documents /\ validateWorkflowDraft(workflow)
  /\ \A k \in DOMAIN trail : Judges(workflow[trail[k].at].activity, trail[k].outcome)
  /\ \A k \in DOMAIN trail : k < Len(trail) => trail[k].at < trail[k + 1].at
  /\ at # 0 => \A k \in DOMAIN trail : trail[k].at < at
  /\ score \in [earned : Nat, total : Nat \ {0}, passing : Nat]

\* Products grow with their second factor.
LEMMA TimesGrows ==
  ASSUME NEW d \in Nat, NEW m \in Nat, NEW n \in Nat, m <= n
  PROVE  d * m <= d * n
<1>1. PICK k \in Nat : n = m + k
  <2> n - m \in Nat /\ n = m + (n - m)
    OBVIOUS
  <2> QED OBVIOUS
<1>2. d * n = d * m + d * k /\ d * k \in Nat
  BY <1>1
<1> QED BY <1>2

\* The quotient is the last multiple that fits.
LEMMA QuotientFits ==
  ASSUME NEW x \in Nat, NEW d \in Nat \ {0}
  PROVE  /\ x \div d \in Nat
         /\ d * (x \div d) <= x /\ x < d * (x \div d + 1)
BY SMTT(30)

\* A quotient reaches k when the dividend reaches k times the divisor.
LEMMA QuotientReaches ==
  ASSUME NEW x \in Nat, NEW d \in Nat \ {0}, NEW k \in Nat
  PROVE  x \div d >= k <=> x >= d * k
<1>1. PICK q \in Nat : q = x \div d /\ d * q <= x /\ x < d * (q + 1)
  BY QuotientFits
<1>2. ASSUME k <= q PROVE x >= d * k
  <2>1. d * k <= d * q
    BY <1>2, TimesGrows
  <2>2. d * k \in Nat /\ d * q \in Nat
    OBVIOUS
  <2> QED BY <2>1, <2>2, <1>1
<1>3. ASSUME q + 1 <= k PROVE ~(x >= d * k)
  <2>1. d * (q + 1) <= d * k
    BY <1>3, TimesGrows
  <2>2. d * k \in Nat /\ d * (q + 1) \in Nat
    OBVIOUS
  <2> QED BY <2>1, <2>2, <1>1
<1> QED BY <1>1, <1>2, <1>3

\* Rounding half up to hundredths of a percent, compared without the division.
LEMMA PassesWhen ==
  ASSUME NEW e \in Nat, NEW t \in Nat \ {0}, NEW p \in Nat
  PROVE  passes(e, t, p) <=> 20000 * e + t >= 200 * (p * t)
<1>1. 20000 * e + t \in Nat /\ 2 * t \in Nat \ {0} /\ 100 * p \in Nat
  OBVIOUS
<1>2. PICK x \in Nat, d \in Nat \ {0}, k \in Nat : x = 20000 * e + t /\ d = 2 * t /\ k = 100 * p
  BY <1>1
<1>3. passes(e, t, p) <=> x \div d >= k
  BY <1>2 DEF passes, percentHundredths
<1>4. x \div d >= k <=> x >= d * k
  BY QuotientReaches
<1>5. d * k = 200 * (p * t)
  BY <1>2
<1> QED BY <1>2, <1>3, <1>4, <1>5

\* Whoever reaches the threshold passes, and below 200 points nobody else does.
LEMMA ScoreIsFair == RulesInv => ScoreFair
<1> SUFFICES ASSUME RulesInv PROVE ScoreFair
  OBVIOUS
<1>1. PICK e \in Nat, t \in Nat \ {0}, p \in Nat :
        e = score.earned /\ t = score.total /\ p = score.passing
  BY DEF RulesInv
<1>2. PICK m \in Nat : m = p * t
  OBVIOUS
<1>3. passes(e, t, p) <=> 20000 * e + t >= 200 * m
  BY <1>2, PassesWhen
<1>4. 100 * e >= m => passes(e, t, p)
  BY <1>3
<1>5. t < 200 /\ passes(e, t, p) => 100 * e >= m
  BY <1>3
<1> QED BY <1>1, <1>2, <1>4, <1>5 DEF ScoreFair

\* A document has three steps, each with an activity of the templates.
LEMMA DocumentIs ==
  ASSUME NEW w \in Documents
  PROVE  Len(w) = 3 /\ DOMAIN w = 1..3 /\ \A n \in 1..3 : w[n].activity \in Templates
<1>1. PICK a \in Templates, t \in Transitions, u \in Transitions :
        w = <<Step(a, t), Step([type |-> "approval", mode |-> "approval"], u),
              Step([type |-> "terms_response", mode |-> "yes_no"], Plain)>>
  BY DEF Documents
<1>2. /\ [type |-> "approval", mode |-> "approval"] \in Templates
      /\ [type |-> "terms_response", mode |-> "yes_no"] \in Templates
  BY DEF Templates
<1>3. /\ w[1].activity = a /\ w[2].activity = [type |-> "approval", mode |-> "approval"]
      /\ w[3].activity = [type |-> "terms_response", mode |-> "yes_no"]
  BY <1>1 DEF Step
<1>4. 1..3 = {1, 2, 3} /\ Len(w) = 3 /\ DOMAIN w = 1..3
  BY <1>1
<1> QED BY <1>2, <1>3, <1>4

\* From an activity of an accepted document the walk ends or goes forward.
LEMMA NextIsForward ==
  ASSUME NEW w \in Documents, validateWorkflowDraft(w), NEW n \in 1..3, NEW outcome
  PROVE  nextActivity(w, n, outcome) = 0 \/ nextActivity(w, n, outcome) \in n + 1..3
<1>1. Len(w) = 3 /\ DOMAIN w = 1..3
  BY DocumentIs
<1>2. validateTransition(w, n)
  BY <1>1 DEF validateWorkflowDraft
<1>3. CASE outcome \in DOMAIN w[n].cases
  <2>1. nextActivity(w, n, outcome) = w[n].cases[outcome]
    BY <1>3 DEF nextActivity
  <2> QED BY <1>1, <1>2, <1>3, <2>1 DEF validateTransition, validateForwardDestination
<1>4. CASE outcome \notin DOMAIN w[n].cases /\ w[n].default # Undefined
  <2>1. nextActivity(w, n, outcome) = w[n].default
    BY <1>4 DEF nextActivity
  <2> QED BY <1>1, <1>2, <1>4, <2>1 DEF validateTransition, validateForwardDestination
<1>5. CASE outcome \notin DOMAIN w[n].cases /\ w[n].default = Undefined
  <2>1. nextActivity(w, n, outcome) = IF n < 3 THEN n + 1 ELSE 0
    BY <1>1, <1>5 DEF nextActivity
  <2> QED BY <2>1
<1> QED BY <1>3, <1>4, <1>5

\* The templates by their types.
Types == {"terms_response", "approval", "single_choice", "document_review", "electronic_signature",
          "external_media", "multiple_choice", "free_form", "questionnaire"}
LEMMA TemplateIs ==
  ASSUME NEW a \in Templates
  PROVE  a.type \in Types
BY DEF Templates, Types

\* What the response rules derive is a verdict on the activity.
LEMMA JudgementIs ==
  ASSUME NEW a \in Templates, NEW r, validateActivityResponse(a, r) # "invalid"
  PROVE  Judges(a, validateActivityResponse(a, r))
<1>1. a.type \in Types
  BY TemplateIs
<1>2. CASE a.type = "terms_response"
  BY <1>2 DEF Judges, validateActivityResponse, branchValuesForActivity
<1>3. CASE a.type = "approval"
  BY <1>3 DEF Judges, validateActivityResponse, branchValuesForActivity
<1>4. CASE a.type = "single_choice"
  BY <1>4 DEF Judges, validateActivityResponse, branchValuesForActivity
<1>5. CASE a.type = "document_review"
  BY <1>5 DEF Judges, validateActivityResponse, branchValuesForActivity
<1>6. CASE a.type = "electronic_signature"
  BY <1>6 DEF Judges, validateActivityResponse, branchValuesForActivity
<1>7. CASE a.type = "external_media"
  BY <1>7 DEF Judges, validateActivityResponse, branchValuesForActivity
<1>8. CASE a.type = "multiple_choice"
  BY <1>8 DEF Judges, validateActivityResponse, branchValuesForActivity
<1>9. CASE a.type = "free_form"
  BY <1>9 DEF Judges, validateActivityResponse, branchValuesForActivity
<1>10. CASE a.type = "questionnaire"
  BY <1>10 DEF Judges, validateActivityResponse, branchValuesForActivity
<1> QED BY <1>1, <1>2, <1>3, <1>4, <1>5, <1>6, <1>7, <1>8, <1>9, <1>10 DEF Types

\* A verdict on an activity of the templates is one of the known ones.
LEMMA JudgementKnown ==
  ASSUME NEW a \in Templates, NEW outcome, Judges(a, outcome)
  PROVE  outcome \in Judgements /\ branchValuesForActivity(a) \in SUBSET Outcomes
BY DEF Judges, Judgements, Outcomes

\* An answered activity is one of the three.
LEMMA AnsweredIs ==
  ASSUME RulesInv, NEW k \in DOMAIN trail
  PROVE  trail # <<>> /\ trail[k].at \in 1..3 /\ k \in 1..Len(trail)
<1>1. PICK S : S = [at : 1..3, outcome : Judgements]
  OBVIOUS
<1>2. trail \in Seq(S)
  BY <1>1 DEF RulesInv
<1>3. DOMAIN trail = 1..Len(trail) /\ Len(trail) \in Nat
  BY <1>2
<1>4. trail[k] \in S
  BY <1>2, <1>3
<1>5. trail # <<>>
  BY <1>2, <1>3
<1>6. trail[k].at \in 1..3
  BY <1>1, <1>4
<1> QED BY <1>3, <1>5, <1>6

LEMMA RulesInvInit == WalkInit => RulesInv
<1> SUFFICES ASSUME WalkInit PROVE RulesInv
  OBVIOUS
<1>1. trail = <<>> /\ trail \in Seq([at : 1..3, outcome : Judgements]) /\ DOMAIN trail = {} /\ Len(trail) = 0
  BY DEF WalkInit
<1>2. at \in 0..3 /\ (at # 0 => workflow \in Documents /\ validateWorkflowDraft(workflow))
  BY DEF WalkInit
<1>3. score \in [earned : Nat, total : Nat \ {0}, passing : Nat]
  BY RulesAssumption DEF WalkInit, NoScore
<1> QED BY <1>1, <1>2, <1>3 DEF RulesInv

LEMMA RulesInvStep == RulesInv /\ [WalkNext]_walkVars => RulesInv'
<1> SUFFICES ASSUME RulesInv, [WalkNext]_walkVars PROVE RulesInv'
  OBVIOUS
<1>1. CASE UNCHANGED walkVars
  BY <1>1 DEF walkVars, RulesInv
<1>2. CASE respond
  <2> DEFINE a == workflow[at].activity
  <2>1. at # 0 /\ workflow' = workflow /\ score' = score
    BY <1>2 DEF respond
  <2>2. PICK outcome : /\ \E r : outcome = validateActivityResponse(a, r)
                       /\ outcome # "invalid"
                       /\ trail' = Append(trail, [at |-> at, outcome |-> outcome])
                       /\ at' = nextActivity(workflow, at, outcome)
    BY <1>2 DEF respond
  <2>3. /\ workflow \in Documents /\ validateWorkflowDraft(workflow) /\ at \in 1..3
        /\ trail \in Seq([at : 1..3, outcome : Judgements])
    BY <2>1 DEF RulesInv
  <2>4. a \in Templates
    BY <2>3, DocumentIs
  <2>5. Judges(a, outcome)
    BY <2>2, <2>4, JudgementIs
  <2>6. outcome \in Judgements
    BY <2>4, <2>5, JudgementKnown
  <2>7. at' = 0 \/ at' \in at + 1..3
    BY <2>2, <2>3, NextIsForward
  <2>8. PICK answer : answer = [at |-> at, outcome |-> outcome]
    OBVIOUS
  <2>9. /\ answer \in [at : 1..3, outcome : Judgements]
        /\ answer.at = at /\ answer.outcome = outcome /\ trail' = Append(trail, answer)
    BY <2>2, <2>3, <2>6, <2>8
  <2>10. /\ trail' \in Seq([at : 1..3, outcome : Judgements]) /\ Len(trail') = Len(trail) + 1
         /\ Len(trail) \in Nat /\ DOMAIN trail = 1..Len(trail) /\ DOMAIN trail' = 1..Len(trail) + 1
         /\ \A k \in 1..Len(trail) : trail'[k] = trail[k]
         /\ trail'[Len(trail) + 1] = answer
    BY <2>3, <2>9
  <2>11. at' \in 0..3
    BY <2>3, <2>7
  <2>12. \A k \in DOMAIN trail' : Judges(workflow'[trail'[k].at].activity, trail'[k].outcome)
    BY <2>1, <2>5, <2>9, <2>10 DEF RulesInv
  <2>13. \A k \in 1..Len(trail) : trail'[k].at \in 1..3 /\ trail'[k].at < at
    BY <2>1, <2>10, AnsweredIs DEF RulesInv
  <2>14. \A k \in 1..Len(trail) + 1 : trail'[k].at \in 1..3 /\ trail'[k].at <= at
    <3> SUFFICES ASSUME NEW k \in 1..Len(trail) + 1 PROVE trail'[k].at \in 1..3 /\ trail'[k].at <= at
      OBVIOUS
    <3>1. CASE k \in 1..Len(trail)
      BY <3>1, <2>13, <2>3
    <3>2. CASE k = Len(trail) + 1
      BY <3>2, <2>3, <2>9, <2>10
    <3> QED BY <3>1, <3>2, <2>10
  <2>15. \A k \in DOMAIN trail' : k < Len(trail') => trail'[k].at < trail'[k + 1].at
    <3> SUFFICES ASSUME NEW k \in 1..Len(trail) PROVE trail'[k].at < trail'[k + 1].at
      BY <2>10
    <3>1. CASE k < Len(trail)
      <4>1. k + 1 \in 1..Len(trail) /\ trail'[k] = trail[k] /\ trail'[k + 1] = trail[k + 1]
        BY <3>1, <2>10
      <4> QED BY <3>1, <4>1, <2>10 DEF RulesInv
    <3>2. CASE k = Len(trail)
      BY <3>2, <2>9, <2>10, <2>13
    <3>3. k < Len(trail) \/ k = Len(trail)
      <4>1. \A n \in Nat : \A i \in 1..n : i < n \/ i = n
        OBVIOUS
      <4>2. Len(trail) \in Nat
        BY <2>10, Zenon
      <4> QED BY <4>1, <4>2, Zenon
    <3> QED BY <3>1, <3>2, <3>3
  <2>16. at' # 0 => \A k \in DOMAIN trail' : trail'[k].at < at'
    <3> SUFFICES ASSUME at' # 0, NEW k \in 1..Len(trail) + 1 PROVE trail'[k].at < at'
      BY <2>10
    <3>1. at' \in at + 1..3
      BY <2>7
    <3> QED BY <3>1, <2>3, <2>14
  <2> QED BY <2>1, <2>3, <2>10, <2>11, <2>12, <2>15, <2>16 DEF RulesInv
<1> QED BY <1>1, <1>2 DEF WalkNext

\* The walk goes forward, and each verdict is one the branches may name.
LEMMA WalkGoesForward == RulesInv => WalkMovesForward
<1> SUFFICES ASSUME RulesInv PROVE WalkMovesForward
  OBVIOUS
<1>1. ASSUME NEW k \in DOMAIN trail
      PROVE  branchValuesForActivity(workflow[trail[k].at].activity) \in
                {{}} \cup {s \in SUBSET Outcomes : trail[k].outcome \in s}
  <2>1. trail # <<>> /\ trail[k].at \in 1..3
    BY <1>1, AnsweredIs
  <2>2. workflow[trail[k].at].activity \in Templates
    BY <2>1, DocumentIs DEF RulesInv
  <2>3. Judges(workflow[trail[k].at].activity, trail[k].outcome)
    BY <1>1 DEF RulesInv
  <2>4. branchValuesForActivity(workflow[trail[k].at].activity) \in SUBSET Outcomes
    BY <2>2, <2>3, JudgementKnown
  <2> QED BY <2>3, <2>4 DEF Judges
<1> QED BY <1>1 DEF RulesInv, WalkMovesForward

(* The rules a participant's answers are judged by lead forward and are fair: *)
(* RulesSound for every accepted document, every response and every score.    *)
THEOREM RulesAreSound == WalkInit /\ [][WalkNext]_walkVars => []RulesSound
<1>1. WalkInit => RulesInv
  BY RulesInvInit
<1>2. RulesInv /\ [WalkNext]_walkVars => RulesInv'
  BY RulesInvStep
<1>3. RulesInv => RulesSound
  BY ScoreIsFair, WalkGoesForward DEF RulesSound
<1> QED BY <1>1, <1>2, <1>3, PTL
=============================================================================

--------------------------- MODULE ConsoleProofs ---------------------------
(***************************************************************************)
(* What administrators do in the web console and beside it, for any number *)
(* of commands, providers, forms, gates and files: the audit tells what    *)
(* happened and a user keeps a way to sign in (AdminAudit), the evidence   *)
(* of a pilot gate is the evidence that was approved (PilotEvidence), the  *)
(* readiness dossier names one state of the configuration (ProductConfig), *)
(* and what the console says of a company and of its owner's invitation is *)
(* true (CompanyProvisioning).                                             *)
(***************************************************************************)
EXTENDS AdminAudit, PilotEvidence, ProductConfig, CompanyProvisioning, FiniteSetTheorems, TLAPS

-----------------------------------------------------------------------------
(* AdminAudit.                                                             *)

AdminRows == [pc : {"idle", "checked", "begun", "returned", "thrown", "ended"},
              kind : {"none"} \cup Local \cup External,
              provider : Providers \cup {NoProvider}, done : BOOLEAN]

AuditTyped ==
  /\ adminCommand \in [AdminCommands -> AdminRows]
  /\ unacknowledged \subseteq AdminCommands
  /\ outages \in Nat

\* What is recorded, and done, at each step of a command.
Audited(c) ==
  LET row == adminCommand[c] IN
  /\ row.pc # "idle" => row.kind \in Local \cup External
  /\ row.pc \in {"idle", "checked"} => Phases(c) = {} /\ ~row.done
  /\ row.pc = "begun" => Phases(c) = {"started"} /\ ~row.done
  /\ row.pc = "returned" => Phases(c) = {"started"} /\ row.done /\ row.kind \in External
  /\ row.pc = "thrown" =>
       IF row.kind \in Local /\ row.done
       THEN Phases(c) = {"started", "succeeded"} /\ c \in unacknowledged
       ELSE Phases(c) = {"started"}
  /\ c \in unacknowledged => row.pc \in {"thrown", "ended"} /\ row.kind \in Local /\ row.done
  /\ row.pc = "ended" =>
       /\ \/ Phases(c) \in {{}, {"started"}, {"started", "failed"}} /\ ~row.done
          \/ Phases(c) \in {{"started"}, {"started", "succeeded"}} /\ row.done
          \/ Phases(c) = {"started", "ambiguous"} /\ row.kind \in External
          \/ Phases(c) = {"started", "succeeded", "failed"} /\ c \in unacknowledged
       /\ c \in unacknowledged => "succeeded" \in Phases(c)
       /\ c \in Incomplete => outages > 0

AuditInv == AuditTyped /\ (\A c \in AdminCommands : Audited(c)) /\ SignInRemains

\* Recording adds its phase to the command's own, and nothing to another's.
LEMMA RecordPhases ==
  ASSUME NEW c \in AdminCommands, NEW phase, Record(c, phase)
  PROVE  /\ Phases(c)' = Phases(c) \cup {phase}
         /\ \A d \in AdminCommands \ {c} : Phases(d)' = Phases(d)
<1> DEFINE e == [cmd |-> c, phase |-> phase]
<1>1. audit' = audit \cup {e} /\ e.cmd = c /\ e.phase = phase
  BY DEF Record
<1> HIDE DEF e
<1>2. {x \in audit' : x.cmd = c} = {x \in audit : x.cmd = c} \cup {e}
  BY <1>1
<1>3. Phases(c)' = Phases(c) \cup {phase}
  BY <1>1, <1>2 DEF Phases
<1>4. ASSUME NEW d \in AdminCommands \ {c}
      PROVE  Phases(d)' = Phases(d)
  <2>1. {x \in audit' : x.cmd = d} = {x \in audit : x.cmd = d}
    BY <1>1
  <2> QED
    BY <2>1 DEF Phases
<1> QED
  BY <1>3, <1>4

\* A command whose rows do not change stays as audited, as outages only grow.
LEMMA SameAudited ==
  ASSUME NEW c \in AdminCommands, Audited(c), adminCommand'[c] = adminCommand[c],
         Phases(c)' = Phases(c), c \in unacknowledged' <=> c \in unacknowledged, outages \in Nat, outages' \in Nat, outages' >= outages
  PROVE  Audited(c)'
BY DEF Audited, Incomplete, Outcomes

\* The command of a step, and with it all, stay as audited.
LEMMA OneAudited ==
  ASSUME AuditInv, NEW c \in AdminCommands, NEW row \in AdminRows,
         adminCommand' = [adminCommand EXCEPT ![c] = row],
         \/ UNCHANGED audit
         \/ \E phase \in {"started", "succeeded", "failed", "ambiguous"} : Record(c, phase),
         unacknowledged' \in {unacknowledged, unacknowledged \cup {c}},
         outages' = outages \/ Outage, Audited(c)'
  PROVE  AuditTyped' /\ \A d \in AdminCommands : Audited(d)'
<1>1. /\ adminCommand \in [AdminCommands -> AdminRows] /\ outages \in Nat
      /\ unacknowledged \subseteq AdminCommands
  BY DEF AuditInv, AuditTyped
<1>2. outages' \in Nat /\ outages' >= outages
  BY <1>1 DEF Outage
<1>3. AuditTyped'
  BY <1>1, <1>2 DEF AuditTyped
<1>4. ASSUME NEW d \in AdminCommands \ {c}
      PROVE  Audited(d)'
  <2>1. adminCommand'[d] = adminCommand[d]
    BY <1>1
  <2>2. Phases(d)' = Phases(d)
    BY RecordPhases DEF Phases
  <2> QED
    <3>1. d \in unacknowledged' <=> d \in unacknowledged
      OBVIOUS
    <3> QED
      BY <1>1, <1>2, <2>1, <2>2, <3>1, SameAudited DEF AuditInv
<1> QED
  BY <1>3, <1>4

\* No command is recorded at the start.
LEMMA InitAudit ==
  ASSUME AuditInit
  PROVE  AuditInv
BY DEF AuditInit, AuditInv, AuditTyped, AdminRows, Audited, Phases, SignInRemains

\* The steps of the commands, taken together.
LEMMA NextAudit ==
  ASSUME AuditInv, [AuditNext]_adminVars
  PROVE  AuditInv'
<1> USE DEF CommandStep, AtStep
<1>1. /\ adminCommand \in [AdminCommands -> AdminRows] /\ outages \in Nat
      /\ unacknowledged \subseteq AdminCommands
      /\ \A c \in AdminCommands : Audited(c)
      /\ SignInRemains
  BY DEF AuditInv, AuditTyped
<1>2. CASE UNCHANGED adminVars
  BY <1>1, <1>2, SameAudited DEF adminVars, AuditInv, AuditTyped, Phases, SignInRemains, Usable
<1>3. ASSUME NEW c \in AdminCommands, NEW kind \in Local \cup External,
             NEW p \in Providers \cup {NoProvider}, request(c, kind, p)
      PROVE  AuditInv'
  <2> DEFINE row == [pc |-> "checked", kind |-> kind, provider |-> p, done |-> FALSE]
  <2>1. row \in AdminRows
    BY DEF AdminRows
  <2>2. Audited(c)'
    BY <1>1, <1>3 DEF request, Audited, Phases
  <2> QED
    BY <1>1, <1>3, <2>1, <2>2, OneAudited DEF request, AuditInv, SignInRemains, Usable
<1>4. ASSUME NEW c \in AdminCommands, beginAdminAuditCommand(c)
      PROVE  AuditInv'
  <2>1. PICK pc \in {"begun", "ended"} : adminCommand' = [adminCommand EXCEPT ![c].pc = pc]
    BY <1>4 DEF beginAdminAuditCommand
  <2> DEFINE row == [adminCommand[c] EXCEPT !.pc = pc]
  <2>2. row \in AdminRows /\ adminCommand' = [adminCommand EXCEPT ![c] = row]
    BY <1>1, <2>1 DEF AdminRows
  <2>3. /\ adminCommand'[c] = row /\ row.done = FALSE /\ Phases(c) = {}
        /\ row.kind \in Local \cup External
    BY <1>1, <1>4, <2>2 DEF beginAdminAuditCommand, Audited, AdminRows
  <2>4. CASE Record(c, "started") /\ CommandStep(c, "begun") /\ UNCHANGED outages
    <3>1. Phases(c)' = {"started"}
      BY <2>3, <2>4, RecordPhases
    <3>2. row.pc = "begun"
      BY <1>1, <2>3, <2>4 DEF AdminRows
    <3> QED
      BY <1>4, <2>2, <2>3, <2>4, <3>1, <3>2, OneAudited
         DEF beginAdminAuditCommand, AuditInv, Audited, SignInRemains, Usable
  <2>5. CASE Outage /\ CommandStep(c, "ended") /\ (UNCHANGED audit \/ Record(c, "started"))
    <3>1. Phases(c)' \in {{}, {"started"}} /\ outages' > 0
      <4>1. CASE UNCHANGED audit
        BY <1>1, <2>3, <2>5, <4>1 DEF Phases, Outage
      <4>2. CASE Record(c, "started")
        BY <1>1, <2>3, <2>5, <4>2, RecordPhases DEF Outage
      <4> QED
        BY <2>5, <4>1, <4>2
    <3>2. row.pc = "ended"
      BY <1>1, <2>3, <2>5 DEF AdminRows
    <3>3. Audited(c)'
      BY <1>1, <1>4, <2>3, <3>1, <3>2 DEF Audited, Incomplete, beginAdminAuditCommand
    <3> QED
      BY <1>4, <2>2, <2>5, <3>3, OneAudited DEF beginAdminAuditCommand, AuditInv, SignInRemains, Usable
  <2> QED
    BY <1>4, <2>4, <2>5 DEF beginAdminAuditCommand
<1>5. ASSUME NEW c \in AdminCommands, localTransaction(c)
      PROVE  AuditInv'
  <2>1. PICK pc \in {"thrown", "ended"}, done \in BOOLEAN :
          adminCommand' = [adminCommand EXCEPT ![c].pc = pc, ![c].done = done]
    <3>1. adminCommand[c] \in AdminRows /\ adminCommand[c].done = FALSE
      BY <1>1, <1>5 DEF localTransaction, Audited, AdminRows
    <3>2. [adminCommand EXCEPT ![c].pc = "thrown"] = [adminCommand EXCEPT ![c].pc = "thrown", ![c].done = FALSE]
      BY <1>1, <3>1 DEF AdminRows
    <3> QED
      BY <1>5, <3>2 DEF localTransaction
  <2> DEFINE row == [adminCommand[c] EXCEPT !.pc = pc, !.done = done]
  <2>2. row \in AdminRows /\ adminCommand' = [adminCommand EXCEPT ![c] = row]
    BY <1>1, <2>1 DEF AdminRows
  <2>3. /\ adminCommand'[c] = row /\ row.kind = adminCommand[c].kind /\ row.kind \in Local
        /\ row.pc = pc /\ row.done = done
        /\ Phases(c) = {"started"} /\ ~adminCommand[c].done
    BY <1>1, <1>5, <2>2 DEF localTransaction, Audited, AdminRows
  <2> HIDE DEF row
  <2>4. CASE MayChange(c) /\ methods' = Removed(c) /\ Record(c, "succeeded") /\ done
             /\ \/ pc = "ended" /\ UNCHANGED <<outages, unacknowledged>>
                \/ pc = "thrown" /\ Outage /\ unacknowledged' = unacknowledged \cup {c}
    <3>1. Phases(c)' = {"started", "succeeded"}
      BY <2>3, <2>4, RecordPhases
    <3>2. Audited(c)'
      BY <1>1, <1>5, <2>3, <2>4, <3>1 DEF Audited, Incomplete, Outcomes, localTransaction
    <3>3. SignInRemains'
      BY <2>4, AuditAssumption
         DEF SignInRemains, Usable, MayChange, Removed, RemainingAfterDisconnect, RemainingAfterDisable, Local
    <3> QED
      BY <2>2, <2>4, <3>2, <3>3, OneAudited DEF AuditInv
  <2>5. CASE UNCHANGED <<methods, audit, unacknowledged>> /\ pc = "thrown" /\ ~done /\ (outages' = outages \/ Outage)
    <3>1. Audited(c)'
      BY <1>1, <1>5, <2>3, <2>5 DEF Audited, Phases, localTransaction
    <3> QED
      BY <2>2, <2>5, <3>1, OneAudited DEF AuditInv, SignInRemains, Usable
  <2>6. adminCommand[c] \in AdminRows /\ adminCommand'[c].pc = pc /\ adminCommand'[c].done = done
    BY <1>1, <2>3
  <2>7. adminCommand' = [adminCommand EXCEPT ![c].pc = "ended", ![c].done = TRUE] => done /\ pc = "ended"
    <3> SUFFICES ASSUME adminCommand' = [adminCommand EXCEPT ![c].pc = "ended", ![c].done = TRUE]
                 PROVE  done /\ pc = adminCommand'[c].pc /\ adminCommand'[c].pc = "ended"
      OBVIOUS
    <3>1. adminCommand'[c] = [adminCommand[c] EXCEPT !.pc = "ended", !.done = TRUE]
      BY <1>1
    <3>2. adminCommand'[c].done = TRUE /\ adminCommand'[c].pc = "ended"
      BY <2>6, <3>1 DEF AdminRows
    <3> QED
      BY <2>6, <3>2
  <2>8. adminCommand' = [adminCommand EXCEPT ![c].pc = "thrown", ![c].done = TRUE] => done /\ pc = "thrown"
    <3> SUFFICES ASSUME adminCommand' = [adminCommand EXCEPT ![c].pc = "thrown", ![c].done = TRUE]
                 PROVE  done /\ pc = adminCommand'[c].pc /\ adminCommand'[c].pc = "thrown"
      OBVIOUS
    <3>1. adminCommand'[c] = [adminCommand[c] EXCEPT !.pc = "thrown", !.done = TRUE]
      BY <1>1
    <3>2. adminCommand'[c].done = TRUE /\ adminCommand'[c].pc = "thrown"
      BY <2>6, <3>1 DEF AdminRows
    <3> QED
      BY <2>6, <3>2
  <2>9. adminCommand' = [adminCommand EXCEPT ![c].pc = "thrown"] => ~done /\ pc = "thrown"
    <3> SUFFICES ASSUME adminCommand' = [adminCommand EXCEPT ![c].pc = "thrown"]
                 PROVE  ~done /\ pc = "thrown"
      OBVIOUS
    <3>1. adminCommand'[c].pc = "thrown" /\ adminCommand'[c].done = adminCommand[c].done
      BY <1>1, <2>6 DEF AdminRows
    <3> QED
      BY <2>3, <2>6, <3>1
  <2> QED
    <3>1. \/ /\ MayChange(c) /\ methods' = Removed(c) /\ Record(c, "succeeded")
             /\ \/ /\ adminCommand' = [adminCommand EXCEPT ![c].pc = "ended", ![c].done = TRUE]
                   /\ UNCHANGED <<outages, unacknowledged>>
                \/ /\ adminCommand' = [adminCommand EXCEPT ![c].pc = "thrown", ![c].done = TRUE]
                   /\ Outage /\ unacknowledged' = unacknowledged \cup {c}
          \/ /\ UNCHANGED <<methods, audit, unacknowledged>> /\ (outages' = outages \/ Outage)
             /\ adminCommand' = [adminCommand EXCEPT ![c].pc = "thrown"]
      BY <1>5 DEF localTransaction
    <3> QED
      BY <2>4, <2>5, <2>7, <2>8, <2>9, <3>1
<1>6. ASSUME NEW c \in AdminCommands, externalOperation(c)
      PROVE  AuditInv'
  <2>1. PICK done \in BOOLEAN, returns \in BOOLEAN :
          /\ returns => done
          /\ adminCommand' = [adminCommand EXCEPT ![c].pc = IF returns THEN "returned" ELSE "thrown",
                                                  ![c].done = done]
          /\ methods' = IF done /\ adminCommand[c].kind = "enable_password"
                        THEN methods \cup {"credential"} ELSE methods
    BY <1>6 DEF externalOperation
  <2> DEFINE row == [adminCommand[c] EXCEPT !.pc = IF returns THEN "returned" ELSE "thrown", !.done = done]
  <2>2. row \in AdminRows /\ adminCommand' = [adminCommand EXCEPT ![c] = row]
    BY <1>1, <2>1 DEF AdminRows
  <2>3. /\ adminCommand'[c] = row /\ row.kind \in External /\ row.done = done
        /\ row.pc = IF returns THEN "returned" ELSE "thrown"
        /\ Phases(c) = {"started"}
    BY <1>1, <1>6, <2>2 DEF externalOperation, Audited, AdminRows
  <2> HIDE DEF row
  <2>4. Phases(c)' = Phases(c) /\ c \notin unacknowledged'
    BY <1>1, <1>6 DEF externalOperation, Phases, Audited
  <2>5. Audited(c)'
    <3>1. row.kind \notin Local /\ row.kind \in Local \cup External
      BY <2>3 DEF Local, External
    <3>2. CASE returns
      <4>1. row.pc = "returned" /\ row.done
        BY <2>1, <2>3, <3>2
      <4> QED
        BY <2>3, <2>4, <3>1, <4>1 DEF Audited
    <3>3. CASE ~returns
      BY <2>3, <2>4, <3>1, <3>3 DEF Audited
    <3> QED
      BY <3>2, <3>3
  <2>6. SignInRemains'
    BY <1>1, <2>1 DEF SignInRemains, Usable
  <2> QED
    BY <1>6, <2>2, <2>5, <2>6, OneAudited DEF externalOperation, AuditInv
<1>7. ASSUME NEW c \in AdminCommands, finishAdminAuditCommand(c)
      PROVE  AuditInv'
  <2> DEFINE row == [adminCommand[c] EXCEPT !.pc = "ended"]
  <2>1. row \in AdminRows /\ adminCommand' = [adminCommand EXCEPT ![c] = row]
    BY <1>1, <1>7 DEF finishAdminAuditCommand, AdminRows
  <2>2. /\ adminCommand'[c] = row /\ row.pc = "ended" /\ row.done = adminCommand[c].done
        /\ row.kind = adminCommand[c].kind /\ row.kind \in Local \cup External /\ row.done \in BOOLEAN
        /\ adminCommand[c] \in AdminRows /\ adminCommand[c].pc \in {"returned", "thrown"}
        /\ Audited(c) /\ unacknowledged' = unacknowledged
    BY <1>1, <1>7, <2>1 DEF finishAdminAuditCommand, AdminRows, Audited
  <2> HIDE DEF row
  <2>3. SignInRemains'
    BY <1>1, <1>7 DEF finishAdminAuditCommand, SignInRemains, Usable
  <2>4. CASE Record(c, outcomePhase(c)) /\ UNCHANGED outages
    <3>1. /\ Phases(c)' = Phases(c) \cup {outcomePhase(c)}
          /\ outcomePhase(c) \in {"succeeded", "failed", "ambiguous"}
      BY <2>4, RecordPhases DEF outcomePhase
    <3>2. Audited(c)'
      <4>1. c \notin Incomplete'
        BY <3>1 DEF Incomplete, Outcomes
      <4>2. CASE adminCommand[c].pc = "returned"
        <5>1. outcomePhase(c) = "succeeded"
          BY <4>2 DEF outcomePhase
        <5>2. Phases(c)' = {"started", "succeeded"} /\ c \notin unacknowledged'
          BY <2>2, <3>1, <4>2, <5>1 DEF Audited
        <5> QED
          BY <2>2, <4>1, <4>2, <5>2 DEF Audited
      <4>3. CASE adminCommand[c].pc = "thrown" /\ adminCommand[c].kind \in Local
        <5>1. outcomePhase(c) = "failed"
          BY <4>3 DEF outcomePhase, Local, External
        <5>2. CASE adminCommand[c].done
          <6>1. Phases(c)' = {"started", "succeeded", "failed"} /\ c \in unacknowledged'
            BY <2>2, <3>1, <4>3, <5>1, <5>2 DEF Audited
          <6> QED
            BY <2>2, <4>1, <4>3, <5>2, <6>1 DEF Audited
        <5>3. CASE ~adminCommand[c].done
          <6>1. Phases(c)' = {"started", "failed"} /\ c \notin unacknowledged'
            BY <2>2, <3>1, <4>3, <5>1, <5>3 DEF Audited
          <6> QED
            BY <2>2, <4>1, <4>3, <5>3, <6>1 DEF Audited
        <5> QED
          BY <5>2, <5>3
      <4>4. CASE adminCommand[c].pc = "thrown" /\ adminCommand[c].kind \notin Local
        <5>1. adminCommand[c].kind \in External
          BY <2>2, <4>4 DEF Audited
        <5>2. outcomePhase(c) = "ambiguous"
          BY <4>4, <5>1 DEF outcomePhase, External
        <5>3. Phases(c)' = {"started", "ambiguous"} /\ c \notin unacknowledged'
          BY <2>2, <3>1, <4>4, <5>2 DEF Audited
        <5> QED
          BY <2>2, <4>1, <5>1, <5>3 DEF Audited
      <4> QED
        BY <2>2, <4>2, <4>3, <4>4
    <3> QED
      BY <2>1, <2>2, <2>3, <2>4, <3>1, <3>2, OneAudited DEF AuditInv
  <2>5. CASE Outage /\ UNCHANGED audit
    <3>1. Phases(c)' = Phases(c) /\ outages' > 0
      BY <1>1, <2>5 DEF Phases, Outage
    <3>2. Audited(c)'
      <4>1. \/ Phases(c) = {"started", "succeeded"} /\ adminCommand[c].done
            \/ Phases(c) = {"started"} /\ c \notin unacknowledged
        BY <2>2 DEF Audited
      <4>2. c \in unacknowledged => adminCommand[c].kind \in Local /\ adminCommand[c].done
        BY <2>2 DEF Audited
      <4> QED
        BY <2>2, <3>1, <4>1, <4>2 DEF Audited
    <3> QED
      BY <2>1, <2>2, <2>3, <2>5, <3>2, OneAudited DEF AuditInv
  <2> QED
    BY <1>7, <2>4, <2>5 DEF finishAdminAuditCommand
<1>8. ASSUME NEW c \in AdminCommands, crashCommand(c)
      PROVE  AuditInv'
  <2> DEFINE row == [adminCommand[c] EXCEPT !.pc = "ended"]
  <2>1. row \in AdminRows /\ adminCommand' = [adminCommand EXCEPT ![c] = row]
    BY <1>1, <1>8 DEF crashCommand, AdminRows
  <2>2. /\ adminCommand'[c] = row /\ row.pc = "ended" /\ row.done = adminCommand[c].done
        /\ row.kind = adminCommand[c].kind /\ row.kind \in Local \cup External /\ row.done \in BOOLEAN
        /\ adminCommand[c] \in AdminRows /\ Audited(c) /\ unacknowledged' = unacknowledged
    BY <1>1, <1>8, <2>1 DEF crashCommand, AdminRows, Audited
  <2> HIDE DEF row
  <2>3. Phases(c)' = Phases(c) /\ outages' > 0
    BY <1>1, <1>8 DEF crashCommand, Phases, Outage
  <2>4. Audited(c)'
    <3>1. \/ Phases(c) \in {{}, {"started"}} /\ ~adminCommand[c].done
          \/ Phases(c) \in {{"started"}, {"started", "succeeded"}} /\ adminCommand[c].done
      BY <1>8, <2>2 DEF Audited, crashCommand
    <3>2. c \in unacknowledged => /\ adminCommand[c].kind \in Local /\ adminCommand[c].done
                                 /\ "succeeded" \in Phases(c)
      BY <1>8, <2>2 DEF Audited, crashCommand
    <3> QED
      BY <2>2, <2>3, <3>1, <3>2 DEF Audited
  <2> QED
    BY <1>1, <1>8, <2>1, <2>4, OneAudited DEF crashCommand, AuditInv, SignInRemains, Usable
<1>9. ASSUME NEW p \in Configured, linkAccount(p)
      PROVE  AuditInv'
  <2>1. SignInRemains'
    BY <1>1, <1>9 DEF linkAccount, SignInRemains, Usable
  <2> QED
    BY <1>1, <1>9, <2>1, SameAudited DEF linkAccount, AuditInv, AuditTyped, Phases
<1> QED
  BY <1>2, <1>3, <1>4, <1>5, <1>6, <1>7, <1>8, <1>9 DEF AuditNext, Local, External

\* However many administrators disconnect providers and disable the password at the
\* same time, the user keeps a method that works.
THEOREM SignInIsKept == AuditSpec => []SignInRemains
<1>1. AuditInit => AuditInv
  BY InitAudit
<1>2. AuditInv /\ [AuditNext]_adminVars => AuditInv'
  BY NextAudit
<1>3. AuditInv => SignInRemains
  BY DEF AuditInv
<1> QED
  BY <1>1, <1>2, <1>3, PTL DEF AuditSpec

\* The audit events tell what the commands did, whichever of them crash, throw after
\* having acted, or lose the acknowledgement of their commit.
THEOREM AuditIsTrue == AuditSpec => []AuditTellsTruth
<1>1. AuditInit => AuditInv
  BY InitAudit
<1>2. AuditInv /\ [AuditNext]_adminVars => AuditInv'
  BY NextAudit
<1>3. AuditInv => AuditTellsTruth
  BY DEF AuditInv, AuditTyped, Audited, AuditTellsTruth, AtStep, AdminRows, Outcomes, Local, External
<1> QED
  BY <1>1, <1>2, <1>3, PTL DEF AuditSpec

-----------------------------------------------------------------------------
(* PilotEvidence.                                                          *)

Reads == UNION {[P -> Contents] : P \in SUBSET FileNames}
Texts == [gate : PilotGates, files : Reads, cited : SUBSET FileNames, scope : Scopes, reviewedAt : 1..2]
ManifestFiles == [text : Texts, digest : Texts]
Approvals == [PilotGates -> SUBSET [digest : Texts, decidedAt : {1, 2}]]
TextSets == [PilotGates -> SUBSET Texts]
ReadSets == [PilotGates -> SUBSET Reads]
Folders == [files : [FileNames -> Contents \cup {NoFile}], stamp : Nat]
Inspections == [gate : PilotGates, expected : SUBSET FileNames, stamp : Nat, read : Reads,
                purpose : SUBSET Descriptors, steady : BOOLEAN]
Checks == [manifests : TextSets, stamp : Nat, dossier : Approvals, bound : BOOLEAN, read : ReadSets]
Verdicts == [dossier : Approvals, manifests : TextSets, read : ReadSets]

PilotTyped ==
  /\ folders \in [PilotGates -> Folders]
  /\ manifestDir \in [files : [PilotGates -> SUBSET ManifestFiles], stamp : Nat]
  /\ made \in TextSets
  /\ approvals \in Approvals /\ dossier \subseteq Approvals /\ week \in {1, 2}
  /\ inspection \subseteq Inspections /\ checking \subseteq Checks /\ verdict \subseteq Verdicts
  /\ steadied \subseteq BOOLEAN

\* A digest is that of a manifest made from the folder of its gate.
DigestsMade ==
  \A g \in PilotGates : \A m \in manifestDir.files[g] : m.digest \in made[m.digest.gate]

\* An inspection that met an exchange finds another stamp.
StampsTell ==
  \A i \in inspection :
    /\ i.stamp <= folders[i.gate].stamp
    /\ ~i.steady => i.stamp < folders[i.gate].stamp

\* A verification has read one manifest made for each gate; those of one scope that
\* are approved are bound; and the folders read are those of the manifests.
BoundTo(shown, manifests) ==
  /\ \A g \in PilotGates : \E a \in shown[g] : manifests[g] = {a.digest}
  /\ \A g, h \in PilotGates : \A m \in manifests[g], n \in manifests[h] : m.scope = n.scope
Checked(c) ==
  /\ \A g \in PilotGates :
       /\ c.manifests[g] \subseteq made[g]
       /\ \A m, n \in c.manifests[g] : m = n
       /\ \A q \in c.read[g] : \E m \in c.manifests[g] : q = m.files
       /\ \A q, u \in c.read[g] : q = u
  /\ c.bound => BoundTo(c.dossier, c.manifests)

PilotInv ==
  /\ PilotTyped /\ DigestsMade /\ StampsTell
  /\ \A c \in checking : Checked(c)
  /\ PilotEvidenceSound

\* What passed stays true: manifests made are never unmade.
LEMMA VerdictsKept ==
  ASSUME PilotInv, verdict' = verdict, \A g \in PilotGates : made[g] \subseteq made'[g]
  PROVE  VerifiedAsApproved'
BY DEF PilotInv, PilotEvidenceSound, VerifiedAsApproved

\* So does what a verification has read.
LEMMA ChecksKept ==
  ASSUME PilotInv, NEW c \in checking, \A g \in PilotGates : made[g] \subseteq made'[g]
  PROVE  Checked(c)'
BY DEF PilotInv, Checked

\* An empty folder and nothing approved.
LEMMA InitPilot ==
  ASSUME PilotInit
  PROVE  PilotInv
<1>1. folders \in [PilotGates -> Folders]
  <2>1. (CHOOSE c \in Contents : TRUE) \in Contents
    BY PilotAssumption
  <2> QED
    BY <2>1 DEF PilotInit, Folders
<1>2. PilotTyped
  BY <1>1 DEF PilotInit, PilotTyped, TextSets, Approvals
<1> QED
  BY <1>2 DEF PilotInit, PilotInv, DigestsMade, StampsTell, PilotEvidenceSound, VerifiedAsApproved,
              InventoryHeld

\* Files are written, exchanged and misfiled while the commands run.
LEMMA FilesChange ==
  ASSUME PilotInv, PilotFilesChange
  PROVE  PilotInv'
<1>1. PilotTyped /\ DigestsMade /\ StampsTell /\ (\A c \in checking : Checked(c)) /\ PilotEvidenceSound
  BY DEF PilotInv
<1>2. /\ UNCHANGED <<made, checking, verdict, steadied>>
      /\ UNCHANGED pilotEngine
  BY DEF PilotFilesChange, touchManifest, editArtifact, exchangeArtifact
<1>3. (\A c \in checking : Checked(c))' /\ PilotEvidenceSound'
  BY <1>1, <1>2, VerdictsKept, ChecksKept DEF PilotEvidenceSound, InventoryHeld
<1>4. ASSUME NEW g \in PilotGates, touchManifest(g)
      PROVE  PilotInv'
  <2>1. /\ UNCHANGED <<folders, inspection>>
        /\ manifestDir \in [files : [PilotGates -> SUBSET ManifestFiles], stamp : Nat]
    BY <1>1, <1>4 DEF touchManifest, PilotTyped
  <2>2. StampsTell'
    BY <1>1, <2>1 DEF StampsTell
  <2>3. /\ manifestDir'.files \in [PilotGates -> SUBSET ManifestFiles]
        /\ manifestDir' = [files |-> manifestDir'.files, stamp |-> manifestDir'.stamp]
        /\ manifestDir'.stamp \in Nat
        /\ \A h \in PilotGates : \A m \in manifestDir'.files[h] :
             \E k \in PilotGates : \E n \in manifestDir.files[k] : m.digest = n.digest
    <3>1. ASSUME NEW h \in PilotGates \ {g},
                 manifestDir' = [files |-> [manifestDir.files EXCEPT ![h] = manifestDir.files[g]],
                                 stamp |-> manifestDir.stamp + 1]
          PROVE  <2>3!:
      BY <2>1, <3>1
    <3>2. ASSUME NEW s \in Scopes,
                 manifestDir' = [manifestDir EXCEPT !.files[g] = {[m EXCEPT !.text.scope = s] : m \in @}]
          PROVE  <2>3!:
      <4>1. \A m \in ManifestFiles : /\ [m EXCEPT !.text.scope = s] \in ManifestFiles
                                     /\ [m EXCEPT !.text.scope = s].digest = m.digest
        BY DEF ManifestFiles, Texts
      <4>2. /\ manifestDir'.files = [manifestDir.files EXCEPT ![g] =
                                      {[m EXCEPT !.text.scope = s] : m \in manifestDir.files[g]}]
            /\ manifestDir'.stamp = manifestDir.stamp
            /\ manifestDir' = [files |-> manifestDir'.files, stamp |-> manifestDir'.stamp]
        BY <2>1, <3>2
      <4>3. {[m EXCEPT !.text.scope = s] : m \in manifestDir.files[g]} \in SUBSET ManifestFiles
        BY <2>1, <4>1
      <4>4. manifestDir'.files \in [PilotGates -> SUBSET ManifestFiles]
        BY <2>1, <4>2, <4>3
      <4>5. ASSUME NEW h \in PilotGates, NEW m \in manifestDir'.files[h]
            PROVE  \E k \in PilotGates : \E n \in manifestDir.files[k] : m.digest = n.digest
        <5>1. CASE h = g
          <6>1. PICK n \in manifestDir.files[g] : m = [n EXCEPT !.text.scope = s]
            BY <2>1, <4>2, <4>5, <5>1
          <6>2. n \in ManifestFiles
            BY <2>1
          <6> QED
            BY <4>1, <6>1, <6>2
        <5>2. CASE h # g
          BY <2>1, <4>2, <5>2
        <5> QED
          BY <5>1, <5>2
      <4> QED
        BY <2>1, <4>2, <4>4, <4>5
    <3>3. ASSUME manifestDir' = [files |-> [manifestDir.files EXCEPT ![g] = {}], stamp |-> manifestDir.stamp + 1]
          PROVE  <2>3!:
      BY <2>1, <3>3
    <3> QED
      BY <1>4, <3>1, <3>2, <3>3 DEF touchManifest
  <2>4. DigestsMade'
    BY <1>1, <1>2, <2>3 DEF DigestsMade
  <2>5. PilotTyped'
    BY <1>1, <1>2, <2>1, <2>3 DEF PilotTyped, pilotEngine
  <2> QED
    BY <1>3, <2>2, <2>4, <2>5 DEF PilotInv
<1>5. ASSUME NEW g \in PilotGates, NEW p \in FileNames, NEW c \in Contents, editArtifact(g, p, c)
      PROVE  PilotInv'
  <2>1. UNCHANGED <<manifestDir, inspection>> /\ folders \in [PilotGates -> Folders]
    BY <1>1, <1>5 DEF editArtifact, PilotTyped
  <2>2. folders' \in [PilotGates -> Folders] /\ \A h \in PilotGates : folders'[h].stamp = folders[h].stamp
    BY <1>5, <2>1 DEF editArtifact, Folders
  <2>3. PilotTyped'
    BY <1>1, <1>2, <2>1, <2>2 DEF PilotTyped, pilotEngine
  <2>4. StampsTell'
    BY <1>1, <2>1, <2>2 DEF StampsTell, PilotTyped, Inspections
  <2>5. DigestsMade'
    BY <1>1, <1>2, <2>1 DEF DigestsMade
  <2> QED
    BY <1>3, <2>3, <2>4, <2>5 DEF PilotInv
<1>6. ASSUME NEW g \in PilotGates, NEW p \in FileNames, NEW c \in Contents \cup {NoFile},
             exchangeArtifact(g, p, c)
      PROVE  PilotInv'
  <2>1. UNCHANGED manifestDir /\ folders \in [PilotGates -> Folders]
    BY <1>1, <1>6 DEF exchangeArtifact, PilotTyped
  <2>2. /\ folders' \in [PilotGates -> Folders]
        /\ \A h \in PilotGates :
             folders'[h].stamp = IF h = g THEN folders[h].stamp + 1 ELSE folders[h].stamp
    BY <1>6, <2>1 DEF exchangeArtifact, Folders
  <2>3. inspection' = {IF i.gate = g THEN [i EXCEPT !.steady = FALSE] ELSE i : i \in inspection}
    BY <1>6 DEF exchangeArtifact, Unsteady
  <2>4. ASSUME NEW j \in inspection'
        PROVE  /\ j \in Inspections
               /\ j.stamp <= folders'[j.gate].stamp
               /\ ~j.steady => j.stamp < folders'[j.gate].stamp
    <3>1. PICK i \in inspection : j = IF i.gate = g THEN [i EXCEPT !.steady = FALSE] ELSE i
      BY <2>3
    <3>2. i \in Inspections /\ folders[i.gate].stamp \in Nat
      BY <1>1, <2>1 DEF PilotTyped, Inspections, Folders
    <3>3. j \in Inspections /\ j.gate = i.gate /\ j.stamp = i.stamp /\ (i.gate # g => j.steady = i.steady)
      BY <3>1, <3>2 DEF Inspections
    <3>4. i.stamp <= folders[i.gate].stamp /\ (~i.steady => i.stamp < folders[i.gate].stamp)
      BY <1>1 DEF StampsTell
    <3> QED
      BY <2>2, <3>2, <3>3, <3>4 DEF Inspections
  <2>5. PilotTyped' /\ StampsTell'
    BY <1>1, <1>2, <2>1, <2>2, <2>4 DEF PilotTyped, pilotEngine, StampsTell
  <2>6. DigestsMade'
    BY <1>1, <1>2, <2>1 DEF DigestsMade
  <2> QED
    BY <1>3, <2>5, <2>6 DEF PilotInv
<1> QED
  BY <1>4, <1>5, <1>6 DEF PilotFilesChange

\* An inspection is opened or goes on; nothing else changes.
LEMMA InspectionGoesOn ==
  ASSUME PilotInv, inspection' \subseteq Inspections,
         UNCHANGED <<pilotFiles, pilotEngine, made, checking, verdict, steadied>>,
         \A i \in inspection' :
           \/ i.stamp = folders[i.gate].stamp /\ i.steady
           \/ \E j \in inspection : i.gate = j.gate /\ i.stamp = j.stamp /\ i.steady = j.steady
  PROVE  PilotInv'
<1>1. PilotTyped'
  BY DEF PilotInv, PilotTyped, pilotFiles, pilotEngine
<1>2. StampsTell'
  BY DEF PilotInv, PilotTyped, StampsTell, pilotFiles, Inspections, Folders
<1>3. DigestsMade' /\ (\A c \in checking : Checked(c))'
  BY ChecksKept DEF PilotInv, DigestsMade, pilotFiles
<1>4. PilotEvidenceSound'
  BY VerdictsKept DEF PilotInv, PilotEvidenceSound, InventoryHeld
<1> QED
  BY <1>1, <1>2, <1>3, <1>4 DEF PilotInv

\* The artifacts a command reads, one by one.
LEMMA OpenOrRead ==
  ASSUME PilotInv,
         \/ \E d \in Descriptors : createPilotGateEvidenceManifestFile(d)
         \/ \E i \in inspection, p \in FileNames : readPhysicalFile(i, p)
         \/ \E g \in PilotGates : openGateFolder(g)
  PROVE  PilotInv'
<1>1. PilotTyped
  BY DEF PilotInv
<1>2. <<>> \in Reads
  <2>1. <<>> \in [{} -> Contents]
    OBVIOUS
  <2> QED
    BY <2>1 DEF Reads
<1>3. ASSUME NEW g \in PilotGates, NEW expected \in SUBSET FileNames, NEW purpose \in SUBSET Descriptors,
             OpenInspection(g, expected, purpose),
             UNCHANGED <<pilotFiles, pilotEngine, made, checking, verdict, steadied>>
      PROVE  PilotInv'
  <2> DEFINE i == [gate |-> g, expected |-> expected, stamp |-> folders[g].stamp,
                   read |-> <<>>, purpose |-> purpose, steady |-> TRUE]
  <2>1. inspection' = {i}
    BY <1>3 DEF OpenInspection
  <2>2. i \in Inspections /\ i.gate = g /\ i.stamp = folders[g].stamp /\ i.steady
    BY <1>1, <1>2 DEF PilotTyped, Folders, Inspections
  <2> HIDE DEF i
  <2> QED
    BY <1>3, <2>1, <2>2, InspectionGoesOn
<1>4. ASSUME NEW d \in Descriptors, createPilotGateEvidenceManifestFile(d)
      PROVE  PilotInv'
  <2>1. d.gate \in PilotGates /\ d.artifacts \in SUBSET FileNames
    BY PilotAssumption
  <2> QED
    BY <1>3, <1>4, <2>1 DEF createPilotGateEvidenceManifestFile
<1>5. ASSUME NEW g \in PilotGates, openGateFolder(g)
      PROVE  PilotInv'
  <2>1. PICK c \in checking : \E m \in c.manifests[g] :
           /\ OpenInspection(g, DOMAIN m.files, {})
           /\ UNCHANGED <<pilotFiles, pilotEngine, made, checking, verdict, steadied>>
    BY <1>5 DEF openGateFolder
  <2>2. PICK m \in c.manifests[g] :
           /\ OpenInspection(g, DOMAIN m.files, {})
           /\ UNCHANGED <<pilotFiles, pilotEngine, made, checking, verdict, steadied>>
    BY <2>1
  <2>3. m.files \in Reads
    BY <1>1 DEF PilotTyped, Checks, TextSets, Texts
  <2>4. DOMAIN m.files \in SUBSET FileNames
    BY <2>3 DEF Reads
  <2> QED
    BY <1>3, <2>2, <2>4
<1>6. ASSUME NEW i \in inspection, NEW p \in FileNames, readPhysicalFile(i, p)
      PROVE  PilotInv'
  <2> DEFINE f == [q \in DOMAIN i.read \cup {p} |->
                     IF q = p THEN folders[i.gate].files[p] ELSE i.read[q]]
             j == [i EXCEPT !.read = f]
  <2>1. i \in Inspections /\ inspection' = {j}
    BY <1>1, <1>6 DEF PilotTyped, readPhysicalFile
  <2>2. i.read \in Reads /\ i.gate \in PilotGates
    BY <2>1 DEF Inspections
  <2>3. PICK P \in SUBSET FileNames : i.read \in [P -> Contents]
    BY <2>2 DEF Reads
  <2>4. folders[i.gate].files[p] \in Contents
    <3>1. folders[i.gate] \in Folders
      BY <1>1, <2>2 DEF PilotTyped
    <3>2. folders[i.gate].files[p] # NoFile
      BY <1>6 DEF readPhysicalFile, Listing
    <3> QED
      BY <3>1, <3>2 DEF Folders
  <2>5. f \in [P \cup {p} -> Contents]
    BY <2>3, <2>4
  <2>6. f \in Reads
    BY <2>3, <2>5 DEF Reads
  <2> HIDE DEF f
  <2>7. j \in Inspections /\ j.gate = i.gate /\ j.stamp = i.stamp /\ j.steady = i.steady
    BY <2>1, <2>6 DEF Inspections
  <2> HIDE DEF j
  <2> QED
    BY <1>6, <2>1, <2>7, InspectionGoesOn DEF readPhysicalFile
<1> QED
  BY <1>4, <1>5, <1>6

\* An inspection that passes held the inventory of its folder.
LEMMA PassedSteady ==
  ASSUME PilotInv, NEW i \in inspection, inspectEvidenceDirectory(i)
  PROVE  /\ steadied' \subseteq {TRUE} /\ inspection' = {}
         /\ i \in Inspections
<1>1. i \in Inspections /\ steadied \subseteq {TRUE} /\ folders[i.gate].stamp \in Nat
  BY DEF PilotInv, PilotTyped, PilotEvidenceSound, InventoryHeld, Inspections, Folders
<1>2. i.steady = TRUE
  BY <1>1 DEF PilotInv, StampsTell, inspectEvidenceDirectory, Steady, Inspections
<1> QED
  BY <1>1, <1>2 DEF inspectEvidenceDirectory

\* A manifest is written, with its digest.
LEMMA Writes ==
  ASSUME PilotInv, NEW i \in inspection, writePhysicalFile(i)
  PROVE  PilotInv'
<1>1. PilotTyped /\ DigestsMade
  BY DEF PilotInv
<1>2. PICK d \in i.purpose :
        LET body == createPilotGateEvidenceManifest(d, i.read)
        IN  /\ inspectEvidenceDirectory(i)
            /\ manifestDir' = [files |-> [manifestDir.files EXCEPT ![d.gate] = {[text |-> body, digest |-> body]}],
                               stamp |-> manifestDir.stamp + 1]
            /\ made' = [made EXCEPT ![d.gate] = @ \cup {body}]
            /\ UNCHANGED <<folders, pilotEngine, checking, verdict, touches, inspections>>
  BY DEF writePhysicalFile
<1> DEFINE body == createPilotGateEvidenceManifest(d, i.read)
           m == [text |-> body, digest |-> body]
<1>3. inspection' = {} /\ steadied' \subseteq {TRUE} /\ i \in Inspections
  BY <1>2, PassedSteady
<1>4. d \in Descriptors
  BY <1>3 DEF Inspections
<1>5. /\ d.gate \in PilotGates /\ d.cited \in SUBSET FileNames /\ d.scope \in Scopes
      /\ d.reviewedAt \in 1..2
  BY <1>4, PilotAssumption
<1>6. body \in Texts /\ body.gate = d.gate
  BY <1>3, <1>5 DEF Texts, createPilotGateEvidenceManifest, Inspections
<1> HIDE DEF body
<1>7. m \in ManifestFiles /\ m.digest = body
  BY <1>6 DEF ManifestFiles
<1> HIDE DEF m
<1>8. /\ manifestDir' = [files |-> [manifestDir.files EXCEPT ![d.gate] = {m}], stamp |-> manifestDir.stamp + 1]
      /\ made' = [made EXCEPT ![d.gate] = made[d.gate] \cup {body}]
      /\ UNCHANGED <<folders, approvals, dossier, week, checking, verdict>>
  BY <1>2 DEF m, body, pilotEngine
<1>9. /\ made' \in TextSets /\ made'[d.gate] = made[d.gate] \cup {body}
      /\ \A g \in PilotGates : made[g] \subseteq made'[g]
  BY <1>1, <1>5, <1>6, <1>8 DEF PilotTyped, TextSets
<1>10. /\ manifestDir' \in [files : [PilotGates -> SUBSET ManifestFiles], stamp : Nat]
       /\ \A g \in PilotGates : manifestDir'.files[g] = IF g = d.gate THEN {m} ELSE manifestDir.files[g]
  BY <1>1, <1>5, <1>7, <1>8 DEF PilotTyped
<1>11. PilotTyped'
  BY <1>1, <1>3, <1>8, <1>9, <1>10 DEF PilotTyped
<1>12. DigestsMade'
  <2> SUFFICES ASSUME NEW g \in PilotGates, NEW n \in manifestDir'.files[g]
               PROVE  n.digest \in made'[n.digest.gate]
    BY DEF DigestsMade
  <2>1. CASE n = m
    BY <1>6, <1>7, <1>9, <2>1
  <2>2. CASE n \in manifestDir.files[g]
    <3>1. n.digest \in made[n.digest.gate] /\ n \in ManifestFiles
      BY <1>1, <2>2 DEF DigestsMade, PilotTyped
    <3>2. n.digest.gate \in PilotGates
      BY <3>1 DEF ManifestFiles, Texts
    <3> QED
      BY <1>9, <3>1, <3>2
  <2> QED
    BY <1>10, <2>1, <2>2
<1>13. (\A c \in checking : Checked(c))' /\ StampsTell'
  BY <1>3, <1>8, <1>9, ChecksKept DEF StampsTell
<1>14. PilotEvidenceSound'
  BY <1>3, <1>8, <1>9, VerdictsKept DEF PilotEvidenceSound, InventoryHeld
<1> QED
  BY <1>11, <1>12, <1>13, <1>14 DEF PilotInv

\* Approvals, exports and time.
LEMMA Decides ==
  ASSUME PilotInv, weekPasses \/ exportReadiness \/ \E g \in PilotGates : decide(g)
  PROVE  PilotInv'
<1>1. PilotTyped
  BY DEF PilotInv
<1>2. UNCHANGED <<folders, manifestDir, made, inspection, checking, verdict, steadied>>
  BY DEF weekPasses, exportReadiness, decide, pilotFiles
<1>3. approvals' \in Approvals /\ dossier' \subseteq Approvals /\ week' \in {1, 2}
  <2>1. CASE weekPasses
    BY <1>1, <2>1 DEF weekPasses, PilotTyped
  <2>2. CASE exportReadiness
    BY <1>1, <2>2 DEF exportReadiness, PilotTyped
  <2>3. ASSUME NEW g \in PilotGates, decide(g)
        PROVE  <1>3!:
    <3>1. PICK gate : /\ approvals' = [approvals EXCEPT ![g] = gate]
                      /\ UNCHANGED <<dossier, week>>
                      /\ \/ \E m \in manifestDir.files[g] : gate = {[digest |-> m.digest, decidedAt |-> week]}
                         \/ gate = {}
      BY <2>3 DEF decide, applyTenantAdmissionDecision
    <3>2. gate \in SUBSET [digest : Texts, decidedAt : {1, 2}]
      BY <1>1, <3>1 DEF PilotTyped, ManifestFiles
    <3> QED
      BY <1>1, <3>1, <3>2 DEF PilotTyped, Approvals
  <2> QED
    BY <2>1, <2>2, <2>3
<1>4. PilotTyped'
  BY <1>1, <1>2, <1>3 DEF PilotTyped
<1>5. DigestsMade' /\ StampsTell' /\ (\A c \in checking : Checked(c))'
  BY <1>2, ChecksKept DEF PilotInv, DigestsMade, StampsTell
<1>6. PilotEvidenceSound'
  BY <1>2, VerdictsKept DEF PilotInv, PilotEvidenceSound, InventoryHeld
<1> QED
  BY <1>4, <1>5, <1>6 DEF PilotInv

\* A verification goes on: what it has checked is true, whatever it leaves alone.
LEMMA CheckGoesOn ==
  ASSUME PilotInv, UNCHANGED <<folders, manifestDir, approvals, dossier, week, made>>,
         inspection' \in {inspection, {}}, steadied' \subseteq {TRUE},
         checking' \subseteq Checks, \A c \in checking' : Checked(c)', verdict' \subseteq Verdicts,
         VerifiedAsApproved'
  PROVE  PilotInv'
<1>1. PilotTyped'
  BY DEF PilotInv, PilotTyped
<1>2. DigestsMade' /\ StampsTell'
  BY DEF PilotInv, DigestsMade, StampsTell
<1> QED
  BY <1>1, <1>2 DEF PilotInv, PilotEvidenceSound, InventoryHeld

\* Verification reads the folder and compares it with what was approved.
LEMMA Verifies ==
  ASSUME PilotInv,
         \/ verifyPilotAdmissionEvidenceSet \/ verifyAdmissionBindings \/ verifyArtifactDirectories \/ fail
         \/ \E g \in PilotGates : readCanonicalManifest(g)
         \/ \E i \in inspection : verifyPilotGateEvidenceManifest(i)
  PROVE  PilotInv'
<1>1. PilotTyped /\ PilotEvidenceSound /\ \A c \in checking : Checked(c)
  BY DEF PilotInv
<1>2. steadied \subseteq {TRUE} /\ verdict \subseteq Verdicts
  BY <1>1 DEF PilotEvidenceSound, InventoryHeld, PilotTyped
<1>3. CASE verifyPilotAdmissionEvidenceSet
  <2>1. PICK c : /\ c = [manifests |-> NoManifests, stamp |-> manifestDir.stamp, dossier |-> NoManifests,
                         bound |-> FALSE, read |-> NoManifests]
                 /\ checking' = {c}
    BY <1>3 DEF verifyPilotAdmissionEvidenceSet
  <2>0. UNCHANGED <<folders, manifestDir, approvals, dossier, week, made, inspection, verdict, steadied>>
    BY <1>3 DEF verifyPilotAdmissionEvidenceSet, pilotFiles, pilotEngine
  <2>2. /\ c \in Checks
        /\ ~c.bound /\ \A g \in PilotGates : c.manifests[g] = {} /\ c.read[g] = {}
    BY <1>1, <2>1 DEF NoManifests, Checks, TextSets, Approvals, ReadSets, PilotTyped
  <2>3. Checked(c)'
    BY <2>2 DEF Checked
  <2> QED
    BY <1>2, <2>0, <2>1, <2>2, <2>3, CheckGoesOn, VerdictsKept
<1>4. CASE verifyAdmissionBindings
  <2>1. PICK c \in checking, shown \in dossier :
          /\ ~c.bound /\ \A g \in PilotGates : c.manifests[g] # {}
          /\ AdmissionBound(shown, c.manifests)
          /\ checking' = {[c EXCEPT !.bound = TRUE, !.dossier = shown]}
    BY <1>4 DEF verifyAdmissionBindings
  <2>2. UNCHANGED <<folders, manifestDir, approvals, dossier, week, made, inspection, verdict, steadied>>
    BY <1>4 DEF verifyAdmissionBindings, pilotFiles, pilotEngine
  <2> DEFINE b == [c EXCEPT !.bound = TRUE, !.dossier = shown]
  <2>3. c \in Checks /\ shown \in Approvals
    BY <1>1 DEF PilotTyped
  <2>4. b \in Checks /\ b.bound /\ b.dossier = shown /\ b.manifests = c.manifests /\ b.read = c.read
    BY <2>3 DEF Checks
  <2>5. checking' = {b}
    BY <2>1
  <2> HIDE DEF b
  <2>6. BoundTo(shown, c.manifests)
    <3>1. c.manifests \in TextSets /\ \A g \in PilotGates : \A m, n \in c.manifests[g] : m = n
      BY <1>1, <2>3 DEF Checks, Checked
    <3>2. ASSUME NEW g \in PilotGates
          PROVE  \E a \in shown[g] : c.manifests[g] = {a.digest}
      BY <2>1, <3>1 DEF AdmissionBound
    <3>3. PICK s \in Scopes : {m.scope : m \in UNION Range(c.manifests)} = {s}
      BY <2>1 DEF AdmissionBound
    <3>4. ASSUME NEW g \in PilotGates, NEW m \in c.manifests[g]
          PROVE  m.scope = s
      <4>1. c.manifests[g] \in Range(c.manifests)
        BY <3>1 DEF Range, TextSets
      <4> QED
        BY <3>3, <4>1
    <3> QED
      BY <3>2, <3>4 DEF BoundTo
  <2>7. Checked(b)'
    <3>1. Checked(c)'
      BY <1>1, <2>2, ChecksKept
    <3> QED
      BY <2>4, <2>6, <3>1 DEF Checked
  <2> QED
    BY <1>2, <2>2, <2>4, <2>5, <2>7, CheckGoesOn, VerdictsKept
<1>5. CASE verifyArtifactDirectories
  <2>1. PICK c \in checking :
          /\ c.bound /\ \A g \in PilotGates : c.read[g] # {}
          /\ verdict' = {[dossier |-> c.dossier, manifests |-> c.manifests, read |-> c.read]}
          /\ checking' = {}
    BY <1>5 DEF verifyArtifactDirectories
  <2>2. UNCHANGED <<folders, manifestDir, approvals, dossier, week, made, inspection, steadied>>
    BY <1>5 DEF verifyArtifactDirectories, pilotFiles, pilotEngine
  <2> DEFINE v == [dossier |-> c.dossier, manifests |-> c.manifests, read |-> c.read]
  <2>3. c \in Checks /\ Checked(c) /\ BoundTo(c.dossier, c.manifests)
    BY <1>1, <2>1 DEF PilotTyped, Checked
  <2>4. v \in Verdicts /\ verdict' = {v}
    BY <2>1, <2>3 DEF Checks, Verdicts
  <2>5. ASSUME NEW g \in PilotGates
        PROVE  \E a \in v.dossier[g] :
                 /\ a.digest \in made'[g]
                 /\ v.read[g] = {a.digest.files}
                 /\ \A h \in PilotGates : \A m \in v.manifests[h] : m.scope = a.digest.scope
    <3>1. PICK a \in c.dossier[g] : c.manifests[g] = {a.digest}
      BY <2>3 DEF BoundTo
    <3>2. c.read[g] = {a.digest.files}
      BY <2>1, <2>3, <3>1 DEF Checked
    <3>3. a.digest \in made[g]
      BY <2>3, <3>1 DEF Checked
    <3>4. \A h \in PilotGates : \A m \in c.manifests[h] : m.scope = a.digest.scope
      BY <2>3, <3>1 DEF BoundTo
    <3> QED
      BY <2>2, <3>1, <3>2, <3>3, <3>4
  <2> HIDE DEF v
  <2>6. VerifiedAsApproved'
    BY <2>4, <2>5 DEF VerifiedAsApproved
  <2> QED
    BY <1>2, <2>1, <2>2, <2>4, <2>6, CheckGoesOn
<1>6. CASE fail
  BY <1>2, <1>6, CheckGoesOn, VerdictsKept DEF fail, pilotFiles, pilotEngine
<1>7. ASSUME NEW g \in PilotGates, readCanonicalManifest(g)
      PROVE  PilotInv'
  <2>1. PICK c \in checking, m \in manifestDir.files[g] :
          /\ ~c.bound /\ c.manifests[g] = {}
          /\ m.digest = m.text /\ m.text.gate = g
          /\ checking' = {[c EXCEPT !.manifests[g] = {m.text}]}
    BY <1>7 DEF readCanonicalManifest, validatePilotGateManifest
  <2>2. UNCHANGED <<folders, manifestDir, approvals, dossier, week, made, inspection, verdict, steadied>>
    BY <1>7 DEF readCanonicalManifest, pilotFiles, pilotEngine
  <2>3. /\ c \in Checks /\ Checked(c) /\ m \in ManifestFiles /\ m.text \in made[g]
    BY <1>1, <2>1 DEF PilotTyped, PilotInv, DigestsMade
  <2> DEFINE b == [c EXCEPT !.manifests = [c.manifests EXCEPT ![g] = {m.text}]]
  <2>4. checking' = {b}
    BY <2>1, <2>3 DEF Checks
  <2>5. /\ b \in Checks /\ ~b.bound /\ b.read = c.read
        /\ b.manifests[g] = {m.text} /\ \A h \in PilotGates \ {g} : b.manifests[h] = c.manifests[h]
    BY <2>1, <2>3 DEF Checks, TextSets, ManifestFiles
  <2> HIDE DEF b
  <2>6. Checked(b)'
    BY <2>1, <2>2, <2>3, <2>5 DEF Checked
  <2> QED
    BY <1>2, <2>2, <2>4, <2>5, <2>6, CheckGoesOn, VerdictsKept
<1>8. ASSUME NEW i \in inspection, verifyPilotGateEvidenceManifest(i)
      PROVE  PilotInv'
  <2>1. inspection' = {} /\ steadied' \subseteq {TRUE} /\ i \in Inspections
    BY <1>8, PassedSteady DEF verifyPilotGateEvidenceManifest
  <2>2. PICK c \in checking : \E m \in c.manifests[i.gate] :
          /\ m.files = i.read
          /\ checking' = {[c EXCEPT !.read[i.gate] = {i.read}]}
    BY <1>8 DEF verifyPilotGateEvidenceManifest
  <2>3. UNCHANGED <<folders, manifestDir, approvals, dossier, week, made, verdict>>
    BY <1>8 DEF verifyPilotGateEvidenceManifest, pilotFiles, pilotEngine
  <2> DEFINE b == [c EXCEPT !.read = [c.read EXCEPT ![i.gate] = {i.read}]]
  <2>4. c \in Checks /\ Checked(c) /\ i.gate \in PilotGates /\ i.read \in Reads
    BY <1>1, <2>1 DEF PilotTyped, Inspections
  <2>5. checking' = {b}
    BY <2>2, <2>4 DEF Checks
  <2>6. /\ b \in Checks /\ b.bound = c.bound /\ b.manifests = c.manifests /\ b.dossier = c.dossier
        /\ b.read[i.gate] = {i.read} /\ \A h \in PilotGates \ {i.gate} : b.read[h] = c.read[h]
    BY <2>4 DEF Checks, ReadSets
  <2> HIDE DEF b
  <2>7. Checked(b)'
    BY <2>2, <2>3, <2>4, <2>6 DEF Checked
  <2> QED
    BY <1>2, <2>1, <2>3, <2>5, <2>6, <2>7, CheckGoesOn, VerdictsKept
<1> QED
  BY <1>3, <1>4, <1>5, <1>6, <1>7, <1>8

\* The steps of the gate, taken together.
LEMMA NextPilot ==
  ASSUME PilotInv, [PilotNext]_pilotVars
  PROVE  PilotInv'
<1>1. CASE UNCHANGED pilotVars
  BY <1>1, CheckGoesOn, ChecksKept, VerdictsKept
     DEF pilotVars, pilotFiles, pilotEngine, PilotInv, PilotTyped, PilotEvidenceSound, InventoryHeld
<1> QED
  BY <1>1, FilesChange, OpenOrRead, Writes, Decides, Verifies DEF PilotNext

\* What passes as the evidence of an admission is what was reviewed and approved, and
\* every folder held still while it was inspected.
THEOREM PilotEvidenceIsSound == PilotSpec => []PilotEvidenceSound
<1>1. PilotInit => PilotInv
  BY InitPilot
<1>2. PilotInv /\ [PilotNext]_pilotVars => PilotInv'
  BY NextPilot
<1>3. PilotInv => PilotEvidenceSound
  BY DEF PilotInv
<1> QED
  BY <1>1, <1>2, <1>3, PTL DEF PilotSpec

-----------------------------------------------------------------------------
(* ProductConfig.                                                          *)

Revs == Nat \X Nat \X Nat \X Nat
ConfigEvents == [type : {"profile", "admission", "stopped", "exported"}, rev : Nat, seen : Revs]
Snapshots == [seen : Revs, adapter : Adapters \cup {"disabled"}, allow : SUBSET (Adapters \cup {"disabled"}),
              head : Nat]
Updates == [admin : Admins, adapter : Adapters \cup {"disabled"}, status : {"active", "disabled"}]
Decisions == {"admission", "stopped"}
Profiles == {"profile"}

ConfigTyped ==
  /\ installation \in [rev : Nat, allow : SUBSET (Adapters \cup {"disabled"})]
  /\ profile \in [rev : Nat]
  /\ admission \in [rev : Nat, approved : SUBSET Gates]
  /\ binding \in [rev : Nat, adapter : Adapters \cup {"disabled"}, status : {"active", "disabled"}]
  /\ log \in Seq(ConfigEvents) /\ moments \subseteq Revs
  /\ opening \subseteq Updates /\ snapshots \subseteq Snapshots

\* rev is the revision that chain l gives before event n.
Given(l, types, n, rev) ==
  LET at == {i \in 1..(n - 1) : l[i].type \in types}
  IN  \/ at = {} /\ rev = 0
      \/ \E i \in at : (\A j \in at : j <= i) /\ l[i].rev = rev

\* The chain ends at what is active.
Active(l) ==
  /\ Now \in moments
  /\ Given(l, Decisions, Len(l) + 1, admission.rev)
  /\ Given(l, Profiles, Len(l) + 1, profile.rev)

\* What was seen is what the chain gives before event n.
Seen(l, ms, n, seen) ==
  /\ seen \in ms
  /\ Given(l, Decisions, n, seen[3])
  /\ Given(l, Profiles, n, seen[2])

ExportsTrue(l) == \A n \in 1..Len(l) : l[n].type = "exported" => Seen(l, moments, n, l[n].seen)
SnapshotsTrue(l) == \A s \in snapshots : s.head <= Len(l) /\ Seen(l, moments, s.head + 1, s.seen)
FilesRecorded(l) ==
  \A f \in file : \E n \in 1..Len(l) : l[n].type = "exported" /\ f = ExportedFile(l[n].seen, n)

\* Before its first start an installation holds at most the profile of an earlier release.
Uninitialized ==
  ~initialized =>
    /\ admission.rev = 0
    /\ snapshots = {} /\ file = {} /\ opening = {}
    /\ \/ profile.rev = 0 /\ log = <<>>
       \/ profile.rev = 1 /\ log = <<ConfigEvent("profile", 1, NoRevisions)>>

ConfigInv ==
  /\ ConfigTyped /\ Active(log) /\ ExportsTrue(log) /\ SnapshotsTrue(log) /\ FilesRecorded(log)
  /\ Uninitialized

\* An append changes nothing before it, and gives its own revision after it.
LEMMA GivenAppend ==
  ASSUME NEW l \in Seq(ConfigEvents), NEW e \in ConfigEvents, NEW types
  PROVE  /\ Append(l, e) \in Seq(ConfigEvents) /\ Len(Append(l, e)) = Len(l) + 1
         /\ Append(l, e)[Len(l) + 1] = e /\ \A i \in 1..Len(l) : Append(l, e)[i] = l[i]
         /\ \A n \in 1..(Len(l) + 1), rev \in Nat :
              Given(l, types, n, rev) => Given(Append(l, e), types, n, rev)
         /\ \A rev \in Nat :
              Given(l, types, Len(l) + 1, rev) =>
                Given(Append(l, e), types, Len(l) + 2, IF e.type \in types THEN e.rev ELSE rev)
<1> DEFINE k == Append(l, e)
<1>1. /\ k \in Seq(ConfigEvents) /\ Len(k) = Len(l) + 1 /\ Len(l) \in Nat
      /\ k[Len(l) + 1] = e /\ \A i \in 1..Len(l) : k[i] = l[i]
  OBVIOUS
<1> HIDE DEF k
<1>2. ASSUME NEW n \in 1..(Len(l) + 1), NEW rev \in Nat, Given(l, types, n, rev)
      PROVE  Given(k, types, n, rev)
  <2>1. \A i \in 1..(n - 1) : k[i] = l[i]
    BY <1>1
  <2>2. {i \in 1..(n - 1) : k[i].type \in types} = {i \in 1..(n - 1) : l[i].type \in types}
    BY <2>1
  <2> QED
    BY <1>2, <2>1, <2>2 DEF Given
<1>3. ASSUME NEW rev \in Nat, Given(l, types, Len(l) + 1, rev)
      PROVE  Given(k, types, Len(l) + 2, IF e.type \in types THEN e.rev ELSE rev)
  <2> DEFINE at == {i \in 1..(Len(l) + 1 - 1) : l[i].type \in types}
             at2 == {i \in 1..(Len(l) + 2 - 1) : k[i].type \in types}
  <2>1. CASE e.type \in types
    <3>1. Len(l) + 1 \in at2 /\ \A j \in at2 : j <= Len(l) + 1
      BY <1>1, <2>1
    <3> QED
      BY <1>1, <2>1, <3>1 DEF Given
  <2>2. CASE e.type \notin types
    <3>1. at2 = at
      BY <1>1, <2>2
    <3>2. \A i \in at : k[i] = l[i]
      BY <1>1
    <3>3. \/ at = {} /\ rev = 0
          \/ \E i \in at : (\A j \in at : j <= i) /\ l[i].rev = rev
      BY <1>3 DEF Given
    <3> HIDE DEF at, at2
    <3>4. \/ at2 = {} /\ rev = 0
          \/ \E i \in at2 : (\A j \in at2 : j <= i) /\ k[i].rev = rev
      BY <3>1, <3>2, <3>3
    <3> QED
      BY <2>2, <3>4 DEF Given, at2
  <2> QED
    BY <2>1, <2>2
<1> QED
  BY <1>1, <1>2, <1>3 DEF k

\* The last of the events is the one a reader of the chain finds.
LEMMA GivenIsLogged ==
  ASSUME NEW types, NEW n \in Nat, NEW rev, Given(log, types, n, rev)
  PROVE  LoggedRevision(types, n) = rev
<1> DEFINE at == {i \in 1..(n - 1) : log[i].type \in types}
<1>1. CASE at = {} /\ rev = 0
  BY <1>1 DEF LoggedRevision
<1>2. CASE \E i \in at : (\A j \in at : j <= i) /\ log[i].rev = rev
  <2>1. PICK i \in at : (\A j \in at : j <= i) /\ log[i].rev = rev
    BY <1>2
  <2>2. (CHOOSE x \in at : \A j \in at : j <= x) \in at /\ \A j \in at : j <= (CHOOSE x \in at : \A y \in at : y <= x)
    BY <2>1
  <2>3. \A x, y \in at : x <= y /\ y <= x => x = y
    OBVIOUS
  <2>4. (CHOOSE x \in at : \A j \in at : j <= x) = i
    BY <2>1, <2>2, <2>3
  <2>5. at # {}
    BY <2>1
  <2> QED
    BY <2>1, <2>4, <2>5 DEF LoggedRevision
<1> QED
  BY <1>1, <1>2 DEF Given

\* A change that appends one event, an export among them, keeps all of it.
LEMMA EventAppended ==
  ASSUME ConfigInv, initialized, NEW e \in ConfigEvents, log' = Append(log, e), ConfigTyped', initialized',
         moments \subseteq moments', Now' \in moments', snapshots' \subseteq snapshots,
         admission'.rev = IF e.type \in Decisions THEN e.rev ELSE admission.rev,
         profile'.rev = IF e.type = "profile" THEN e.rev ELSE profile.rev,
         e.type = "exported" => Seen(log, moments, Len(log) + 1, e.seen),
         \A f \in file' :
           \/ f \in file
           \/ e.type = "exported" /\ f = ExportedFile(e.seen, Len(log) + 1)
  PROVE  ConfigInv'
<1>1. /\ log \in Seq(ConfigEvents) /\ admission.rev \in Nat /\ profile.rev \in Nat
      /\ moments \subseteq Revs /\ Len(log) \in Nat
      /\ Active(log) /\ ExportsTrue(log) /\ SnapshotsTrue(log) /\ FilesRecorded(log)
  BY DEF ConfigInv, ConfigTyped
<1>2. /\ Len(log') = Len(log) + 1
      /\ log'[Len(log) + 1] = e /\ \A i \in 1..Len(log) : log'[i] = log[i]
  BY <1>1, GivenAppend
<1>3. \A seen \in Revs : seen[2] \in Nat /\ seen[3] \in Nat
  BY DEF Revs
<1>4. ASSUME NEW n \in 1..(Len(log) + 1), NEW seen \in moments, Seen(log, moments, n, seen)
      PROVE  Seen(log', moments', n, seen)
  <2>1. seen \in Revs /\ seen[2] \in Nat /\ seen[3] \in Nat
    BY <1>1, <1>3
  <2>2. /\ Given(log, Decisions, n, seen[3]) /\ Given(log, Profiles, n, seen[2])
        /\ seen \in moments'
    BY <1>4 DEF Seen
  <2>3. Given(log', Decisions, n, seen[3])
    BY <1>1, <2>1, <2>2, GivenAppend
  <2>4. Given(log', Profiles, n, seen[2])
    <3>1. \A k \in 1..(Len(log) + 1), rev \in Nat :
            Given(log, Profiles, k, rev) => Given(Append(log, e), Profiles, k, rev)
      BY <1>1, GivenAppend
    <3> QED
      BY <2>1, <2>2, <3>1
  <2> QED
    BY <2>2, <2>3, <2>4 DEF Seen
<1>5. Active(log)'
  <2>1. Given(log', Decisions, Len(log) + 2, admission'.rev)
    BY <1>1, GivenAppend DEF Active
  <2>2. Given(log', Profiles, Len(log) + 2, profile'.rev)
    <3>1. e.type \in Profiles <=> e.type = "profile"
      BY DEF Profiles
    <3>2. Given(log', Profiles, Len(log) + 2, IF e.type \in Profiles THEN e.rev ELSE profile.rev)
      BY <1>1, GivenAppend DEF Active
    <3> QED
      BY <3>1, <3>2
  <2>3. Len(log') + 1 = Len(log) + 2
    BY <1>1, <1>2
  <2> QED
    BY <2>1, <2>2, <2>3 DEF Active
<1>6. ExportsTrue(log)'
  <2> SUFFICES ASSUME NEW n \in 1..(Len(log) + 1), log'[n].type = "exported"
               PROVE  Seen(log', moments', n, log'[n].seen)
    BY <1>2 DEF ExportsTrue
  <2>1. CASE n = Len(log) + 1
    <3>1. Seen(log, moments, n, e.seen) /\ log'[n] = e
      BY <1>2, <2>1
    <3>2. e.seen \in moments
      BY <3>1 DEF Seen
    <3>3. Seen(log', moments', n, e.seen)
      BY <1>4, <3>1, <3>2
    <3> QED
      BY <3>1, <3>3
  <2>2. CASE n \in 1..Len(log)
    <3>1. log'[n] = log[n] /\ Seen(log, moments, n, log[n].seen)
      BY <1>1, <1>2, <2>2 DEF ExportsTrue
    <3>2. PICK seen \in moments : seen = log[n].seen
      BY <3>1 DEF Seen
    <3>3. Seen(log', moments', n, seen)
      BY <1>4, <3>1, <3>2
    <3> QED
      BY <3>1, <3>2, <3>3
  <2> QED
    BY <1>1, <2>1, <2>2
<1>7. SnapshotsTrue(log)'
  <2> SUFFICES ASSUME NEW s \in snapshots
               PROVE  s.head <= Len(log') /\ Seen(log', moments', s.head + 1, s.seen)
    BY DEF SnapshotsTrue
  <2>1. s \in Snapshots /\ s.head \in Nat /\ s.head <= Len(log) /\ Seen(log, moments, s.head + 1, s.seen)
    BY <1>1 DEF SnapshotsTrue, ConfigInv, ConfigTyped, Snapshots
  <2>2. s.seen \in moments /\ s.head + 1 \in 1..(Len(log) + 1)
    BY <1>1, <2>1 DEF Seen
  <2> QED
    BY <1>1, <1>2, <1>4, <2>1, <2>2
<1>8. FilesRecorded(log)'
  <2> SUFFICES ASSUME NEW f \in file'
               PROVE  \E n \in 1..Len(log') : log'[n].type = "exported" /\ f = ExportedFile(log'[n].seen, n)
    BY DEF FilesRecorded
  <2>1. CASE f \in file
    BY <1>1, <1>2, <2>1 DEF FilesRecorded
  <2>2. CASE e.type = "exported" /\ f = ExportedFile(e.seen, Len(log) + 1)
    BY <1>1, <1>2, <2>2
  <2> QED
    BY <2>1, <2>2
<1> QED
  BY <1>5, <1>6, <1>7, <1>8 DEF ConfigInv, Uninitialized

\* A change that appends none keeps all of it, for it leaves the admission and the
\* profile alone.
LEMMA NoEventAppended ==
  ASSUME ConfigInv, ConfigTyped', log' = log, UNCHANGED <<admission, profile, file>>,
         moments \subseteq moments', Now' \in moments', (initialized' <=> initialized),
         ~initialized => snapshots' = {} /\ opening' = {},
         \A s \in snapshots' :
           \/ s \in snapshots
           \/ s.head = Len(log) /\ s.seen = Now
  PROVE  ConfigInv'
<1>1. /\ Active(log) /\ ExportsTrue(log) /\ SnapshotsTrue(log) /\ FilesRecorded(log) /\ Uninitialized
      /\ log \in Seq(ConfigEvents)
  BY DEF ConfigInv, ConfigTyped
<1>2. Active(log)' /\ ExportsTrue(log)' /\ FilesRecorded(log)' /\ Uninitialized'
  BY <1>1 DEF Active, ExportsTrue, Seen, FilesRecorded, Uninitialized
<1>3. ASSUME NEW s \in snapshots'
      PROVE  s.head <= Len(log') /\ Seen(log', moments', s.head + 1, s.seen)
  <2>1. CASE s \in snapshots
    BY <1>1, <2>1 DEF SnapshotsTrue, Seen
  <2>2. CASE s.head = Len(log) /\ s.seen = Now
    <3>1. Now[3] = admission.rev /\ Now[2] = profile.rev
      BY DEF Now
    <3>2. s.seen[3] = admission.rev /\ s.seen[2] = profile.rev /\ s.seen \in moments'
      BY <1>1, <2>2, <3>1 DEF Active
    <3>3. Given(log, Decisions, s.head + 1, s.seen[3]) /\ Given(log, Profiles, s.head + 1, s.seen[2])
      BY <1>1, <2>2, <3>2 DEF Active
    <3> QED
      BY <1>1, <2>2, <3>2, <3>3 DEF Seen
  <2> QED
    BY <1>3, <2>1, <2>2
<1> QED
  BY <1>2, <1>3 DEF ConfigInv, SnapshotsTrue

\* A fresh tenant with its first profile.
LEMMA InitConfig ==
  ASSUME ConfigInit
  PROVE  ConfigInv
<1> DEFINE e == ConfigEvent("profile", 1, NoRevisions)
<1>1. e \in ConfigEvents /\ e.type = "profile" /\ e.rev = 1
  BY DEF ConfigEvents, ConfigEvent, NoRevisions, Revs
<1>2. PICK earlier \in {0, 1} :
        /\ profile = [rev |-> earlier]
        /\ binding = [rev |-> earlier, adapter |-> "disabled", status |-> "disabled"]
        /\ log = IF earlier = 0 THEN <<>> ELSE <<e>>
        /\ moments = {<<0, earlier, 0, earlier>>}
  BY DEF ConfigInit
<1> HIDE DEF e
<1>3. installation.rev = 0 /\ admission.rev = 0 /\ profile.rev = earlier /\ binding.rev = earlier
  BY <1>2 DEF ConfigInit
<1>4. log \in Seq(ConfigEvents) /\ Len(log) = earlier /\ (earlier = 1 => log[1] = e)
  BY <1>1, <1>2
<1>5. ConfigTyped
  BY <1>2, <1>4 DEF ConfigInit, ConfigTyped, Revs
<1>6. Given(log, Decisions, Len(log) + 1, 0) /\ Given(log, Profiles, Len(log) + 1, earlier)
  <2>1. CASE earlier = 0
    BY <1>4, <2>1 DEF Given
  <2>2. CASE earlier = 1
    <3>1. 1..(Len(log) + 1 - 1) = {1}
      BY <1>4, <2>2
    <3> QED
      BY <1>1, <1>4, <2>2, <3>1 DEF Given, Decisions, Profiles
  <2> QED
    BY <2>1, <2>2
<1>7. Now \in moments
  BY <1>2, <1>3 DEF Now
<1>8. \A n \in 1..Len(log) : log[n].type # "exported"
  BY <1>1, <1>4
<1>9. snapshots = {} /\ file = {} /\ opening = {} /\ ~initialized
  BY <1>3 DEF ConfigInit, initialized
<1>10. Uninitialized
  BY <1>2, <1>3, <1>9 DEF Uninitialized, e
<1> QED
  BY <1>3, <1>5, <1>6, <1>7, <1>8, <1>9, <1>10
     DEF ConfigInv, Active, ExportsTrue, SnapshotsTrue, FilesRecorded

\* The first start writes what is missing.
LEMMA Initializes ==
  ASSUME ConfigInv, initialize
  PROVE  ConfigInv'
<1> DEFINE p == ConfigEvent("profile", 1, NoRevisions)
           a == ConfigEvent("admission", 1, NoRevisions)
<1>1. /\ {p, a} \subseteq ConfigEvents /\ p.type = "profile" /\ a.type = "admission"
      /\ p.rev = 1 /\ a.rev = 1
  BY DEF ConfigEvents, ConfigEvent, NoRevisions, Revs
<1>2. ConfigTyped /\ Uninitialized /\ ~initialized
  BY DEF ConfigInv, initialize
<1>3. log' = (IF profile.rev = 0 THEN <<p>> ELSE log) \o <<a>>
  BY DEF initialize
<1>4. (IF profile.rev = 0 THEN <<p>> ELSE log) = <<p>>
  BY <1>2 DEF Uninitialized
<1>5. log' = <<p>> \o <<a>>
  BY <1>3, <1>4
<1> HIDE DEF p, a
<1>6. log' \in Seq(ConfigEvents) /\ Len(log') = 2 /\ log'[1] = p /\ log'[2] = a
  BY <1>1, <1>5
<1>7. /\ installation'.rev = 1 /\ profile'.rev = 1 /\ admission'.rev = 1 /\ binding'.rev = 1
      /\ moments' = moments \cup {Now'}
      /\ snapshots' = {} /\ file' = {}
  BY <1>2 DEF initialize, Uninitialized, ConfigTyped
<1>8. Now' \in Revs
  BY <1>7 DEF Now, Revs
<1>9. ConfigTyped'
  BY <1>2, <1>6, <1>7, <1>8 DEF ConfigTyped, initialize
<1>10. /\ Given(log', Decisions, Len(log') + 1, 1)
       /\ Given(log', Profiles, Len(log') + 1, 1)
  <2>1. 1..(Len(log') + 1 - 1) = {1, 2}
    BY <1>6
  <2> QED
    BY <1>1, <1>6, <2>1 DEF Given, Decisions, Profiles
<1>11. \A n \in 1..Len(log') : log'[n].type # "exported"
  BY <1>1, <1>6
<1>12. initialized'
  BY <1>7 DEF initialized
<1> QED
  BY <1>7, <1>9, <1>10, <1>11, <1>12
     DEF ConfigInv, Active, ExportsTrue, SnapshotsTrue, FilesRecorded, Uninitialized

\* Appending by concatenation.
LEMMA SavedEvent ==
  ASSUME NEW e \in ConfigEvents, log \in Seq(ConfigEvents), Save(<<e>>)
  PROVE  /\ log' = Append(log, e) /\ moments' = moments \cup {Now'}
         /\ UNCHANGED <<forms, snapshots, file>>
BY DEF Save

\* A step that leaves the saved configuration alone keeps what is said of it.
LEMMA SavedNothing ==
  ASSUME log \in Seq(ConfigEvents), Save(<<>>)
  PROVE  /\ log' = log /\ moments' = moments \cup {Now'}
         /\ UNCHANGED <<forms, snapshots, file>>
BY DEF Save

\* Administrators change the configuration.
LEMMA Changes ==
  ASSUME ConfigInv,
         \/ \E a \in Admins, allow \in AllowLists : updateInstallationProfile(a, allow)
         \/ \E a \in Admins : updateTenantProfile(a)
         \/ \E a \in Admins, gate \in Gates, approve \in BOOLEAN : updateTenantAdmission(a, gate, approve)
         \/ \E a \in Admins, gate \in Gates : stopProduction(a, gate)
  PROVE  ConfigInv'
<1>1. ConfigTyped /\ log \in Seq(ConfigEvents) /\ moments \subseteq Revs
  BY DEF ConfigInv, ConfigTyped
<1>2. ASSUME NEW a \in Admins, NEW allow \in AllowLists, updateInstallationProfile(a, allow)
      PROVE  ConfigInv'
  <2>1. /\ log' = log /\ moments' = moments \cup {Now'} /\ UNCHANGED <<forms, snapshots, file>>
        /\ UNCHANGED <<profile, admission, binding, opening>> /\ initialized
        /\ installation' = [rev |-> installation.rev + 1, allow |-> allow]
    BY <1>1, <1>2, SavedNothing DEF updateInstallationProfile
  <2>2. allow \in SUBSET (Adapters \cup {"disabled"})
    BY DEF AllowLists
  <2>3. Now' \in Revs /\ initialized'
    BY <1>1, <2>1 DEF ConfigTyped, Now, Revs, initialized
  <2>4. ConfigTyped'
    BY <1>1, <2>1, <2>2, <2>3 DEF ConfigTyped
  <2>7. Now' \in moments' /\ moments \subseteq moments'
    BY <2>1
  <2> QED
    BY <2>7, <2>1, <2>3, <2>4, NoEventAppended
<1>3. ASSUME NEW a \in Admins, updateTenantProfile(a)
      PROVE  ConfigInv'
  <2>1. PICK e : e = ConfigEvent("profile", profile.rev + 1, NoRevisions)
    OBVIOUS
  <2>2. e \in ConfigEvents /\ e.type = "profile" /\ e.rev = profile.rev + 1
    BY <1>1, <2>1 DEF ConfigTyped, ConfigEvents, ConfigEvent, NoRevisions, Revs
  <2>3. /\ log' = Append(log, e) /\ moments' = moments \cup {Now'} /\ UNCHANGED <<forms, snapshots, file>>
        /\ UNCHANGED <<installation, admission, binding, opening>> /\ initialized
        /\ profile' = [rev |-> profile.rev + 1]
    BY <1>1, <1>3, <2>1, <2>2, SavedEvent DEF updateTenantProfile
  <2>4. Now' \in Revs /\ initialized'
    BY <1>1, <2>3 DEF ConfigTyped, Now, Revs, initialized
  <2>5. ConfigTyped'
    BY <1>1, <2>2, <2>3, <2>4, GivenAppend DEF ConfigTyped
  <2>7. Now' \in moments' /\ moments \subseteq moments'
    BY <2>3
  <2> QED
    BY <2>7, <2>2, <2>3, <2>4, <2>5, EventAppended DEF Decisions
<1>4. ASSUME NEW e \in ConfigEvents, e.type \in Decisions, initialized,
             admission' \in [rev : Nat, approved : SUBSET Gates], admission'.rev = e.rev,
             admission'.rev > 0, UNCHANGED <<installation, profile, binding, opening>>, Save(<<e>>)
      PROVE  ConfigInv'
  <2>1. /\ log' = Append(log, e) /\ moments' = moments \cup {Now'} /\ UNCHANGED <<forms, snapshots, file>>
    BY <1>1, <1>4, SavedEvent
  <2>2. Now' \in Revs /\ initialized'
    BY <1>1, <1>4 DEF ConfigTyped, Now, Revs, initialized
  <2>3. ConfigTyped'
    BY <1>1, <1>4, <2>1, <2>2, GivenAppend DEF ConfigTyped
  <2>7. Now' \in moments' /\ moments \subseteq moments'
    BY <2>1
  <2> QED
    BY <2>7, <1>4, <2>1, <2>2, <2>3, EventAppended DEF Decisions
<1>5. ASSUME NEW a \in Admins, NEW gate \in Gates, NEW approve \in BOOLEAN,
             updateTenantAdmission(a, gate, approve)
      PROVE  ConfigInv'
  <2>1. PICK e : e = ConfigEvent("admission", admission.rev + 1, NoRevisions)
    OBVIOUS
  <2>2. e \in ConfigEvents /\ e.type \in Decisions /\ e.rev = admission.rev + 1
    BY <1>1, <2>1 DEF ConfigTyped, ConfigEvents, ConfigEvent, NoRevisions, Revs, Decisions
  <2>3. admission' \in [rev : Nat, approved : SUBSET Gates] /\ admission'.rev = admission.rev + 1
    BY <1>1, <1>5 DEF ConfigTyped, updateTenantAdmission
  <2>4. /\ initialized /\ UNCHANGED <<installation, profile, binding, opening>> /\ Save(<<e>>)
    BY <1>5, <2>1 DEF updateTenantAdmission
  <2>5. admission'.rev > 0
    BY <1>1, <2>3 DEF ConfigTyped
  <2> QED
    BY <1>4, <2>2, <2>3, <2>4, <2>5
<1>6. ASSUME NEW a \in Admins, NEW gate \in Gates, stopProduction(a, gate)
      PROVE  ConfigInv'
  <2>1. PICK rev : rev = IF gate \in admission.approved THEN admission.rev + 1 ELSE admission.rev
    OBVIOUS
  <2>2. PICK e : e = ConfigEvent("stopped", rev, NoRevisions)
    OBVIOUS
  <2>3. rev \in Nat /\ initialized /\ rev > 0
    BY <1>1, <1>6, <2>1 DEF ConfigTyped, stopProduction, initialized
  <2>4. e \in ConfigEvents /\ e.type \in Decisions /\ e.rev = rev
    BY <2>2, <2>3 DEF ConfigEvents, ConfigEvent, NoRevisions, Revs, Decisions
  <2>5. admission' \in [rev : Nat, approved : SUBSET Gates] /\ admission'.rev = rev
    BY <1>1, <1>6, <2>1, <2>3 DEF ConfigTyped, stopProduction
  <2>6. UNCHANGED <<installation, profile, binding, opening>> /\ Save(<<e>>)
    BY <1>6, <2>1, <2>2 DEF stopProduction
  <2> QED
    BY <1>4, <2>3, <2>4, <2>5, <2>6
<1> QED
  BY <1>2, <1>3, <1>5, <1>6

\* Forms are loaded, and integrations updated beside all of it.
LEMMA Integrates ==
  ASSUME ConfigInv,
         \/ \E a \in Admins, kind \in Kinds : loadForm(a, kind)
         \/ \E a \in Admins, adapter \in Adapters \cup {"disabled"}, status \in {"active", "disabled"} :
              openIntegrationUpdate(a, adapter, status)
         \/ \E o \in opening : updateIntegration(o)
  PROVE  ConfigInv'
<1>1. /\ ConfigTyped /\ log \in Seq(ConfigEvents) /\ moments \subseteq Revs /\ Now \in moments
      /\ Uninitialized
  BY DEF ConfigInv, ConfigTyped, Active
<1>2. ASSUME UNCHANGED <<settingsVars, log, moments, snapshots, file>>, opening' \subseteq Updates,
             ~initialized => opening' = {}
      PROVE  ConfigInv'
  <2>1. UNCHANGED <<installation, profile, admission, binding>> /\ (initialized' <=> initialized) /\ Now' = Now
    BY <1>2 DEF settingsVars, initialized, Now
  <2>2. ConfigTyped'
    BY <1>1, <1>2, <2>1 DEF ConfigTyped
  <2>3. Now' \in moments' /\ (~initialized => snapshots' = {} /\ opening' = {})
    BY <1>1, <1>2, <2>1 DEF Uninitialized
  <2> QED
    BY <1>2, <2>1, <2>2, <2>3, NoEventAppended
<1>3. ASSUME NEW a \in Admins, NEW kind \in Kinds, loadForm(a, kind)
      PROVE  ConfigInv'
  BY <1>1, <1>2, <1>3 DEF loadForm, ConfigTyped, Uninitialized
<1>4. ASSUME NEW a \in Admins, NEW adapter \in Adapters \cup {"disabled"}, NEW status \in {"active", "disabled"},
             openIntegrationUpdate(a, adapter, status)
      PROVE  ConfigInv'
  <2>1. opening' \subseteq Updates /\ initialized
    BY <1>1, <1>4 DEF openIntegrationUpdate, ConfigTyped, Updates
  <2> QED
    BY <1>2, <1>4, <2>1 DEF openIntegrationUpdate
<1>5. ASSUME NEW o \in opening, updateIntegration(o)
      PROVE  ConfigInv'
  <2>1. o \in Updates /\ opening' \subseteq Updates /\ initialized
    BY <1>1, <1>5 DEF updateIntegration, ConfigTyped, Uninitialized
  <2>2. CASE /\ binding' = [rev |-> binding.rev + 1, adapter |-> o.adapter, status |-> o.status]
             /\ UNCHANGED <<installation, profile, admission>>
             /\ Save(<<>>)
    <3>1. /\ log' = log /\ moments' = moments \cup {Now'} /\ UNCHANGED <<forms, snapshots, file>>
      BY <1>1, <2>2, SavedNothing
    <3>2. Now' \in Revs /\ (initialized' <=> initialized)
      BY <1>1, <2>2 DEF ConfigTyped, Now, Revs, initialized
    <3>3. ConfigTyped'
      BY <1>1, <2>1, <2>2, <3>1, <3>2 DEF ConfigTyped, Updates
    <3>4. Now' \in moments' /\ moments \subseteq moments'
      BY <3>1
    <3> QED
      BY <2>1, <2>2, <3>1, <3>2, <3>3, <3>4, NoEventAppended
  <2>3. CASE UNCHANGED <<settingsVars, log, moments, forms, snapshots, file, saves>>
    BY <1>2, <2>1, <2>3
  <2> QED
    BY <1>5, <2>2, <2>3 DEF updateIntegration
<1> QED
  BY <1>3, <1>4, <1>5

\* The export reads a snapshot, and writes its event and its file if the chain still
\* ends where the snapshot does.
LEMMA Exports ==
  ASSUME ConfigInv, beginReadinessExport \/ exportTenantReadiness
  PROVE  ConfigInv'
<1>1. /\ ConfigTyped /\ log \in Seq(ConfigEvents) /\ moments \subseteq Revs /\ Now \in moments
      /\ Uninitialized /\ SnapshotsTrue(log)
  BY DEF ConfigInv, ConfigTyped, Active
<1>2. CASE beginReadinessExport
  <2>1. PICK s : /\ snapshots' = {s}
                 /\ s = [seen |-> Now, adapter |-> binding.adapter, allow |-> installation.allow,
                         head |-> Len(log)]
    BY <1>2 DEF beginReadinessExport
  <2>2. s \in Snapshots /\ s.head = Len(log) /\ s.seen = Now
    BY <1>1, <2>1 DEF Snapshots, ConfigTyped
  <2>3. /\ initialized
        /\ UNCHANGED <<installation, profile, admission, binding, log, moments, forms, opening, file>>
    BY <1>2 DEF beginReadinessExport, settingsVars
  <2>4. ConfigTyped' /\ (initialized' <=> initialized) /\ Now' = Now
    BY <1>1, <2>1, <2>2, <2>3 DEF ConfigTyped, initialized, Now
  <2> QED
    BY <1>1, <2>1, <2>2, <2>3, <2>4, NoEventAppended
<1>3. CASE exportTenantReadiness
  <2>1. PICK s \in snapshots :
          /\ snapshots' = {}
          /\ \/ /\ Serializable(s)
                /\ log' = Append(log, ConfigEvent("exported", 0, s.seen))
                /\ file' = {ExportedFile(s.seen, Len(log) + 1)}
             \/ UNCHANGED <<log, file>>
          /\ UNCHANGED <<settingsVars, moments, forms, opening, saves>>
    BY <1>3 DEF exportTenantReadiness
  <2>2. initialized /\ s \in Snapshots /\ Seen(log, moments, s.head + 1, s.seen)
    BY <1>1, <2>1 DEF Uninitialized, ConfigTyped, SnapshotsTrue
  <2>3. /\ UNCHANGED <<installation, profile, admission, binding>> /\ (initialized' <=> initialized)
        /\ Now' = Now
    BY <2>1 DEF settingsVars, initialized, Now
  <2>4. CASE /\ Serializable(s)
             /\ log' = Append(log, ConfigEvent("exported", 0, s.seen))
             /\ file' = {ExportedFile(s.seen, Len(log) + 1)}
    <3> DEFINE e == ConfigEvent("exported", 0, s.seen)
    <3>1. e \in ConfigEvents /\ e.type = "exported" /\ e.seen = s.seen
      BY <2>2 DEF ConfigEvents, ConfigEvent, Snapshots
    <3>2. log' = Append(log, e)
      BY <2>4
    <3> HIDE DEF e
    <3>3. Seen(log, moments, Len(log) + 1, e.seen)
      BY <2>2, <2>4, <3>1 DEF Serializable
    <3>4. ConfigTyped'
      BY <1>1, <2>1, <2>3, <3>1, <3>2, GivenAppend DEF ConfigTyped
    <3> QED
      BY <1>1, <2>1, <2>2, <2>3, <2>4, <3>1, <3>2, <3>3, <3>4, EventAppended DEF Decisions
  <2>5. CASE UNCHANGED <<log, file>>
    <3>1. ConfigTyped'
      BY <1>1, <2>1, <2>3, <2>5 DEF ConfigTyped
    <3> QED
      BY <1>1, <2>1, <2>2, <2>3, <2>5, <3>1, NoEventAppended
  <2> QED
    BY <2>1, <2>4, <2>5
<1> QED
  BY <1>2, <1>3

\* The steps on the configuration, taken together.
LEMMA NextConfig ==
  ASSUME ConfigInv, [ConfigNext]_configVars
  PROVE  ConfigInv'
<1>1. CASE UNCHANGED configVars
  <2>1. /\ UNCHANGED <<installation, profile, admission, binding, log, moments, opening, snapshots, file>>
        /\ (initialized' <=> initialized) /\ Now' = Now
    BY <1>1 DEF configVars, initialized, Now
  <2>2. ConfigTyped' /\ Now \in moments
    BY <2>1 DEF ConfigInv, ConfigTyped, Active
  <2>3. Now' \in moments' /\ (~initialized => snapshots' = {} /\ opening' = {})
    BY <2>1, <2>2 DEF ConfigInv, Uninitialized
  <2> QED
    BY <2>1, <2>2, <2>3, NoEventAppended
<1> QED
  BY <1>1, Initializes, Changes, Integrates, Exports DEF ConfigNext

\* A readiness export reports what its place in the company's chain implies, and no
\* file that verifies reports another dossier.
LEMMA ConfigIsTrue ==
  ASSUME ConfigInv
  PROVE  DossierTrue
<1>1. ASSUME NEW n \in ReadinessExports
      PROVE  /\ log[n].seen \in moments
             /\ log[n].seen[3] = LoggedRevision({"admission", "stopped"}, n)
             /\ log[n].seen[2] = LoggedRevision({"profile"}, n)
  <2>1. n \in 1..Len(log) /\ Seen(log, moments, n, log[n].seen) /\ n \in Nat
    BY DEF ReadinessExports, ConfigInv, ExportsTrue
  <2> QED
    BY <2>1, GivenIsLogged DEF Seen, Decisions, Profiles
<1>2. ASSUME NEW f \in file, NEW g \in Altered(f), verifyReadinessDossierBytes(g)
      PROVE  g.event \in ReadinessExports /\ log[g.event].seen = g.dossier
  <2>1. PICK n \in 1..Len(log) : log[n].type = "exported" /\ f = ExportedFile(log[n].seen, n)
    BY DEF ConfigInv, FilesRecorded
  <2>2. PICK d, m, h, t, s, p :
          /\ g = [dossier |-> d, event |-> m, hash |-> h, attestation |-> t, seal |-> s, page |-> p]
          /\ s \in {f.seal, [key |-> "other", over |-> Attestation(d, m)]}
    BY DEF Altered
  <2>3. g.seal = f.seal /\ g.seal.over = g.attestation /\ g.attestation.event = g.event
        /\ g.attestation.hash = g.hash /\ g.hash = g.dossier
    BY <1>2, <2>2 DEF verifyReadinessDossierBytes, validateReadinessExport, validateReadinessSeals
  <2>4. f.seal.over = [hash |-> log[n].seen, event |-> n]
    BY <2>1 DEF ExportedFile, Attestation
  <2>5. g.event = n /\ g.dossier = log[n].seen
    BY <2>3, <2>4
  <2> QED
    BY <2>1, <2>5 DEF ReadinessExports
<1> QED
  BY <1>1, <1>2 DEF DossierTrue, ReadinessTrue, DossierAuthentic

\* A dossier that verifies tells a state the company was in, whatever was changed while
\* it was exported and whatever happened to the file on its way.
THEOREM DossierIsTrue == ConfigSpec => []DossierTrue
<1>1. ConfigInit => ConfigInv
  BY InitConfig
<1>2. ConfigInv /\ [ConfigNext]_configVars => ConfigInv'
  BY NextConfig
<1>3. ConfigInv => DossierTrue
  BY ConfigIsTrue
<1> QED
  BY <1>1, <1>2, <1>3, PTL DEF ConfigSpec

-----------------------------------------------------------------------------
(* CompanyProvisioning.                                                    *)

Stages == {"unused", "engine", "invite", "insert", "send", "accepted", "failed", "told", "gone"}
Refusals == {"slug", "quota"}
Answers == Refusals \cup {"nothing", "denied", "error", "skipped", "not_required", "existing_account",
                          "sent", "delivery_failed", "delivery_unknown"}
SubmissionRows == [pc : Stages, draft : Drafts, cmd : Submissions \cup {Direct}, told : Answers]
InvitationRows == [status : {"pending", "provider_accepted", "failed"}, revoked : BOOLEAN, accepted : BOOLEAN]

ProvisioningTyped ==
  /\ retry \subseteq [cmd : Submissions, draft : Drafts]
  /\ sub \in [Submissions -> SubmissionRows]
  /\ calls \subseteq Submissions
  /\ replies \in [Submissions -> SUBSET (Refusals \cup {"company"})]
  /\ companies \subseteq [cmd : Submissions, draft : Drafts] /\ IsFiniteSet(companies)
  /\ tenantQuota.maxTenants \in Nat
  /\ inv \in [Submissions -> SUBSET InvitationRows]
  /\ lock \subseteq Submissions
  /\ mails \in [Submissions -> Nat]

\* A command stands for one draft: that of the submission that created it.  The tab's
\* record and the receipts of the engine agree.
OneDraft(cmd, draft) == sub[cmd].cmd = cmd /\ sub[cmd].draft = draft
CommandsStand ==
  /\ \A s \in Submissions :
       /\ Stage(s, "unused") => sub[s].cmd = Direct /\ sub[s].told = "nothing"
       /\ sub[s].cmd # Direct => OneDraft(sub[s].cmd, sub[s].draft)
  /\ \A s \in calls : sub[s].cmd # Direct
  /\ \A r, q \in retry : r = q
  /\ \A r \in retry : OneDraft(r.cmd, r.draft)
  /\ \A c \in companies : OneDraft(c.cmd, c.draft)

\* A refused command has no company, and what it was refused for still stands in the
\* way of every attempt of it, unless the quota was raised.
NoCompany(s) == \A c \in companies : c.cmd # sub[s].cmd
SlugTaken(s) == NoCompany(s) /\ \E c \in companies : c.draft.slug = sub[s].draft.slug
QuotaReached(s) == s \in outgrown \/ (NoCompany(s) /\ Cardinality(companies) >= tenantQuota.maxTenants)
RefusalsStand ==
  \A s \in Submissions :
    /\ Stage(s, "unused") => replies[s] = {}
    /\ replies[s] # {} => s \notin calls
    /\ sub[s].told \in Refusals => sub[s].told \in replies[s]
    /\ "slug" \in replies[s] => SlugTaken(s)
    /\ "quota" \in replies[s] => QuotaReached(s)

\* What a submission has done about its invitation at each stage.
Same(s, t) == sub[s].cmd # Direct /\ sub[t].cmd = sub[s].cmd
Mailed(s) ==
  /\ s \in lock <=> sub[s].pc \in {"insert", "send", "accepted", "failed"}
  /\ sub[s].pc \in {"unused", "engine", "invite", "insert"} => inv[s] = {}
  /\ sub[s].pc \in {"unused", "engine", "invite", "insert", "send", "failed"} => mails[s] = 0
  /\ sub[s].pc \in {"send", "accepted", "failed"} =>
       inv[s] # {} /\ \A row \in inv[s] : row.status = "pending"
  /\ Stage(s, "accepted") => mails[s] > 0
  /\ mails[s] <= 1
  /\ mails[s] > 0 => inv[s] # {}
  /\ \A row \in inv[s] : /\ row.status = "failed" => mails[s] = 0
                         /\ row.status = "provider_accepted" => mails[s] > 0
Told(s) == sub[s].told = "sent" => \E t \in Submissions : (t = s \/ Same(s, t)) /\ mails[t] > 0
First(s) == Stage(s, "insert") => \A t \in Submissions : Same(s, t) => inv[t] = {}

OncePerCommand ==
  \A s, t \in Submissions : Same(s, t) =>
    /\ s \in lock /\ t \in lock => s = t
    /\ inv[s] # {} /\ inv[t] # {} => s = t
OneLive == \A s, t \in Submissions : Live(s) /\ Live(t) /\ EmailOf(s) = EmailOf(t) => s = t

MailsStand ==
  /\ \A s \in Submissions : Mailed(s) /\ Told(s) /\ First(s)
  /\ OncePerCommand /\ OneLive

ProvisioningInv == ProvisioningTyped /\ CommandsStand /\ RefusalsStand /\ MailsStand

\* A step that writes only the stage and the answer of submission s.
Advances(s, pc, told) ==
  sub' = [sub EXCEPT ![s] = [pc |-> pc, draft |-> sub[s].draft, cmd |-> sub[s].cmd, told |-> told]]

\* The two ways the front moves a submission on.
LEMMA GotoWrites ==
  ASSUME ProvisioningTyped, NEW s \in Submissions, NEW pc
  PROVE  /\ Goto(s, pc) => Advances(s, pc, sub[s].told)
         /\ \A told : Tell(s, told) => Advances(s, "told", told)
BY DEF ProvisioningTyped, SubmissionRows, Goto, Tell, Advances

\* What such a step leaves alone.
LEMMA WritesOne ==
  ASSUME ProvisioningTyped, NEW s \in Submissions, NEW pc \in Stages, NEW told \in Answers,
         Advances(s, pc, told)
  PROVE  /\ sub' \in [Submissions -> SubmissionRows]
         /\ sub'[s].pc = pc /\ sub'[s].told = told
         /\ \A t \in Submissions : sub'[t].cmd = sub[t].cmd /\ sub'[t].draft = sub[t].draft
         /\ \A t \in Submissions \ {s} : sub'[t] = sub[t]
BY DEF ProvisioningTyped, SubmissionRows, Advances

\* Commands keep their drafts while no submission is new.
LEMMA CommandsKept ==
  ASSUME ProvisioningInv, NEW s \in Submissions, NEW pc \in Stages \ {"unused"}, NEW told \in Answers,
         Advances(s, pc, told), ~Stage(s, "unused"),
         retry' \subseteq retry, calls' \subseteq calls, companies' = companies
  PROVE  CommandsStand'
<1>1. ProvisioningTyped /\ CommandsStand
  BY DEF ProvisioningInv
<1>2. /\ sub'[s].pc = pc
      /\ \A t \in Submissions : sub'[t].cmd = sub[t].cmd /\ sub'[t].draft = sub[t].draft
      /\ \A t \in Submissions \ {s} : sub'[t] = sub[t]
  BY <1>1, WritesOne
<1>3. \A cmd \in Submissions, draft \in Drafts : OneDraft(cmd, draft) => OneDraft(cmd, draft)'
  BY <1>2 DEF OneDraft
<1>4. ASSUME NEW t \in Submissions
      PROVE  /\ Stage(t, "unused")' => sub'[t].cmd = Direct /\ sub'[t].told = "nothing"
             /\ sub'[t].cmd # Direct => OneDraft(sub[t].cmd, sub[t].draft)'
  <2>1. sub[t].cmd \in Submissions \cup {Direct} /\ sub[t].draft \in Drafts
    BY <1>1 DEF ProvisioningTyped, SubmissionRows
  <2>2. sub'[t].cmd # Direct => OneDraft(sub[t].cmd, sub[t].draft)'
    BY <1>1, <1>2, <1>3, <2>1 DEF CommandsStand, OneDraft
  <2>3. Stage(t, "unused")' => sub'[t].cmd = Direct /\ sub'[t].told = "nothing"
    BY <1>1, <1>2 DEF CommandsStand, Stage
  <2> QED
    BY <2>2, <2>3
<1>5. \A r \in retry' : OneDraft(r.cmd, r.draft)'
  BY <1>1, <1>3 DEF CommandsStand, ProvisioningTyped
<1>6. \A c \in companies' : OneDraft(c.cmd, c.draft)'
  BY <1>1, <1>3 DEF CommandsStand, ProvisioningTyped
<1>7. \A t \in calls' : sub'[t].cmd # Direct
  BY <1>1, <1>2 DEF CommandsStand, ProvisioningTyped
<1> QED
  BY <1>1, <1>4, <1>5, <1>6, <1>7 DEF CommandsStand

\* So do refusals while there is no new company: what is told was answered.
LEMMA RefusalsKept ==
  ASSUME ProvisioningInv, NEW s \in Submissions, NEW pc \in Stages \ {"unused"}, NEW told \in Answers,
         Advances(s, pc, told), told \in Refusals => (told = sub[s].told \/ told \in replies[s]),
         calls' \subseteq calls, UNCHANGED <<replies, companies, quotaVars>>
  PROVE  RefusalsStand'
<1>1. ProvisioningTyped /\ RefusalsStand
  BY DEF ProvisioningInv
<1>2. /\ sub'[s].pc = pc /\ sub'[s].told = told
      /\ \A t \in Submissions : sub'[t].cmd = sub[t].cmd /\ sub'[t].draft = sub[t].draft
      /\ \A t \in Submissions \ {s} : sub'[t] = sub[t]
  BY <1>1, WritesOne
<1>3. \A t \in Submissions : (SlugTaken(t) => SlugTaken(t)') /\ (QuotaReached(t) => QuotaReached(t)')
  BY <1>2 DEF SlugTaken, QuotaReached, NoCompany, quotaVars
<1> QED
  BY <1>1, <1>2, <1>3 DEF RefusalsStand, Stage

\* And mail when only the row, the messages and the lock of s change: a row is not
\* brought to life, messages are not taken back, and s leaves the lock or stays.
LEMMA MailsMove ==
  ASSUME ProvisioningInv, NEW s \in Submissions, NEW pc \in Stages \ {"unused"}, NEW told \in Answers,
         Advances(s, pc, told), Mailed(s)', Told(s)', pc # "insert",
         inv[s] = {} => inv'[s] = {}, mails[s] > 0 => mails'[s] > 0, Live(s)' => Live(s),
         \A t \in Submissions \ {s} : inv'[t] = inv[t] /\ mails'[t] = mails[t],
         lock' \subseteq lock, lock \ {s} \subseteq lock'
  PROVE  MailsStand'
<1>1. ProvisioningTyped /\ MailsStand
  BY DEF ProvisioningInv
<1>2. /\ sub'[s].pc = pc
      /\ \A t \in Submissions : sub'[t].cmd = sub[t].cmd /\ sub'[t].draft = sub[t].draft
      /\ \A t \in Submissions \ {s} : sub'[t] = sub[t]
  BY <1>1, WritesOne
<1>3. \A t, u \in Submissions : Same(t, u)' <=> Same(t, u)
  BY <1>2 DEF Same
<1>4. ASSUME NEW t \in Submissions \ {s}
      PROVE  Mailed(t)' /\ Told(t)' /\ First(t)'
  <2>1. Mailed(t)'
    BY <1>1, <1>2 DEF MailsStand, Mailed, Stage
  <2>2. Told(t)'
    <3>1. \A u \in Submissions : mails[u] > 0 => mails'[u] > 0
      OBVIOUS
    <3> QED
      BY <1>1, <1>2, <1>3, <3>1 DEF MailsStand, Told
  <2>3. First(t)'
    BY <1>1, <1>2, <1>3 DEF MailsStand, First, Stage
  <2> QED
    BY <2>1, <2>2, <2>3
<1>5. First(s)'
  BY <1>2 DEF First, Stage
<1>6. OncePerCommand'
  BY <1>1, <1>3 DEF MailsStand, OncePerCommand
<1>7. OneLive'
  <2>1. \A t \in Submissions : (Live(t)' => Live(t)) /\ EmailOf(t)' = EmailOf(t)
    BY <1>2 DEF Live, EmailOf
  <2> QED
    BY <1>1, <2>1 DEF MailsStand, OneLive
<1> QED
  BY <1>4, <1>5, <1>6, <1>7 DEF MailsStand

\* The same when no row and no message changes.
LEMMA MailsKept ==
  ASSUME ProvisioningInv, NEW s \in Submissions, NEW pc \in Stages \ {"unused"}, NEW told \in Answers,
         Advances(s, pc, told), Mailed(s)', Told(s)', pc # "insert",
         UNCHANGED <<inv, mails>>, lock' \subseteq lock, lock \ {s} \subseteq lock'
  PROVE  MailsStand'
<1>1. Live(s)' => Live(s)
  BY DEF Live
<1> QED
  BY <1>1, MailsMove

\* No submission, no company and no invitation at the start.
LEMMA InitProvisioning ==
  ASSUME ProvisioningInit
  PROVE  ProvisioningInv
<1>1. Unused \in SubmissionRows /\ Unused.pc = "unused" /\ Unused.cmd = Direct /\ Unused.told = "nothing"
  <2>1. (CHOOSE d \in Drafts : TRUE) \in Drafts
    BY ProvisioningAssumption
  <2> QED
    BY <2>1 DEF Unused, SubmissionRows, Stages, Answers, Direct
<1>2. ProvisioningTyped
  <2>1. tenantQuota.maxTenants \in Nat
    BY ProvisioningAssumption DEF ProvisioningInit
  <2> QED
    BY <1>1, <2>1, FS_EmptySet DEF ProvisioningInit, ProvisioningTyped
<1>3. CommandsStand
  BY <1>1 DEF ProvisioningInit, CommandsStand, Stage
<1>4. RefusalsStand
  BY <1>1 DEF ProvisioningInit, RefusalsStand, Refusals
<1>5. MailsStand
  BY <1>1 DEF ProvisioningInit, MailsStand, Mailed, Told, First, OncePerCommand, OneLive, Live, Stage
<1> QED
  BY <1>2, <1>3, <1>4, <1>5 DEF ProvisioningInv

\* A new submission, of the form or by hand.
LEMMA NewSubmission ==
  ASSUME ProvisioningInv, NEW s \in Submissions, Stage(s, "unused"), NEW draft \in Drafts,
         NEW cmd \in Submissions \cup {Direct}, NEW pc \in {"engine", "told", "invite"},
         NEW told \in {"nothing", "denied"},
         sub' = [sub EXCEPT ![s] = [pc |-> pc, draft |-> draft, cmd |-> cmd, told |-> told]],
         cmd = s \/ cmd = Direct \/ OneDraft(cmd, draft),
         retry' \in {retry, {}, {[cmd |-> cmd, draft |-> draft]}}, cmd = Direct => retry' = retry,
         calls' \in {calls, calls \cup {s}}, s \in calls' => cmd # Direct,
         UNCHANGED <<replies, companies, quotaVars, inv, lock, mails>>
  PROVE  ProvisioningInv'
<1>1. ProvisioningTyped /\ CommandsStand /\ RefusalsStand /\ MailsStand
  BY DEF ProvisioningInv
<1> DEFINE row == [pc |-> pc, draft |-> draft, cmd |-> cmd, told |-> told]
<1>2. row \in SubmissionRows
  BY DEF SubmissionRows, Stages, Answers
<1>3. /\ sub' \in [Submissions -> SubmissionRows]
      /\ sub'[s].pc = pc /\ sub'[s].draft = draft /\ sub'[s].cmd = cmd /\ sub'[s].told = told
      /\ \A t \in Submissions \ {s} : sub'[t] = sub[t]
  BY <1>1, <1>2 DEF ProvisioningTyped
<1>4. Direct \notin Submissions
  BY DEF Direct, Submissions
<1>5. /\ sub[s].cmd = Direct /\ sub[s].told = "nothing" /\ replies[s] = {}
      /\ s \notin lock /\ s \notin calls /\ inv[s] = {} /\ mails[s] = 0
  BY <1>1 DEF CommandsStand, RefusalsStand, MailsStand, Mailed, Stage
<1>6. retry' \subseteq [cmd : Submissions, draft : Drafts]
  BY <1>1 DEF ProvisioningTyped
<1>7. ProvisioningTyped'
  BY <1>1, <1>3, <1>6 DEF ProvisioningTyped, quotaVars
<1>8. \A c \in Submissions, d \in Drafts : OneDraft(c, d) => OneDraft(c, d)'
  BY <1>3, <1>4, <1>5 DEF OneDraft
<1>9. cmd # Direct => OneDraft(cmd, draft)'
  BY <1>3, <1>8 DEF OneDraft
<1>10. CommandsStand'
  <2>1. ASSUME NEW t \in Submissions
        PROVE  /\ Stage(t, "unused")' => sub'[t].cmd = Direct /\ sub'[t].told = "nothing"
               /\ sub'[t].cmd # Direct => OneDraft(sub[t].cmd, sub[t].draft)'
    <3>1. CASE t = s
      BY <1>3, <1>9, <3>1 DEF Stage, OneDraft
    <3>2. CASE t # s
      <4>1. sub'[t] = sub[t] /\ sub[t].cmd \in Submissions \cup {Direct} /\ sub[t].draft \in Drafts
        BY <1>1, <1>3, <3>2 DEF ProvisioningTyped, SubmissionRows
      <4>2. sub[t].cmd # Direct => OneDraft(sub[t].cmd, sub[t].draft)'
        <5>1. PICK c, d : c = sub[t].cmd /\ d = sub[t].draft
          OBVIOUS
        <5>2. c # Direct => OneDraft(c, d)'
          BY <1>1, <1>8, <4>1, <5>1 DEF CommandsStand
        <5> QED
          BY <4>1, <5>1, <5>2 DEF OneDraft
      <4> QED
        BY <1>1, <4>1, <4>2 DEF CommandsStand, Stage
    <3> QED
      BY <3>1, <3>2
  <2>2. \A t \in calls' : sub'[t].cmd # Direct
    BY <1>1, <1>3 DEF CommandsStand, ProvisioningTyped
  <2>3. \A r \in retry' : OneDraft(r.cmd, r.draft)'
    BY <1>1, <1>8, <1>9 DEF CommandsStand, ProvisioningTyped
  <2>4. \A r, q \in retry' : r = q
    BY <1>1 DEF CommandsStand
  <2>5. \A c \in companies' : OneDraft(c.cmd, c.draft)'
    BY <1>1, <1>8 DEF CommandsStand, ProvisioningTyped
  <2> QED
    BY <2>1, <2>2, <2>3, <2>4, <2>5 DEF CommandsStand
<1>11. RefusalsStand'
  <2>1. \A t \in Submissions \ {s} : (SlugTaken(t) => SlugTaken(t)') /\ (QuotaReached(t) => QuotaReached(t)')
    BY <1>3 DEF SlugTaken, QuotaReached, NoCompany, quotaVars
  <2> QED
    BY <1>1, <1>3, <1>5, <2>1 DEF RefusalsStand, Stage, Refusals
<1>12. \A t, u \in Submissions \ {s} : Same(t, u)' <=> Same(t, u)
  BY <1>3 DEF Same
<1>13. MailsStand'
  <2>1. Mailed(s)' /\ Told(s)' /\ First(s)'
    BY <1>3, <1>5 DEF Mailed, Told, First, Stage
  <2>2. ASSUME NEW t \in Submissions \ {s}
        PROVE  Mailed(t)' /\ Told(t)' /\ First(t)'
    <3>1. Mailed(t) /\ Told(t) /\ First(t)
      BY <1>1 DEF MailsStand
    <3>2. Mailed(t)'
      BY <1>3, <3>1 DEF Mailed, Stage
    <3>3. Told(t)'
      <4> SUFFICES ASSUME sub'[t].told = "sent"
                   PROVE  \E u \in Submissions : (t = u \/ Same(t, u)') /\ mails'[u] > 0
        BY DEF Told
      <4>1. PICK u \in Submissions : (t = u \/ Same(t, u)) /\ mails[u] > 0
        BY <1>3, <3>1 DEF Told
      <4>2. u # s
        BY <1>5, <4>1
      <4> QED
        BY <1>12, <4>1, <4>2
    <3>4. First(t)'
      BY <1>3, <1>5, <1>12, <3>1 DEF First, Stage
    <3> QED
      BY <3>2, <3>3, <3>4
  <2>3. OncePerCommand'
    BY <1>1, <1>5, <1>12 DEF MailsStand, OncePerCommand
  <2>4. OneLive'
    BY <1>1, <1>3, <1>5 DEF MailsStand, OneLive, Live, EmailOf
  <2> QED
    BY <2>1, <2>2, <2>3, <2>4 DEF MailsStand
<1> QED
  BY <1>7, <1>10, <1>11, <1>13 DEF ProvisioningInv

\* The form is submitted with the tab's command or a new one; a link is sent by hand.
LEMMA Submits ==
  ASSUME ProvisioningInv,
         \/ \E s \in Submissions, d \in Drafts, hashed, signedIn \in BOOLEAN : provision(s, d, hashed, signedIn)
         \/ \E s \in Submissions, d \in Drafts : inviteByHand(s, d)
  PROVE  ProvisioningInv'
<1>1. ProvisioningTyped /\ CommandsStand
  BY DEF ProvisioningInv
<1>2. Direct \notin Submissions
  BY DEF Direct, Submissions
<1>3. ASSUME NEW s \in Submissions, NEW d \in Drafts, NEW hashed \in BOOLEAN, NEW signedIn \in BOOLEAN,
             provision(s, d, hashed, signedIn)
      PROVE  ProvisioningInv'
  <2>1. PICK cmd : cmd = IF hashed THEN nextCompanyProvisioningCommand(s, d) ELSE s
    OBVIOUS
  <2>2. cmd \in Submissions /\ (cmd = s \/ OneDraft(cmd, d))
    <3>1. CASE hashed /\ \E r \in retry : r.draft = d
      <4>1. PICK r \in retry : r.draft = d
        BY <3>1
      <4>2. (CHOOSE q \in retry : TRUE) = r
        BY <1>1, <4>1 DEF CommandsStand
      <4>3. cmd = r.cmd
        BY <2>1, <3>1, <4>2 DEF nextCompanyProvisioningCommand
      <4> QED
        BY <1>1, <4>1, <4>3 DEF CommandsStand, ProvisioningTyped
    <3>2. CASE ~(hashed /\ \E r \in retry : r.draft = d)
      BY <2>1, <3>2 DEF nextCompanyProvisioningCommand
    <3> QED
      BY <3>1, <3>2
  <2>3. /\ Stage(s, "unused")
        /\ retry' = IF hashed THEN {[cmd |-> cmd, draft |-> d]} ELSE {}
        /\ PostCompany(s, d, cmd, signedIn)
        /\ UNCHANGED <<replies, companies, quotaVars, inv, lock, mails>>
    BY <1>3, <2>1 DEF provision
  <2>4. PICK pc \in {"engine", "told"}, told \in {"nothing", "denied"} :
          sub' = [sub EXCEPT ![s] = [pc |-> pc, draft |-> d, cmd |-> cmd, told |-> told]]
    BY <2>3 DEF PostCompany
  <2>5. calls' \in {calls, calls \cup {s}}
    BY <2>3 DEF PostCompany
  <2>6. retry' \in {retry, {}, {[cmd |-> cmd, draft |-> d]}} /\ cmd # Direct
    BY <1>2, <2>2, <2>3
  <2>7. cmd \in Submissions \cup {Direct} /\ (cmd = Direct => retry' = retry)
        /\ (cmd = s \/ cmd = Direct \/ OneDraft(cmd, d)) /\ (s \in calls' => cmd # Direct)
        /\ pc \in {"engine", "told", "invite"}
    BY <2>2, <2>6
  <2> QED
    BY <2>3, <2>4, <2>5, <2>6, <2>7, NewSubmission, ZenonT(60)
<1>4. ASSUME NEW s \in Submissions, NEW d \in Drafts, inviteByHand(s, d)
      PROVE  ProvisioningInv'
  <2>1. s \notin calls
    BY <1>1, <1>4 DEF CommandsStand, inviteByHand, Stage
  <2>2. /\ Stage(s, "unused")
        /\ sub' = [sub EXCEPT ![s] = [pc |-> "invite", draft |-> d, cmd |-> Direct, told |-> "nothing"]]
        /\ UNCHANGED <<retry, calls, replies, companies, quotaVars, inv, lock, mails>>
    BY <1>4 DEF inviteByHand, tabVars, mailVars
  <2> QED
    BY <2>1, <2>2, NewSubmission
<1> QED
  BY <1>3, <1>4

\* The tab, and a front that waits, write no row of an invitation.
LEMMA Waits ==
  ASSUME ProvisioningInv,
         \/ abandonSubmission \/ loadCompanyProvisioningRetry
         \/ \E s \in Submissions : receiveProvisioned(s) \/ loseCall(s) \/ engineAnswered(s) \/ engineTimesOut(s)
  PROVE  ProvisioningInv'
<1>1. ProvisioningTyped /\ CommandsStand /\ RefusalsStand /\ MailsStand
  BY DEF ProvisioningInv
<1>2. ASSUME UNCHANGED <<sub, replies, companies, quotaVars, mailVars>>, retry' \subseteq retry, calls' \subseteq calls
      PROVE  ProvisioningInv'
  <2>1. UNCHANGED <<inv, lock, mails>>
    BY <1>2 DEF mailVars
  <2>2. ProvisioningTyped' /\ CommandsStand'
    BY <1>1, <1>2, <2>1 DEF ProvisioningTyped, CommandsStand, OneDraft, Stage, quotaVars
  <2>3. RefusalsStand'
    BY <1>1, <1>2 DEF RefusalsStand, SlugTaken, QuotaReached, NoCompany, quotaVars, Stage
  <2>4. MailsStand'
    BY <1>1, <1>2, <2>1 DEF MailsStand, Mailed, Told, First, OncePerCommand, OneLive, Live, EmailOf, Same, Stage
  <2> QED
    BY <2>2, <2>3, <2>4 DEF ProvisioningInv
<1>3. ASSUME NEW s \in Submissions, NEW pc \in {"gone", "told", "invite"}, NEW told \in Answers,
             Advances(s, pc, told), sub[s].pc \in {"engine", "told"},
             pc = "invite" => Stage(s, "engine"),
             told \in Refusals => (told = sub[s].told \/ told \in replies[s]),
             told = "sent" => sub[s].told = "sent",
             UNCHANGED <<calls, replies, companies, quotaVars, mailVars>>, retry' \subseteq retry
      PROVE  ProvisioningInv'
  <2>1. UNCHANGED <<inv, lock, mails>>
    BY <1>3 DEF mailVars
  <2>2. pc \in Stages \ {"unused", "insert"} /\ ~Stage(s, "unused")
    BY <1>3 DEF Stages, Stage
  <2>3. CommandsStand' /\ RefusalsStand'
    BY <1>3, <2>2, CommandsKept, RefusalsKept
  <2>4. /\ sub' \in [Submissions -> SubmissionRows] /\ sub'[s].pc = pc /\ sub'[s].told = told
        /\ \A t \in Submissions : sub'[t].cmd = sub[t].cmd
    BY <1>1, <1>3, <2>2, WritesOne
  <2>5. ProvisioningTyped'
    BY <1>1, <1>3, <2>1, <2>4 DEF ProvisioningTyped, quotaVars
  <2>6. Mailed(s) /\ Told(s)
    BY <1>1 DEF MailsStand
  <2>7. Mailed(s)'
    BY <1>3, <2>1, <2>4, <2>6 DEF Mailed, Stage
  <2>8. Told(s)'
    BY <1>3, <2>1, <2>4, <2>6 DEF Told, Same
  <2>9. MailsStand'
    BY <1>3, <2>1, <2>2, <2>7, <2>8, MailsKept
  <2> QED
    BY <2>3, <2>5, <2>9 DEF ProvisioningInv
<1>4. CASE abandonSubmission \/ loadCompanyProvisioningRetry \/ \E s \in Submissions : loseCall(s)
  BY <1>2, <1>4 DEF abandonSubmission, loadCompanyProvisioningRetry, loseCall, tabVars
<1>5. ASSUME NEW s \in Submissions, receiveProvisioned(s)
      PROVE  ProvisioningInv'
  <2>1. Advances(s, "gone", sub[s].told) /\ sub[s].told \in Answers
    BY <1>1, <1>5, GotoWrites DEF receiveProvisioned, ProvisioningTyped, SubmissionRows
  <2> QED
    BY <1>3, <1>5, <2>1 DEF receiveProvisioned, Stage
<1>6. ASSUME NEW s \in Submissions, engineTimesOut(s)
      PROVE  ProvisioningInv'
  <2>1. Advances(s, "told", "error") /\ "error" \in Answers \ Refusals
    BY <1>1, <1>6, GotoWrites DEF engineTimesOut, Answers, Refusals
  <2> QED
    BY <1>3, <1>6, <2>1 DEF engineTimesOut, Stage, tabVars
<1>7. ASSUME NEW s \in Submissions, engineAnswered(s)
      PROVE  ProvisioningInv'
  <2>1. PICK outcome \in replies[s] :
          \/ outcome # "company" /\ Tell(s, outcome)
          \/ \E told \in {"skipped", "not_required"} : Tell(s, told)
          \/ Goto(s, "invite")
    BY <1>7 DEF engineAnswered
  <2>2. /\ Stage(s, "engine") /\ UNCHANGED <<retry, calls, replies, companies, quotaVars, mailVars>>
        /\ sub[s].told \in Answers
    BY <1>1, <1>7 DEF engineAnswered, tabVars, ProvisioningTyped, SubmissionRows
  <2>3. CASE outcome # "company" /\ Tell(s, outcome)
    <3>1. outcome \in Refusals /\ outcome \in Answers /\ outcome # "sent"
      BY <1>1, <2>3 DEF ProvisioningTyped, Answers, Refusals
    <3>2. Advances(s, "told", outcome)
      BY <1>1, <2>3, GotoWrites
    <3> QED
      BY <1>3, <2>2, <3>1, <3>2 DEF Stage
  <2>4. ASSUME NEW told \in {"skipped", "not_required"}, Tell(s, told)
        PROVE  ProvisioningInv'
    <3>1. told \in Answers \ Refusals /\ told # "sent"
      BY DEF Answers, Refusals
    <3>2. Advances(s, "told", told)
      BY <1>1, <2>4, GotoWrites
    <3> QED
      BY <1>3, <2>2, <3>1, <3>2 DEF Stage
  <2>5. CASE Goto(s, "invite")
    <3>1. Advances(s, "invite", sub[s].told)
      BY <1>1, <2>5, GotoWrites
    <3> QED
      BY <1>3, <2>2, <3>1 DEF Stage
  <2> QED
    BY <2>1, <2>3, <2>4, <2>5
<1> QED
  BY <1>4, <1>5, <1>6, <1>7

\* The engine answers a call: with the receipt, or a refusal that stands, or a new company.
LEMMA EngineRuns ==
  ASSUME ProvisioningInv, NEW s \in Submissions, provisionTenant(s)
  PROVE  ProvisioningInv'
<1>1. ProvisioningTyped /\ CommandsStand /\ RefusalsStand /\ MailsStand
  BY DEF ProvisioningInv
<1>2. /\ UNCHANGED <<retry, sub, tenantQuota, outgrown, inv, lock, mails>>
      /\ s \in calls /\ calls' = calls \ {s}
  BY DEF provisionTenant, tabVars, mailVars, quotaVars
<1>3. /\ sub[s].cmd # Direct /\ sub[s].cmd \in Submissions /\ sub[s].draft \in Drafts
      /\ OneDraft(sub[s].cmd, sub[s].draft)
  BY <1>1, <1>2 DEF CommandsStand, ProvisioningTyped, SubmissionRows
<1>4. PICK outcome : outcome = provisionOutcome(s)
  OBVIOUS
<1>5. /\ replies' = [replies EXCEPT ![s] = {IF outcome \in {"created", "replayed"} THEN "company" ELSE outcome}]
      /\ companies' = IF outcome = "created"
                      THEN companies \cup {[cmd |-> sub[s].cmd, draft |-> sub[s].draft]} ELSE companies
  BY <1>4 DEF provisionTenant
<1>6. \A c \in companies : c.cmd = sub[s].cmd => c.draft = sub[s].draft
  BY <1>1, <1>3 DEF CommandsStand, OneDraft
<1>7. /\ outcome \in {"replayed", "quota", "slug", "created"}
      /\ outcome = "slug" => SlugTaken(s)
      /\ outcome = "quota" => QuotaReached(s)
      /\ outcome = "created" => /\ ~(Cardinality(companies) >= tenantQuota.maxTenants)
                                /\ \A c \in companies : c.draft.slug # sub[s].draft.slug
  <2>1. CASE \E c \in companies : c.cmd = sub[s].cmd
    <3>1. \E c \in {c \in companies : c.cmd = sub[s].cmd} : c.draft = sub[s].draft
      BY <1>6, <2>1
    <3>2. provisionOutcome(s) = "replayed"
      BY <3>1 DEF provisionOutcome
    <3> QED
      BY <1>4, <3>2
  <2>2. CASE \A c \in companies : c.cmd # sub[s].cmd
    <3>1. {c \in companies : c.cmd = sub[s].cmd} = {}
      BY <2>2
    <3>2. provisionOutcome(s) = IF Cardinality(companies) >= tenantQuota.maxTenants THEN "quota"
                                ELSE IF \E c \in companies : c.draft.slug = sub[s].draft.slug THEN "slug"
                                ELSE "created"
      BY <3>1 DEF provisionOutcome
    <3> QED
      BY <1>4, <2>2, <3>2 DEF SlugTaken, QuotaReached, NoCompany
  <2> QED
    BY <2>1, <2>2
<1>8. ProvisioningTyped'
  <2>1. IsFiniteSet(companies') /\ companies' \subseteq [cmd : Submissions, draft : Drafts]
    <3>1. PICK c : c = [cmd |-> sub[s].cmd, draft |-> sub[s].draft]
      OBVIOUS
    <3>2. IsFiniteSet(companies) /\ companies \subseteq [cmd : Submissions, draft : Drafts]
      BY <1>1 DEF ProvisioningTyped
    <3>3. c \in [cmd : Submissions, draft : Drafts]
      BY <1>3, <3>1
    <3>4. IsFiniteSet(companies \cup {c})
      BY <3>2, FS_AddElement
    <3>5. companies' \in {companies, companies \cup {c}}
      BY <1>5, <3>1
    <3> QED
      BY <3>2, <3>3, <3>4, <3>5
  <2> QED
    BY <1>1, <1>2, <1>5, <1>7, <2>1 DEF ProvisioningTyped, Refusals
<1>9. CommandsStand'
  <2>1. \A c \in companies' : OneDraft(c.cmd, c.draft)
    BY <1>1, <1>3, <1>5 DEF CommandsStand
  <2> QED
    BY <1>1, <1>2, <2>1 DEF CommandsStand, OneDraft, Stage
<1>10. ASSUME NEW t \in Submissions
       PROVE  (SlugTaken(t) => SlugTaken(t)') /\ (QuotaReached(t) => QuotaReached(t)')
  <2>1. CASE outcome # "created"
    <3>1. companies' = companies
      BY <1>5, <2>1
    <3> QED
      BY <1>2, <3>1 DEF SlugTaken, QuotaReached, NoCompany
  <2>2. CASE outcome = "created"
    <3>1. companies' = companies \cup {[cmd |-> sub[s].cmd, draft |-> sub[s].draft]}
      BY <1>5, <2>2
    <3>2. ASSUME SlugTaken(t)
          PROVE  SlugTaken(t)'
      <4>1. PICK c \in companies : c.draft.slug = sub[t].draft.slug
        BY <3>2 DEF SlugTaken
      <4>2. sub[t].draft # sub[s].draft
        BY <1>7, <2>2, <4>1
      <4>3. sub[t].cmd # sub[s].cmd
        BY <1>1, <1>3, <4>2 DEF CommandsStand, OneDraft
      <4>4. NoCompany(t)'
        BY <1>2, <3>1, <3>2, <4>3 DEF SlugTaken, NoCompany
      <4> QED
        BY <1>2, <3>1, <4>1, <4>4 DEF SlugTaken
    \* There was room: whoever was refused for the quota has seen it raised.
    <3>3. QuotaReached(t) => t \in outgrown
      BY <1>7, <2>2 DEF QuotaReached
    <3> QED
      BY <1>2, <3>2, <3>3 DEF QuotaReached
  <2> QED
    BY <2>1, <2>2
<1>11. RefusalsStand'
  <2>1. ASSUME NEW t \in Submissions
        PROVE  /\ Stage(t, "unused")' => replies'[t] = {}
               /\ replies'[t] # {} => t \notin calls'
               /\ sub'[t].told \in Refusals => sub'[t].told \in replies'[t]
               /\ "slug" \in replies'[t] => SlugTaken(t)'
               /\ "quota" \in replies'[t] => QuotaReached(t)'
    <3>1. CASE t # s
      <4>1. replies'[t] = replies[t]
        BY <1>1, <1>5, <3>1 DEF ProvisioningTyped
      <4> QED
        BY <1>1, <1>2, <1>10, <4>1 DEF RefusalsStand, Stage
    <3>2. CASE t = s
      <4>1. ~Stage(s, "unused")'
        BY <1>1, <1>2, <1>3 DEF CommandsStand, Stage
      <4>2. replies'[s] = {IF outcome \in {"created", "replayed"} THEN "company" ELSE outcome}
        BY <1>1, <1>5 DEF ProvisioningTyped
      <4>3. ("slug" \in replies'[s] => SlugTaken(s)) /\ ("quota" \in replies'[s] => QuotaReached(s))
        BY <1>7, <4>2
      \* The call had not run: nothing was answered or told before.
      <4>4. replies[s] = {} /\ sub'[s].told \notin Refusals
        BY <1>1, <1>2 DEF RefusalsStand
      <4> QED
        BY <1>2, <1>10, <3>2, <4>1, <4>3, <4>4
    <3> QED
      BY <3>1, <3>2
  <2> QED
    BY <2>1 DEF RefusalsStand
<1>12. MailsStand'
  BY <1>1, <1>2 DEF MailsStand, Mailed, Told, First, OncePerCommand, OneLive, Live, EmailOf, Same, Stage
<1> QED
  BY <1>8, <1>9, <1>11, <1>12 DEF ProvisioningInv

\* The profile is revised: a lower quota is reached all the more, a higher one was
\* raised for those it had refused.
LEMMA QuotaChanges ==
  ASSUME ProvisioningInv, NEW n \in Quotas, setTenantQuota(n)
  PROVE  ProvisioningInv'
<1>1. ProvisioningTyped /\ CommandsStand /\ RefusalsStand /\ MailsStand
  BY DEF ProvisioningInv
<1>2. /\ UNCHANGED <<retry, sub, calls, replies, companies, inv, lock, mails>>
      /\ tenantQuota'.maxTenants = n /\ n \in Nat
      /\ outgrown' = IF n > tenantQuota.maxTenants
                     THEN {s \in Submissions : s \in outgrown \/ "quota" \in replies[s]}
                     ELSE outgrown
  BY ProvisioningAssumption DEF setTenantQuota, tabVars, mailVars
<1>3. ProvisioningTyped' /\ CommandsStand'
  BY <1>1, <1>2 DEF ProvisioningTyped, CommandsStand, OneDraft, Stage
<1>4. MailsStand'
  BY <1>1, <1>2 DEF MailsStand, Mailed, Told, First, OncePerCommand, OneLive, Live, EmailOf, Same, Stage
<1>5. ASSUME NEW s \in Submissions, "quota" \in replies[s]
      PROVE  QuotaReached(s)'
  <2>1. QuotaReached(s) /\ Cardinality(companies) \in Nat /\ tenantQuota.maxTenants \in Nat
    BY <1>1, <1>5, FS_CardinalityType DEF RefusalsStand, ProvisioningTyped
  <2>2. CASE n > tenantQuota.maxTenants
    BY <1>2, <1>5, <2>2 DEF QuotaReached
  <2>3. CASE ~(n > tenantQuota.maxTenants)
    BY <1>2, <2>1, <2>3 DEF QuotaReached, NoCompany
  <2> QED
    BY <2>2, <2>3
<1>6. RefusalsStand'
  <2>1. \A s \in Submissions : SlugTaken(s) => SlugTaken(s)'
    BY <1>2 DEF SlugTaken, NoCompany
  <2> QED
    BY <1>1, <1>2, <1>5, <2>1 DEF RefusalsStand, Stage
<1> QED
  BY <1>3, <1>4, <1>6 DEF ProvisioningInv

\* A step of the front on submission s that opens no transaction.
LEMMA FrontWrites ==
  ASSUME ProvisioningInv, NEW s \in Submissions, NEW pc \in Stages \ {"unused"}, NEW told \in Answers,
         Advances(s, pc, told), Mailed(s)', Told(s)', pc # "insert", ~Stage(s, "unused"),
         told \in Refusals => told = sub[s].told,
         inv' \in [Submissions -> SUBSET InvitationRows], mails' \in [Submissions -> Nat],
         inv[s] = {} => inv'[s] = {}, mails[s] > 0 => mails'[s] > 0, Live(s)' => Live(s),
         \A t \in Submissions \ {s} : inv'[t] = inv[t] /\ mails'[t] = mails[t],
         lock' \in {lock, lock \ {s}}, UNCHANGED <<retry, calls, replies, companies, quotaVars>>
  PROVE  ProvisioningInv'
<1>1. ProvisioningTyped
  BY DEF ProvisioningInv
<1>2. CommandsStand' /\ RefusalsStand'
  BY CommandsKept, RefusalsKept
<1>3. sub' \in [Submissions -> SubmissionRows]
  BY <1>1, WritesOne
<1>4. ProvisioningTyped'
  BY <1>1, <1>3 DEF ProvisioningTyped, quotaVars
<1>5. lock' \subseteq lock /\ lock \ {s} \subseteq lock'
  OBVIOUS
<1>6. MailsStand'
  BY <1>5, MailsMove
<1> QED
  BY <1>2, <1>4, <1>6 DEF ProvisioningInv

\* The command's earlier invitation answers, or an account, or a transaction opens
\* under the command's lock.
LEMMA Invites ==
  ASSUME ProvisioningInv, NEW s \in Submissions, createInvitation(s)
  PROVE  ProvisioningInv'
<1>1. ProvisioningTyped /\ CommandsStand /\ RefusalsStand /\ MailsStand
  BY DEF ProvisioningInv
<1>2. /\ sub[s].pc = "invite" /\ UNCHANGED <<retry, calls, replies, companies, quotaVars, inv, mails>>
      /\ ~Stage(s, "unused") /\ sub[s].told \in Answers /\ sub[s].cmd \in Submissions \cup {Direct}
  BY <1>1 DEF createInvitation, Stage, tabVars, ProvisioningTyped, SubmissionRows
<1>3. Mailed(s) /\ Told(s) /\ s \notin lock /\ inv[s] = {} /\ mails[s] = 0
  BY <1>1, <1>2 DEF MailsStand, Mailed
<1>4. ASSUME NEW told \in Answers \ Refusals, Tell(s, told), lock' = lock,
             told = "sent" => \E t \in Submissions : Same(s, t) /\ mails[t] > 0
      PROVE  ProvisioningInv'
  <2>1. Advances(s, "told", told) /\ "told" \in Stages \ {"unused"}
    BY <1>1, <1>4, GotoWrites DEF Stages
  <2>2. /\ sub'[s].pc = "told" /\ sub'[s].told = told
        /\ \A t \in Submissions : sub'[t].cmd = sub[t].cmd
    BY <1>1, <2>1, WritesOne
  <2>3. Mailed(s)'
    BY <1>2, <1>3, <1>4, <2>2 DEF Mailed, Stage
  <2>4. Told(s)'
    BY <1>2, <1>4, <2>2 DEF Told, Same
  <2>5. MailsStand'
    BY <1>2, <1>4, <2>1, <2>3, <2>4, MailsKept
  <2>6. CommandsStand' /\ RefusalsStand'
    BY <1>2, <2>1, CommandsKept, RefusalsKept
  <2>7. ProvisioningTyped'
    BY <1>1, <1>2, <1>4, <2>1, WritesOne DEF ProvisioningTyped, quotaVars
  <2> QED
    BY <2>5, <2>6, <2>7 DEF ProvisioningInv
<1>5. CASE Prior(s) # {}
  <2>1. PICK t \in Prior(s) : \E row \in inv[t] : Tell(s, replayInvitation(row)) /\ lock' = lock
    BY <1>5 DEF createInvitation
  <2>2. PICK row \in inv[t] : Tell(s, replayInvitation(row)) /\ lock' = lock
    BY <2>1
  <2>3. t \in Submissions /\ Same(s, t) /\ row \in InvitationRows /\ Mailed(t)
    BY <1>1, <2>1, <2>2 DEF Prior, Same, ProvisioningTyped, MailsStand
  <2>4. /\ replayInvitation(row) \in Answers \ Refusals
        /\ replayInvitation(row) = "sent" => row.status = "provider_accepted"
    BY <2>3 DEF replayInvitation, InvitationRows, Answers, Refusals
  <2>5. replayInvitation(row) = "sent" => mails[t] > 0
    BY <2>2, <2>3, <2>4 DEF Mailed
  <2> QED
    BY <1>4, <2>2, <2>3, <2>4, <2>5
<1>6. CASE Prior(s) = {} /\ EmailOf(s) \in accounts
  <2>1. Tell(s, "existing_account") /\ lock' = lock /\ "existing_account" \in Answers \ Refusals
    BY <1>6 DEF createInvitation, Answers, Refusals
  <2> QED
    BY <1>4, <2>1
<1>7. CASE Prior(s) = {} /\ EmailOf(s) \notin accounts
  <2>1. Goto(s, "insert") /\ lock' = lock \cup {s}
    BY <1>7 DEF createInvitation
  <2>2. Advances(s, "insert", sub[s].told) /\ "insert" \in Stages \ {"unused"}
    BY <1>1, <2>1, GotoWrites DEF Stages
  <2>3. /\ sub' \in [Submissions -> SubmissionRows]
        /\ sub'[s].pc = "insert" /\ sub'[s].told = sub[s].told
        /\ \A t \in Submissions : sub'[t].cmd = sub[t].cmd /\ sub'[t].draft = sub[t].draft
        /\ \A t \in Submissions \ {s} : sub'[t] = sub[t]
    BY <1>1, <1>2, <2>2, WritesOne
  <2>4. CommandsStand' /\ RefusalsStand'
    BY <1>2, <2>2, CommandsKept, RefusalsKept
  <2>5. ProvisioningTyped'
    BY <1>1, <1>2, <2>1, <2>3 DEF ProvisioningTyped, quotaVars
  <2>6. \A t, u \in Submissions : Same(t, u)' <=> Same(t, u)
    BY <2>3 DEF Same
  <2>7. \A t \in Submissions : Same(s, t) => inv[t] = {} /\ t \notin lock
    BY <1>7 DEF Prior, Same, createInvitation
  <2>8. Mailed(s)' /\ Told(s)' /\ First(s)'
    <3>1. Mailed(s)'
      BY <1>2, <1>3, <2>1, <2>3 DEF Mailed, Stage
    <3>2. Told(s)'
      BY <1>2, <1>3, <2>3, <2>6 DEF Told
    <3>3. First(s)'
      BY <1>2, <2>6, <2>7 DEF First
    <3> QED
      BY <3>1, <3>2, <3>3
  <2>9. ASSUME NEW t \in Submissions \ {s}
        PROVE  Mailed(t)' /\ Told(t)' /\ First(t)'
    <3>1. Mailed(t) /\ Told(t) /\ First(t)
      BY <1>1 DEF MailsStand
    <3>2. Mailed(t)'
      BY <1>2, <2>1, <2>3, <3>1 DEF Mailed, Stage
    <3>3. Told(t)' /\ First(t)'
      BY <1>2, <2>3, <2>6, <3>1 DEF Told, First, Stage
    <3> QED
      BY <3>2, <3>3
  <2>10. OncePerCommand'
    <3>1. \A t \in Submissions : Same(t, s) => Same(s, t)
      BY DEF Same
    <3> QED
      BY <1>1, <1>2, <2>1, <2>6, <2>7, <3>1 DEF MailsStand, OncePerCommand
  <2>11. OneLive'
    BY <1>1, <1>2, <2>3 DEF MailsStand, OneLive, Live, EmailOf
  <2> QED
    BY <2>4, <2>5, <2>8, <2>9, <2>10, <2>11 DEF ProvisioningInv, MailsStand
<1> QED
  BY <1>5, <1>6, <1>7

\* The transaction commits: the row of s is the live one of its address.
LEMMA Inserts ==
  ASSUME ProvisioningInv, NEW s \in Submissions, deliverInvitation(s)
  PROVE  ProvisioningInv'
<1>1. ProvisioningTyped /\ CommandsStand /\ RefusalsStand /\ MailsStand
  BY DEF ProvisioningInv
<1>2. /\ sub[s].pc = "insert" /\ UNCHANGED <<retry, calls, replies, companies, quotaVars, mails>>
      /\ ~Stage(s, "unused") /\ sub[s].told \in Answers
  BY <1>1 DEF deliverInvitation, Stage, tabVars, ProvisioningTyped, SubmissionRows
<1>3. Mailed(s) /\ Told(s) /\ First(s) /\ s \in lock /\ inv[s] = {} /\ mails[s] = 0
  BY <1>1, <1>2 DEF MailsStand, Mailed
<1>4. CASE LiveOf(EmailOf(s)) \ found[s] # {}
  <2>1. Tell(s, "delivery_failed") /\ lock' = lock \ {s} /\ inv' = inv
    BY <1>4 DEF deliverInvitation
  <2>2. Advances(s, "told", "delivery_failed") /\ "told" \in Stages /\ "delivery_failed" \in Answers \ Refusals
    BY <1>1, <2>1, GotoWrites DEF Stages, Answers, Refusals
  <2>3. sub'[s].pc = "told" /\ sub'[s].told = "delivery_failed"
    BY <1>1, <2>2, WritesOne
  <2>4. Mailed(s)' /\ Told(s)'
    BY <1>2, <1>3, <2>1, <2>3 DEF Mailed, Told, Stage
  <2>5. /\ inv' \in [Submissions -> SUBSET InvitationRows] /\ mails' \in [Submissions -> Nat]
        /\ Live(s)' => Live(s)
    BY <1>1, <1>2, <2>1 DEF ProvisioningTyped, Live
  <2> QED
    BY <1>2, <2>1, <2>2, <2>4, <2>5, FrontWrites
<1>5. CASE LiveOf(EmailOf(s)) \ found[s] = {}
  <2>1. /\ Goto(s, "send") /\ lock' = lock
        /\ inv' = [t \in Submissions |->
                     CASE t = s -> {[status |-> "pending", revoked |-> FALSE, accepted |-> FALSE]}
                       [] t # s /\ t \in LiveOf(EmailOf(s)) ->
                            {[row EXCEPT !.revoked = TRUE] : row \in inv[t]}
                       [] OTHER -> inv[t]]
    BY <1>5 DEF deliverInvitation
  <2>2. Advances(s, "send", sub[s].told) /\ "send" \in Stages \ {"unused"}
    BY <1>1, <2>1, GotoWrites DEF Stages
  <2>3. /\ sub' \in [Submissions -> SubmissionRows]
        /\ sub'[s].pc = "send" /\ sub'[s].told = sub[s].told
        /\ \A t \in Submissions : sub'[t].cmd = sub[t].cmd /\ sub'[t].draft = sub[t].draft
        /\ \A t \in Submissions \ {s} : sub'[t] = sub[t]
    BY <1>1, <1>2, <2>2, WritesOne
  <2>4. CommandsStand' /\ RefusalsStand'
    BY <1>2, <2>2, CommandsKept, RefusalsKept
  <2>5. inv'[s] = {[status |-> "pending", revoked |-> FALSE, accepted |-> FALSE]}
    BY <2>1
  <2>6. ASSUME NEW t \in Submissions \ {s}
        PROVE  /\ inv'[t] \in SUBSET InvitationRows
               /\ inv'[t] = {} <=> inv[t] = {}
               /\ \A row \in inv'[t] : \E old \in inv[t] : row.status = old.status
               /\ Live(t)' => Live(t) /\ EmailOf(t) # EmailOf(s)
    <3>1. inv[t] \subseteq InvitationRows
      BY <1>1 DEF ProvisioningTyped
    <3>2. CASE t \in LiveOf(EmailOf(s))
      <4>1. inv'[t] = {[row EXCEPT !.revoked = TRUE] : row \in inv[t]}
        BY <2>1, <3>2
      <4>2. \A row \in inv[t] : /\ [row EXCEPT !.revoked = TRUE] \in InvitationRows
                                /\ [row EXCEPT !.revoked = TRUE].status = row.status
                                /\ [row EXCEPT !.revoked = TRUE].revoked
        BY <3>1 DEF InvitationRows
      <4> QED
        BY <4>1, <4>2 DEF Live
    <3>3. CASE t \notin LiveOf(EmailOf(s))
      <4>1. inv'[t] = inv[t]
        BY <2>1, <3>3
      <4> QED
        BY <3>1, <3>3, <4>1 DEF Live, LiveOf
    <3> QED
      BY <3>2, <3>3
  <2>7. inv' \in [Submissions -> SUBSET InvitationRows]
    <3>1. inv'[s] \in SUBSET InvitationRows
      BY <2>5 DEF InvitationRows
    <3>2. inv' = [t \in Submissions |-> inv'[t]]
      BY <2>1
    <3> QED
      BY <2>6, <3>1, <3>2
  <2>8. ProvisioningTyped'
    BY <1>1, <1>2, <2>1, <2>3, <2>7 DEF ProvisioningTyped, quotaVars
  <2>9. \A t, u \in Submissions : Same(t, u)' <=> Same(t, u)
    BY <2>3 DEF Same
  <2>10. \A t \in Submissions \ {s} : Same(s, t) => inv[t] = {} /\ t \notin lock
    BY <1>1, <1>2, <1>3 DEF First, Stage, MailsStand, OncePerCommand
  <2>11. \A t \in Submissions : Same(t, s) => Same(s, t)
    BY DEF Same
  <2>12. Mailed(s)' /\ Told(s)' /\ First(s)'
    <3>1. Mailed(s)'
      <4>1. inv'[s] # {} /\ \A row \in inv'[s] : row.status = "pending"
        BY <2>5
      <4>2. s \in lock' /\ mails'[s] = 0
        BY <1>2, <1>3, <2>1
      <4> QED
        BY <2>3, <4>1, <4>2 DEF Mailed, Stage
    <3>2. Told(s)'
      BY <1>2, <1>3, <2>3, <2>9 DEF Told
    <3>3. First(s)'
      BY <2>3 DEF First, Stage
    <3> QED
      BY <3>1, <3>2, <3>3
  <2>13. ASSUME NEW t \in Submissions \ {s}
         PROVE  Mailed(t)' /\ Told(t)' /\ First(t)'
    <3>1. Mailed(t) /\ Told(t) /\ First(t)
      BY <1>1 DEF MailsStand
    <3>2. Mailed(t)'
      <4>1. sub'[t].pc = sub[t].pc /\ (t \in lock' <=> t \in lock) /\ mails'[t] = mails[t]
        BY <1>2, <2>1, <2>3
      <4>2. inv'[t] = {} <=> inv[t] = {}
        BY <2>6
      <4>3. \A row \in inv'[t] : /\ row.status = "failed" => mails[t] = 0
                                 /\ row.status = "provider_accepted" => mails[t] > 0
        BY <2>6, <3>1 DEF Mailed
      <4>4. sub[t].pc \in {"send", "accepted", "failed"} => \A row \in inv'[t] : row.status = "pending"
        BY <2>6, <3>1 DEF Mailed
      <4> QED
        BY <3>1, <4>1, <4>2, <4>3, <4>4 DEF Mailed, Stage
    <3>3. Told(t)'
      BY <1>2, <2>3, <2>9, <3>1 DEF Told
    <3>4. First(t)'
      <4>1. Stage(t, "insert") => t \in lock
        BY <3>1 DEF Mailed, Stage
      <4> QED
        BY <2>3, <2>6, <2>9, <2>10, <2>11, <3>1, <4>1 DEF First, Stage
    <3> QED
      BY <3>2, <3>3, <3>4
  <2>14. OncePerCommand'
    <3> SUFFICES ASSUME NEW t \in Submissions, NEW u \in Submissions, Same(t, u)
                 PROVE  /\ t \in lock' /\ u \in lock' => t = u
                        /\ inv'[t] # {} /\ inv'[u] # {} => t = u
      BY <2>9 DEF OncePerCommand
    <3>1. t \in lock' /\ u \in lock' => t = u
      BY <1>1, <2>1 DEF MailsStand, OncePerCommand
    <3>2. inv'[t] # {} /\ inv'[u] # {} => t = u
      BY <1>1, <2>6, <2>10, <2>11 DEF MailsStand, OncePerCommand
    <3> QED
      BY <3>1, <3>2
  <2>15. OneLive'
    <3>1. \A t \in Submissions : EmailOf(t)' = EmailOf(t)
      BY <2>3 DEF EmailOf
    <3> QED
      BY <1>1, <2>6, <3>1 DEF MailsStand, OneLive
  <2> QED
    BY <2>4, <2>8, <2>12, <2>13, <2>14, <2>15 DEF ProvisioningInv, MailsStand
<1> QED
  BY <1>4, <1>5

\* The provider is asked, and the receipt written, by s alone.
LEMMA Sends ==
  ASSUME ProvisioningInv, NEW s \in Submissions, sendAuthEmail(s)
  PROVE  ProvisioningInv'
<1>1. ProvisioningTyped /\ MailsStand
  BY DEF ProvisioningInv
<1>2. /\ sub[s].pc = "send" /\ UNCHANGED <<retry, calls, replies, companies, quotaVars, inv>>
      /\ ~Stage(s, "unused") /\ sub[s].told \in Answers
  BY <1>1 DEF sendAuthEmail, Stage, tabVars, ProvisioningTyped, SubmissionRows
<1>3. Mailed(s) /\ Told(s) /\ s \in lock /\ mails[s] = 0 /\ mails[s] \in Nat
  BY <1>1, <1>2 DEF MailsStand, Mailed
<1>4. /\ inv' \in [Submissions -> SUBSET InvitationRows]
      /\ Live(s)' => Live(s)
  BY <1>1, <1>2 DEF ProvisioningTyped, Live
<1>5. ASSUME NEW pc \in {"accepted", "failed", "told"}, NEW told \in Answers, Advances(s, pc, told),
             told \in Refusals => told = sub[s].told, told = "sent" => sub[s].told = "sent",
             mails' \in {mails, [mails EXCEPT ![s] = mails[s] + 1]},
             pc = "accepted" => mails' # mails, pc = "failed" => mails' = mails,
             lock' = IF pc = "told" THEN lock \ {s} ELSE lock
      PROVE  ProvisioningInv'
  <2>1. pc \in Stages \ {"unused"} /\ pc # "insert"
    BY <1>5 DEF Stages
  <2>2. /\ sub'[s].pc = pc /\ sub'[s].told = told
        /\ \A t \in Submissions : sub'[t].cmd = sub[t].cmd
    BY <1>1, <1>5, <2>1, WritesOne
  <2>3. /\ mails' \in [Submissions -> Nat] /\ mails'[s] \in {0, 1}
        /\ \A t \in Submissions \ {s} : mails'[t] = mails[t]
        /\ pc = "accepted" => mails'[s] = 1
        /\ pc = "failed" => mails'[s] = 0
    BY <1>1, <1>3, <1>5 DEF ProvisioningTyped
  <2>4. inv[s] # {} /\ \A row \in inv[s] : row.status = "pending"
    BY <1>2, <1>3 DEF Mailed
  <2>5. Mailed(s)'
    BY <1>2, <1>3, <1>5, <2>2, <2>3, <2>4 DEF Mailed, Stage
  <2>6. Told(s)'
    <3>1. \A t \in Submissions : mails[t] > 0 => mails'[t] > 0
      BY <1>3, <2>3
    <3> QED
      BY <1>3, <1>5, <2>2, <3>1 DEF Told, Same
  <2> QED
    BY <1>2, <1>3, <1>4, <1>5, <2>1, <2>3, <2>5, <2>6, FrontWrites
<1>6. ASSUME NEW pc \in {"accepted", "failed"}, Goto(s, pc),
             mails' = IF pc = "accepted" THEN [mails EXCEPT ![s] = mails[s] + 1] ELSE mails, lock' = lock
      PROVE  ProvisioningInv'
  <2>1. Advances(s, pc, sub[s].told)
    BY <1>1, <1>6, GotoWrites
  <2>2. pc = "accepted" => mails' # mails
    BY <1>1, <1>3, <1>6 DEF ProvisioningTyped
  <2> QED
    BY <1>2, <1>5, <1>6, <2>1, <2>2
<1>7. ASSUME Tell(s, "delivery_unknown"), mails' \in {mails, [mails EXCEPT ![s] = mails[s] + 1]},
             lock' = lock \ {s}
      PROVE  ProvisioningInv'
  <2>1. Advances(s, "told", "delivery_unknown") /\ "delivery_unknown" \in Answers \ Refusals
    BY <1>1, <1>7, GotoWrites DEF Answers, Refusals
  <2> QED
    BY <1>5, <1>7, <2>1
<1> QED
  BY <1>6, <1>7 DEF sendAuthEmail

\* The row after the receipt, and after the owner accepts.
Received(row, status, failed) == [row EXCEPT !.status = status, !.revoked = row.revoked \/ failed]
Taken(row) == [row EXCEPT !.accepted = TRUE]

\* The receipt is written, or fails, or the front dies under the submission.
LEMMA Receipts ==
  ASSUME ProvisioningInv, NEW s \in Submissions,
         recordInvitationDelivery(s) \/ receiptFails(s) \/ crashFront(s)
  PROVE  ProvisioningInv'
<1>1. ProvisioningTyped /\ MailsStand
  BY DEF ProvisioningInv
<1>2. /\ ~Stage(s, "unused") /\ sub[s].told \in Answers
      /\ UNCHANGED <<retry, calls, replies, companies, quotaVars, mails>> /\ lock' = lock \ {s}
  BY <1>1 DEF recordInvitationDelivery, receiptFails, crashFront, Stage, tabVars, ProvisioningTyped, SubmissionRows
<1>3. Mailed(s) /\ Told(s) /\ mails' \in [Submissions -> Nat]
  BY <1>1, <1>2 DEF MailsStand, ProvisioningTyped
<1>4. ASSUME NEW pc \in {"told", "gone"}, NEW told \in Answers, Advances(s, pc, told),
             told \in Refusals => told = sub[s].told,
             told = "sent" => (sub[s].told = "sent" \/ mails[s] > 0), inv' = inv
      PROVE  ProvisioningInv'
  <2>1. pc \in Stages \ {"unused"} /\ pc # "insert"
    BY <1>4 DEF Stages
  <2>2. /\ sub'[s].pc = pc /\ sub'[s].told = told
        /\ \A t \in Submissions : sub'[t].cmd = sub[t].cmd
    BY <1>1, <1>4, <2>1, WritesOne
  <2>3. Mailed(s)'
    BY <1>2, <1>3, <1>4, <2>2 DEF Mailed, Stage
  <2>4. Told(s)'
    BY <1>2, <1>3, <1>4, <2>2 DEF Told, Same
  <2>5. /\ inv' \in [Submissions -> SUBSET InvitationRows]
        /\ Live(s)' => Live(s)
    BY <1>1, <1>4 DEF ProvisioningTyped, Live
  <2> QED
    BY <1>2, <1>3, <1>4, <2>1, <2>3, <2>4, <2>5, FrontWrites
<1>5. CASE crashFront(s)
  <2>1. Advances(s, "gone", sub[s].told) /\ inv' = inv
    BY <1>1, <1>5, GotoWrites DEF crashFront
  <2> QED
    BY <1>2, <1>4, <2>1
<1>6. CASE receiptFails(s)
  <2>1. PICK told : told = IF Stage(s, "accepted") THEN "delivery_unknown" ELSE "delivery_failed"
    OBVIOUS
  <2>2. Advances(s, "told", told) /\ inv' = inv
    BY <1>1, <1>6, <2>1, GotoWrites DEF receiptFails
  <2>3. told \in Answers \ Refusals /\ told # "sent"
    BY <2>1 DEF Answers, Refusals
  <2> QED
    BY <1>4, <2>2, <2>3
<1>7. CASE recordInvitationDelivery(s)
  <2>1. PICK told : told = IF Stage(s, "accepted") THEN "sent" ELSE "delivery_failed"
    OBVIOUS
  <2>2. Advances(s, "told", told) /\ told \in Answers \ Refusals /\ "told" \in Stages \ {"unused"}
    BY <1>1, <1>7, <2>1, GotoWrites DEF recordInvitationDelivery, Answers, Refusals, Stages
  <2>3. PICK status, failed : /\ status = IF Stage(s, "accepted") THEN "provider_accepted" ELSE "failed"
                              /\ failed = Stage(s, "failed")
    OBVIOUS
  <2>4. inv' = [inv EXCEPT ![s] = {Received(row, status, failed) : row \in inv[s]}]
    BY <1>7, <2>3 DEF recordInvitationDelivery, Received
  <2>5. sub[s].pc \in {"accepted", "failed"} /\ failed \in BOOLEAN /\ inv[s] \subseteq InvitationRows
    BY <1>1, <1>7, <2>3 DEF recordInvitationDelivery, Stage, ProvisioningTyped
  <2>6. \A row \in inv[s] :
          /\ Received(row, status, failed) \in InvitationRows
          /\ Received(row, status, failed).status = status
          /\ Received(row, status, failed).accepted <=> row.accepted
          /\ row.revoked => Received(row, status, failed).revoked
    BY <2>3, <2>5 DEF InvitationRows, Received
  <2>7. /\ inv'[s] = {Received(row, status, failed) : row \in inv[s]}
        /\ \A t \in Submissions \ {s} : inv'[t] = inv[t]
    BY <1>1, <2>4 DEF ProvisioningTyped
  <2>8. inv' \in [Submissions -> SUBSET InvitationRows]
    <3>1. inv'[s] \subseteq InvitationRows
      BY <2>6, <2>7
    <3>2. \A t \in Submissions : inv'[t] \in SUBSET InvitationRows
      BY <1>1, <2>7, <3>1 DEF ProvisioningTyped
    <3>3. inv' = [t \in Submissions |-> inv'[t]]
      BY <1>1, <2>4 DEF ProvisioningTyped
    <3> QED
      BY <3>2, <3>3
  <2>9. /\ \A row \in inv'[s] : row.status = status
        /\ inv'[s] = {} <=> inv[s] = {}
        /\ Live(s)' => Live(s)
    <3>1. \A x \in inv'[s] : \E row \in inv[s] : x = Received(row, status, failed)
      BY <2>7
    <3>4. \A x \in inv'[s] : x.status = status
      BY <2>6, <3>1
    <3>2. inv'[s] = {} <=> inv[s] = {}
      BY <2>7
    <3>3. Live(s)' => Live(s)
      <4> SUFFICES ASSUME NEW x \in inv'[s], ~x.revoked, ~x.accepted
                   PROVE  \E row \in inv[s] : ~row.revoked /\ ~row.accepted
        BY DEF Live
      <4>1. PICK row \in inv[s] : x = Received(row, status, failed)
        BY <3>1
      <4> QED
        BY <2>6, <4>1
    <3> QED
      BY <3>2, <3>3, <3>4
  <2>10. /\ sub'[s].pc = "told" /\ sub'[s].told = told
         /\ \A t \in Submissions : sub'[t].cmd = sub[t].cmd
    BY <1>1, <2>2, WritesOne
  <2>11. /\ mails'[s] <= 1 /\ (status = "failed" => mails'[s] = 0)
         /\ status = "provider_accepted" => mails'[s] > 0
         /\ told = "sent" => mails'[s] > 0
         /\ inv'[s] # {}
    BY <1>2, <1>3, <2>1, <2>3, <2>5, <2>9 DEF Mailed, Stage
  <2>12. Mailed(s)'
    BY <1>2, <2>9, <2>10, <2>11 DEF Mailed, Stage
  <2>13. Told(s)'
    BY <2>10, <2>11 DEF Told
  <2> QED
    BY <1>2, <1>3, <2>2, <2>7, <2>8, <2>9, <2>12, <2>13, FrontWrites
<1> QED
  BY <1>5, <1>6, <1>7

\* The invited owner accepts: the row lives no longer.
LEMMA Accepts ==
  ASSUME ProvisioningInv, NEW s \in Submissions, acceptInvitation(s)
  PROVE  ProvisioningInv'
<1>1. ProvisioningTyped /\ MailsStand
  BY DEF ProvisioningInv
<1>2. Mailed(s) /\ Told(s) /\ inv[s] # {} /\ sub[s] \in SubmissionRows
  BY <1>1 DEF MailsStand, acceptInvitation, Live, ProvisioningTyped
<1>3. sub[s].pc \in Stages \ {"unused", "insert"} /\ sub[s].told \in Answers /\ ~Stage(s, "unused")
  BY <1>2 DEF Mailed, SubmissionRows, Stage
<1>4. Advances(s, sub[s].pc, sub[s].told)
  BY <1>1, <1>2 DEF acceptInvitation, Advances, SubmissionRows, ProvisioningTyped
<1>5. /\ inv' = [inv EXCEPT ![s] = {Taken(row) : row \in inv[s]}]
      /\ UNCHANGED <<sub, retry, calls, replies, companies, quotaVars, lock, mails>>
  BY DEF acceptInvitation, tabVars, Taken
<1>6. \A row \in inv[s] : /\ Taken(row) \in InvitationRows
                          /\ Taken(row).status = row.status
                          /\ Taken(row).accepted = TRUE
  <2>1. inv[s] \subseteq InvitationRows
    BY <1>1 DEF ProvisioningTyped
  <2> QED
    BY <2>1 DEF InvitationRows, Taken
<1>7. /\ inv'[s] = {Taken(row) : row \in inv[s]}
      /\ \A t \in Submissions \ {s} : inv'[t] = inv[t]
      /\ inv' \in [Submissions -> SUBSET InvitationRows]
  BY <1>1, <1>5, <1>6 DEF ProvisioningTyped
<1>8. ~Live(s)' /\ inv'[s] # {}
  <2>1. \A x \in inv'[s] : x.accepted = TRUE
    BY <1>6, <1>7
  <2>2. inv'[s] # {}
    BY <1>2, <1>7
  <2> QED
    BY <2>1, <2>2 DEF Live
<1>9. \A row \in inv'[s] : \E old \in inv[s] : row.status = old.status
  BY <1>6, <1>7
<1>10. Mailed(s)'
  BY <1>2, <1>5, <1>8, <1>9 DEF Mailed, Stage
<1>11. Told(s)'
  BY <1>2, <1>5 DEF Told, Same
<1>12. mails' \in [Submissions -> Nat]
  BY <1>1, <1>5 DEF ProvisioningTyped
<1> QED
  BY <1>3, <1>4, <1>5, <1>7, <1>8, <1>10, <1>11, <1>12, FrontWrites

\* The steps of the console, the engine and the mailer, taken together.
LEMMA NextProvisioning ==
  ASSUME ProvisioningInv, [ProvisioningNext]_provisioningVars
  PROVE  ProvisioningInv'
<1>1. CASE UNCHANGED provisioningVars
  <2>1. UNCHANGED <<retry, sub, calls, replies, companies, quotaVars, inv, lock, mails>>
    BY <1>1 DEF provisioningVars
  <2>2. ProvisioningTyped' /\ CommandsStand'
    BY <2>1 DEF ProvisioningInv, ProvisioningTyped, CommandsStand, OneDraft, Stage, quotaVars
  <2>3. RefusalsStand' /\ MailsStand'
    BY <2>1 DEF ProvisioningInv, RefusalsStand, SlugTaken, QuotaReached, NoCompany, quotaVars, MailsStand, Mailed, Told, First, OncePerCommand, OneLive,
                Live, EmailOf, Same, Stage
  <2> QED
    BY <2>2, <2>3 DEF ProvisioningInv
<1> QED
  BY <1>1, Submits, Waits, EngineRuns, QuotaChanges, Invites, Inserts, Sends, Receipts, Accepts DEF ProvisioningNext

\* The invariant holds what the console tells.
LEMMA InvProvisioning == ProvisioningInv => ProvisioningHonest
<1> SUFFICES ASSUME ProvisioningInv
             PROVE  ProvisioningHonest
  OBVIOUS
<1>1. ProvisioningTyped /\ RefusalsStand /\ MailsStand
  BY DEF ProvisioningInv
<1>2. RefusalIsFinal
  <2> SUFFICES ASSUME NEW s \in Submissions,
                      \/ sub[s].told \in {"slug", "conflict"}
                      \/ sub[s].told = "quota" /\ s \notin outgrown
               PROVE  \A c \in companies : c.cmd # sub[s].cmd
    BY DEF RefusalIsFinal
  <2>1. sub[s].told \in Answers
    BY <1>1 DEF ProvisioningTyped, SubmissionRows
  <2>2. sub[s].told \in Refusals /\ sub[s].told \in replies[s]
    BY <1>1, <2>1 DEF Answers, Refusals, RefusalsStand
  <2> QED
    BY <1>1, <2>2 DEF RefusalsStand, SlugTaken, QuotaReached, NoCompany, Refusals
<1>3. \A s \in Submissions : Mailed(s) /\ Told(s) /\ mails[s] \in Nat
  BY <1>1 DEF MailsStand, ProvisioningTyped
<1>4. ASSUME NEW s \in Submissions, NEW t \in Submissions,
             sub[s].cmd # Direct, sub[s].cmd = sub[t].cmd, mails[s] > 0, mails[t] > 0
      PROVE  s = t /\ mails[s] = 1
  <2>1. inv[s] # {} /\ inv[t] # {} /\ mails[s] <= 1
    BY <1>3, <1>4 DEF Mailed
  <2>2. s = t
    BY <1>1, <1>4, <2>1 DEF MailsStand, OncePerCommand, Same
  <2> QED
    BY <1>3, <1>4, <2>1, <2>2
<1>5. \A s \in Submissions :
        sub[s].told = "sent" =>
           \E t \in Submissions :
              /\ t = s \/ (sub[s].cmd # Direct /\ sub[t].cmd = sub[s].cmd)
              /\ mails[t] > 0
  BY <1>3 DEF Told, Same
<1>6. \A s \in Submissions : \A row \in inv[s] : row.status = "failed" => mails[s] = 0
  BY <1>3 DEF Mailed
<1>7. ASSUME NEW email \in Emails
      PROVE  Cardinality(LiveOf(email)) <= 1
  <2>1. CASE LiveOf(email) = {}
    BY <2>1, FS_EmptySet
  <2>2. CASE LiveOf(email) # {}
    <3>1. PICK s : s \in LiveOf(email)
      BY <2>2
    <3>2. LiveOf(email) = {s}
      BY <1>1, <3>1 DEF LiveOf, MailsStand, OneLive
    <3> QED
      BY <3>2, FS_Singleton
  <2> QED
    BY <2>1, <2>2
<1>8. InvitationHonest
  BY <1>4, <1>5, <1>6, <1>7 DEF InvitationHonest
<1> QED
  BY <1>2, <1>8 DEF ProvisioningHonest

\* What the console tells the administrator of a company and of its owner's invitation is
\* true for every number of drafts, calls and disturbances: a refusal stands, a command mails
\* at most once, "sent" is a message the provider took, and an address has one live invitation.
THEOREM ProvisioningIsHonest == ProvisioningSpec => []ProvisioningHonest
<1>1. ProvisioningInit => ProvisioningInv
  BY InitProvisioning
<1>2. ProvisioningInv /\ [ProvisioningNext]_provisioningVars => ProvisioningInv'
  BY NextProvisioning
<1> QED
  BY <1>1, <1>2, InvProvisioning, PTL DEF ProvisioningSpec
=============================================================================

---------------------------- MODULE ProductConfig ----------------------------
(***************************************************************************)
(* The product configuration of one company and its installation: revised  *)
(* profiles, admission gates and an integration binding, each an immutable *)
(* revision behind a locked pointer, with a hash-chained event for every   *)
(* change; the readiness dossier exported from one repeatable-read         *)
(* snapshot, recorded in the company's chain and sealed; and the offline   *)
(* verification of the exported file.                                      *)
(*                                                                         *)
(* A revision stands for its content.  log is the chain of scope "tenant"; *)
(* the chains of the installation and of the binding hold one event per    *)
(* revision, so that their revisions stand for them.                       *)
(***************************************************************************)
EXTENDS Naturals, FiniteSets, Sequences

CONSTANTS
    Gates,      \* TENANT_ADMISSION_GATES
    Adapters,   \* the outbound adapters an installation may allow
    Admins,     \* administrators, each with one form loaded
    MaxSaves,   \* bound: committed configuration changes
    MaxExports  \* bound: recorded exports

ASSUME ConfigAssumption ==
    /\ Gates # {}
    /\ "disabled" \notin Adapters
    /\ {MaxSaves, MaxExports} \subseteq Nat

VARIABLES
    installation, \* [rev, allow]: the active installation profile
    profile,      \* [rev]: the active company profile
    admission,    \* [rev, approved]: the active admission
    binding,      \* [rev, adapter, status]: the active integration binding
    log,          \* the configuration events of the company
    moments,      \* every combination of active revisions there has been
    forms,        \* administrator -> [kind, rev] of the form loaded last
    opening,      \* integration updates under way: [admin, adapter, status, allowed]
    snapshots,    \* the export under way: {} or {its snapshot}
    file,         \* the exported file: {} or {record}
    saves         \* committed changes

settingsVars == <<installation, profile, admission, binding>>
configVars == <<installation, profile, admission, binding, log, moments, forms,
                opening, snapshots, file, saves>>

Kinds == {"installation", "profile", "admission", "binding"}
Now == <<installation.rev, profile.rev, admission.rev, binding.rev>>
derivedAdmissionStatus(approved) == approved = Gates

\* One event of the company's chain.  seen holds the revisions an export
\* reports, the other events carry their own revision in rev.
ConfigEvent(type, rev, seen) == [type |-> type, rev |-> rev, seen |-> seen]
NoRevisions == <<0, 0, 0, 0>>

\* An allow-list always holds the disabled adapter.
AllowLists == {S \cup {"disabled"} : S \in SUBSET Adapters}

\* An installation before its first start with product configuration: a company
\* of an earlier release has no profile, admission or binding, or has all but
\* the admission, which was added later.
ConfigInit ==
    /\ installation = [rev |-> 0, allow |-> {"disabled"}]
    /\ \E earlier \in {0, 1} :
         /\ profile = [rev |-> earlier]
         /\ binding = [rev |-> earlier, adapter |-> "disabled", status |-> "disabled"]
         /\ log = IF earlier = 0 THEN <<>> ELSE <<ConfigEvent("profile", 1, NoRevisions)>>
         /\ moments = {<<0, earlier, 0, earlier>>}
    /\ admission = [rev |-> 0, approved |-> {}]
    /\ forms = [a \in Admins |-> [kind |-> "profile", rev |-> 0]]
    /\ opening = {}
    /\ snapshots = {}
    /\ file = {}
    /\ saves = 0

-----------------------------------------------------------------------------
(* Changes.                                                                *)

initialized == installation.rev > 0 /\ admission.rev > 0

\* The engine starts: what is missing is created at revision 1, with its event,
\* in one transaction; a restart finds everything.
initialize ==
    /\ ~initialized
    /\ installation' = [rev |-> 1, allow |-> Adapters \cup {"disabled"}]
    /\ profile' = [rev |-> 1]
    /\ binding' = [binding EXCEPT !.rev = 1]
    /\ admission' = [rev |-> 1, approved |-> {}]
    /\ log' = (IF profile.rev = 0 THEN <<ConfigEvent("profile", 1, NoRevisions)>> ELSE log)
              \o <<ConfigEvent("admission", 1, NoRevisions)>>
    /\ moments' = moments \cup {Now'}
    /\ UNCHANGED <<forms, opening, snapshots, file, saves>>

RevOf(kind) ==
    CASE kind = "installation" -> installation.rev
      [] kind = "profile" -> profile.rev
      [] kind = "admission" -> admission.rev
      [] OTHER -> binding.rev

\* An administrator's page loads one configuration form.
loadForm(a, kind) ==
    /\ initialized
    /\ forms' = [forms EXCEPT ![a] = [kind |-> kind, rev |-> RevOf(kind)]]
    /\ UNCHANGED <<settingsVars, log, moments, opening, snapshots, file, saves>>

\* expectedRevision of the form is the active revision, under its pointer lock.
Expected(a, kind) == forms[a] = [kind |-> kind, rev |-> RevOf(kind)]

Save(event) ==
    /\ saves < MaxSaves
    /\ saves' = saves + 1
    /\ log' = log \o event
    /\ moments' = moments \cup {Now'}
    /\ UNCHANGED <<forms, snapshots, file>>

updateInstallationProfile(a, allow) ==
    /\ initialized
    /\ Expected(a, "installation")
    /\ installation' = [rev |-> installation.rev + 1, allow |-> allow]
    /\ UNCHANGED <<profile, admission, binding, opening>>
    /\ Save(<<>>)

updateTenantProfile(a) ==
    /\ initialized
    /\ Expected(a, "profile")
    /\ profile' = [rev |-> profile.rev + 1]
    /\ UNCHANGED <<installation, admission, binding, opening>>
    /\ Save(<<ConfigEvent("profile", profile.rev + 1, NoRevisions)>>)

\* An integration update that activates holds the admission share-locked.
AdmissionFree == \A o \in opening : o.status # "active"

\* A decision on one gate; one that changes nothing is refused.
updateTenantAdmission(a, gate, approve) ==
    LET approved == IF approve THEN admission.approved \cup {gate} ELSE admission.approved \ {gate}
    IN  /\ initialized
        /\ AdmissionFree
        /\ Expected(a, "admission")
        /\ approve \/ approved # admission.approved
        /\ admission' = [rev |-> admission.rev + 1, approved |-> approved]
        /\ UNCHANGED <<installation, profile, binding, opening>>
        /\ Save(<<ConfigEvent("admission", admission.rev + 1, NoRevisions)>>)

\* A production stop reopens its gate if that was approved; its one event
\* carries the resulting revision.
stopProduction(a, gate) ==
    LET changed == gate \in admission.approved
        rev == IF changed THEN admission.rev + 1 ELSE admission.rev
    IN  /\ initialized
        /\ AdmissionFree
        /\ Expected(a, "admission")
        /\ admission' = [rev |-> rev, approved |-> admission.approved \ {gate}]
        /\ UNCHANGED <<installation, profile, binding, opening>>
        /\ Save(<<ConfigEvent("stopped", rev, NoRevisions)>>)

\* An integration update starts: activating needs the admission, and the
\* installation profile, read without a lock, must allow the adapter.
openIntegrationUpdate(a, adapter, status) ==
    /\ initialized
    /\ forms[a].kind = "binding"
    /\ \A o \in opening : o.admin # a
    /\ status = "active" =>
         /\ derivedAdmissionStatus(admission.approved)
         /\ adapter \in installation.allow \ {"disabled"}
    /\ adapter = "disabled" => status = "disabled"
    /\ opening' = opening \cup {[admin |-> a, adapter |-> adapter, status |-> status]}
    /\ UNCHANGED <<settingsVars, log, moments, forms, snapshots, file, saves>>

\* It goes on under the lock of the binding's pointer and commits, or finds
\* another revision there.
updateIntegration(o) ==
    /\ opening' = opening \ {o}
    /\ \/ /\ Expected(o.admin, "binding")
          /\ binding' = [rev |-> binding.rev + 1, adapter |-> o.adapter, status |-> o.status]
          /\ UNCHANGED <<installation, profile, admission>>
          /\ Save(<<>>)
       \/ /\ ~Expected(o.admin, "binding") \/ saves = MaxSaves
          /\ UNCHANGED <<settingsVars, log, moments, forms, snapshots, file, saves>>

-----------------------------------------------------------------------------
(* The readiness export.                                                   *)

\* The first statement of the repeatable-read transaction fixes what all the
\* others read.
beginReadinessExport ==
    /\ initialized
    /\ snapshots = {}
    /\ snapshots' = {[seen |-> Now, adapter |-> binding.adapter, allow |-> installation.allow,
                      head |-> Len(log)]}
    /\ UNCHANGED <<settingsVars, log, moments, forms, opening, file, saves>>

ReadinessExports == {n \in 1..Len(log) : log[n].type = "exported"}

\* The dossier validates: every binding's adapter is on the allow-list.
validateIntegrations(snapshot) == snapshot.adapter \in snapshot.allow

\* Mutant: the export reads at the default isolation level.
Serializable_Committed(snapshot) == TRUE

\* Locking the head of the company's chain fails when an event was committed
\* after the snapshot.
Serializable(snapshot) == snapshot.head = Len(log)

\* What the file says: the dossier, its hash, the audit event, the attestation
\* that binds them, the seal over the attestation with its key, and the page
\* rendered from all of it.
Attestation(dossier, event) == [hash |-> dossier, event |-> event]
ExportedFile(dossier, event) ==
    [dossier |-> dossier, hash |-> dossier, event |-> event,
     attestation |-> Attestation(dossier, event),
     seal |-> [key |-> "vasi", over |-> Attestation(dossier, event)],
     page |-> <<dossier, event>>]

\* The transaction ends: the event is appended, the attestation of it sealed,
\* the result validated; a serialization failure, or a dossier that does not
\* validate, rolls all of it back.
exportTenantReadiness ==
    \E snapshot \in snapshots :
        /\ snapshots' = {}
        /\ IF Serializable(snapshot) /\ validateIntegrations(snapshot) /\ Cardinality(ReadinessExports) < MaxExports
           THEN /\ log' = Append(log, ConfigEvent("exported", 0, snapshot.seen))
                /\ file' = {ExportedFile(snapshot.seen, Len(log) + 1)}
           ELSE UNCHANGED <<log, file>>
        /\ UNCHANGED <<settingsVars, moments, forms, opening, saves>>

\* What may reach the reviewer instead of a file: dossier and event replaced by
\* others of the installation, with or without the hash, the attestation and the
\* page made to match, under the old seal or one of another key.
Altered(f) ==
    UNION {LET made == Attestation(d, n)
           IN  {[dossier |-> d, event |-> n, hash |-> h, attestation |-> t, seal |-> s, page |-> p] :
                   h \in {f.hash, d}, t \in {f.attestation, made},
                   s \in {f.seal, [key |-> "other", over |-> made]},
                   p \in {f.page, <<d, n>>}} :
           d \in moments, n \in {f.event, 1}}

-----------------------------------------------------------------------------
(* Offline verification.                                                   *)

validateReadinessSeals(f) == f.seal.over = f.attestation

validateReadinessExport(f) ==
    /\ f.hash = f.dossier
    /\ f.attestation.event = f.event
    /\ f.attestation.hash = f.hash
    /\ validateReadinessSeals(f)

\* The verifier with the key the reviewer expects: the export validates, the
\* page is exactly what it renders to, the seal is of that key.
verifyReadinessDossierBytes(f) ==
    /\ validateReadinessExport(f)
    /\ f.page = <<f.dossier, f.event>>
    /\ f.seal.key = "vasi"

ConfigNext ==
    \/ initialize
    \/ beginReadinessExport
    \/ exportTenantReadiness
    \/ \E a \in Admins, kind \in Kinds : loadForm(a, kind)
    \/ \E a \in Admins, allow \in AllowLists : updateInstallationProfile(a, allow)
    \/ \E a \in Admins : updateTenantProfile(a)
    \/ \E a \in Admins, gate \in Gates, approve \in BOOLEAN : updateTenantAdmission(a, gate, approve)
    \/ \E a \in Admins, gate \in Gates : stopProduction(a, gate)
    \/ \E a \in Admins, adapter \in Adapters \cup {"disabled"}, status \in {"active", "disabled"} :
         openIntegrationUpdate(a, adapter, status)
    \/ \E o \in opening : updateIntegration(o)

ConfigSpec == ConfigInit /\ [][ConfigNext]_configVars

-----------------------------------------------------------------------------
(* Properties.                                                             *)

\* The revision of a kind that the company's chain gives before event n.
LoggedRevision(types, n) ==
    LET at == {i \in 1..(n - 1) : log[i].type \in types}
    IN  IF at = {} THEN 0 ELSE log[CHOOSE i \in at : \A j \in at : j <= i].rev

\* A recorded readiness export reports the state its place in the company's
\* chain implies: the admission and the profile are those of the last decision,
\* stop and profile change before it, although it read them before it could
\* lock the chain; and the four revisions it reports were active together at
\* one moment, although bindings and installation profile have chains of their
\* own that it does not lock.
ReadinessTrue ==
    \A n \in ReadinessExports :
        /\ log[n].seen \in moments
        /\ log[n].seen[3] = LoggedRevision({"admission", "stopped"}, n)
        /\ log[n].seen[2] = LoggedRevision({"profile"}, n)

\* A file that verifies with the installation's key, whatever happened to it on
\* the way, reports a dossier the engine recorded, at the event it names.
DossierAuthentic ==
    \A f \in file : \A g \in Altered(f) :
        verifyReadinessDossierBytes(g) =>
            /\ g.event \in ReadinessExports
            /\ log[g.event].seen = g.dossier

\* A dossier that verifies tells a state the company was in.
DossierTrue == ReadinessTrue /\ DossierAuthentic
=============================================================================

---------------------------- MODULE Installation ----------------------------
(***************************************************************************)
(* The bootstrap file VASI.settings of an installation and the encrypted   *)
(* runtime settings in its database (scripts/settings-core.mjs,            *)
(* scripts/settings.mjs).  The file names a database and holds the key     *)
(* under which that database keeps its settings; a recovery rebind points  *)
(* it at a restored database.  A command loads the file when it starts;    *)
(* what it does to a database is one transaction.                          *)
(***************************************************************************)
EXTENDS Naturals, FiniteSets, Sequences, SequencesExt

CONSTANTS
    Endpoints,      \* databases
    Names,          \* settings of the scope
    Required,       \* definitions with required: true
    Operators,      \* terminals that run settings.mjs
    MaxWrites,      \* bound: settings written or removed
    MaxKeys,        \* bound: bootstrap files created
    MaxRestores,    \* bound: databases restored
    MaxSettingKills \* bound: commands killed

ASSUME InstallationAssumption == Required \subseteq Names

VARIABLES
    bootstrap,      \* the file: none, empty (no record yet), or its record
    rows,           \* vasi_runtime_setting of each database
    settingAudit,   \* vasi_runtime_setting_audit: by database and name
    session,        \* what each terminal is doing
    writes, bootstraps, restores, settingKills

countVars == <<writes, bootstraps, restores, settingKills>>
installationVars == <<bootstrap, rows, settingAudit, session, countVars>>

NoSession == [pc |-> "off"]
NoRow == [key |-> 0, version |-> 0]
File(state) == [state |-> state, endpoint |-> "none", key |-> 0]
Loaded == bootstrap.state = "bound"

InstallationInit ==
    /\ bootstrap = File("none")
    /\ rows = [e \in Endpoints |-> [n \in Names |-> NoRow]]
    /\ settingAudit = [e \in Endpoints |-> [n \in Names |-> <<>>]]
    /\ session = [o \in Operators |-> NoSession]
    /\ writes = 0 /\ bootstraps = 0 /\ restores = 0 /\ settingKills = 0

Sits(o, state) == session' = [session EXCEPT ![o] = state]

(***************************************************************************)
(* init                                                                    *)
(***************************************************************************)

\* existsSync, then the file and its table.
createBootstrapSettings(o, e) ==
    /\ session[o] = NoSession /\ bootstrap = File("none") /\ bootstraps < MaxKeys
    /\ bootstrap' = File("empty")
    /\ bootstraps' = bootstraps + 1
    /\ Sits(o, [pc |-> "creating", endpoint |-> e])
    /\ UNCHANGED <<rows, settingAudit, writes, restores, settingKills>>

\* The one row of the file, with a fresh installation id and key.
insertBootstrap(o) ==
    /\ session[o].pc = "creating"
    /\ bootstrap' = [state |-> "bound", endpoint |-> session[o].endpoint,
                      key |-> bootstraps]
    /\ Sits(o, [pc |-> "loaded", file |-> bootstrap', change |-> Required])
    /\ UNCHANGED <<rows, settingAudit, countVars>>

(***************************************************************************)
(* import-json, set and unset                                              *)
(***************************************************************************)

loadBootstrapSettings(o, S) ==
    /\ session[o] = NoSession /\ Loaded /\ writes < MaxWrites
    /\ Sits(o, [pc |-> "loaded", file |-> bootstrap, change |-> S])
    /\ UNCHANGED <<bootstrap, rows, settingAudit, countVars>>

\* One audit row for each setting the transaction changes.
Audited(e, S, action) ==
    settingAudit' = [settingAudit EXCEPT ![e] = [n \in Names |->
        IF n \in S THEN Append(@[n], action) ELSE @[n]]]

\* AES-GCM under the key of the file, bound to installation, scope and name.
encryptRuntimeSetting(file, row) ==
    [key |-> file.key, version |-> row.version + 1]

writeRuntimeSettings(o) ==
    LET file == session[o].file
        S == session[o].change IN
    /\ session[o].pc = "loaded"
    /\ writes < MaxWrites
    /\ rows' = [rows EXCEPT ![file.endpoint] = [n \in Names |->
                  IF n \in S THEN encryptRuntimeSetting(file, @[n]) ELSE @[n]]]
    /\ Audited(file.endpoint, S, "set")
    /\ writes' = writes + 1
    /\ Sits(o, NoSession)
    /\ UNCHANGED <<bootstrap, bootstraps, restores, settingKills>>

unsetRuntimeSetting(o, n) ==
    LET file == session[o].file IN
    /\ session[o].pc = "loaded" /\ session[o].change = {n}
    /\ n \notin Required
    /\ writes < MaxWrites
    /\ IF rows[file.endpoint][n] = NoRow
       THEN UNCHANGED <<rows, settingAudit>>
       ELSE /\ rows' = [rows EXCEPT ![file.endpoint][n] = NoRow]
            /\ Audited(file.endpoint, {n}, "unset")
    /\ writes' = writes + 1
    /\ Sits(o, NoSession)
    /\ UNCHANGED <<bootstrap, bootstraps, restores, settingKills>>

\* What a service reads at its start: every setting decrypts under the key of
\* the file, and the required ones are there.
readRuntimeSettings(e, key) ==
    \A n \in Required : rows[e][n].key = key

(***************************************************************************)
(* rebind-database                                                         *)
(***************************************************************************)

\* Mutant: any reachable database will do.
validateBootstrapBinding_Any(o, e) ==
    /\ session[o] = NoSession /\ Loaded /\ e # bootstrap.endpoint
    /\ Sits(o, [pc |-> "bound", endpoint |-> e])
    /\ UNCHANGED <<bootstrap, rows, settingAudit, countVars>>

validateBootstrapBinding(o, e) ==
    /\ session[o] = NoSession /\ Loaded /\ e # bootstrap.endpoint
    /\ readRuntimeSettings(e, bootstrap.key)
    /\ \E n \in Names : rows[e][n].key = bootstrap.key
    /\ Sits(o, [pc |-> "bound", endpoint |-> e])
    /\ UNCHANGED <<bootstrap, rows, settingAudit, countVars>>

\* The file is loaded again, copied, updated under its installation id and
\* renamed over the old one.
rebindBootstrapSettings(o) ==
    /\ session[o].pc = "bound" /\ Loaded
    /\ bootstrap' = [bootstrap EXCEPT !.endpoint = session[o].endpoint]
    /\ Sits(o, [pc |-> "rebound", endpoint |-> session[o].endpoint])
    /\ UNCHANGED <<rows, settingAudit, countVars>>

\* A row under the name of the endpoint, which no setting has.
recordBootstrapRebind(o) ==
    /\ session[o].pc = "rebound"
    /\ Sits(o, NoSession)
    /\ UNCHANGED <<bootstrap, rows, settingAudit, countVars>>

(***************************************************************************)
(* Outside: a restored database, a killed command, an unfinished file      *)
(***************************************************************************)

\* External: a backup of one database is restored into another.
RestoreInto(from, to) ==
    /\ restores < MaxRestores /\ from # to
    /\ Loaded => to # bootstrap.endpoint
    /\ \A o \in Operators : session[o].pc # "bound"
    /\ restores' = restores + 1
    /\ rows' = [rows EXCEPT ![to] = rows[from]]
    /\ settingAudit' = [settingAudit EXCEPT ![to] = settingAudit[from]]
    /\ UNCHANGED <<bootstrap, session, writes, bootstraps, settingKills>>

KillSession(o) ==
    /\ session[o] # NoSession /\ settingKills < MaxSettingKills
    /\ settingKills' = settingKills + 1
    /\ Sits(o, NoSession)
    /\ UNCHANGED <<bootstrap, rows, settingAudit, writes, bootstraps, restores>>

\* External: the operator removes a file that never got its record.
RemoveEmptyFile ==
    /\ bootstrap = File("empty") /\ \A o \in Operators : session[o] = NoSession
    /\ bootstrap' = File("none")
    /\ UNCHANGED <<rows, settingAudit, session, countVars>>

InstallationNext ==
    \/ \E o \in Operators, e \in Endpoints :
         createBootstrapSettings(o, e) \/ validateBootstrapBinding(o, e)
    \/ \E o \in Operators :
         \/ insertBootstrap(o) \/ writeRuntimeSettings(o)
         \/ rebindBootstrapSettings(o) \/ recordBootstrapRebind(o)
         \/ KillSession(o)
         \/ \E n \in Names : loadBootstrapSettings(o, {n}) \/ unsetRuntimeSetting(o, n)
         \/ loadBootstrapSettings(o, Required)
    \/ \E from, to \in Endpoints : RestoreInto(from, to)
    \/ RemoveEmptyFile

InstallationSpec == InstallationInit /\ [][InstallationNext]_installationVars

-----------------------------------------------------------------------------
\* The version of a setting is the number of times the audit trail says it was
\* set since it was last removed, in every database, whatever was restored,
\* rebound or killed: no change of a setting is unaudited.
SettingsAudited ==
    \A e \in Endpoints, n \in Names :
        LET trail == settingAudit[e][n]
            since == SelectLastInSeq(trail, LAMBDA a : a = "unset")
        IN rows[e][n].version = Len(trail) - since

\* A service that could read its settings once can read them after every later
\* command: no rebind, however it interleaves with other commands, points the
\* file at a database without the required settings under the file's key.
NeverUnreadable ==
    [][Loaded /\ readRuntimeSettings(bootstrap.endpoint, bootstrap.key)
       => Loaded' /\ readRuntimeSettings(bootstrap.endpoint, bootstrap.key)']_installationVars

\* Commands on the settings that race, are killed or follow a restore leave them
\* readable, and every change in the audit trail.
SettingsKept == []SettingsAudited /\ NeverUnreadable
=============================================================================

---------------------------- MODULE MCOperations ----------------------------
(***************************************************************************)
(* The commands of operators on one host and of administrators in the web  *)
(* console, the transactions on a tenant's production, and the fronts      *)
(* between browser and engine, each part explored by itself: the parts     *)
(* share no state, so one behaviour exercises one of them.                 *)
(***************************************************************************)
EXTENDS AlertSpool, ReleaseHost, BackupCustody, Installation, TenantTransfer,
        CompanyProvisioning, ProductConfig, AdminAudit, PilotEvidence, ServiceFront,
        TenantProduction, TLC

CONSTANTS r0, r1, r2, r3

VARIABLE part

MCMigrations == (r0 :> 1) @@ (r1 :> 2) @@ (r2 :> 2) @@ (r3 :> 2)
MCDrafts == {[slug |-> "a", email |-> "o", invite |-> TRUE],
             [slug |-> "b", email |-> "adm", invite |-> TRUE]}

BothFiles == {"p", "q"}
MCDescriptors ==
    {[gate |-> "a", artifacts |-> BothFiles, cited |-> BothFiles, scope |-> "s", reviewedAt |-> 1],
     [gate |-> "a", artifacts |-> BothFiles, cited |-> BothFiles, scope |-> "t", reviewedAt |-> 2],
     [gate |-> "b", artifacts |-> BothFiles, cited |-> BothFiles, scope |-> "s", reviewedAt |-> 1],
     [gate |-> "b", artifacts |-> BothFiles, cited |-> {"p"}, scope |-> "s", reviewedAt |-> 1]}

\* The tolerance of the clocks is 1.
MCOffsets == {-1, 1, 2}

hostVars == <<spoolVars, releaseVars, backupVars>>
dataVars == <<installationVars, transferVars>>
consoleVars == <<provisioningVars, configVars, adminVars, pilotVars>>
entryVars == <<rateVars, frontVars>>
MCVars == <<part, hostVars, dataVars, consoleVars, productionVars, entryVars>>

\* A part that is not explored has one initial state.
MCInit ==
    /\ part \in {"spool", "release", "backups", "custody", "installation", "transfer",
                 "provisioning", "configuration", "audit", "evidence", "production", "limits", "calls"}
    /\ part = "release" \/ (part # "release" /\ current = NoRelease /\ overlay = {})
    /\ part = "transfer" \/ (part # "transfer" /\ scopes = 0)
    /\ part = "provisioning" \/ (part # "provisioning" /\ tenantQuota = [revision |-> 1, maxTenants |-> 2])
    /\ part = "configuration" \/ (part # "configuration" /\ profile = [rev |-> 0])
    /\ part = "audit" \/ (part # "audit" /\ methods = {"credential"})
    /\ part = "production" \/ (part # "production" /\ limit = 1)
    /\ RateInit /\ FrontInit
    \* A database whose clock is ahead, or behind that of a front that is ahead.
    /\ databaseOffset = 2 \/ (databaseOffset = -1 /\ frontOffset = 1)
    /\ part = "calls" \/ (part # "calls" /\ databaseOffset = -1)
    /\ SpoolInit /\ ReleaseInit /\ BackupInit /\ InstallationInit /\ TransferInit
    /\ ProvisioningInit /\ ConfigInit /\ AuditInit /\ PilotInit
    /\ ProductionInit

HostNext ==
    \/ part = "spool" /\ SpoolNext /\ UNCHANGED <<releaseVars, backupVars>>
    \/ part = "release" /\ ReleaseNext /\ UNCHANGED <<spoolVars, backupVars>>
    \/ /\ part \in {"backups", "custody"} /\ BackupNext /\ UNCHANGED <<spoolVars, releaseVars>>
       \* Two backup cycles race without custody; custody runs beside one, with
       \* a kill or a file that rots.
       /\ part = "backups" => UNCHANGED <<custodyFiles, keyVars>>
       /\ part = "custody" =>
            /\ hour' <= 2 /\ rots' + backupKills' <= 1
            /\ \A c \in Cycles : c # "first" => cycle'[c] = NoCycle
            /\ backupKills' # backupKills => UNCHANGED cycle

DataNext ==
    \/ part = "installation" /\ InstallationNext /\ UNCHANGED transferVars
    \/ part = "transfer" /\ TransferNext /\ UNCHANGED installationVars

\* The submissions that are invitations without a command.
byHand == {s \in Submissions : sub[s].pc # "unused" /\ sub[s].cmd = Direct}

ConsoleNext ==
    \/ /\ part = "provisioning" /\ ProvisioningNext /\ UNCHANGED <<configVars, adminVars, pilotVars>>
       \* The quota is 2, and one invitation may have no command; or it is 1 and
       \* may be raised after a refusal.
       /\ byHand' # {} => tenantQuota.maxTenants > tenantQuota.revision /\ Cardinality(byHand') = 1
       /\ tenantQuota'.revision = 2 => outgrown' # {}
    \/ /\ part = "configuration" /\ ConfigNext /\ UNCHANGED <<provisioningVars, adminVars, pilotVars>>
       \* After the last change no form is loaded.
       /\ saves = MaxSaves => forms' = forms /\ opening' \subseteq opening
    \/ part = "audit" /\ AuditNext /\ UNCHANGED <<provisioningVars, configVars, pilotVars>>
    \/ part = "evidence" /\ PilotNext /\ UNCHANGED <<provisioningVars, configVars, adminVars>>

EntryNext ==
    \/ part = "limits" /\ RateNext /\ UNCHANGED frontVars
    \/ /\ part = "calls" /\ FrontNext /\ UNCHANGED rateVars
       \* Time starts with the first call.
       /\ frontClock' > 0 => \E c \in FrontCalls : frontCall'[c].pc # "idle"

Unbegun(t) == txn[t] = NoTransaction

MCNext ==
    /\ UNCHANGED part
    /\ \/ HostNext /\ UNCHANGED <<dataVars, consoleVars, productionVars, entryVars>>
       \/ DataNext /\ UNCHANGED <<hostVars, consoleVars, productionVars, entryVars>>
       \/ ConsoleNext /\ UNCHANGED <<hostVars, dataVars, productionVars, entryVars>>
       \/ /\ part = "production" /\ ProductionNext
          \* Connections are interchangeable: they are used in one order.
          /\ \A t, u \in Txns : (t < u /\ Unbegun(t) /\ Unbegun(u)) => Unbegun(u)'
          /\ UNCHANGED <<hostVars, dataVars, consoleVars, entryVars>>
       \/ EntryNext /\ UNCHANGED <<hostVars, dataVars, consoleVars, productionVars>>

MCSpec == MCInit /\ [][MCNext]_MCVars
=============================================================================

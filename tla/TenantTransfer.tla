--------------------------- MODULE TenantTransfer ---------------------------
(***************************************************************************)
(* Moving a tenant to another installation (scripts/tenant-transfer.mjs).  *)
(* Export pages every table of the tenant out of one repeatable-read       *)
(* snapshot into encrypted files and renames the directory; import inserts *)
(* the tables in one transaction.  Meanwhile the source installation goes  *)
(* on issuing requests and delivering notifications.                       *)
(*                                                                         *)
(* Of a tenant's tables two are told apart: the outbox jobs, and the       *)
(* integration bindings, whose credentials are encrypted under a secret of *)
(* the installation.  Every other table is like the first.                 *)
(***************************************************************************)
EXTENDS Naturals, FiniteSets, Sequences

CONSTANTS
    Importers,      \* import commands, on the destination
    MaxJobs,        \* bound: jobs ever scheduled for the tenant
    MaxTransferKills

VARIABLES
    source,         \* the tenant's rows at the source
    scopes,         \* participant_data_request_scope rows of the tenant
    exporting,      \* what the export command is doing
    archived,       \* the archive directory, {} while there is none
    destination,    \* the tenant's rows at the destination
    importing,      \* what each import command is doing
    transferKills

transferVars == <<source, scopes, exporting, archived, destination, importing,
                  transferKills>>

Tables == <<"tenant", "outbox_job", "integration_binding_revision">>
Unsettled == {"pending", "participant_pending", "running"}
Jobs == 1..MaxJobs
NoTenant == [tenant |-> "absent"]
NotRunning == [pc |-> "off"]

TransferInit ==
    /\ source = [tenant |-> "present", jobs |-> [j \in {} |-> ""],
                 credentials |-> "source_secret"]
    /\ scopes \in {0, 1}
    /\ exporting = NotRunning /\ archived = {}
    /\ destination = NoTenant
    /\ importing = [i \in Importers |-> NotRunning]
    /\ transferKills = 0

TransferKeeps == UNCHANGED <<exporting, archived, destination, importing,
                             transferKills>>

(***************************************************************************)
(* External: the source engine and worker, as the other modules model them *)
(***************************************************************************)

ScheduleJob ==
    /\ \E j \in Jobs \ DOMAIN source.jobs, s \in {"pending", "participant_pending"} :
         source' = [source EXCEPT !.jobs =
           [k \in DOMAIN source.jobs \union {j} |->
              IF k = j THEN s ELSE source.jobs[k]]]
    /\ TransferKeeps /\ UNCHANGED scopes

AdvanceJob ==
    /\ \E j \in DOMAIN source.jobs, s \in {"running", "pending", "succeeded"} :
         /\ source.jobs[j] \in Unsettled
         /\ source' = [source EXCEPT !.jobs[j] = s]
    /\ TransferKeeps /\ UNCHANGED scopes

EndDataRequest ==
    /\ scopes > 0 /\ scopes' = scopes - 1
    /\ TransferKeeps /\ UNCHANGED source

(***************************************************************************)
(* export TENANT_ID ARCHIVE_DIRECTORY                                      *)
(***************************************************************************)

assertTransferReady(jobs) ==
    scopes = 0 /\ \A j \in DOMAIN jobs : jobs[j] \notin Unsettled

\* begin isolation level repeatable read read only, the tenant, and
\* assertTransferReady in the snapshot; nothing is done for a tenant that is
\* not ready.
beginExport ==
    /\ exporting = NotRunning /\ archived = {}
    /\ assertTransferReady(source.jobs)
    /\ exporting' = [pc |-> "exporting", snapshot |-> source, done |-> 0]
    /\ UNCHANGED <<source, scopes, archived, destination, importing, transferKills>>

\* exportTransform: credentials leave the installation decrypted, inside the
\* encrypted archive.
exportTransform(tenant) == [tenant EXCEPT !.credentials = "plain"]

\* One table, page by page, out of the snapshot.
exportTable ==
    /\ exporting.pc = "exporting" /\ exporting.done < Len(Tables)
    /\ exporting' = [exporting EXCEPT !.done = @ + 1]
    /\ UNCHANGED <<source, scopes, archived, destination, importing, transferKills>>

\* Mutant: without the isolation level the tables are read as they are when
\* their turn comes.
publishArchive_ReadCommitted ==
    /\ exporting.pc = "exporting" /\ exporting.done = Len(Tables)
    /\ archived' = {exportTransform(source)}
    /\ exporting' = NotRunning
    /\ UNCHANGED <<source, scopes, destination, importing, transferKills>>

\* The authenticated manifest, commit and rename.
publishArchive ==
    /\ exporting.pc = "exporting" /\ exporting.done = Len(Tables)
    /\ archived' = {exportTransform(exporting.snapshot)}
    /\ exporting' = NotRunning
    /\ UNCHANGED <<source, scopes, destination, importing, transferKills>>

(***************************************************************************)
(* import ARCHIVE_DIRECTORY DESTINATION_OWNER_EMAIL                        *)
(***************************************************************************)

\* The manifest, migrations, adapters, and no tenant of this id or slug: all
\* read before the transaction begins.
beginImport(i) ==
    /\ importing[i] = NotRunning /\ archived # {}
    /\ destination = NoTenant
    /\ \E archive \in archived :
         importing' = [importing EXCEPT ![i] =
           [pc |-> "inserting", archive |-> archive, done |-> 0]]
    /\ UNCHANGED <<source, scopes, exporting, archived, destination, transferKills>>

importTransform(tenant) == [tenant EXCEPT !.credentials = "destination_secret"]

\* The rows of one table, seen by this transaction only.
insertRows(i) ==
    /\ importing[i].pc = "inserting" /\ importing[i].done < Len(Tables)
    /\ importing' = [importing EXCEPT ![i].done = @ + 1]
    /\ UNCHANGED <<source, scopes, exporting, archived, destination, transferKills>>

\* The owner grant and commit; the primary key of the tenant fails the second
\* of two imports, which rolls back.
commitImport(i) ==
    /\ importing[i].pc = "inserting" /\ importing[i].done = Len(Tables)
    /\ destination' = IF destination = NoTenant
                      THEN importTransform(importing[i].archive) ELSE destination
    /\ importing' = [importing EXCEPT ![i] = NotRunning]
    /\ UNCHANGED <<source, scopes, exporting, archived, transferKills>>

\* A killed export leaves its .partial directory, a killed import nothing.
KillTransfer ==
    /\ transferKills < MaxTransferKills
    /\ transferKills' = transferKills + 1
    /\ \/ exporting # NotRunning /\ exporting' = NotRunning /\ UNCHANGED importing
       \/ \E i \in Importers :
            /\ importing[i] # NotRunning
            /\ importing' = [importing EXCEPT ![i] = NotRunning]
            /\ UNCHANGED exporting
    /\ UNCHANGED <<source, scopes, archived, destination>>

TransferNext ==
    \/ ScheduleJob \/ AdvanceJob \/ EndDataRequest
    \/ beginExport \/ exportTable \/ publishArchive
    \/ \E i \in Importers : beginImport(i) \/ insertRows(i) \/ commitImport(i)
    \/ KillTransfer

TransferSpec == TransferInit /\ [][TransferNext]_transferVars

-----------------------------------------------------------------------------
\* A job reaches the destination settled: a notification that the source's
\* worker may still deliver is never also handed to the destination's,
\* whatever is scheduled while the tables are paged out.
JobsMoveSettled ==
    destination # NoTenant =>
        \A j \in DOMAIN destination.jobs : destination.jobs[j] \notin Unsettled

\* The destination has the whole tenant or nothing of it, with credentials its
\* own secret opens, also when imports race or are killed half-way.
ImportIsWhole ==
    destination # NoTenant =>
        destination.tenant = "present" /\ destination.credentials = "destination_secret"

\* A tenant that was moved is complete and has nothing under way at its source.
TransferSound == JobsMoveSettled /\ ImportIsWhole
=============================================================================

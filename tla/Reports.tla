------------------------------- MODULE Reports -------------------------------
(***************************************************************************)
(* Disclosure of one sealed record: reports and bundles that are generated *)
(* once and then read in chunks (report-store.mjs), the streams of the web *)
(* front (artifact-stream.ts), public verification by fingerprint, and the *)
(* bundle a reader carries away and verifies offline (evidence-bundle,     *)
(* evidence-verifier).  The retention purge removes the record meanwhile.  *)
(*                                                                         *)
(* Transactions run at read committed: a reader's record holds what its    *)
(* transaction has found and written; others see what is committed.        *)
(***************************************************************************)
EXTENDS Naturals, Sequences, SequencesExt, FiniteSets

CONSTANTS
    Readers,        \* requests of owners and of the participant
    Participants,   \* those of the participant
    Exports,        \* kind, profile and format: what an export is unique by
    ParticipantExports, \* the report profile of participants
    Chunks,         \* chunks of an export
    MaxOpens        \* bound: exports opened

ASSUME ReportsAssumption ==
    /\ Participants \subseteq Readers /\ ParticipantExports \subseteq Exports
    /\ Chunks \in Nat \ {0}

VARIABLES
    record,         \* "sealed" or "purged": the rows of the record
    tombstone,      \* retention_purge_tombstone for its fingerprint
    exports,        \* evidence_export_artifact, with what each was made from
    exportChunks,   \* evidence_export_chunk: of each export, intact or rotten
    accesses,       \* evidence_access_event
    history,        \* the participant still may see the record
    reader,         \* the request each reader has under way
    purge,          \* the purge of the worker
    opens,
    lookup          \* verifyFingerprint: what it has read

disclosureVars == <<record, tombstone, exports, exportChunks, accesses, history, reader, purge,
                    opens, lookup>>

NoPurge == [pc |-> "none", exports |-> {}, accesses |-> {}]
NoExport == [pc |-> "idle", export |-> {}, writes |-> {}, got |-> <<>>]

ReportsInit ==
    /\ record = "sealed" /\ tombstone = FALSE /\ exports = {} /\ exportChunks = {}
    /\ accesses = {} /\ history = TRUE
    /\ reader = [r \in Readers |-> NoExport]
    /\ purge = NoPurge /\ opens = 0 /\ lookup = "none"

(***************************************************************************)
(* Opening an export                                                       *)
(***************************************************************************)

LockFree(r, x) == \A q \in Readers \ {r} : reader[q].pc = "locked" => reader[q].export # {x}
\* Rows of the record that a transaction refers to stay locked until it ends.
Referring == \E r \in Readers : reader[r].writes # {}
\* A purge has deleted the row of x, or the assignment, and is not over.
PurgeHolds(x) == purge.pc = "deleted" \/ (purge.pc = "swept" /\ x \in purge.exports)

\* A participant reads the reports of a completed record of their own while it is in
\* their history; the model has one record and its participants.
participantAssignment(r, x) == r \in Participants => x \in ParticipantExports /\ history

\* The record is loaded and verified, and the export looked up without a lock.
openExport(r, x) ==
    /\ reader[r].pc = "idle" /\ opens < MaxOpens
    /\ record = "sealed"
    /\ participantAssignment(r, x)
    /\ opens' = opens + 1
    /\ reader' = [reader EXCEPT ![r] =
          [NoExport EXCEPT !.pc = IF x \in exports THEN "found" ELSE "missing", !.export = {x}]]
    /\ UNCHANGED <<record, tombstone, exports, exportChunks, accesses, history, purge, lookup>>

\* Mutant: the export is generated without a second look.
findExport_Once(r) ==
    /\ reader[r].pc = "missing"
    /\ \E x \in reader[r].export : LockFree(r, x)
    /\ reader' = [reader EXCEPT ![r].pc = "locked"]
    /\ UNCHANGED <<record, tombstone, exports, exportChunks, accesses, history, purge, opens, lookup>>

\* pg_advisory_xact_lock, and another look under it.
findExport(r) ==
    /\ reader[r].pc = "missing"
    /\ \E x \in reader[r].export :
          /\ LockFree(r, x)
          /\ reader' = [reader EXCEPT ![r].pc = IF x \in exports THEN "found" ELSE "locked"]
    /\ UNCHANGED <<record, tombstone, exports, exportChunks, accesses, history, purge, opens, lookup>>

\* The export is generated from the record that was loaded and inserted with its
\* chunks.  The keys wait for a purge that holds the rows; then the foreign key
\* wants the assignment, and the unique key refuses a second export.
persistExport(r) ==
    /\ reader[r].pc = "locked" /\ reader[r].writes = {}
    /\ \E x \in reader[r].export :
          /\ ~PurgeHolds(x)
          /\ reader' = IF record # "sealed" THEN [reader EXCEPT ![r] = NoExport]
                       ELSE IF x \in exports THEN [reader EXCEPT ![r].pc = "conflict"]
                       ELSE [reader EXCEPT ![r].writes = {x}]
    /\ UNCHANGED <<record, tombstone, exports, exportChunks, accesses, history, purge, opens, lookup>>

\* The access is recorded against the export and the record, and all is committed.
recordAccess(r) ==
    /\ reader[r].pc = "found" \/ (reader[r].pc = "locked" /\ reader[r].writes # {})
    /\ \E x \in reader[r].export :
          LET kept == x \in exports \cup reader[r].writes IN
          /\ ~PurgeHolds(x)
          /\ exports' = exports \cup reader[r].writes
          /\ exportChunks' = exportChunks \cup (reader[r].writes \X (1..Chunks) \X {"intact"})
          /\ accesses' = IF kept THEN accesses \cup {<<r, x>>} ELSE accesses
          /\ reader' = [reader EXCEPT ![r] =
                IF kept THEN [NoExport EXCEPT !.pc = "streaming", !.export = {x}] ELSE NoExport]
    /\ UNCHANGED <<record, tombstone, history, purge, opens, lookup>>

(***************************************************************************)
(* Reading it                                                              *)
(***************************************************************************)

\* Its length and digest, compared by the engine and again by the front.
ChunkIntact(c) == c[3] = "intact"

\* The next chunk, each under its own authorization; anything wrong errors the stream.
readChunk(r) ==
    /\ reader[r].pc = "streaming" /\ Len(reader[r].got) < Chunks
    /\ \E x \in reader[r].export :
          LET n == Len(reader[r].got) + 1
              rows == {c \in exportChunks : c[1] = x /\ c[2] = n}
          IN  reader' = IF participantAssignment(r, x) /\ \E c \in rows : ChunkIntact(c)
                        THEN [reader EXCEPT ![r].got = Append(@, CHOOSE c \in rows : TRUE)]
                        ELSE [reader EXCEPT ![r] = NoExport]
    /\ UNCHANGED <<record, tombstone, exports, exportChunks, accesses, history, purge, opens, lookup>>

closeStream(r) ==
    /\ reader[r].pc = "streaming" /\ Len(reader[r].got) = Chunks
    /\ reader' = [reader EXCEPT ![r].pc = "delivered"]
    /\ UNCHANGED <<record, tombstone, exports, exportChunks, accesses, history, purge, opens, lookup>>

\* A chunk decays in storage.
rot ==
    /\ \E c \in exportChunks : c[3] = "intact" /\ exportChunks' = (exportChunks \ {c}) \cup {<<c[1], c[2], "rotten">>}
    /\ \A c \in exportChunks : c[3] = "intact"
    /\ UNCHANGED <<record, tombstone, exports, accesses, history, reader, purge, opens, lookup>>

\* The participant's view of the record expires.
expireHistory ==
    /\ history /\ history' = FALSE
    /\ UNCHANGED <<record, tombstone, exports, exportChunks, accesses, reader, purge, opens, lookup>>

(***************************************************************************)
(* The purge (purge_record_for_retention), with the tombstone inserted by  *)
(* the worker in the same transaction                                      *)
(***************************************************************************)

\* The deletes of the disclosure tables and of the manifest: the rows that are
\* committed by now.
purgeRows ==
    /\ record = "sealed" /\ purge.pc = "none"
    /\ purge' = [pc |-> "swept", exports |-> exports, accesses |-> accesses]
    /\ UNCHANGED <<record, tombstone, exports, exportChunks, accesses, history, reader, opens, lookup>>

\* The assignment goes last: the delete waits for transactions that refer to it, and
\* fails if rows that do were committed since the sweep.
deleteAssignment ==
    /\ purge.pc = "swept" /\ ~Referring
    /\ purge' = IF purge.exports = exports /\ purge.accesses = accesses
                THEN [purge EXCEPT !.pc = "deleted"] ELSE NoPurge
    /\ UNCHANGED <<record, tombstone, exports, exportChunks, accesses, history, reader, opens, lookup>>

commitPurge ==
    /\ purge.pc = "deleted"
    /\ purge' = NoPurge /\ record' = "purged" /\ tombstone' = TRUE
    /\ exports' = {} /\ exportChunks' = {} /\ accesses' = {}
    /\ UNCHANGED <<history, reader, opens, lookup>>

(***************************************************************************)
(* verifyFingerprint: the manifest first, then the tombstone               *)
(***************************************************************************)

lookupManifest ==
    /\ lookup = "none"
    /\ lookup' = IF record = "sealed" THEN "manifest" ELSE "unsealed"
    /\ UNCHANGED <<record, tombstone, exports, exportChunks, accesses, history, reader, purge, opens>>

\* A manifest that is gone when the record is loaded is an error, not an answer.
lookupAnswer ==
    /\ lookup \in {"manifest", "unsealed"}
    /\ lookup' = IF lookup = "manifest" THEN IF record = "sealed" THEN "known" ELSE "failed"
                 ELSE IF tombstone THEN "retired"
                 ELSE "unknown"
    /\ UNCHANGED <<record, tombstone, exports, exportChunks, accesses, history, reader, purge, opens>>

nextLookup ==
    /\ lookup \in {"known", "retired", "failed"} /\ lookup' = "none"
    /\ UNCHANGED <<record, tombstone, exports, exportChunks, accesses, history, reader, purge, opens>>

ReportsNext ==
    \/ \E r \in Readers :
          \/ \E x \in Exports : openExport(r, x)
          \/ findExport(r) \/ persistExport(r) \/ recordAccess(r) \/ readChunk(r) \/ closeStream(r)
    \/ rot \/ expireHistory
    \/ purgeRows \/ deleteAssignment \/ commitPurge
    \/ lookupManifest \/ lookupAnswer \/ nextLookup

ReportsSpec == ReportsInit /\ [][ReportsNext]_disclosureVars

(***************************************************************************)
(* Properties                                                              *)
(***************************************************************************)

(* However many requests ask for an export at once, it is generated once: no  *)
(* request runs into the unique key of another's.                             *)
ExportsDoNotCollide == \A r \in Readers : reader[r].pc # "conflict"

(* A stream that ended delivered every chunk of its export in order and       *)
(* undamaged, although the purge, decay or the end of the participant's view  *)
(* may come between any two chunks.                                           *)
DeliveredWhole ==
    \A r \in Readers : reader[r].pc = "delivered" =>
       reader[r].got = [n \in 1..Chunks |-> <<CHOOSE x \in reader[r].export : TRUE, n, "intact">>]

(* A fingerprint that was sealed is never unknown: the record or its           *)
(* tombstone answers, also while the purge is under way.                       *)
FingerprintRemembered == lookup # "unknown"

(* What the purge removed stays removed: no export that was being made        *)
(* meanwhile, and no access to one, is left behind.                           *)
NothingOutlivesPurge == record = "purged" => exports = {} /\ accesses = {}

(* Disclosure and purge do not harm each other: an export is made once and    *)
(* delivered whole, and after the purge the fingerprint alone is known.       *)
DisclosureSound ==
    /\ ExportsDoNotCollide /\ DeliveredWhole
    /\ FingerprintRemembered /\ NothingOutlivesPurge
=============================================================================

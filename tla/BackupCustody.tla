--------------------------- MODULE BackupCustody ---------------------------
(***************************************************************************)
(* Recurring matched backups (scripts/backup.mjs and                       *)
(* scripts/backup-continuity.mjs) and the encrypted copies of them         *)
(* (packages/backup-custody/index.mjs, scripts/backup-custody.mjs).        *)
(*                                                                         *)
(* A backup is a directory named after the instant its cycle took from the *)
(* clock before it had the lock.  A custody package is a file named after  *)
(* that instant and the digest of its bytes.  Both are made under a        *)
(* partial name and renamed.  A lock is a file: a cycle that throws        *)
(* removes it, a killed one leaves it to the operator.  Files may rot.     *)
(* Encryption is ideal: content opens with the key of a recipient in the   *)
(* header and with nothing else.                                           *)
(***************************************************************************)
EXTENDS Naturals, FiniteSets, FiniteSetsExt

CONSTANTS
    Cycles,         \* processes that run backup-continuity.mjs create
    Retain,         \* --retain of backups and of custody packages, at least 2
    MaxAge,         \* --maximum-age-hours
    KeyIds,         \* recipients' keys
    Digests,        \* the digests two packages of one source may get
    MaxTime,        \* bound: the clock
    MaxCustody,     \* bound: custody cycles
    MaxRot,         \* bound: files that rot
    MaxBackupKills  \* bound: cycles killed

ASSUME BackupAssumption ==
    /\ Retain \in Nat /\ Retain >= 2
    /\ MaxAge \in Nat
    /\ Digests \subseteq Nat /\ \E top \in Digests : \A d \in Digests : d <= top

VARIABLES
    hour,           \* the clock
    backups,        \* managed directories: instant -> "good" or "bad" files
    backupLock,
    cycle,          \* what each backup cycle is doing
    completed,      \* the backups whose cycle answered "ready"
    packages,       \* managed custody packages
    custodyLock,
    custody,        \* what the custody cycle is doing
    custodyDone,    \* how many custody cycles got through retention,
    custodyNewest,  \* and the newest backup they sealed, 0 when none
    recipients,     \* BACKUP_CUSTODY_RECIPIENTS
    held,           \* keys whose private half is in a file
    recovered,      \* what extract published last, {} when nothing yet
    rots, backupKills

backupFiles == <<backups, backupLock, cycle, completed>>
custodyFiles == <<packages, custodyLock, custody, custodyDone, custodyNewest>>
keyVars == <<recipients, held, recovered>>
backupVars == <<hour, backupFiles, custodyFiles, keyVars, rots, backupKills>>

NoCycle == [pc |-> "off"]

BackupInit ==
    /\ hour = 1
    /\ backups = [n \in {} |-> ""] /\ backupLock = FALSE
    /\ cycle = [c \in Cycles |-> NoCycle] /\ completed = {}
    /\ packages = {} /\ custodyLock = FALSE
    /\ custody = NoCycle /\ custodyDone = 0 /\ custodyNewest = 0
    /\ recipients = {} /\ held = {} /\ recovered = {}
    /\ rots = 0 /\ backupKills = 0

Without(n) == [m \in DOMAIN backups \ {n} |-> backups[m]]
Becomes(c, state) == cycle' = [cycle EXCEPT ![c] = state]
BackupKeeps == UNCHANGED <<hour, custodyFiles, keyVars, rots, backupKills>>

(***************************************************************************)
(* create: a backup cycle                                                  *)
(***************************************************************************)

\* The digests of the manifest are those of the files, and pg_restore can list
\* the dump.
verifyBackup(n) == n \in DOMAIN backups /\ backups[n] = "good"

startCycle(c) ==
    /\ cycle[c] = NoCycle
    /\ Becomes(c, [pc |-> "dated", name |-> hour])
    /\ BackupKeeps /\ UNCHANGED <<backups, backupLock, completed>>

acquireBackupLock(c) ==
    /\ cycle[c].pc = "dated"
    /\ IF backupLock
       THEN Becomes(c, NoCycle) /\ UNCHANGED backupLock
       ELSE Becomes(c, [cycle[c] EXCEPT !.pc = "creating"]) /\ backupLock' = TRUE
    /\ BackupKeeps /\ UNCHANGED <<backups, completed>>

\* The throw out of the try block, with what the catch block removes.
abandonCycle(c, left) ==
    /\ backups' = left
    /\ backupLock' = FALSE
    /\ Becomes(c, NoCycle)
    /\ UNCHANGED completed

\* pg_dump, the copy of VASI.settings and the manifest in a .partial directory,
\* then the rename; a destination that exists, or any failure, ends the cycle.
createBackup(c) ==
    LET n == cycle[c].name IN
    /\ cycle[c].pc = "creating"
    /\ \/ /\ n \notin DOMAIN backups
          /\ backups' = [m \in DOMAIN backups \union {n} |->
                           IF m = n THEN "good" ELSE backups[m]]
          /\ Becomes(c, [cycle[c] EXCEPT !.pc = "created"])
          /\ UNCHANGED <<backupLock, completed>>
       \/ abandonCycle(c, backups)
    /\ BackupKeeps

\* A backup that fails its first verification, or whose verification could not
\* be done, is removed again.
verifyCreated(c) ==
    /\ cycle[c].pc = "created"
    /\ \/ /\ verifyBackup(cycle[c].name)
          /\ Becomes(c, [cycle[c] EXCEPT !.pc = "retaining"])
          /\ UNCHANGED <<backups, backupLock, completed>>
       \/ abandonCycle(c, Without(cycle[c].name))
    /\ BackupKeeps

\* Mutant: the number of retained backups includes the one being removed.
TooMany_OffByOne(names) == Cardinality(names) >= Retain

\* names.length > retain
TooMany(names) == Cardinality(names) > Retain

\* One round of the retention loop: the oldest name other than the new one is
\* verified and removed; when it does not verify the cycle fails.
removeOldBackup(c) ==
    LET candidate == Min(DOMAIN backups \ {cycle[c].name}) IN
    /\ cycle[c].pc = "retaining" /\ TooMany(DOMAIN backups)
    /\ \/ /\ verifyBackup(candidate)
          /\ backups' = Without(candidate)
          /\ UNCHANGED <<backupLock, cycle, completed>>
       \/ abandonCycle(c, backups)
    /\ BackupKeeps

answerReady(c) ==
    /\ cycle[c].pc = "retaining" /\ ~TooMany(DOMAIN backups)
    /\ completed' = completed \union {cycle[c].name}
    /\ backupLock' = FALSE
    /\ Becomes(c, NoCycle)
    /\ BackupKeeps /\ UNCHANGED backups

(***************************************************************************)
(* check, as it answers at this moment                                     *)
(***************************************************************************)

readinessResult(created) ==
    CASE created > hour -> "future"
      [] created <= hour /\ hour - created > MaxAge -> "critical"
      [] OTHER -> "ready"

checkLatestBackup ==
    IF DOMAIN backups = {} THEN "missing"
    ELSE LET newest == Max(DOMAIN backups) IN
         IF verifyBackup(newest) THEN readinessResult(newest)
         ELSE "verification_failed"

(***************************************************************************)
(* custody create: seal the newest backup for the recipients               *)
(***************************************************************************)

CustodyKeeps == UNCHANGED <<hour, backupFiles, keyVars, rots, backupKills>>
abandonCustody(left) ==
    /\ packages' = left /\ custodyLock' = FALSE /\ custody' = NoCycle
    /\ UNCHANGED <<custodyDone, custodyNewest>>

startCustody ==
    /\ custody = NoCycle /\ ~custodyLock /\ custodyDone < MaxCustody
    /\ recipients # {} /\ DOMAIN backups # {}
    /\ custodyLock' = TRUE
    /\ custody' = [pc |-> "chosen", source |-> Max(DOMAIN backups),
                   keys |-> recipients]
    /\ CustodyKeeps /\ UNCHANGED <<packages, custodyDone, custodyNewest>>

verifySource ==
    /\ custody.pc = "chosen"
    /\ IF verifyBackup(custody.source)
       THEN /\ custody' = [custody EXCEPT !.pc = "verified"]
            /\ UNCHANGED <<packages, custodyLock, custodyDone, custodyNewest>>
       ELSE abandonCustody(packages)
    /\ CustodyKeeps

\* The files are encrypted as they are read, chunk by chunk.
ContentChunkEncryptor(n, keys) ==
    [source |-> n, keys |-> keys, content |-> backups[n], copy |-> "intact"]

\* The files are opened and read again, as they are by now; the package exists
\* under its partial name.
sealContent ==
    /\ custody.pc = "verified"
    /\ IF custody.source \in DOMAIN backups
       THEN /\ custody' = [pc |-> "sealed", package |->
                 ContentChunkEncryptor(custody.source, custody.keys)]
            /\ UNCHANGED <<packages, custodyLock, custodyDone, custodyNewest>>
       ELSE abandonCustody(packages)
    /\ CustodyKeeps

publishPackage ==
    /\ custody.pc = "sealed"
    /\ \E d \in Digests :
         LET p == [body |-> custody.package, digest |-> d] IN
         /\ \A q \in packages : q.body.source # p.body.source \/ q.digest # d
         /\ packages' = packages \union {p}
         /\ custody' = [pc |-> "published", package |-> p]
    /\ CustodyKeeps /\ UNCHANGED <<custodyLock, custodyDone, custodyNewest>>

Named(p) == {q \in packages : q.body.source = p.body.source /\ q.digest = p.digest}

\* One header for the package, with at least one recipient.
validateHeader(p) == p.body.keys # {}

\* The bytes have the digest of the name and the header is canonical; the
\* content is not opened.
inspectCustodyPackage(p) ==
    p \in packages /\ p.body.copy = "intact" /\ validateHeader(p)

inspectPublished ==
    /\ custody.pc = "published"
    /\ IF inspectCustodyPackage(custody.package)
       THEN /\ custody' = [custody EXCEPT !.pc = "retaining"]
            /\ UNCHANGED <<packages, custodyLock, custodyDone, custodyNewest>>
       ELSE abandonCustody(packages \ Named(custody.package))
    /\ CustodyKeeps

Earlier(p, q) == \/ p.body.source < q.body.source
                 \/ p.body.source = q.body.source /\ p.digest <= q.digest
Extreme(S, Before(_, _)) == CHOOSE p \in S : \A q \in S : Before(p, q)

removeOldPackage ==
    LET candidate == Extreme(packages \ Named(custody.package), Earlier) IN
    /\ custody.pc = "retaining" /\ TooMany(packages)
    /\ IF inspectCustodyPackage(candidate)
       THEN /\ packages' = packages \ {candidate}
            /\ UNCHANGED <<custodyLock, custody, custodyDone, custodyNewest>>
       ELSE abandonCustody(packages)
    /\ CustodyKeeps

endCustody ==
    /\ custody.pc = "retaining" /\ ~TooMany(packages)
    /\ custodyDone' = custodyDone + 1
    /\ custodyNewest' = Max({custodyNewest, custody.package.body.source})
    /\ custodyLock' = FALSE /\ custody' = NoCycle
    /\ CustodyKeeps /\ UNCHANGED packages

\* check CUSTODY_ROOT, as it answers at this moment.
checkLatestCustody ==
    IF packages = {} THEN "missing"
    ELSE LET newest == Extreme(packages, LAMBDA p, q : Earlier(q, p)) IN
         IF inspectCustodyPackage(newest) THEN readinessResult(newest.body.source)
         ELSE "verification_failed"

(***************************************************************************)
(* recipient, settings and extract                                         *)
(***************************************************************************)

KeyKeeps == UNCHANGED <<hour, backupFiles, custodyFiles, rots, backupKills>>

generateCustodyRecipient(k) ==
    /\ k \notin held
    /\ held' = held \union {k}
    /\ KeyKeeps /\ UNCHANGED <<recipients, recovered>>

\* The public keys configured are those the recipient command printed.
parseCustodyRecipients(S) ==
    /\ S # {} /\ S # recipients /\ S \subseteq held
    /\ recipients' = S
    /\ KeyKeeps /\ UNCHANGED <<held, recovered>>

readPrivateKey(k) == k \in held

\* X25519 agreement and AES-GCM, taken as ideal: only the key of a recipient
\* the package was sealed for opens it.
unwrapContentKey(p, k) == k \in p.body.keys /\ readPrivateKey(k)

\* The three files the authenticated content consists of.
InnerExtractor(p, k) ==
    [content |-> p.body.content, key |-> k, keys |-> p.body.keys]

\* Decrypted chunk by chunk into a partial directory, verified as a backup
\* with the header's time, and renamed.
extractCustodyPackage(p, k) ==
    /\ inspectCustodyPackage(p) /\ unwrapContentKey(p, k)
    /\ InnerExtractor(p, k).content = "good"
    /\ recovered' = {InnerExtractor(p, k)}
    /\ KeyKeeps /\ UNCHANGED <<recipients, held>>

(***************************************************************************)
(* Time, faults and their repair                                           *)
(***************************************************************************)

AdvanceHour ==
    /\ hour < MaxTime /\ hour' = hour + 1
    /\ UNCHANGED <<backupFiles, custodyFiles, keyVars, rots, backupKills>>

RotBackup(n) ==
    /\ rots < MaxRot /\ verifyBackup(n)
    /\ rots' = rots + 1
    /\ backups' = [backups EXCEPT ![n] = "bad"]
    /\ UNCHANGED <<hour, backupLock, cycle, completed, custodyFiles, keyVars,
                   backupKills>>

RotPackage(p) ==
    /\ rots < MaxRot /\ inspectCustodyPackage(p)
    /\ rots' = rots + 1
    /\ packages' = (packages \ {p}) \union {[p EXCEPT !.body.copy = "rotten"]}
    /\ UNCHANGED <<hour, backupFiles, custodyLock, custody, custodyDone, custodyNewest, keyVars,
                   backupKills>>

KillCycle(c) ==
    /\ backupKills < MaxBackupKills /\ cycle[c] # NoCycle
    /\ backupKills' = backupKills + 1
    /\ Becomes(c, NoCycle)
    /\ UNCHANGED <<hour, backups, backupLock, completed, custodyFiles, keyVars,
                   rots>>

KillCustody ==
    /\ backupKills < MaxBackupKills /\ custody # NoCycle
    /\ backupKills' = backupKills + 1
    /\ custody' = NoCycle
    /\ UNCHANGED <<hour, backupFiles, packages, custodyLock, custodyDone, custodyNewest, keyVars,
                   rots>>

\* External: the operator removes a lock nobody holds any more.
RemoveBackupLock ==
    /\ backupLock /\ \A c \in Cycles : cycle[c].pc \in {"off", "dated"}
    /\ backupLock' = FALSE
    /\ BackupKeeps /\ UNCHANGED <<backups, cycle, completed>>

RemoveCustodyLock ==
    /\ custodyLock /\ custody = NoCycle
    /\ custodyLock' = FALSE
    /\ CustodyKeeps /\ UNCHANGED <<packages, custody, custodyDone, custodyNewest>>

BackupNext ==
    \/ \E c \in Cycles :
         \/ startCycle(c) \/ acquireBackupLock(c) \/ createBackup(c)
         \/ verifyCreated(c) \/ removeOldBackup(c) \/ answerReady(c) \/ KillCycle(c)
    \/ startCustody \/ verifySource \/ sealContent \/ publishPackage
    \/ inspectPublished \/ removeOldPackage \/ endCustody \/ KillCustody
    \/ \E k \in KeyIds : generateCustodyRecipient(k)
    \/ \E S \in SUBSET KeyIds : parseCustodyRecipients(S)
    \/ \E p \in packages, k \in KeyIds : extractCustodyPackage(p, k)
    \/ \E n \in DOMAIN backups : RotBackup(n)
    \/ \E p \in packages : RotPackage(p)
    \/ AdvanceHour \/ RemoveBackupLock \/ RemoveCustodyLock

BackupSpec == BackupInit /\ [][BackupNext]_backupVars

-----------------------------------------------------------------------------
\* Retention leaves enough: of the backups, and of the packages, of completed
\* cycles there are as many left as are to be retained, less only the files
\* that rotted, whichever cycle was killed, failed, or dated its backup before
\* another cycle that overtook it.
RetentionKeepsEnough ==
    /\ Cardinality({n \in DOMAIN backups : verifyBackup(n)}) + rots >=
         Min({Retain, Cardinality(completed)})
    /\ Cardinality({p \in packages : p.body.copy = "intact" /\ p.body.content = "good"})
         + rots >= Min({Retain, custodyDone})

\* While no file rots, the checks keep answering "ready" for MaxAge hours after
\* the backup of a completed cycle, also in the middle of a later cycle and
\* after one that failed or was killed.
NoFalseAlarm ==
    rots = 0 =>
        /\ (\E n \in completed : hour - n <= MaxAge) => checkLatestBackup = "ready"
        /\ custodyNewest > 0 /\ hour - custodyNewest <= MaxAge =>
             checkLatestCustody = "ready"

\* What extract publishes is a verified backup, opened by a recipient's key,
\* although the source may have rotted after it was verified for sealing.
RecoveredIsVerified ==
    \A r \in recovered : r.content = "good" /\ r.key \in r.keys \intersect held

\* The last line of defence: enough verified copies are kept, the checks raise no
\* false alarm over them, and what is extracted from one was verified.
BackupsSound == RetentionKeepsEnough /\ NoFalseAlarm /\ RecoveredIsVerified
=============================================================================

---------------------------- MODULE ReleaseHost ----------------------------
(***************************************************************************)
(* Putting a release on a host: staging an archive as a directory of the   *)
(* release root (scripts/stage-production-release.mjs), selecting it and   *)
(* reconciling the containers (scripts/activate-production-release.mjs),   *)
(* and migrating the database (scripts/engine-migrations.mjs and           *)
(* scripts/migrations.mjs).                                                *)
(*                                                                         *)
(* Every command may be killed between two of its steps; what it made on   *)
(* disk stays, its lock directory included, until an operator removes it.  *)
(* A command that throws runs its finally blocks.                          *)
(***************************************************************************)
EXTENDS Naturals, FiniteSets

CONSTANTS
    Releases,
    NoRelease,
    Legacy,         \* releases that were put on the host by hand
    Malformed,      \* releases whose archive breaks the rules for archives
    Commands,       \* processes that stage, activate or migrate
    Migrations,     \* a release brings migrations 1 .. Migrations[r]
    Edited,         \* releases whose first migration file was changed
    MaxCommands,    \* bound: commands started
    MaxCrashes      \* bound: commands killed

ASSUME ReleaseAssumption ==
    /\ NoRelease \notin Releases
    /\ Legacy \subseteq Releases /\ Legacy \intersect Malformed = {}
    /\ Migrations \in [Releases -> Nat]
    /\ \E r \in Releases : \A q \in Releases : Migrations[q] <= Migrations[r]

VARIABLES
    archive,    \* the file handed in for a release: "signed" or "other"
    tree,       \* what is at releaseRoot/<id>
    stageLock,
    current,    \* the target of currentLink
    running,    \* the release the containers run, NoRelease, or "mixed"
    images,     \* releases whose images docker has
    overlay,    \* releases with a compose.live.yaml
    activationLock,
    schema,     \* the migration ledger: which sql each name was applied with
    applied,    \* how often the sql of each migration took effect
    command,    \* what each process is doing
    outcome,    \* how the last activation that ended did so
    started, crashes

treeVars == <<archive, tree, stageLock>>
runtimeVars == <<current, running, images, overlay, activationLock, outcome>>
schemaVars == <<schema, applied>>
releaseVars == <<treeVars, runtimeVars, schemaVars, command, started, crashes>>

\* A directory under construction: nothing, files only, the links too, and
\* compared with the archive entry by entry.  Its bytes are those in memory.
Absent == [stage |-> "absent", bytes |-> "signed"]

Waiting == [pc |-> "idle"]
Sql(r, n) == IF n = 1 /\ r \in Edited THEN "edited" ELSE "original"
MaxMigration == CHOOSE n \in {Migrations[r] : r \in Releases} :
                  \A r \in Releases : Migrations[r] <= n

ReleaseInit ==
    /\ archive = [r \in Releases |-> "signed"]
    /\ tree = [r \in Releases |-> IF r \in Legacy
                 THEN [stage |-> "verified", bytes |-> "signed"] ELSE Absent]
    /\ stageLock = FALSE
    /\ current \in Legacy \union {NoRelease}
    /\ running = current
    /\ images = IF current = NoRelease THEN {} ELSE {current}
    /\ overlay \in {{}, Legacy}
    /\ activationLock = FALSE
    /\ schema = [n \in {} |-> ""]
    /\ applied = [n \in 1..MaxMigration |-> 0]
    /\ command = [c \in Commands |-> Waiting]
    /\ outcome = "none"
    /\ started = 0 /\ crashes = 0

Goes(c, to) == command' = [command EXCEPT ![c] = to]
At(c, pc) == command[c].pc = pc

Start(c, to) ==
    /\ command[c] = Waiting /\ started < MaxCommands
    /\ started' = started + 1
    /\ Goes(c, to)
    /\ UNCHANGED crashes

(***************************************************************************)
(* Staging                                                                 *)
(***************************************************************************)

\* Paths, sizes, entry types and the embedded release index are as required.
parseTarGzip(r) == r \notin Malformed

\* requireAbsent, openArchive and readArchive: the file is read once, and its
\* digest is the one the operator was given.
inspectReleaseArchive(c, r) ==
    /\ tree[r].stage = "absent"
    /\ archive[r] = "signed" /\ parseTarGzip(r)
    /\ Start(c, [pc |-> "inspected", release |-> r, built |-> Absent])
    /\ UNCHANGED <<treeVars, runtimeVars, schemaVars>>

StagingKeeps == UNCHANGED <<archive, runtimeVars, schemaVars, started, crashes>>

lockStaging(c) ==
    /\ At(c, "inspected") /\ ~stageLock
    /\ tree[command[c].release].stage = "absent"
    /\ stageLock' = TRUE
    /\ Goes(c, [command[c] EXCEPT !.pc = "building"])
    /\ StagingKeeps /\ UNCHANGED tree

\* mkdir exists already, or the candidate does: no lock is taken over.
refuseStaging(c) ==
    /\ At(c, "inspected")
    /\ stageLock \/ tree[command[c].release].stage # "absent"
    /\ Goes(c, Waiting)
    /\ StagingKeeps /\ UNCHANGED <<tree, stageLock>>

Advance(from) == CASE from = "absent" -> "extracted"
                   [] from = "extracted" -> "linked"
                   [] OTHER -> "verified"

\* extractReleaseArchive, createBoundaryLinks, normalizeAndVerifyTree, each in
\* the temporary directory .stage-<id>-<uuid>.
buildTree(c) ==
    /\ At(c, "building") /\ command[c].built.stage # "verified"
    /\ Goes(c, [command[c] EXCEPT !.built.stage = Advance(@)])
    /\ StagingKeeps /\ UNCHANGED <<tree, stageLock>>

\* mv --no-clobber of the temporary directory, after requireUnchangedArchive
\* and requireAbsent, then the lock.
publishDirectoryNoReplace(c) ==
    LET r == command[c].release IN
    /\ At(c, "building") /\ command[c].built.stage = "verified"
    /\ archive[r] = "signed" /\ tree[r].stage = "absent"
    /\ tree' = [tree EXCEPT ![r] = command[c].built]
    /\ overlay' = overlay \union {r}
    /\ stageLock' = FALSE
    /\ Goes(c, Waiting)
    /\ UNCHANGED <<archive, current, running, images, activationLock, outcome,
                   schemaVars, started, crashes>>

\* Any failure removes the temporary directory and the lock.
failStaging(c) ==
    /\ At(c, "building")
    /\ stageLock' = FALSE
    /\ Goes(c, Waiting)
    /\ StagingKeeps /\ UNCHANGED tree

\* External: the archive file is replaced while a command works on it, and
\* docker loads the images of a release.
ReplaceArchive(r) ==
    /\ archive[r] = "signed"
    /\ \E c \in Commands : command[c].pc \in {"inspected", "building"}
                             /\ command[c].release = r
    /\ archive' = [archive EXCEPT ![r] = "other"]
    /\ UNCHANGED <<tree, stageLock, runtimeVars, schemaVars, command, started,
                   crashes>>

LoadImages(r) ==
    /\ r \notin images /\ tree[r].stage = "verified"
    /\ images' = images \union {r}
    /\ UNCHANGED <<treeVars, current, running, overlay, activationLock, outcome,
                   schemaVars, command, started, crashes>>

(***************************************************************************)
(* Activation                                                              *)
(***************************************************************************)

ActivationKeeps == UNCHANGED <<treeVars, images, schemaVars>>

lockActivation(c, r) ==
    /\ ~activationLock
    /\ activationLock' = TRUE
    /\ Start(c, [pc |-> "selecting", release |-> r])
    /\ ActivationKeeps /\ UNCHANGED <<current, running, overlay, outcome>>

inspectReleaseRuntime(r) == tree[r].stage = "verified" /\ r \in images

\* The candidate can run, and so can the release it would fall back to.
Ready(r) ==
    /\ inspectReleaseRuntime(r)
    /\ current \notin {NoRelease, r} =>
         inspectReleaseRuntime(current) /\ current \in overlay

prepareActivation(c) ==
    LET r == command[c].release IN
    /\ At(c, "selecting") /\ Ready(r)
    /\ Goes(c, [pc |-> "prepared", release |-> r, previous |-> current,
                linked |-> r \notin overlay])
    /\ overlay' = overlay \union {r}
    /\ ActivationKeeps
    /\ UNCHANGED <<current, running, activationLock, outcome, started, crashes>>

refuseActivation(c) ==
    /\ At(c, "selecting") /\ ~Ready(command[c].release)
    /\ activationLock' = FALSE
    /\ Goes(c, Waiting)
    /\ ActivationKeeps
    /\ UNCHANGED <<current, running, overlay, outcome, started, crashes>>

\* symlink under a temporary name and rename: the selector is never absent.
pointCurrent(c) ==
    /\ At(c, "prepared")
    /\ current' = command[c].release
    /\ Goes(c, [command[c] EXCEPT !.pc = "pointed"])
    /\ ActivationKeeps
    /\ UNCHANGED <<running, overlay, activationLock, outcome, started, crashes>>

\* docker compose up --wait: all services, or a failure that leaves some of
\* them replaced.
reconcile(c, to, done, failed) ==
    /\ \/ running' = to /\ Goes(c, [command[c] EXCEPT !.pc = done])
       \/ running' \in {running, "mixed"}
          /\ Goes(c, [command[c] EXCEPT !.pc = failed])
    /\ ActivationKeeps
    /\ UNCHANGED <<current, overlay, activationLock, outcome, started, crashes>>

reconcileCandidate(c) ==
    At(c, "pointed") /\ reconcile(c, command[c].release, "up", "failing")

verifyRunningServices(c) ==
    /\ At(c, "up")
    /\ \/ /\ Goes(c, Waiting)
          /\ activationLock' = FALSE
          /\ outcome' = "activated"
       \/ /\ Goes(c, [command[c] EXCEPT !.pc = "failing"])
          /\ UNCHANGED <<activationLock, outcome>>
    /\ ActivationKeeps /\ UNCHANGED <<current, running, overlay, started, crashes>>

restoreCurrent(c) ==
    /\ At(c, "failing")
    /\ \/ /\ current' = command[c].previous
          /\ Goes(c, [command[c] EXCEPT !.pc =
               IF command[c].previous = command[c].release THEN "failed"
               ELSE "restored"])
       \/ /\ Goes(c, [command[c] EXCEPT !.pc = "stuck"])
          /\ UNCHANGED current
    /\ ActivationKeeps
    /\ UNCHANGED <<running, overlay, activationLock, outcome, started, crashes>>

\* Mutant: a failed activation restores the selector and leaves the containers.
rollBackRuntime_Skipped(c) ==
    /\ At(c, "restored")
    /\ Goes(c, [command[c] EXCEPT !.pc = "failed"])
    /\ ActivationKeeps
    /\ UNCHANGED <<current, running, overlay, activationLock, outcome, started,
                   crashes>>

\* Reconciling the previous release, or stopping everything when there is none.
rollBackRuntime(c) ==
    At(c, "restored") /\ reconcile(c, command[c].previous, "failed", "stuck")

endFailure(c) ==
    /\ command[c].pc \in {"failed", "stuck"}
    /\ overlay' = IF command[c].linked THEN overlay \ {command[c].release}
                  ELSE overlay
    /\ outcome' = IF command[c].pc = "stuck" THEN "both_failed"
                  ELSE IF command[c].previous = command[c].release THEN "kept"
                  ELSE "rolled_back"
    /\ activationLock' = FALSE
    /\ Goes(c, Waiting)
    /\ ActivationKeeps /\ UNCHANGED <<current, running, started, crashes>>

(***************************************************************************)
(* Migration                                                               *)
(***************************************************************************)

SchemaKeeps == UNCHANGED <<treeVars, runtimeVars, crashes>>

runMigrations(c, r) ==
    /\ tree[r].stage = "verified"
    /\ Start(c, [pc |-> "migrating", release |-> r, next |-> 1])
    /\ UNCHANGED <<treeVars, runtimeVars, schemaVars>>

\* One round of the loop up to "begin": the ledger is read outside the
\* transaction; a name it has with another checksum ends the command.
lookUpMigration(c) ==
    LET m == command[c] IN
    /\ At(c, "migrating")
    /\ Goes(c, CASE m.next > Migrations[m.release] -> Waiting
                 [] m.next <= Migrations[m.release]
                    /\ m.next \notin DOMAIN schema ->
                      [m EXCEPT !.pc = "applying"]
                 [] OTHER -> IF schema[m.next] = Sql(m.release, m.next)
                             THEN [m EXCEPT !.next = @ + 1] ELSE Waiting)
    /\ SchemaKeeps /\ UNCHANGED <<schemaVars, started>>

\* begin; the sql; the ledger row; commit.  The primary key of the ledger makes
\* the second of two concurrent commands roll back.
applyMigration(c) ==
    LET m == command[c] IN
    /\ At(c, "applying")
    /\ \/ /\ m.next \notin DOMAIN schema
          /\ schema' = [n \in DOMAIN schema \union {m.next} |->
                          IF n = m.next THEN Sql(m.release, n) ELSE schema[n]]
          /\ applied' = [applied EXCEPT ![m.next] = @ + 1]
          /\ Goes(c, [m EXCEPT !.pc = "migrating", !.next = @ + 1])
       \/ Goes(c, Waiting) /\ UNCHANGED schemaVars
    /\ SchemaKeeps /\ UNCHANGED started

(***************************************************************************)
(* Faults and their repair                                                 *)
(***************************************************************************)

KillCommand(c) ==
    /\ command[c] # Waiting /\ crashes < MaxCrashes
    /\ crashes' = crashes + 1
    /\ Goes(c, Waiting)
    /\ outcome' = IF command[c].pc \in {"prepared", "pointed", "up", "failing",
                                        "restored", "failed", "stuck"}
                  THEN "killed" ELSE outcome
    /\ UNCHANGED <<treeVars, current, running, images, overlay, activationLock,
                   schemaVars, started>>

\* External: an operator removes the lock of a command that is gone.
RemoveStageLock ==
    /\ stageLock /\ \A c \in Commands : ~At(c, "building")
    /\ stageLock' = FALSE
    /\ UNCHANGED <<archive, tree, runtimeVars, schemaVars, command, started,
                   crashes>>

RemoveActivationLock ==
    /\ activationLock
    /\ \A c \in Commands : command[c].pc \in
         {"idle", "inspected", "building", "migrating", "applying"}
    /\ activationLock' = FALSE
    /\ UNCHANGED <<treeVars, current, running, images, overlay, outcome,
                   schemaVars, command, started, crashes>>

ReleaseNext ==
    \/ \E c \in Commands, r \in Releases :
         inspectReleaseArchive(c, r) \/ lockActivation(c, r) \/ runMigrations(c, r)
    \/ \E c \in Commands :
         \/ lockStaging(c) \/ refuseStaging(c) \/ buildTree(c)
         \/ publishDirectoryNoReplace(c) \/ failStaging(c)
         \/ prepareActivation(c) \/ refuseActivation(c) \/ pointCurrent(c)
         \/ reconcileCandidate(c) \/ verifyRunningServices(c)
         \/ restoreCurrent(c) \/ rollBackRuntime(c) \/ endFailure(c)
         \/ lookUpMigration(c) \/ applyMigration(c) \/ KillCommand(c)
    \/ \E r \in Releases : ReplaceArchive(r) \/ LoadImages(r)
    \/ RemoveStageLock \/ RemoveActivationLock

ReleaseSpec == ReleaseInit /\ [][ReleaseNext]_releaseVars

-----------------------------------------------------------------------------
Activating == \E c \in Commands : command[c].pc \in
    {"selecting", "prepared", "pointed", "up", "failing", "restored", "failed",
     "stuck"}

\* A directory that can be selected was completely built and verified from the
\* archive with the expected digest, whatever was killed, and however often the
\* archive file changed under the command; so the selector never points at
\* anything else.
PublishedIsComplete ==
    /\ \A r \in Releases : tree[r].stage # "absent" =>
         tree[r] = [stage |-> "verified", bytes |-> "signed"] /\ r \notin Malformed
    /\ current # NoRelease => tree[current].stage = "verified"

\* With no activation under way the containers run the selected release, unless
\* the last activation said that rollback failed too, was killed, or retried
\* the selected release itself, which has nothing to fall back to.
SelectedIsRunning ==
    ~Activating /\ running # current =>
        outcome \in {"both_failed", "killed", "kept"}

\* Migrations take effect in order, each once, and with the sql the ledger
\* says, although two commands may run them at the same time.
MigrationsOnce ==
    /\ \E k \in 0..MaxMigration : DOMAIN schema = 1..k
    /\ \A n \in 1..MaxMigration : applied[n] = IF n \in DOMAIN schema THEN 1 ELSE 0

\* What runs is the selected release, which was staged completely, on a schema
\* whose migrations were applied once each, whatever was killed or raced.
ReleaseSound == PublishedIsComplete /\ SelectedIsRunning /\ MigrationsOnce
=============================================================================

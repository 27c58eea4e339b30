--------------------------- MODULE HostProofs ---------------------------
(***************************************************************************)
(* What the host's commands keep, for any number of releases, tenants,     *)
(* operators, backups and packages, and wherever a command dies: what is   *)
(* running and what a rollback returns to (ReleaseHost), a tenant that     *)
(* moves whole or not at all (TenantTransfer), settings that are never     *)
(* lost or written unseen (Installation), backups that can still be        *)
(* opened (BackupCustody), and alerts that reach an operator (AlertSpool). *)
(***************************************************************************)
EXTENDS AlertSpool, ReleaseHost, TenantTransfer, Installation, BackupCustody,
        FiniteSetTheorems, WellFoundedInduction, TLAPS

-----------------------------------------------------------------------------
(* ReleaseHost.                                                            *)

Trees == [stage : {"absent", "extracted", "linked", "verified"}, bytes : {"signed"}]

\* A command is idle, stages, chooses a candidate, activates it, or migrates.
Stagings == [pc : {"inspected", "building"}, release : Releases \ Malformed, built : Trees]
Selections == [pc : {"selecting"}, release : Releases]
Steps == {"prepared", "pointed", "up", "failing", "restored", "failed", "stuck"}
Activations == [pc : Steps, release : Releases, previous : Releases \cup {NoRelease}, linked : BOOLEAN]
Migratings == [pc : {"migrating", "applying"}, release : Releases, next : Nat \ {0}]
CommandRows == {Waiting} \cup Stagings \cup Selections \cup Activations \cup Migratings

Busy == {"selecting"} \cup Steps

ReleaseTyped ==
  /\ tree \in [Releases -> Trees]
  /\ command \in [Commands -> CommandRows]
  /\ current \in Releases \cup {NoRelease}
  /\ applied \in [1..MaxMigration -> Nat]

Settled == running = current \/ outcome \in {"both_failed", "killed", "kept"}

\* The one activation under way has the lock; until it moves the selector all is as it was
\* before, and afterwards it knows what runs unless it failed.
ActivationStands(c) ==
  command[c].pc \in Busy =>
    /\ activationLock
    /\ \A d \in Commands : command[d].pc \in Busy => d = c
    /\ command[c].pc \in {"selecting", "prepared"} => Settled
    /\ command[c].pc \in Steps =>
         /\ tree[command[c].release].stage = "verified"
         /\ command[c].previous # NoRelease => tree[command[c].previous].stage = "verified"
    /\ command[c].pc = "prepared" => command[c].previous = current
    /\ command[c].pc = "pointed" => current = command[c].release
    /\ command[c].pc = "up" => running = current
    /\ command[c].pc = "restored" => current = command[c].previous
    /\ command[c].pc = "failed" => running = current \/ command[c].previous = command[c].release

ActivationInv ==
  /\ ~Activating => Settled
  /\ \A c \in Commands : ActivationStands(c)

\* A command that migrates has seen every earlier migration in the ledger.
MigrationStands(c) ==
  command[c].pc \in {"migrating", "applying"} =>
    /\ \A n \in Nat \ {0} : n < command[c].next => n \in DOMAIN schema
    /\ command[c].pc = "applying" => command[c].next <= Migrations[command[c].release]

MigrationInv == MigrationsOnce /\ \A c \in Commands : MigrationStands(c)

ReleaseInv == ReleaseTyped /\ PublishedIsComplete /\ ActivationInv /\ MigrationInv

\* The migrations of every release are among those of the installation.
LEMMA MigrationsBounded ==
  MaxMigration \in Nat /\ \A r \in Releases : Migrations[r] \in Nat /\ Migrations[r] <= MaxMigration
<1>1. PICK r \in Releases : \A q \in Releases : Migrations[q] <= Migrations[r]
  BY ReleaseAssumption
<1>2. \E n \in {Migrations[q] : q \in Releases} : \A q \in Releases : Migrations[q] <= n
  BY <1>1
<1>3. MaxMigration \in {Migrations[q] : q \in Releases} /\ \A q \in Releases : Migrations[q] <= MaxMigration
  BY <1>2 DEF MaxMigration
<1> QED
  BY <1>3, ReleaseAssumption

\* What a command is doing tells what it keeps.
LEMMA Shapes ==
  ASSUME ReleaseTyped, NEW c \in Commands
  PROVE  /\ command[c] \in CommandRows
         /\ command[c].pc \in {"inspected", "building"} => command[c] \in Stagings
         /\ command[c].pc = "selecting" => command[c] \in Selections
         /\ command[c].pc \in Steps => command[c] \in Activations
         /\ command[c].pc \in {"migrating", "applying"} => command[c] \in Migratings
<1>1. command[c] \in CommandRows
  BY DEF ReleaseTyped
<1> QED
  BY <1>1 DEF CommandRows, Waiting, Stagings, Selections, Activations, Migratings, Steps

\* Steps of other commands than the one that activates.
LEMMA ActivationAside ==
  ASSUME ReleaseInv, UNCHANGED <<current, running, outcome>>,
         activationLock' = activationLock \/ ~Activating,
         \A r \in Releases : tree[r].stage = "verified" => tree'[r].stage = "verified",
         \A d \in Commands : \/ command'[d] = command[d]
                             \/ command[d].pc \notin Busy /\ command'[d].pc \notin Busy
  PROVE  ActivationInv'
<1>1. ActivationInv /\ ReleaseTyped
  BY DEF ReleaseInv
<1>2. Activating' <=> Activating
  BY DEF Activating, Busy, Steps
<1>3. ASSUME NEW c \in Commands, command'[c].pc \in Busy
      PROVE  ActivationStands(c)'
  <2>1. command'[c] = command[c] /\ command[c].pc \in Busy /\ ActivationStands(c)
    BY <1>1, <1>3 DEF ActivationInv
  <2>2. activationLock' = activationLock
    BY <2>1 DEF Activating, Busy, Steps
  <2>3. command[c].pc \in Steps =>
           /\ tree'[command[c].release].stage = "verified"
           /\ command[c].previous # NoRelease => tree'[command[c].previous].stage = "verified"
    <3> SUFFICES ASSUME command[c].pc \in Steps
                 PROVE  /\ tree'[command[c].release].stage = "verified"
                        /\ command[c].previous # NoRelease => tree'[command[c].previous].stage = "verified"
      OBVIOUS
    <3>1. command[c].release \in Releases /\ command[c].previous \in Releases \cup {NoRelease}
      BY <1>1, Shapes DEF Activations
    <3> QED
      BY <2>1, <3>1 DEF ActivationStands
  <2>4. \A d \in Commands : command'[d].pc \in Busy => d = c
    BY <2>1 DEF ActivationStands
  <2> QED
    BY <2>1, <2>2, <2>3, <2>4 DEF ActivationStands, Settled
<1>4. \A c \in Commands : ActivationStands(c)'
  BY <1>3 DEF ActivationStands
<1> QED
  BY <1>1, <1>2, <1>4 DEF ActivationInv, Settled

\* Steps that leave the ledger alone.
LEMMA MigrationAside ==
  ASSUME ReleaseInv, UNCHANGED schemaVars,
         \A d \in Commands : command'[d] = command[d] \/ command'[d].pc \notin {"migrating", "applying"}
  PROVE  MigrationInv'
<1>1. UNCHANGED <<schema, applied>> /\ MigrationInv
  BY DEF schemaVars, ReleaseInv
<1>2. MigrationsOnce'
  BY <1>1 DEF MigrationInv, MigrationsOnce
<1>3. \A c \in Commands : MigrationStands(c)'
  BY <1>1 DEF MigrationInv, MigrationStands
<1> QED
  BY <1>2, <1>3 DEF MigrationInv

\* One command moves on.
LEMMA OneMoves ==
  ASSUME ReleaseTyped, NEW c \in Commands, NEW new \in CommandRows, Goes(c, new)
  PROVE  /\ command' \in [Commands -> CommandRows] /\ command'[c] = new
         /\ \A d \in Commands \ {c} : command'[d] = command[d]
BY DEF Goes, ReleaseTyped

\* The host before the first command.
LEMMA InitRelease ==
  ASSUME ReleaseInit
  PROVE  ReleaseInv
<1>1. /\ tree = [r \in Releases |-> IF r \in Legacy THEN [stage |-> "verified", bytes |-> "signed"] ELSE Absent]
      /\ command = [c \in Commands |-> Waiting] /\ current \in Legacy \union {NoRelease}
      /\ running = current /\ schema = [n \in {} |-> ""]
      /\ applied = [n \in 1..MaxMigration |-> 0]
  BY DEF ReleaseInit
<1>2. Legacy \subseteq Releases /\ Legacy \intersect Malformed = {} /\ NoRelease \notin Releases
  BY ReleaseAssumption
<1>3. ReleaseTyped
  BY <1>1, <1>2 DEF ReleaseTyped, Trees, Absent, CommandRows
<1>4. PublishedIsComplete
  BY <1>1, <1>2 DEF PublishedIsComplete, Absent
<1>5. \A c \in Commands : command[c].pc = "idle"
  BY <1>1 DEF Waiting
<1>6. ActivationInv
  BY <1>1, <1>5 DEF ActivationInv, ActivationStands, Activating, Settled, Busy, Steps
<1>7. DOMAIN schema = {}
  BY <1>1
<1>8. DOMAIN schema = 1..0 /\ 0 \in 0..MaxMigration
  BY <1>7, MigrationsBounded
<1>9. MigrationsOnce
  BY <1>1, <1>7, <1>8 DEF MigrationsOnce
<1>10. MigrationInv
  BY <1>5, <1>9 DEF MigrationInv, MigrationStands
<1> QED
  BY <1>3, <1>4, <1>6, <1>10 DEF ReleaseInv

\* Staging up to the rename: nothing on the host changes but the lock.
LEMMA Stages ==
  ASSUME ReleaseInv, NEW c \in Commands,
         \/ \E r \in Releases : inspectReleaseArchive(c, r)
         \/ lockStaging(c) \/ refuseStaging(c) \/ buildTree(c) \/ failStaging(c)
  PROVE  ReleaseInv'
<1>1. ReleaseTyped /\ command[c] \in CommandRows /\ PublishedIsComplete
  BY Shapes DEF ReleaseInv
<1>2. /\ UNCHANGED <<tree, current, running, outcome, activationLock, applied>> /\ UNCHANGED schemaVars
  BY DEF inspectReleaseArchive, lockStaging, refuseStaging, buildTree, failStaging, StagingKeeps, treeVars,
         runtimeVars, schemaVars
<1>3. PICK new \in {Waiting} \cup Stagings : Goes(c, new) /\ command[c].pc \in {"idle", "inspected", "building"}
  <2>1. ASSUME NEW r \in Releases, inspectReleaseArchive(c, r)
        PROVE  \E new \in {Waiting} \cup Stagings : Goes(c, new) /\ command[c].pc \in {"idle", "inspected", "building"}
    <3>1. [pc |-> "inspected", release |-> r, built |-> Absent] \in Stagings
      BY <2>1 DEF inspectReleaseArchive, parseTarGzip, Stagings, Trees, Absent
    <3> QED
      BY <2>1, <3>1 DEF inspectReleaseArchive, Start, Waiting
  <2>2. CASE lockStaging(c)
    <3>1. command[c] \in Stagings
      BY <1>1, <2>2, Shapes DEF lockStaging, At
    <3>2. [command[c] EXCEPT !.pc = "building"] \in Stagings
      BY <3>1 DEF Stagings
    <3> QED
      BY <2>2, <3>2 DEF lockStaging, At
  <2>3. CASE refuseStaging(c) \/ failStaging(c)
    BY <2>3 DEF refuseStaging, failStaging, At
  <2>4. CASE buildTree(c)
    <3>1. command[c] \in Stagings
      BY <1>1, <2>4, Shapes DEF buildTree, At
    <3>2. PICK b : b = [command[c].built EXCEPT !.stage = Advance(command[c].built.stage)]
      OBVIOUS
    <3>3. b \in Trees
      BY <3>1, <3>2 DEF Stagings, Trees, Advance
    <3>4. [command[c] EXCEPT !.built = b] \in Stagings
      BY <3>1, <3>3 DEF Stagings
    <3>5. Goes(c, [command[c] EXCEPT !.built = b])
      BY <2>4, <3>2 DEF buildTree
    <3> QED
      BY <2>4, <3>4, <3>5 DEF buildTree, At
  <2> QED
    BY <2>1, <2>2, <2>3, <2>4
<1>4. new \in CommandRows /\ new.pc \in {"idle", "inspected", "building"}
  BY <1>3 DEF CommandRows, Waiting, Stagings
<1>5. /\ command' \in [Commands -> CommandRows] /\ command'[c] = new
      /\ \A d \in Commands \ {c} : command'[d] = command[d]
  BY <1>1, <1>3, <1>4, OneMoves
<1>6. ReleaseTyped'
  BY <1>1, <1>2, <1>5 DEF ReleaseTyped
<1>7. PublishedIsComplete'
  BY <1>1, <1>2 DEF PublishedIsComplete
<1>8. \A d \in Commands : \/ command'[d] = command[d]
                          \/ command[d].pc \notin Busy /\ command'[d].pc \notin Busy
  BY <1>3, <1>4, <1>5 DEF Busy, Steps
<1>9. ActivationInv'
  BY <1>2, <1>8, ActivationAside
<1>10. MigrationInv'
  BY <1>2, <1>4, <1>5, MigrationAside
<1> QED
  BY <1>6, <1>7, <1>9, <1>10 DEF ReleaseInv

\* The rename: a complete directory where there was none.
LEMMA Publishes ==
  ASSUME ReleaseInv, NEW c \in Commands, publishDirectoryNoReplace(c)
  PROVE  ReleaseInv'
<1>1. /\ ReleaseTyped /\ PublishedIsComplete /\ command[c] \in Stagings
  BY Shapes DEF ReleaseInv, publishDirectoryNoReplace, At
<1>2. PICK r : r = command[c].release
  OBVIOUS
<1>3. /\ r \in Releases \ Malformed /\ command[c].built \in Trees /\ command[c].built.stage = "verified"
      /\ tree[r].stage = "absent" /\ tree' = [tree EXCEPT ![r] = command[c].built]
      /\ Goes(c, Waiting) /\ command[c].pc = "building"
  BY <1>1, <1>2 DEF publishDirectoryNoReplace, Stagings, At
<1>4. /\ UNCHANGED <<current, running, outcome, activationLock, applied>> /\ UNCHANGED schemaVars
  BY DEF publishDirectoryNoReplace, schemaVars
<1>5. /\ command' \in [Commands -> CommandRows] /\ command'[c] = Waiting
      /\ \A d \in Commands \ {c} : command'[d] = command[d]
  BY <1>1, <1>3, OneMoves DEF CommandRows
<1>6. /\ tree' \in [Releases -> Trees] /\ tree'[r] = command[c].built
      /\ \A q \in Releases \ {r} : tree'[q] = tree[q]
  BY <1>1, <1>3 DEF ReleaseTyped
<1>7. ReleaseTyped'
  BY <1>1, <1>4, <1>5, <1>6 DEF ReleaseTyped
<1>8. command[c].built = [stage |-> "verified", bytes |-> "signed"]
  BY <1>3 DEF Trees
<1>9. \A q \in Releases : tree[q].stage = "verified" => tree'[q].stage = "verified"
  BY <1>3, <1>6
<1>10. PublishedIsComplete'
  <2>1. \A q \in Releases : tree'[q].stage # "absent" =>
          tree'[q] = [stage |-> "verified", bytes |-> "signed"] /\ q \notin Malformed
    BY <1>1, <1>3, <1>6, <1>8 DEF PublishedIsComplete
  <2>2. current # NoRelease => tree'[current].stage = "verified"
    BY <1>1, <1>9 DEF PublishedIsComplete, ReleaseTyped
  <2> QED
    BY <1>4, <2>1, <2>2 DEF PublishedIsComplete
<1>11. \A d \in Commands : \/ command'[d] = command[d]
                           \/ command[d].pc \notin Busy /\ command'[d].pc \notin Busy
  BY <1>3, <1>5 DEF Busy, Steps, Waiting
<1>12. ActivationInv'
  BY <1>4, <1>9, <1>11, ActivationAside
<1>13. MigrationInv'
  BY <1>4, <1>5, MigrationAside DEF Waiting
<1> QED
  BY <1>7, <1>10, <1>12, <1>13 DEF ReleaseInv

\* What happens around the commands.
LEMMA Around ==
  ASSUME ReleaseInv, \/ \E r \in Releases : ReplaceArchive(r) \/ LoadImages(r)
                     \/ RemoveStageLock \/ RemoveActivationLock
  PROVE  ReleaseInv'
<1>1. /\ UNCHANGED <<tree, command, current, running, outcome, applied>> /\ UNCHANGED schemaVars
  BY DEF ReplaceArchive, LoadImages, RemoveStageLock, RemoveActivationLock, treeVars, runtimeVars, schemaVars
<1>2. activationLock' = activationLock \/ ~Activating
  BY DEF ReplaceArchive, LoadImages, RemoveStageLock, RemoveActivationLock, runtimeVars, Activating
<1>3. ActivationInv'
  BY <1>1, <1>2, ActivationAside
<1>4. MigrationInv'
  BY <1>1, MigrationAside
<1> QED
  BY <1>1, <1>3, <1>4 DEF ReleaseInv, ReleaseTyped, PublishedIsComplete

\* The step of the command that has the activation lock: what it says of itself afterwards is enough.
LEMMA ActivationMoves ==
  ASSUME ReleaseInv, NEW c \in Commands, NEW new \in CommandRows, Goes(c, new),
         UNCHANGED tree, UNCHANGED schemaVars, new.pc \notin {"migrating", "applying"},
         current' \in Releases \cup {NoRelease},
         current' # NoRelease => tree[current'].stage = "verified",
         \A d \in Commands \ {c} : command[d].pc \notin Busy,
         ActivationStands(c)',
         new.pc \notin Busy => Settled'
  PROVE  ReleaseInv'
<1>1. ReleaseTyped /\ PublishedIsComplete /\ applied' = applied
  BY DEF ReleaseInv, schemaVars
<1>2. /\ command' \in [Commands -> CommandRows] /\ command'[c] = new
      /\ \A d \in Commands \ {c} : command'[d] = command[d]
  BY <1>1, OneMoves
<1>3. ReleaseTyped'
  BY <1>1, <1>2 DEF ReleaseTyped
<1>4. PublishedIsComplete'
  BY <1>1 DEF PublishedIsComplete
<1>5. \A d \in Commands : ActivationStands(d)'
  BY <1>2 DEF ActivationStands
<1>6. ~Activating' => Settled'
  <2>1. ASSUME new.pc \in Busy PROVE Activating'
    BY <1>2, <2>1 DEF Activating, Busy, Steps
  <2> QED
    BY <2>1
<1>7. MigrationInv'
  BY <1>2, MigrationAside
<1> QED
  BY <1>3, <1>4, <1>5, <1>6, <1>7 DEF ReleaseInv, ActivationInv

\* An activation takes the lock when nobody has it.
LEMMA Locks ==
  ASSUME ReleaseInv, NEW c \in Commands, NEW r \in Releases, lockActivation(c, r)
  PROVE  ReleaseInv'
<1>1. PICK new : new = [pc |-> "selecting", release |-> r]
  OBVIOUS
<1>2. /\ Goes(c, new) /\ new \in CommandRows /\ new.pc = "selecting" /\ activationLock' = TRUE
      /\ UNCHANGED <<tree, current, running, outcome>> /\ UNCHANGED schemaVars /\ ~activationLock
      /\ command[c].pc = "idle"
  BY <1>1 DEF lockActivation, Start, ActivationKeeps, treeVars, CommandRows, Selections, Waiting
<1>3. \A d \in Commands : command[d].pc \notin Busy
  BY <1>2 DEF ReleaseInv, ActivationInv, ActivationStands
<1>4. Settled /\ current \in Releases \cup {NoRelease} /\ (current # NoRelease => tree[current].stage = "verified")
  BY <1>3 DEF ReleaseInv, ActivationInv, Activating, Busy, Steps, ReleaseTyped, PublishedIsComplete
<1>5. /\ command'[c] = new /\ \A d \in Commands \ {c} : command'[d] = command[d]
  BY <1>2, OneMoves DEF ReleaseInv
<1>6. ActivationStands(c)'
  BY <1>2, <1>3, <1>4, <1>5 DEF ActivationStands, Settled, Steps
<1>7. new.pc \in Busy
  BY <1>2 DEF Busy
<1> QED
  BY <1>2, <1>3, <1>4, <1>6, <1>7, ActivationMoves

\* The command that activates is alone.
LEMMA Alone ==
  ASSUME ReleaseInv, NEW c \in Commands, command[c].pc \in Busy
  PROVE  /\ ReleaseTyped /\ ActivationStands(c) /\ activationLock
         /\ \A d \in Commands \ {c} : command[d].pc \notin Busy
         /\ current \in Releases \cup {NoRelease} /\ (current # NoRelease => tree[current].stage = "verified")
BY DEF ReleaseInv, ActivationInv, ActivationStands, ReleaseTyped, PublishedIsComplete

\* The candidate was found ready, or refused.
LEMMA Selects ==
  ASSUME ReleaseInv, NEW c \in Commands, prepareActivation(c) \/ refuseActivation(c)
  PROVE  ReleaseInv'
<1>1. command[c].pc = "selecting" /\ command[c].pc \in Busy
  BY DEF prepareActivation, refuseActivation, At, Busy
<1>2. /\ ReleaseTyped /\ ActivationStands(c) /\ activationLock
      /\ \A d \in Commands \ {c} : command[d].pc \notin Busy
      /\ current \in Releases \cup {NoRelease} /\ (current # NoRelease => tree[current].stage = "verified")
  BY <1>1, Alone
<1>3. command[c] \in Selections /\ Settled
  BY <1>1, <1>2, Shapes DEF ActivationStands
<1>4. UNCHANGED <<tree, current, running, outcome>> /\ UNCHANGED schemaVars
  BY DEF prepareActivation, refuseActivation, ActivationKeeps, treeVars
<1>5. CASE prepareActivation(c)
  <2>1. PICK r : r = command[c].release
    OBVIOUS
  <2>2. PICK new : new = [pc |-> "prepared", release |-> r, previous |-> current, linked |-> r \notin overlay]
    OBVIOUS
  <2>3. Goes(c, new) /\ r \in Releases /\ tree[r].stage = "verified" /\ activationLock' = activationLock
    BY <1>3, <1>5, <2>1, <2>2 DEF prepareActivation, Selections, Ready, inspectReleaseRuntime
  <2>4. /\ new \in Activations /\ new.pc = "prepared" /\ new.release = r /\ new.previous = current
    BY <1>2, <2>2, <2>3 DEF Activations, Steps
  <2>5. new \in CommandRows /\ new.pc \in Busy
    BY <2>4 DEF CommandRows, Busy, Steps
  <2>6. /\ command'[c] = new /\ \A d \in Commands \ {c} : command'[d] = command[d]
    BY <1>2, <2>3, <2>5, OneMoves
  <2>7. ActivationStands(c)'
    BY <1>2, <1>3, <1>4, <2>3, <2>4, <2>6 DEF ActivationStands, Settled
  <2> QED
    BY <1>2, <1>4, <2>3, <2>4, <2>5, <2>7, ActivationMoves
<1>6. CASE refuseActivation(c)
  <2>1. Goes(c, Waiting) /\ Waiting \in CommandRows /\ Waiting.pc = "idle" /\ Waiting.pc \notin Busy
    BY <1>6 DEF refuseActivation, CommandRows, Waiting, Busy, Steps
  <2>2. command'[c] = Waiting
    BY <1>2, <2>1, OneMoves
  <2>3. ActivationStands(c)' /\ Settled'
    BY <1>3, <1>4, <2>1, <2>2 DEF ActivationStands, Settled
  <2> QED
    BY <1>2, <1>4, <2>1, <2>3, ActivationMoves
<1> QED
  BY <1>5, <1>6

\* The row of a command that goes on activating.
LEMMA GoesOn ==
  ASSUME NEW a \in Activations, NEW p \in Steps, NEW new, new = [a EXCEPT !.pc = p]
  PROVE  /\ new \in Activations /\ new \in CommandRows /\ new.pc = p /\ new.release = a.release
         /\ new.previous = a.previous /\ new.pc \in Busy
         /\ new.pc \notin {"migrating", "applying"}
BY DEF Activations, CommandRows, Busy, Steps

\* The selector is moved, and moved back.
LEMMA Points ==
  ASSUME ReleaseInv, NEW c \in Commands, pointCurrent(c) \/ restoreCurrent(c)
  PROVE  ReleaseInv'
<1>1. command[c].pc \in {"prepared", "failing"} /\ command[c].pc \in Busy /\ command[c].pc \in Steps
  BY DEF pointCurrent, restoreCurrent, At, Busy, Steps
<1>2. /\ ReleaseTyped /\ ActivationStands(c) /\ activationLock
      /\ \A d \in Commands \ {c} : command[d].pc \notin Busy
      /\ current \in Releases \cup {NoRelease} /\ (current # NoRelease => tree[current].stage = "verified")
  BY <1>1, Alone
<1>3. /\ command[c] \in Activations
      /\ tree[command[c].release].stage = "verified"
      /\ command[c].previous # NoRelease => tree[command[c].previous].stage = "verified"
      /\ command[c].release \in Releases /\ command[c].previous \in Releases \cup {NoRelease}
  BY <1>1, <1>2, Shapes DEF ActivationStands, Activations
<1>4. UNCHANGED <<tree, running, outcome, activationLock>> /\ UNCHANGED schemaVars
  BY DEF pointCurrent, restoreCurrent, ActivationKeeps, treeVars
<1>5. CASE pointCurrent(c)
  <2>1. PICK new : new = [command[c] EXCEPT !.pc = "pointed"]
    OBVIOUS
  <2>2. Goes(c, new) /\ current' = command[c].release
    BY <1>5, <2>1 DEF pointCurrent
  <2>3. /\ new \in CommandRows /\ new.pc = "pointed" /\ new.release = command[c].release
        /\ new.previous = command[c].previous /\ new.pc \in Busy /\ new.pc \notin {"migrating", "applying"}
    BY <1>3, <2>1, GoesOn DEF Steps
  <2>4. /\ command'[c] = new /\ \A d \in Commands \ {c} : command'[d] = command[d]
    BY <1>2, <2>2, <2>3, OneMoves
  <2>5. ActivationStands(c)'
    BY <1>2, <1>3, <1>4, <2>2, <2>3, <2>4 DEF ActivationStands
  <2>6. current' \in Releases \cup {NoRelease} /\ (current' # NoRelease => tree[current'].stage = "verified")
    BY <1>3, <2>2
  <2> QED
    BY <1>2, <1>4, <2>2, <2>3, <2>5, <2>6, ActivationMoves
<1>6. CASE restoreCurrent(c)
  <2>1. PICK p \in {"failed", "restored", "stuck"} :
          /\ Goes(c, [command[c] EXCEPT !.pc = p])
          /\ current' = command[c].previous \/ (current' = current /\ p = "stuck")
          /\ p = "failed" => command[c].previous = command[c].release
          /\ p = "restored" => current' = command[c].previous
    BY <1>6 DEF restoreCurrent
  <2>2. PICK new : new = [command[c] EXCEPT !.pc = p]
    OBVIOUS
  <2>3. /\ new \in CommandRows /\ new.pc = p /\ new.release = command[c].release
        /\ new.previous = command[c].previous /\ new.pc \in Busy /\ new.pc \notin {"migrating", "applying"}
    BY <1>3, <2>2, GoesOn DEF Steps
  <2>4. /\ Goes(c, new) /\ command'[c] = new /\ \A d \in Commands \ {c} : command'[d] = command[d]
    BY <1>2, <2>1, <2>2, <2>3, OneMoves
  <2>5. ActivationStands(c)'
    BY <1>2, <1>3, <1>4, <2>1, <2>3, <2>4 DEF ActivationStands
  <2>6. current' \in Releases \cup {NoRelease} /\ (current' # NoRelease => tree[current'].stage = "verified")
    BY <1>2, <1>3, <2>1
  <2> QED
    BY <1>2, <1>4, <2>3, <2>4, <2>5, <2>6, ActivationMoves
<1> QED
  BY <1>5, <1>6

\* The containers are reconciled with the candidate, or with what ran before.
LEMMA Reconciles ==
  ASSUME ReleaseInv, NEW c \in Commands, reconcileCandidate(c) \/ rollBackRuntime(c)
  PROVE  ReleaseInv'
<1>1. command[c].pc \in {"pointed", "restored"} /\ command[c].pc \in Busy /\ command[c].pc \in Steps
  BY DEF reconcileCandidate, rollBackRuntime, At, Busy, Steps
<1>2. /\ ReleaseTyped /\ ActivationStands(c) /\ activationLock
      /\ \A d \in Commands \ {c} : command[d].pc \notin Busy
      /\ current \in Releases \cup {NoRelease} /\ (current # NoRelease => tree[current].stage = "verified")
  BY <1>1, Alone
<1>3. /\ command[c] \in Activations
      /\ tree[command[c].release].stage = "verified"
      /\ command[c].previous # NoRelease => tree[command[c].previous].stage = "verified"
  BY <1>1, <1>2, Shapes DEF ActivationStands
<1>4. UNCHANGED <<tree, current, outcome, activationLock>> /\ UNCHANGED schemaVars
  BY DEF reconcileCandidate, rollBackRuntime, reconcile, ActivationKeeps, treeVars
<1>5. PICK p \in {"up", "failing", "failed", "stuck"} :
        /\ Goes(c, [command[c] EXCEPT !.pc = p])
        /\ p \in {"up", "failed"} => running' = current
  <2>1. CASE reconcileCandidate(c)
    <3>1. current = command[c].release /\ reconcile(c, command[c].release, "up", "failing")
      BY <1>1, <1>2, <2>1 DEF ActivationStands, reconcileCandidate, At
    <3> QED
      BY <3>1 DEF reconcile
  <2>2. CASE rollBackRuntime(c)
    <3>1. current = command[c].previous /\ reconcile(c, command[c].previous, "failed", "stuck")
      BY <1>1, <1>2, <2>2 DEF ActivationStands, rollBackRuntime, At
    <3> QED
      BY <3>1 DEF reconcile
  <2> QED
    BY <2>1, <2>2
<1>6. PICK new : new = [command[c] EXCEPT !.pc = p]
  OBVIOUS
<1>7. /\ new \in CommandRows /\ new.pc = p /\ new.release = command[c].release
      /\ new.previous = command[c].previous /\ new.pc \in Busy /\ new.pc \notin {"migrating", "applying"}
  BY <1>3, <1>6, GoesOn DEF Steps
<1>8. /\ Goes(c, new) /\ command'[c] = new /\ \A d \in Commands \ {c} : command'[d] = command[d]
  BY <1>2, <1>5, <1>6, <1>7, OneMoves
<1>9. ActivationStands(c)'
  BY <1>2, <1>3, <1>4, <1>5, <1>7, <1>8 DEF ActivationStands
<1> QED
  BY <1>2, <1>4, <1>7, <1>8, <1>9, ActivationMoves

\* The activation ends: it succeeded, or it says how it failed.
LEMMA Ends ==
  ASSUME ReleaseInv, NEW c \in Commands, verifyRunningServices(c) \/ endFailure(c)
  PROVE  ReleaseInv'
<1>1. command[c].pc \in {"up", "failed", "stuck"} /\ command[c].pc \in Busy /\ command[c].pc \in Steps
  BY DEF verifyRunningServices, endFailure, At, Busy, Steps
<1>2. /\ ReleaseTyped /\ ActivationStands(c) /\ activationLock
      /\ \A d \in Commands \ {c} : command[d].pc \notin Busy
      /\ current \in Releases \cup {NoRelease} /\ (current # NoRelease => tree[current].stage = "verified")
  BY <1>1, Alone
<1>3. /\ command[c] \in Activations
      /\ tree[command[c].release].stage = "verified"
      /\ command[c].previous # NoRelease => tree[command[c].previous].stage = "verified"
      /\ command[c].pc = "up" => running = current
      /\ command[c].pc = "failed" => running = current \/ command[c].previous = command[c].release
  BY <1>1, <1>2, Shapes DEF ActivationStands
<1>4. UNCHANGED <<tree, current, running>> /\ UNCHANGED schemaVars
  BY DEF verifyRunningServices, endFailure, ActivationKeeps, treeVars
<1>5. CASE Goes(c, Waiting)
  <2>1. Settled'
    <3>1. CASE verifyRunningServices(c)
      BY <1>3, <1>4, <3>1 DEF verifyRunningServices, At, Settled
    <3>2. CASE endFailure(c)
      BY <1>3, <1>4, <3>2 DEF endFailure, Settled
    <3> QED
      BY <3>1, <3>2
  <2>2. Waiting \in CommandRows /\ Waiting.pc = "idle" /\ Waiting.pc \notin Busy
    BY DEF CommandRows, Waiting, Busy, Steps
  <2>3. command'[c] = Waiting
    BY <1>2, <1>5, <2>2, OneMoves
  <2>4. ActivationStands(c)'
    BY <2>2, <2>3 DEF ActivationStands
  <2> QED
    BY <1>2, <1>4, <1>5, <2>1, <2>2, <2>4, ActivationMoves
<1>6. CASE Goes(c, [command[c] EXCEPT !.pc = "failing"]) /\ activationLock' = activationLock
  <2>1. PICK new : new = [command[c] EXCEPT !.pc = "failing"]
    OBVIOUS
  <2>2. /\ new \in CommandRows /\ new.pc = "failing" /\ new.release = command[c].release
        /\ new.previous = command[c].previous /\ new.pc \in Busy /\ new.pc \notin {"migrating", "applying"}
    BY <1>3, <2>1, GoesOn DEF Steps
  <2>3. /\ Goes(c, new) /\ command'[c] = new /\ \A d \in Commands \ {c} : command'[d] = command[d]
    BY <1>2, <1>6, <2>1, <2>2, OneMoves
  <2>4. ActivationStands(c)'
    BY <1>2, <1>3, <1>4, <1>6, <2>2, <2>3 DEF ActivationStands
  <2> QED
    BY <1>2, <1>4, <2>2, <2>3, <2>4, ActivationMoves
<1> QED
  BY <1>5, <1>6 DEF verifyRunningServices, endFailure

\* A command is killed: an activation that had begun to act says so, and whatever it was, its lock
\* stays.
LEMMA Killed ==
  ASSUME ReleaseInv, NEW c \in Commands, KillCommand(c)
  PROVE  ReleaseInv'
<1>1. /\ ReleaseTyped /\ command[c] \in CommandRows /\ Goes(c, Waiting) /\ UNCHANGED schemaVars
      /\ UNCHANGED <<tree, current, running, activationLock>>
      /\ outcome' = IF command[c].pc \in Steps THEN "killed" ELSE outcome
  BY Shapes DEF ReleaseInv, KillCommand, treeVars, Steps
<1>2. Waiting \in CommandRows /\ Waiting.pc = "idle" /\ Waiting.pc \notin Busy
  BY DEF CommandRows, Waiting, Busy, Steps
<1>3. /\ command' \in [Commands -> CommandRows] /\ command'[c] = Waiting
      /\ \A d \in Commands \ {c} : command'[d] = command[d]
  BY <1>1, <1>2, OneMoves
<1>4. CASE command[c].pc \in Busy
  <2>1. /\ ActivationStands(c) /\ \A d \in Commands \ {c} : command[d].pc \notin Busy
        /\ current \in Releases \cup {NoRelease} /\ (current # NoRelease => tree[current].stage = "verified")
    BY <1>4, Alone
  <2>2. Settled'
    <3>1. CASE command[c].pc \in Steps
      BY <1>1, <3>1 DEF Settled
    <3>2. CASE command[c].pc = "selecting" /\ command[c].pc \notin Steps
      BY <1>1, <1>4, <2>1, <3>2 DEF ActivationStands, Settled
    <3> QED
      BY <1>4, <3>1, <3>2 DEF Busy
  <2>3. ActivationStands(c)'
    BY <1>2, <1>3 DEF ActivationStands
  <2> QED
    BY <1>1, <1>2, <2>1, <2>2, <2>3, ActivationMoves
<1>5. CASE command[c].pc \notin Busy
  <2>1. outcome' = outcome
    BY <1>1, <1>5 DEF Busy
  <2>2. ActivationInv'
    BY <1>1, <1>2, <1>3, <1>5, <2>1, ActivationAside
  <2>3. MigrationInv'
    BY <1>1, <1>2, <1>3, MigrationAside
  <2>4. ReleaseTyped'
    BY <1>1, <1>3 DEF ReleaseTyped, schemaVars
  <2>5. PublishedIsComplete'
    BY <1>1 DEF ReleaseInv, PublishedIsComplete
  <2> QED
    BY <2>2, <2>3, <2>4, <2>5 DEF ReleaseInv
<1> QED
  BY <1>4, <1>5

\* A command reads the ledger: it knows what it has seen there.
LEMMA LooksUp ==
  ASSUME ReleaseInv, NEW c \in Commands, (\E r \in Releases : runMigrations(c, r)) \/ lookUpMigration(c)
  PROVE  ReleaseInv'
<1>1. /\ ReleaseTyped /\ PublishedIsComplete /\ MigrationInv /\ MigrationStands(c) /\ MigrationsOnce
  BY DEF ReleaseInv, MigrationInv
<1>2. UNCHANGED <<tree, current, running, outcome, activationLock, schema, applied>>
  BY DEF runMigrations, lookUpMigration, SchemaKeeps, treeVars, runtimeVars, schemaVars
<1>3. PICK new \in {Waiting} \cup Migratings :
        /\ Goes(c, new) /\ command[c].pc \in {"idle", "migrating"}
        /\ new # Waiting =>
             /\ \A n \in Nat \ {0} : n < new.next => n \in DOMAIN schema
             /\ new.pc = "applying" => new.next <= Migrations[new.release]
  <2>1. ASSUME NEW r \in Releases, runMigrations(c, r)
        PROVE  \E new \in {Waiting} \cup Migratings :
                 /\ Goes(c, new) /\ command[c].pc \in {"idle", "migrating"}
                 /\ new # Waiting =>
                      /\ \A n \in Nat \ {0} : n < new.next => n \in DOMAIN schema
                      /\ new.pc = "applying" => new.next <= Migrations[new.release]
    <3>1. PICK new : new = [pc |-> "migrating", release |-> r, next |-> 1]
      OBVIOUS
    <3>2. new \in Migratings /\ new.next = 1 /\ new.pc = "migrating"
      BY <3>1 DEF Migratings
    <3>3. Goes(c, new) /\ command[c].pc = "idle"
      BY <2>1, <3>1 DEF runMigrations, Start, Waiting
    <3>4. \A n \in Nat \ {0} : n < new.next => n \in DOMAIN schema
      BY <3>2
    <3> QED
      BY <3>2, <3>3, <3>4
  <2>2. CASE lookUpMigration(c)
    <3>1. PICK m : m = command[c]
      OBVIOUS
    <3>2. /\ m \in Migratings /\ m.pc = "migrating" /\ m.next \in Nat \ {0} /\ m.release \in Releases
          /\ \A n \in Nat \ {0} : n < m.next => n \in DOMAIN schema
          /\ Migrations[m.release] \in Nat
      BY <1>1, <2>2, <3>1, Shapes, MigrationsBounded DEF lookUpMigration, At, MigrationStands, Migratings
    <3>3. CASE Goes(c, Waiting)
      BY <3>1, <3>2, <3>3
    <3>4. CASE Goes(c, [m EXCEPT !.pc = "applying"]) /\ m.next <= Migrations[m.release]
      <4>1. PICK new : new = [m EXCEPT !.pc = "applying"]
        OBVIOUS
      <4>2. new \in Migratings /\ new.next = m.next /\ new.release = m.release
        BY <3>2, <4>1 DEF Migratings
      <4> QED
        BY <3>1, <3>2, <3>4, <4>1, <4>2
    <3>5. CASE Goes(c, [m EXCEPT !.next = m.next + 1]) /\ m.next \in DOMAIN schema
      <4>1. PICK new : new = [m EXCEPT !.next = m.next + 1]
        OBVIOUS
      <4>2. new \in Migratings /\ new.next = m.next + 1 /\ new.pc = "migrating"
        BY <3>2, <4>1 DEF Migratings
      <4>3. \A n \in Nat \ {0} : n < new.next => n \in DOMAIN schema
        BY <3>2, <3>5, <4>2
      <4> QED
        BY <3>1, <3>2, <3>5, <4>1, <4>2, <4>3
    <3>6. CASE m.next > Migrations[m.release]
      BY <2>2, <3>1, <3>2, <3>3, <3>6 DEF lookUpMigration
    <3>7. CASE m.next <= Migrations[m.release] /\ m.next \notin DOMAIN schema
      BY <2>2, <3>1, <3>2, <3>4, <3>7 DEF lookUpMigration
    <3>8. CASE m.next <= Migrations[m.release] /\ m.next \in DOMAIN schema
      BY <2>2, <3>1, <3>2, <3>3, <3>5, <3>8 DEF lookUpMigration
    <3> QED
      BY <3>2, <3>6, <3>7, <3>8
  <2> QED
    BY <2>1, <2>2
<1>4. new \in CommandRows /\ new.pc \in {"idle", "migrating", "applying"} /\ (new = Waiting => new.pc = "idle")
  BY <1>3 DEF CommandRows, Waiting, Migratings
<1>5. /\ command' \in [Commands -> CommandRows] /\ command'[c] = new
      /\ \A d \in Commands \ {c} : command'[d] = command[d]
  BY <1>1, <1>3, <1>4, OneMoves
<1>6. ReleaseTyped' /\ PublishedIsComplete'
  BY <1>1, <1>2, <1>5 DEF ReleaseTyped, PublishedIsComplete
<1>7. \A d \in Commands : \/ command'[d] = command[d]
                          \/ command[d].pc \notin Busy /\ command'[d].pc \notin Busy
  BY <1>3, <1>4, <1>5 DEF Busy, Steps
<1>8. ActivationInv'
  BY <1>2, <1>7, ActivationAside
<1>9. \A d \in Commands : MigrationStands(d)'
  BY <1>1, <1>2, <1>3, <1>4, <1>5 DEF MigrationInv, MigrationStands
<1>10. MigrationsOnce'
  BY <1>1, <1>2 DEF MigrationsOnce
<1> QED
  BY <1>6, <1>8, <1>9, <1>10 DEF ReleaseInv, MigrationInv

\* A migration is applied when it is the next one and nobody else has applied it.
LEMMA Applies ==
  ASSUME ReleaseInv, NEW c \in Commands, applyMigration(c)
  PROVE  ReleaseInv'
<1>1. PICK m : m = command[c]
  OBVIOUS
<1>2. /\ ReleaseTyped /\ PublishedIsComplete /\ MigrationsOnce /\ m \in Migratings /\ m.pc = "applying"
      /\ m.next \in Nat \ {0} /\ m.release \in Releases /\ m.next <= Migrations[m.release]
      /\ \A n \in Nat \ {0} : n < m.next => n \in DOMAIN schema
  BY <1>1, Shapes DEF ReleaseInv, MigrationInv, applyMigration, At, MigrationStands, Migratings
<1>3. UNCHANGED <<tree, current, running, outcome, activationLock>>
  BY DEF applyMigration, SchemaKeeps, treeVars, runtimeVars
<1>4. CASE Goes(c, Waiting) /\ UNCHANGED schemaVars
  <2>1. Waiting \in CommandRows /\ Waiting.pc = "idle"
    BY DEF CommandRows, Waiting
  <2>2. /\ command' \in [Commands -> CommandRows] /\ command'[c] = Waiting
        /\ \A d \in Commands \ {c} : command'[d] = command[d]
    BY <1>2, <1>4, <2>1, OneMoves
  <2>3. ReleaseTyped' /\ PublishedIsComplete'
    BY <1>2, <1>3, <1>4, <2>2 DEF ReleaseTyped, PublishedIsComplete, schemaVars
  <2>4. \A d \in Commands : \/ command'[d] = command[d]
                            \/ command[d].pc \notin Busy /\ command'[d].pc \notin Busy
    BY <1>1, <1>2, <2>1, <2>2 DEF Busy, Steps
  <2>5. ActivationInv'
    BY <1>3, <2>4, ActivationAside
  <2>6. MigrationInv'
    BY <1>4, <2>1, <2>2, MigrationAside
  <2> QED
    BY <2>3, <2>5, <2>6 DEF ReleaseInv
<1>5. CASE /\ m.next \notin DOMAIN schema
           /\ DOMAIN schema' = DOMAIN schema \cup {m.next}
           /\ applied' = [applied EXCEPT ![m.next] = applied[m.next] + 1]
           /\ Goes(c, [m EXCEPT !.pc = "migrating", !.next = m.next + 1])
  <2>1. PICK new : new = [m EXCEPT !.pc = "migrating", !.next = m.next + 1]
    OBVIOUS
  <2>2. new \in Migratings /\ new \in CommandRows /\ new.pc = "migrating" /\ new.next = m.next + 1
    <3>1. PICK after : after = m.next + 1
      OBVIOUS
    <3>2. after \in Nat \ {0}
      BY <1>2, <3>1
    <3>3. new = [m EXCEPT !.pc = "migrating", !.next = after]
      BY <2>1, <3>1
    <3>4. new \in Migratings /\ new.pc = "migrating" /\ new.next = after
      BY <1>2, <3>2, <3>3 DEF Migratings
    <3> QED
      BY <3>1, <3>4 DEF CommandRows
  <2>3. /\ command' \in [Commands -> CommandRows] /\ command'[c] = new
        /\ \A d \in Commands \ {c} : command'[d] = command[d]
    BY <1>2, <1>5, <2>1, <2>2, OneMoves
  <2>4. PICK k \in 0..MaxMigration : DOMAIN schema = 1..k
    BY <1>2 DEF MigrationsOnce
  <2>5. MaxMigration \in Nat /\ Migrations[m.release] \in Nat /\ Migrations[m.release] <= MaxMigration
    BY <1>2, MigrationsBounded
  <2>6. m.next = k + 1
    <3>1. m.next >= k + 1
      BY <1>2, <1>5, <2>4, <2>5
    <3>2. CASE m.next > k + 1
      BY <1>2, <2>4, <2>5, <3>2
    <3> QED
      BY <1>2, <2>4, <2>5, <3>1, <3>2
  <2>7. k + 1 \in 0..MaxMigration /\ DOMAIN schema' = 1..(k + 1) /\ m.next \in 1..MaxMigration
    BY <1>2, <1>5, <2>4, <2>5, <2>6
  <2>8. applied \in [1..MaxMigration -> Nat] /\ applied[m.next] = 0
    BY <1>2, <1>5, <2>7 DEF ReleaseTyped, MigrationsOnce
  <2>9. applied' \in [1..MaxMigration -> Nat]
    BY <1>5, <2>7, <2>8
  <2>10. \A n \in 1..MaxMigration : applied'[n] = IF n \in DOMAIN schema' THEN 1 ELSE 0
    BY <1>2, <1>5, <2>7, <2>8 DEF MigrationsOnce
  <2>11. MigrationsOnce'
    BY <2>7, <2>10 DEF MigrationsOnce
  <2>12. \A d \in Commands : MigrationStands(d)'
    <3>1. \A n \in Nat \ {0} : n < new.next => n \in DOMAIN schema'
      BY <1>2, <1>5, <2>2
    <3>2. \A d \in Commands \ {c} : MigrationStands(d)'
      BY <1>5, <2>3 DEF ReleaseInv, MigrationInv, MigrationStands
    <3> QED
      BY <2>2, <2>3, <3>1, <3>2 DEF MigrationStands
  <2>13. ReleaseTyped' /\ PublishedIsComplete'
    BY <1>2, <1>3, <2>3, <2>9 DEF ReleaseTyped, PublishedIsComplete
  <2>14. \A d \in Commands : \/ command'[d] = command[d]
                             \/ command[d].pc \notin Busy /\ command'[d].pc \notin Busy
    BY <1>1, <1>2, <2>2, <2>3 DEF Busy, Steps
  <2>15. ActivationInv'
    BY <1>3, <2>14, ActivationAside
  <2> QED
    BY <2>11, <2>12, <2>13, <2>15 DEF ReleaseInv, MigrationInv
<1> QED
  BY <1>1, <1>4, <1>5 DEF applyMigration

\* ReleaseInv is inductive.
LEMMA ReleaseStep ==
  ASSUME ReleaseInv, [ReleaseNext]_releaseVars
  PROVE  ReleaseInv'
<1>1. CASE UNCHANGED releaseVars
  BY <1>1 DEF releaseVars, treeVars, runtimeVars, schemaVars, ReleaseInv, ReleaseTyped, PublishedIsComplete,
     ActivationInv, ActivationStands, Activating, Settled, MigrationInv, MigrationsOnce, MigrationStands
<1>2. CASE ReleaseNext
  BY <1>2, Stages, Publishes, Around, Locks, Selects, Points, Reconciles, Ends, Killed, LooksUp, Applies
     DEF ReleaseNext
<1> QED
  BY <1>1, <1>2

\* What runs is the selected release, which was staged completely, on a schema whose migrations were
\* applied once each and in order, for any number of commands that race or are killed.
THEOREM ReleaseIsSound == ReleaseSpec => []ReleaseSound
<1>1. ReleaseInv => ReleaseSound
  BY DEF ReleaseInv, ActivationInv, Settled, MigrationInv, SelectedIsRunning, ReleaseSound
<1> QED
  BY <1>1, InitRelease, ReleaseStep, PTL DEF ReleaseSpec

-----------------------------------------------------------------------------
(* TenantTransfer.                                                         *)

\* The rows of a tenant, all of them.
Whole(t) == t = [tenant |-> "present", jobs |-> t.jobs, credentials |-> t.credentials]
\* Whole, and nothing of it is under way any more.
Movable(t) == Whole(t) /\ \A j \in DOMAIN t.jobs : t.jobs[j] \notin Unsettled

ExportStands ==
  \/ exporting = NotRunning
  \/ /\ exporting = [pc |-> "exporting", snapshot |-> exporting.snapshot, done |-> exporting.done]
     /\ Movable(exporting.snapshot)

ImportStands(i) ==
  \/ importing[i] = NotRunning
  \/ /\ importing[i] = [pc |-> "inserting", archive |-> importing[i].archive, done |-> importing[i].done]
     /\ Movable(importing[i].archive)

Arrived == destination = NoTenant \/ (Movable(destination) /\ destination.credentials = "destination_secret")

TransferInv ==
  /\ Whole(source)
  /\ ExportStands
  /\ \A a \in archived : Movable(a)
  /\ importing = [i \in Importers |-> importing[i]]
  /\ \A i \in Importers : ImportStands(i)
  /\ Arrived

\* Re-encrypting the credentials leaves the rest of the tenant alone.
LEMMA Reencrypted ==
  ASSUME NEW t, Movable(t), NEW to
  PROVE  Movable([t EXCEPT !.credentials = to]) /\ [t EXCEPT !.credentials = to].credentials = to
<1>1. PICK n : n = [t EXCEPT !.credentials = to]
  OBVIOUS
<1>2. t = [tenant |-> "present", jobs |-> t.jobs, credentials |-> t.credentials]
  BY DEF Movable, Whole
<1>3. n = [tenant |-> "present", jobs |-> t.jobs, credentials |-> to]
  BY <1>1, <1>2
<1>4. n.jobs = t.jobs /\ n.credentials = to
  BY <1>3
<1>5. Movable(n)
  BY <1>3, <1>4 DEF Movable, Whole
<1> QED
  BY <1>1, <1>4, <1>5

\* Nothing is exported or imported yet.
LEMMA InitTransfer ==
  ASSUME TransferInit
  PROVE  TransferInv
BY DEF TransferInit, TransferInv, Whole, ExportStands, ImportStands, Arrived

\* The source goes on working.
LEMMA SourceWorks ==
  ASSUME TransferInv, ScheduleJob \/ AdvanceJob \/ EndDataRequest
  PROVE  TransferInv'
<1>1. UNCHANGED <<exporting, archived, destination, importing>>
  BY DEF ScheduleJob, AdvanceJob, EndDataRequest, TransferKeeps
<1>2. source = [tenant |-> "present", jobs |-> source.jobs, credentials |-> source.credentials]
  BY DEF TransferInv, Whole
<1>3. PICK jobs : source' = [source EXCEPT !.jobs = jobs] \/ source' = source
  BY DEF ScheduleJob, AdvanceJob, EndDataRequest
<1>4. Whole(source)'
  <2>1. CASE source' = source
    BY <1>2, <2>1 DEF Whole
  <2>2. CASE source' = [source EXCEPT !.jobs = jobs]
    <3>1. source' = [tenant |-> "present", jobs |-> jobs, credentials |-> source.credentials]
      BY <1>2, <2>2
    <3> QED
      BY <3>1 DEF Whole
  <2> QED
    BY <1>3, <2>1, <2>2
<1> QED
  BY <1>1, <1>4 DEF TransferInv, ExportStands, ImportStands, Arrived

\* The export works on the snapshot it found ready.
LEMMA Exports ==
  ASSUME TransferInv, beginExport \/ exportTable \/ publishArchive
  PROVE  TransferInv'
<1>1. UNCHANGED <<source, destination, importing>>
  BY DEF beginExport, exportTable, publishArchive
<1>2. ExportStands' /\ \A a \in archived' : Movable(a)
  <2>1. CASE beginExport
    <3>1. Movable(source)
      BY <2>1 DEF beginExport, assertTransferReady, TransferInv, Movable
    <3>2. exporting' = [pc |-> "exporting", snapshot |-> source, done |-> 0] /\ archived' = {}
      BY <2>1 DEF beginExport
    <3> QED
      BY <3>1, <3>2 DEF ExportStands
  <2>2. CASE exportTable
    <3>1. /\ exporting = [pc |-> "exporting", snapshot |-> exporting.snapshot, done |-> exporting.done]
          /\ Movable(exporting.snapshot)
      BY <2>2 DEF exportTable, TransferInv, ExportStands, NotRunning
    <3>2. exporting' = [pc |-> "exporting", snapshot |-> exporting.snapshot, done |-> exporting.done + 1]
          /\ archived' = archived
      BY <2>2, <3>1 DEF exportTable
    <3>3. exporting'.snapshot = exporting.snapshot /\ exporting'.done = exporting.done + 1
      BY <3>2
    <3> QED
      BY <3>1, <3>2, <3>3 DEF ExportStands, TransferInv
  <2>3. CASE publishArchive
    <3>1. Movable(exporting.snapshot)
      BY <2>3 DEF publishArchive, TransferInv, ExportStands, NotRunning
    <3>2. archived' = {[exporting.snapshot EXCEPT !.credentials = "plain"]} /\ exporting' = NotRunning
      BY <2>3 DEF publishArchive, exportTransform
    <3> QED
      BY <3>1, <3>2, Reencrypted DEF ExportStands
  <2> QED
    BY <2>1, <2>2, <2>3
<1> QED
  BY <1>1, <1>2 DEF TransferInv, ImportStands, Arrived

\* An import works on the archive it read, and commits all of it.
LEMMA Imports ==
  ASSUME TransferInv, NEW i \in Importers, beginImport(i) \/ insertRows(i) \/ commitImport(i)
  PROVE  TransferInv'
<1>1. UNCHANGED <<source, exporting, archived>> /\ ImportStands(i) /\ importing = [h \in Importers |-> importing[h]]
  BY DEF beginImport, insertRows, commitImport, TransferInv
<1>2. PICK new : /\ importing' = [importing EXCEPT ![i] = new]
                 /\ \/ new = NotRunning
                    \/ \E a, d : new = [pc |-> "inserting", archive |-> a, done |-> d] /\ Movable(a)
  <2>1. CASE beginImport(i)
    BY <2>1 DEF beginImport, TransferInv
  <2>2. CASE insertRows(i)
    <3>1. /\ importing[i] = [pc |-> "inserting", archive |-> importing[i].archive, done |-> importing[i].done]
          /\ Movable(importing[i].archive)
      BY <1>1, <2>2 DEF insertRows, ImportStands, NotRunning
    <3>2. importing' = [importing EXCEPT ![i] = [importing[i] EXCEPT !.done = importing[i].done + 1]]
      BY <2>2 DEF insertRows
    <3>3. [importing[i] EXCEPT !.done = importing[i].done + 1]
            = [pc |-> "inserting", archive |-> importing[i].archive, done |-> importing[i].done + 1]
      BY <3>1
    <3> QED
      BY <3>1, <3>2, <3>3
  <2>3. CASE commitImport(i)
    BY <2>3 DEF commitImport
  <2> QED
    BY <2>1, <2>2, <2>3
<1>3. /\ importing' = [h \in Importers |-> importing'[h]] /\ importing'[i] = new
      /\ \A h \in Importers \ {i} : importing'[h] = importing[h]
  BY <1>1, <1>2
<1>4. ImportStands(i)'
  BY <1>2, <1>3 DEF ImportStands
<1>5. \A h \in Importers : ImportStands(h)'
  BY <1>3, <1>4 DEF TransferInv, ImportStands
<1>6. Arrived'
  <2>1. CASE destination' = destination
    BY <2>1 DEF TransferInv, Arrived
  <2>2. CASE commitImport(i) /\ destination' = importTransform(importing[i].archive)
    <3>1. Movable(importing[i].archive)
      BY <1>1, <2>2 DEF commitImport, ImportStands, NotRunning
    <3> QED
      BY <2>2, <3>1, Reencrypted DEF importTransform, Arrived
  <2> QED
    BY <2>1, <2>2 DEF beginImport, insertRows, commitImport
<1> QED
  BY <1>1, <1>3, <1>5, <1>6 DEF TransferInv, ExportStands

\* A killed command leaves nothing behind.
LEMMA TransferKilled ==
  ASSUME TransferInv, KillTransfer
  PROVE  TransferInv'
<1>1. UNCHANGED <<source, archived, destination>> /\ importing = [h \in Importers |-> importing[h]]
  BY DEF KillTransfer, TransferInv
<1>2. CASE exporting' = NotRunning /\ importing' = importing
  BY <1>1, <1>2 DEF TransferInv, ExportStands, ImportStands, Arrived
<1>3. CASE exporting' = exporting /\ \E i \in Importers : importing' = [importing EXCEPT ![i] = NotRunning]
  <2>1. PICK i \in Importers : importing' = [importing EXCEPT ![i] = NotRunning]
    BY <1>3
  <2>2. /\ importing' = [h \in Importers |-> importing'[h]] /\ importing'[i] = NotRunning
        /\ \A h \in Importers \ {i} : importing'[h] = importing[h]
    BY <1>1, <2>1
  <2>3. \A h \in Importers : ImportStands(h)'
    BY <2>2 DEF TransferInv, ImportStands
  <2> QED
    BY <1>1, <1>3, <2>2, <2>3 DEF TransferInv, ExportStands, Arrived
<1> QED
  BY <1>2, <1>3 DEF KillTransfer

\* TransferInv is inductive.
LEMMA TransferStep ==
  ASSUME TransferInv, [TransferNext]_transferVars
  PROVE  TransferInv'
<1>1. CASE UNCHANGED transferVars
  BY <1>1 DEF transferVars, TransferInv, ExportStands, ImportStands, Arrived
<1>2. CASE TransferNext
  BY <1>2, SourceWorks, Exports, Imports, TransferKilled DEF TransferNext
<1> QED
  BY <1>1, <1>2

\* A tenant arrives whole, readable under the secret of its new installation and with nothing that
\* its old one may still deliver, for any number of imports that race or are killed.
THEOREM TransferIsSound == TransferSpec => []TransferSound
<1>1. ASSUME TransferInv PROVE TransferSound
  <2>1. destination # NoTenant => Movable(destination) /\ destination.credentials = "destination_secret"
    BY <1>1 DEF TransferInv, Arrived
  <2>2. Movable(destination) => destination.tenant = "present"
    BY DEF Movable, Whole
  <2> QED
    BY <2>1, <2>2 DEF TransferSound, JobsMoveSettled, ImportIsWhole, Movable
<1> QED
  BY <1>1, InitTransfer, TransferStep, PTL DEF TransferSpec

-----------------------------------------------------------------------------
(* Installation.                                                           *)

Files == [state : {"bound"}, endpoint : Endpoints, key : Nat]
Trails == Seq({"set", "unset"})

InstallationTyped ==
  /\ bootstrap \in {File("none"), File("empty")} \cup Files
  /\ rows \in [Endpoints -> [Names -> [key : Nat, version : Nat]]]
  /\ settingAudit \in [Endpoints -> [Names -> Trails]]
  /\ DOMAIN session = Operators
  /\ bootstraps \in Nat

\* Where a command stands: the one that creates the file is alone until the file has its record;
\* every other one has the key of the file, and a database that was validated stays readable.
SessionStands(o) ==
  \/ session[o] = NoSession
  \/ /\ session[o].pc = "creating" /\ session[o].endpoint \in Endpoints
     /\ bootstrap = File("empty")
     /\ \A p \in Operators \ {o} : session[p] = NoSession
  \/ /\ session[o].pc = "loaded" /\ bootstrap \in Files
     /\ session[o].file.endpoint \in Endpoints /\ session[o].file.key = bootstrap.key
     /\ session[o].change \subseteq Names
  \/ /\ session[o].pc = "bound" /\ bootstrap \in Files
     /\ session[o].endpoint \in Endpoints /\ readRuntimeSettings(session[o].endpoint, bootstrap.key)
  \/ /\ session[o].pc = "rebound" /\ bootstrap \in Files

\* The version counts the settings of the trail since its last removal, which is at s.
Counted(trail, version, s) ==
  /\ s \in 0..Len(trail) /\ version = Len(trail) - s
  /\ s > 0 => trail[s] = "unset"
  /\ \A i \in 1..Len(trail) : i > s => trail[i] # "unset"

TrailStands(e, n) == \E s \in Nat : Counted(settingAudit[e][n], rows[e][n].version, s)

InstallationInv ==
  /\ InstallationTyped
  /\ \A o \in Operators : SessionStands(o)
  /\ \A e \in Endpoints, n \in Names : TrailStands(e, n)

\* One more setting is counted; a removal starts again.
LEMMA CountedOn ==
  ASSUME NEW trail \in Trails, NEW version \in Nat, NEW s \in Nat, Counted(trail, version, s)
  PROVE  /\ Append(trail, "set") \in Trails /\ Append(trail, "unset") \in Trails
         /\ Counted(Append(trail, "set"), version + 1, s)
         /\ Counted(Append(trail, "unset"), 0, Len(trail) + 1)
<1>1. Len(trail) \in Nat /\ s <= Len(trail)
  BY DEF Trails, Counted
<1>2. ASSUME NEW a \in {"set", "unset"}
      PROVE  /\ Append(trail, a) \in Trails /\ Len(Append(trail, a)) = Len(trail) + 1
             /\ Append(trail, a)[Len(trail) + 1] = a
             /\ \A i \in 1..Len(trail) : Append(trail, a)[i] = trail[i]
  BY DEF Trails
<1>3. Counted(Append(trail, "set"), version + 1, s)
  <2>1. PICK t : t = Append(trail, "set")
    OBVIOUS
  <2>2. /\ Len(t) = Len(trail) + 1 /\ t[Len(trail) + 1] = "set"
        /\ \A i \in 1..Len(trail) : t[i] = trail[i]
    BY <1>2, <2>1
  <2>3. Counted(t, version + 1, s)
    BY <1>1, <2>2 DEF Counted
  <2> QED
    BY <2>1, <2>3
<1>4. Counted(Append(trail, "unset"), 0, Len(trail) + 1)
  <2>1. PICK t : t = Append(trail, "unset")
    OBVIOUS
  <2>2. /\ Len(t) = Len(trail) + 1 /\ t[Len(trail) + 1] = "unset"
    BY <1>2, <2>1
  <2>3. Counted(t, 0, Len(trail) + 1)
    BY <1>1, <2>2 DEF Counted
  <2> QED
    BY <2>1, <2>3
<1> QED
  BY <1>2, <1>3, <1>4

\* The last removal is the one SelectLastInSeq finds.
LEMMA LastRemoval ==
  ASSUME NEW trail \in Trails, NEW version, NEW s \in Nat, Counted(trail, version, s)
  PROVE  SelectLastInSeq(trail, LAMBDA a : a = "unset") = s
<1>1. PICK I : I = {i \in 1..Len(trail) : trail[i] = "unset"}
  OBVIOUS
<1>2. Len(trail) \in Nat
  BY DEF Trails
<1>3. CASE s = 0
  <2>1. I = {}
    BY <1>1, <1>2, <1>3 DEF Counted
  <2> QED
    BY <1>1, <1>3, <2>1 DEF SelectLastInSeq
<1>4. CASE s > 0
  <2>1. s \in I /\ \A i \in I : s >= i /\ i \in Nat
    BY <1>1, <1>2, <1>4 DEF Counted
  <2>4. \E m \in I : \A i \in I : m >= i
    BY <2>1
  <2>2. PICK m \in I : m = Max(I) /\ \A i \in I : m >= i
    BY <2>4 DEF Max
  <2>3. Max(I) = s
    BY <2>1, <2>2
  <2> QED
    BY <1>1, <2>1, <2>3 DEF SelectLastInSeq
<1> QED
  BY <1>3, <1>4

\* No file and no settings.
LEMMA InitInstallation ==
  ASSUME InstallationInit
  PROVE  InstallationInv
<1>1. /\ bootstrap = File("none") /\ session = [o \in Operators |-> NoSession] /\ bootstraps = 0
      /\ rows = [e \in Endpoints |-> [n \in Names |-> NoRow]]
      /\ settingAudit = [e \in Endpoints |-> [n \in Names |-> <<>>]]
  BY DEF InstallationInit
<1>2. <<>> \in Trails /\ Len(<<>>) = 0 /\ NoRow \in [key : Nat, version : Nat] /\ NoRow.version = 0
  BY DEF Trails, NoRow
<1>3. InstallationTyped
  BY <1>1, <1>2 DEF InstallationTyped
<1>4. Counted(<<>>, 0, 0)
  BY <1>2 DEF Counted
<1>5. ASSUME NEW e \in Endpoints, NEW n \in Names
      PROVE  TrailStands(e, n)
  <2>1. settingAudit[e][n] = <<>> /\ rows[e][n].version = 0
    BY <1>1, <1>2
  <2> QED
    BY <1>4, <2>1 DEF TrailStands
<1> QED
  BY <1>1, <1>3, <1>5 DEF InstallationInv, SessionStands

\* A command takes its place.
Sat(o, new) ==
  /\ DOMAIN session' = Operators /\ session'[o] = new
  /\ \A p \in Operators \ {o} : session'[p] = session[p]

\* A session written with EXCEPT, row by row.
LEMMA TakesPlace ==
  ASSUME InstallationTyped, NEW o \in Operators, NEW new, Sits(o, new)
  PROVE  Sat(o, new)
BY DEF InstallationTyped, Sits, Sat

\* Nothing is written: the trails stand.
LEMMA TrailsKept ==
  ASSUME InstallationInv, UNCHANGED <<rows, settingAudit>>
  PROVE  \A e \in Endpoints, n \in Names : TrailStands(e, n)'
BY DEF InstallationInv, TrailStands

\* The file is created, and gets its record.
LEMMA Creates ==
  ASSUME InstallationInv, NEW o \in Operators,
         (\E e \in Endpoints : createBootstrapSettings(o, e)) \/ insertBootstrap(o)
  PROVE  InstallationInv' /\ (Loaded => FALSE)
<1>1. /\ InstallationTyped /\ UNCHANGED <<rows, settingAudit>> /\ SessionStands(o) /\ bootstraps \in Nat
  BY DEF InstallationInv, InstallationTyped, createBootstrapSettings, insertBootstrap
<1>2. \A e \in Endpoints, n \in Names : TrailStands(e, n)'
  BY <1>1, TrailsKept
<1>3. /\ File("none").state = "none" /\ File("empty").state = "empty"
      /\ File("none") \notin Files /\ File("empty") \notin Files /\ File("none") # File("empty")
  BY DEF File, Files
<1>4. ASSUME NEW e \in Endpoints, createBootstrapSettings(o, e)
      PROVE  InstallationInv' /\ (Loaded => FALSE)
  <2>1. /\ bootstrap = File("none") /\ bootstrap' = File("empty") /\ bootstraps' \in Nat
        /\ Sits(o, [pc |-> "creating", endpoint |-> e])
    BY <1>1, <1>4 DEF createBootstrapSettings
  <2>2. Sat(o, [pc |-> "creating", endpoint |-> e])
    BY <1>1, <2>1, TakesPlace
  <2>3. \A p \in Operators : session[p] = NoSession
    BY <1>3, <2>1 DEF InstallationInv, SessionStands
  <2>4. \A p \in Operators : SessionStands(p)'
    BY <2>1, <2>2, <2>3 DEF SessionStands, Sat
  <2>5. InstallationTyped'
    BY <1>1, <2>1, <2>2 DEF InstallationTyped, Sat
  <2> QED
    BY <1>2, <1>3, <2>1, <2>4, <2>5 DEF InstallationInv, Loaded
<1>5. CASE insertBootstrap(o)
  <2>1. /\ session[o].pc = "creating"
        /\ bootstrap' = [state |-> "bound", endpoint |-> session[o].endpoint, key |-> bootstraps]
        /\ Sits(o, [pc |-> "loaded", file |-> bootstrap', change |-> Required])
        /\ UNCHANGED bootstraps
    BY <1>5 DEF insertBootstrap, countVars
  <2>2. /\ bootstrap = File("empty") /\ session[o].endpoint \in Endpoints
        /\ \A p \in Operators \ {o} : session[p] = NoSession
    BY <1>1, <2>1 DEF SessionStands, NoSession
  <2>3. bootstrap' \in Files
    BY <1>1, <2>1, <2>2 DEF Files
  <2>4. PICK new : new = [pc |-> "loaded", file |-> bootstrap', change |-> Required]
    OBVIOUS
  <2>5. Sat(o, new) /\ new.pc = "loaded" /\ new.file = bootstrap' /\ new.change = Required
    BY <1>1, <2>1, <2>4, TakesPlace
  <2>6. SessionStands(o)'
    BY <2>3, <2>5, InstallationAssumption DEF SessionStands, Sat, Files
  <2>7. \A p \in Operators : SessionStands(p)'
    BY <2>2, <2>5, <2>6 DEF SessionStands, Sat
  <2>8. InstallationTyped'
    BY <1>1, <2>1, <2>3, <2>5 DEF InstallationTyped, Sat
  <2> QED
    BY <1>2, <1>3, <2>2, <2>7, <2>8 DEF InstallationInv, Loaded
<1> QED
  BY <1>4, <1>5

\* The settings of the file's database, and of every database that was validated, stay readable.
Readable(e) == readRuntimeSettings(e, bootstrap.key)

\* Steps on one terminal that leave the file and the databases alone.
LEMMA OneSits ==
  ASSUME InstallationInv, NEW o \in Operators, NEW new, Sits(o, new), UNCHANGED <<bootstrap, rows, settingAudit>>,
         bootstraps' = bootstraps, SessionStands(o)', new.pc # "creating"
  PROVE  InstallationInv' /\ (Loaded /\ Readable(bootstrap.endpoint) => Loaded' /\ Readable(bootstrap.endpoint)')
<1>1. InstallationTyped /\ Sat(o, new)
  BY TakesPlace DEF InstallationInv
<1>2. ASSUME NEW p \in Operators \ {o}
      PROVE  SessionStands(p)'
  <2>1. SessionStands(p) /\ session'[p] = session[p]
    BY <1>1 DEF InstallationInv, Sat
  <2>2. CASE session[p].pc = "creating" /\ session[p] # NoSession
    <3>1. bootstrap = File("empty") /\ \A q \in Operators \ {p} : session[q] = NoSession
      BY <2>1, <2>2 DEF SessionStands
    <3>2. File("empty") \notin Files
      BY DEF File, Files
    <3>3. session'[o] = NoSession
      BY <1>1, <3>1, <3>2 DEF SessionStands, Sat
    <3>4. \A q \in Operators \ {p} : session'[q] = NoSession
      BY <1>1, <3>1, <3>3 DEF Sat
    <3> QED
      BY <2>1, <2>2, <3>4 DEF SessionStands
  <2>3. CASE ~(session[p].pc = "creating" /\ session[p] # NoSession)
    BY <2>1, <2>3 DEF SessionStands, readRuntimeSettings
  <2> QED
    BY <2>2, <2>3
<1>3. InstallationTyped'
  BY <1>1 DEF InstallationTyped, Sat
<1> QED
  BY <1>2, <1>3, TrailsKept DEF InstallationInv, Loaded, Readable, readRuntimeSettings

\* A command loads the file, or validates a database, or ends.
LEMMA Sessions ==
  ASSUME InstallationInv, NEW o \in Operators,
         \/ \E S \in SUBSET Names : loadBootstrapSettings(o, S)
         \/ \E e \in Endpoints : validateBootstrapBinding(o, e)
         \/ recordBootstrapRebind(o) \/ KillSession(o)
  PROVE  InstallationInv' /\ (Loaded /\ Readable(bootstrap.endpoint) => Loaded' /\ Readable(bootstrap.endpoint)')
<1>1. /\ InstallationTyped /\ UNCHANGED <<bootstrap, rows, settingAudit>> /\ bootstraps' = bootstraps
  BY DEF InstallationInv, loadBootstrapSettings, validateBootstrapBinding, recordBootstrapRebind, KillSession, countVars
<1>2. Loaded => bootstrap \in Files
  BY <1>1 DEF InstallationTyped, Loaded, File
<1>3. ASSUME NEW S \in SUBSET Names, loadBootstrapSettings(o, S)
      PROVE  InstallationInv' /\ (Loaded /\ Readable(bootstrap.endpoint) => Loaded' /\ Readable(bootstrap.endpoint)')
  <2>1. PICK new : new = [pc |-> "loaded", file |-> bootstrap, change |-> S]
    OBVIOUS
  <2>2. Sits(o, new) /\ Loaded
    BY <1>3, <2>1 DEF loadBootstrapSettings
  <2>3. new.pc = "loaded" /\ new.file = bootstrap /\ new.change = S
    BY <2>1
  <2>4. session'[o] = new
    BY <1>1, <2>2, TakesPlace DEF Sat
  <2>5. SessionStands(o)'
    BY <1>1, <1>2, <2>2, <2>3, <2>4 DEF SessionStands, Files
  <2> QED
    BY <1>1, <2>2, <2>3, <2>5, OneSits
<1>4. ASSUME NEW e \in Endpoints, validateBootstrapBinding(o, e)
      PROVE  InstallationInv' /\ (Loaded /\ Readable(bootstrap.endpoint) => Loaded' /\ Readable(bootstrap.endpoint)')
  <2>1. PICK new : new = [pc |-> "bound", endpoint |-> e]
    OBVIOUS
  <2>2. Sits(o, new) /\ Loaded /\ readRuntimeSettings(e, bootstrap.key)
    BY <1>4, <2>1 DEF validateBootstrapBinding
  <2>3. new.pc = "bound" /\ new.endpoint = e
    BY <2>1
  <2>4. session'[o] = new
    BY <1>1, <2>2, TakesPlace DEF Sat
  <2>5. SessionStands(o)'
    BY <1>1, <1>2, <2>2, <2>3, <2>4 DEF SessionStands, readRuntimeSettings
  <2> QED
    BY <1>1, <2>2, <2>3, <2>5, OneSits
<1>5. CASE recordBootstrapRebind(o) \/ KillSession(o)
  <2>1. Sits(o, NoSession) /\ NoSession.pc # "creating"
    BY <1>5 DEF recordBootstrapRebind, KillSession, NoSession
  <2>2. session'[o] = NoSession
    BY <1>1, <2>1, TakesPlace DEF Sat
  <2>3. SessionStands(o)'
    BY <2>2 DEF SessionStands
  <2> QED
    BY <1>1, <2>1, <2>3, OneSits
<1> QED
  BY <1>3, <1>4, <1>5

\* Writing under the key of the file keeps every database readable that was.
LEMMA Writes ==
  ASSUME InstallationInv, NEW o \in Operators, writeRuntimeSettings(o) \/ \E n \in Names : unsetRuntimeSetting(o, n)
  PROVE  InstallationInv' /\ (Loaded /\ Readable(bootstrap.endpoint) => Loaded' /\ Readable(bootstrap.endpoint)')
<1>1. /\ InstallationTyped /\ UNCHANGED <<bootstrap, bootstraps>> /\ session[o].pc = "loaded" /\ Sits(o, NoSession)
  BY DEF InstallationInv, writeRuntimeSettings, unsetRuntimeSetting
<1>2. PICK e : e = session[o].file.endpoint
  OBVIOUS
<1>3. /\ bootstrap \in Files /\ e \in Endpoints /\ session[o].file.key = bootstrap.key
      /\ session[o].change \subseteq Names /\ bootstrap.key \in Nat
  BY <1>1, <1>2 DEF InstallationInv, SessionStands, NoSession, Files
<1>4. \A x \in Endpoints : rows[x] \in [Names -> [key : Nat, version : Nat]] /\ settingAudit[x] \in [Names -> Trails]
  BY <1>1 DEF InstallationTyped
<1>5. /\ rows' \in [Endpoints -> [Names -> [key : Nat, version : Nat]]]
      /\ settingAudit' \in [Endpoints -> [Names -> Trails]]
      /\ \A x \in Endpoints \ {e} : rows'[x] = rows[x] /\ settingAudit'[x] = settingAudit[x]
      /\ \A n \in Names : \/ rows'[e][n] = rows[e][n] /\ settingAudit'[e][n] = settingAudit[e][n]
                          \/ /\ rows'[e][n].key = bootstrap.key /\ rows'[e][n].version = rows[e][n].version + 1
                             /\ settingAudit'[e][n] = Append(settingAudit[e][n], "set")
                          \/ /\ n \notin Required /\ rows'[e][n].version = 0
                             /\ settingAudit'[e][n] = Append(settingAudit[e][n], "unset")
  <2>1. ASSUME NEW a \in {"set", "unset"}, NEW n \in Names
        PROVE  Append(settingAudit[e][n], a) \in Trails
    BY <1>3, <1>4 DEF Trails
  <2>2. CASE writeRuntimeSettings(o)
    <3>1. PICK S : S = session[o].change
      OBVIOUS
    <3>2. PICK R : R = [n \in Names |-> IF n \in S THEN encryptRuntimeSetting(session[o].file, rows[e][n]) ELSE rows[e][n]]
      OBVIOUS
    <3>3. PICK A : A = [n \in Names |-> IF n \in S THEN Append(settingAudit[e][n], "set") ELSE settingAudit[e][n]]
      OBVIOUS
    <3>4. rows' = [rows EXCEPT ![e] = R] /\ settingAudit' = [settingAudit EXCEPT ![e] = A]
      BY <1>2, <2>2, <3>1, <3>2, <3>3 DEF writeRuntimeSettings, Audited
    <3>5. ASSUME NEW n \in Names
          PROVE  /\ encryptRuntimeSetting(session[o].file, rows[e][n]) \in [key : Nat, version : Nat]
                 /\ encryptRuntimeSetting(session[o].file, rows[e][n]).key = bootstrap.key
                 /\ encryptRuntimeSetting(session[o].file, rows[e][n]).version = rows[e][n].version + 1
      BY <1>3, <1>4 DEF encryptRuntimeSetting
    <3>6. R \in [Names -> [key : Nat, version : Nat]] /\ A \in [Names -> Trails]
      BY <1>3, <1>4, <2>1, <3>2, <3>3, <3>5
    <3>7. /\ rows' \in [Endpoints -> [Names -> [key : Nat, version : Nat]]]
          /\ settingAudit' \in [Endpoints -> [Names -> Trails]]
          /\ \A x \in Endpoints \ {e} : rows'[x] = rows[x] /\ settingAudit'[x] = settingAudit[x]
          /\ rows'[e] = R /\ settingAudit'[e] = A
      BY <1>1, <1>3, <3>4, <3>6 DEF InstallationTyped
    <3>8. \A n \in Names : \/ R[n] = rows[e][n] /\ A[n] = settingAudit[e][n]
                           \/ /\ R[n].key = bootstrap.key /\ R[n].version = rows[e][n].version + 1
                              /\ A[n] = Append(settingAudit[e][n], "set")
      BY <3>2, <3>3, <3>5
    <3> QED
      BY <3>7, <3>8
  <2>3. ASSUME NEW m \in Names, unsetRuntimeSetting(o, m), rows' # rows \/ settingAudit' # settingAudit
        PROVE  /\ rows' \in [Endpoints -> [Names -> [key : Nat, version : Nat]]]
               /\ settingAudit' \in [Endpoints -> [Names -> Trails]]
               /\ \A x \in Endpoints \ {e} : rows'[x] = rows[x] /\ settingAudit'[x] = settingAudit[x]
               /\ \A n \in Names : \/ rows'[e][n] = rows[e][n] /\ settingAudit'[e][n] = settingAudit[e][n]
                                   \/ /\ n \notin Required /\ rows'[e][n].version = 0
                                      /\ settingAudit'[e][n] = Append(settingAudit[e][n], "unset")
    <3>1. PICK A : A = [n \in Names |-> IF n \in {m} THEN Append(settingAudit[e][n], "unset") ELSE settingAudit[e][n]]
      OBVIOUS
    <3>2. PICK R : R = [rows[e] EXCEPT ![m] = NoRow]
      OBVIOUS
    <3>3. rows' = [rows EXCEPT ![e] = R] /\ settingAudit' = [settingAudit EXCEPT ![e] = A] /\ m \notin Required
      BY <1>2, <2>3, <3>1, <3>2 DEF unsetRuntimeSetting, Audited
    <3>4. NoRow \in [key : Nat, version : Nat] /\ NoRow.version = 0
      BY DEF NoRow
    <3>5. R \in [Names -> [key : Nat, version : Nat]] /\ A \in [Names -> Trails]
      BY <1>3, <1>4, <2>1, <3>1, <3>2, <3>4
    <3>6. /\ rows' \in [Endpoints -> [Names -> [key : Nat, version : Nat]]]
          /\ settingAudit' \in [Endpoints -> [Names -> Trails]]
          /\ \A x \in Endpoints \ {e} : rows'[x] = rows[x] /\ settingAudit'[x] = settingAudit[x]
          /\ rows'[e] = R /\ settingAudit'[e] = A
      BY <1>1, <1>3, <3>3, <3>5 DEF InstallationTyped
    <3>7. \A n \in Names : \/ R[n] = rows[e][n] /\ A[n] = settingAudit[e][n]
                           \/ /\ n \notin Required /\ R[n].version = 0
                              /\ A[n] = Append(settingAudit[e][n], "unset")
      BY <1>3, <1>4, <3>1, <3>2, <3>3, <3>4
    <3> QED
      BY <3>6, <3>7
  <2>4. CASE UNCHANGED <<rows, settingAudit>>
    BY <1>1, <2>4 DEF InstallationTyped
  <2> QED
    BY <2>2, <2>3, <2>4
<1>6. ASSUME NEW x \in Endpoints, readRuntimeSettings(x, bootstrap.key)
      PROVE  \A n \in Required : rows'[x][n].key = bootstrap.key
  BY <1>5, <1>6, InstallationAssumption DEF readRuntimeSettings
<1>7. Sat(o, NoSession)
  BY <1>1, TakesPlace
<1>8. ASSUME NEW p \in Operators
      PROVE  SessionStands(p)'
  <2>1. SessionStands(p) /\ bootstrap # File("empty") /\ bootstrap' = bootstrap
    BY <1>1, <1>3 DEF InstallationInv, File, Files
  <2>2. CASE p = o
    BY <1>7, <2>2 DEF SessionStands, Sat
  <2>3. CASE p # o
    <3>1. session'[p] = session[p]
      BY <1>7, <2>3 DEF Sat
    <3>3. CASE session[p] = NoSession
      BY <3>1, <3>3 DEF SessionStands
    <3>4. CASE session[p] # NoSession /\ session[p].pc = "bound"
      <4>1. bootstrap \in Files /\ session[p].endpoint \in Endpoints /\ readRuntimeSettings(session[p].endpoint, bootstrap.key)
        BY <2>1, <3>4 DEF SessionStands
      <4>2. \A n \in Required : rows'[session[p].endpoint][n].key = bootstrap.key
        BY <1>6, <4>1
      <4> QED
        BY <2>1, <3>1, <3>4, <4>1, <4>2 DEF SessionStands, readRuntimeSettings
    <3>5. CASE session[p] # NoSession /\ session[p].pc # "bound"
      BY <2>1, <3>1, <3>5 DEF SessionStands
    <3> QED
      BY <3>3, <3>4, <3>5
  <2> QED
    BY <2>2, <2>3
<1>9. ASSUME NEW x \in Endpoints, NEW n \in Names
      PROVE  TrailStands(x, n)'
  <2>1. PICK s \in Nat : Counted(settingAudit[x][n], rows[x][n].version, s)
    BY DEF InstallationInv, TrailStands
  <2>2. settingAudit[x][n] \in Trails /\ rows[x][n].version \in Nat
    BY <1>4
  <2>3. /\ Counted(Append(settingAudit[x][n], "set"), rows[x][n].version + 1, s)
        /\ Counted(Append(settingAudit[x][n], "unset"), 0, Len(settingAudit[x][n]) + 1)
    BY <2>1, <2>2, CountedOn
  <2>5. Len(settingAudit[x][n]) + 1 \in Nat
    BY <2>2 DEF Trails
  <2>4. \/ rows'[x][n] = rows[x][n] /\ settingAudit'[x][n] = settingAudit[x][n]
        \/ /\ rows'[x][n].version = rows[x][n].version + 1
           /\ settingAudit'[x][n] = Append(settingAudit[x][n], "set")
        \/ /\ rows'[x][n].version = 0
           /\ settingAudit'[x][n] = Append(settingAudit[x][n], "unset")
    BY <1>5
  <2> QED
    BY <2>1, <2>3, <2>4, <2>5 DEF TrailStands
<1>10. InstallationTyped'
  BY <1>1, <1>5, <1>7 DEF InstallationTyped, Sat
<1>11. bootstrap.endpoint \in Endpoints
  BY <1>3 DEF Files
<1>12. Loaded /\ Readable(bootstrap.endpoint) => Loaded' /\ Readable(bootstrap.endpoint)'
  BY <1>1, <1>6, <1>11 DEF Loaded, Readable, readRuntimeSettings
<1> QED
  BY <1>8, <1>9, <1>10, <1>12 DEF InstallationInv

\* The file is pointed at the database that was validated.
LEMMA Rebinds ==
  ASSUME InstallationInv, NEW o \in Operators, rebindBootstrapSettings(o)
  PROVE  InstallationInv' /\ Loaded' /\ Readable(bootstrap.endpoint)'
<1>1. /\ InstallationTyped /\ UNCHANGED <<rows, settingAudit, bootstraps>> /\ session[o].pc = "bound"
      /\ Sits(o, [pc |-> "rebound", endpoint |-> session[o].endpoint])
      /\ bootstrap' = [bootstrap EXCEPT !.endpoint = session[o].endpoint]
  BY DEF InstallationInv, rebindBootstrapSettings, countVars
<1>2. /\ bootstrap \in Files /\ session[o].endpoint \in Endpoints
      /\ readRuntimeSettings(session[o].endpoint, bootstrap.key)
  BY <1>1 DEF InstallationInv, SessionStands, NoSession
<1>3. /\ bootstrap' \in Files /\ bootstrap'.key = bootstrap.key /\ bootstrap'.endpoint = session[o].endpoint
      /\ bootstrap'.state = "bound"
  BY <1>1, <1>2 DEF Files
<1>4. PICK new : new = [pc |-> "rebound", endpoint |-> session[o].endpoint]
  OBVIOUS
<1>5. Sat(o, new) /\ new.pc = "rebound"
  BY <1>1, <1>4, TakesPlace
<1>6. ASSUME NEW p \in Operators
      PROVE  SessionStands(p)'
  <2>1. SessionStands(p) /\ bootstrap # File("empty")
    BY <1>2 DEF InstallationInv, File, Files
  <2>2. CASE p = o
    BY <1>3, <1>5, <2>2 DEF SessionStands, Sat
  <2>3. CASE p # o
    <3>1. session'[p] = session[p]
      BY <1>5, <2>3 DEF Sat
    <3> QED
      BY <1>1, <1>3, <2>1, <3>1 DEF SessionStands, readRuntimeSettings
  <2> QED
    BY <2>2, <2>3
<1>7. InstallationTyped'
  BY <1>1, <1>3, <1>5 DEF InstallationTyped, Sat
<1>8. Loaded' /\ Readable(bootstrap.endpoint)'
  BY <1>1, <1>2, <1>3 DEF Loaded, Readable, readRuntimeSettings
<1> QED
  BY <1>1, <1>6, <1>7, <1>8, TrailsKept DEF InstallationInv

\* A database the file does not name is replaced, while nobody relies on having validated it.
LEMMA Restored ==
  ASSUME InstallationInv, NEW from \in Endpoints, NEW to \in Endpoints, RestoreInto(from, to)
  PROVE  InstallationInv' /\ (Loaded /\ Readable(bootstrap.endpoint) => Loaded' /\ Readable(bootstrap.endpoint)')
<1>1. /\ InstallationTyped /\ UNCHANGED <<bootstrap, session, bootstraps>> /\ (Loaded => to # bootstrap.endpoint)
      /\ \A o \in Operators : session[o].pc # "bound"
      /\ rows' = [rows EXCEPT ![to] = rows[from]] /\ settingAudit' = [settingAudit EXCEPT ![to] = settingAudit[from]]
  BY DEF InstallationInv, RestoreInto
<1>2. /\ rows' \in [Endpoints -> [Names -> [key : Nat, version : Nat]]]
      /\ settingAudit' \in [Endpoints -> [Names -> Trails]]
      /\ rows'[to] = rows[from] /\ settingAudit'[to] = settingAudit[from]
      /\ \A x \in Endpoints \ {to} : rows'[x] = rows[x] /\ settingAudit'[x] = settingAudit[x]
  BY <1>1 DEF InstallationTyped
<1>3. InstallationTyped'
  BY <1>1, <1>2 DEF InstallationTyped
<1>4. \A p \in Operators : SessionStands(p)'
  BY <1>1 DEF InstallationInv, SessionStands
<1>5. \A x \in Endpoints, n \in Names : TrailStands(x, n)'
  BY <1>2 DEF InstallationInv, TrailStands
<1>6. ASSUME Loaded, Readable(bootstrap.endpoint)
      PROVE  Loaded' /\ Readable(bootstrap.endpoint)'
  <2>1. bootstrap.endpoint \in Endpoints \ {to}
    BY <1>1, <1>6 DEF InstallationTyped, Loaded, File, Files
  <2> QED
    BY <1>1, <1>2, <1>6, <2>1 DEF Loaded, Readable, readRuntimeSettings
<1> QED
  BY <1>3, <1>4, <1>5, <1>6 DEF InstallationInv

\* A file that never got its record is removed.
LEMMA Removes ==
  ASSUME InstallationInv, RemoveEmptyFile
  PROVE  InstallationInv' /\ ~Loaded
<1>1. /\ InstallationTyped /\ UNCHANGED <<rows, settingAudit, session, bootstraps>> /\ bootstrap = File("empty")
      /\ bootstrap' = File("none") /\ \A o \in Operators : session[o] = NoSession
  BY DEF InstallationInv, RemoveEmptyFile, countVars
<1>2. InstallationTyped' /\ ~Loaded
  BY <1>1 DEF InstallationTyped, Loaded, File
<1>3. \A o \in Operators : SessionStands(o)'
  BY <1>1 DEF SessionStands
<1> QED
  BY <1>1, <1>2, <1>3, TrailsKept DEF InstallationInv

\* InstallationInv is inductive, and no step makes the settings unreadable.
LEMMA InstallationStep ==
  ASSUME InstallationInv, [InstallationNext]_installationVars
  PROVE  InstallationInv' /\ (Loaded /\ Readable(bootstrap.endpoint) => Loaded' /\ Readable(bootstrap.endpoint)')
<1>1. CASE UNCHANGED installationVars
  BY <1>1 DEF installationVars, countVars, InstallationInv, InstallationTyped, SessionStands, TrailStands, Loaded,
     Readable, readRuntimeSettings
<1>2. CASE InstallationNext
  <2>1. Required \in SUBSET Names /\ \A n \in Names : {n} \in SUBSET Names
    BY InstallationAssumption
  <2> QED
    BY <1>2, <2>1, Creates, Sessions, Writes, Rebinds, Restored, Removes DEF InstallationNext
<1> QED
  BY <1>1, <1>2

\* The settings stay readable through every command, rebind, restore and kill, and the version of a
\* setting is what its audit trail says, for any number of databases, settings and terminals.
THEOREM SettingsAreKept == InstallationSpec => SettingsKept
<1>1. InstallationInv => SettingsAudited
  <2> SUFFICES ASSUME InstallationInv, NEW e \in Endpoints, NEW n \in Names
               PROVE  rows[e][n].version = Len(settingAudit[e][n])
                        - SelectLastInSeq(settingAudit[e][n], LAMBDA a : a = "unset")
    BY DEF SettingsAudited
  <2>1. PICK s \in Nat : Counted(settingAudit[e][n], rows[e][n].version, s)
    BY DEF InstallationInv, TrailStands
  <2>2. settingAudit[e][n] \in Trails
    BY DEF InstallationInv, InstallationTyped
  <2>3. SelectLastInSeq(settingAudit[e][n], LAMBDA a : a = "unset") = s
    BY <2>1, <2>2, LastRemoval
  <2> QED
    BY <2>1, <2>3 DEF Counted
<1>2. ASSUME InstallationInv, [InstallationNext]_installationVars
      PROVE  [Loaded /\ readRuntimeSettings(bootstrap.endpoint, bootstrap.key)
               => Loaded' /\ readRuntimeSettings(bootstrap.endpoint, bootstrap.key)']_installationVars
  BY <1>2, InstallationStep DEF Readable
<1>3. InstallationSpec => []InstallationInv
  BY InitInstallation, InstallationStep, PTL DEF InstallationSpec
<1> QED
  BY <1>1, <1>2, <1>3, PTL DEF InstallationSpec, SettingsKept, NeverUnreadable

-----------------------------------------------------------------------------
(* BackupCustody.                                                          *)

\* A set of naturals that is not empty has a least one.
LEMMA LeastNatural ==
  ASSUME NEW T, T \subseteq Nat, T # {}
  PROVE  \E x \in T : \A y \in T : x <= y
<1>1. PICK R : IsWellFoundedOn(R, Nat) /\ \A x, y \in Nat : <<y, x>> \in R <=> y < x
  <2>1. \A x, y \in Nat : <<y, x>> \in OpToRel(<, Nat) <=> y < x
    BY DEF OpToRel
  <2> QED
    BY <2>1, NatLessThanWellFounded, Zenon
<1>2. PICK x \in T : \A y \in T : ~(<<y, x>> \in R)
  BY <1>1, WFMin
<1>3. \A y \in T : ~(y < x)
  BY <1>1, <1>2
<1> QED
  BY <1>3

\* The Max of a bounded set of naturals is one of them and above the rest.
LEMMA MaxIsMax ==
  ASSUME NEW T, T \subseteq Nat, T # {}, NEW top \in Nat, \A x \in T : x <= top
  PROVE  Max(T) \in T /\ \A x \in T : x <= Max(T)
<1>1. PICK U : U = {m \in Nat : \A x \in T : x <= m}
  OBVIOUS
<1>2. PICK m \in U : \A n \in U : m <= n
  BY <1>1, LeastNatural
<1>3. m \in T
  <2> SUFFICES ASSUME m \notin T PROVE FALSE
    OBVIOUS
  <2>1. \A x \in T : x < m
    BY <1>1
  <2>2. m \in Nat /\ m > 0
    <3>1. PICK x : x \in T
      OBVIOUS
    <3>2. m \in Nat /\ x \in Nat /\ x < m
      BY <1>1, <2>1, <3>1
    <3> QED
      BY <3>2
  <2>3. m - 1 \in Nat /\ \A x \in T : x <= m - 1
    BY <2>1, <2>2
  <2> QED
    BY <1>1, <1>2, <2>2, <2>3
<1>4. \A x \in T : m >= x
  BY <1>1
<1> QED
  BY <1>3, <1>4 DEF Max

\* The Min of a set of naturals is the least of them.
LEMMA MinIsLeast ==
  ASSUME NEW T, T \subseteq Nat, T # {}
  PROVE  Min(T) \in T /\ \A y \in T : Min(T) <= y
<1>1. \E x \in T : \A y \in T : x =< y
  BY LeastNatural
<1> QED
  BY <1>1 DEF Min

\* A set with one element more is at most one larger.
LEMMA OneMore ==
  ASSUME NEW S, IsFiniteSet(S), NEW x
  PROVE  /\ IsFiniteSet(S \cup {x}) /\ Cardinality(S \cup {x}) \in Nat /\ Cardinality(S) \in Nat
         /\ Cardinality(S \cup {x}) <= Cardinality(S) + 1
<1>1. IsFiniteSet(S \cup {x}) /\ Cardinality(S) \in Nat
  BY FS_AddElement, FS_CardinalityType
<1>2. CASE x \in S
  <2>1. Cardinality(S \cup {x}) = Cardinality(S)
    BY <1>2, FS_AddElement
  <2> QED
    BY <1>1, <2>1
<1>3. CASE x \notin S
  <2>1. Cardinality(S \cup {x}) = Cardinality(S) + 1
    BY <1>3, FS_AddElement
  <2> QED
    BY <1>1, <2>1
<1> QED
  BY <1>2, <1>3

CycleRows == {NoCycle} \cup [pc : {"dated", "creating", "created", "retaining"}, name : Nat]
Active == {"creating", "created", "retaining"}
BadBackups == {n \in DOMAIN backups : backups[n] # "good"}

FilesTyped ==
  /\ hour \in Nat /\ rots \in Nat
  /\ DOMAIN backups \subseteq Nat /\ IsFiniteSet(DOMAIN backups)
  /\ \A n \in DOMAIN backups : n <= hour /\ backups[n] \in {"good", "bad"}
  /\ completed \subseteq Nat /\ IsFiniteSet(completed)
  /\ Cardinality(BadBackups) <= rots

\* There are enough backups, and none of a completed cycle is newer than all that are left.
BackupsStand ==
  /\ Cardinality(DOMAIN backups) >= Retain \/ Cardinality(DOMAIN backups) >= Cardinality(completed)
  /\ \A n \in completed : \E m \in DOMAIN backups : m >= n

\* The cycle that has the lock is alone.  While its backup is not verified there are enough
\* without it, and afterwards enough with it.
CycleStands(c) ==
  /\ cycle[c] # NoCycle => cycle[c].name <= hour
  /\ cycle[c].pc \in Active =>
       /\ backupLock
       /\ \A d \in Cycles : cycle[d].pc \in Active => d = c
  /\ cycle[c].pc = "created" =>
       /\ cycle[c].name \in DOMAIN backups
       /\ \/ Cardinality(DOMAIN backups) >= Retain + 1
          \/ Cardinality(DOMAIN backups) >= Cardinality(completed) + 1
       /\ \A n \in completed : \E m \in DOMAIN backups \ {cycle[c].name} : m >= n
  /\ cycle[c].pc = "retaining" =>
       /\ cycle[c].name \in DOMAIN backups
       /\ \/ Cardinality(DOMAIN backups) >= Retain
          \/ Cardinality(DOMAIN backups) >= Cardinality(completed) + 1

BackupInv ==
  /\ FilesTyped
  /\ cycle \in [Cycles -> CycleRows]
  /\ BackupsStand
  /\ \A c \in Cycles : CycleStands(c)

\* Steps that leave the backups and their cycles alone.
LEMMA BackupsAside ==
  ASSUME BackupInv, UNCHANGED <<backups, backupLock, cycle, completed>>,
         hour' \in Nat, hour' >= hour, rots' \in Nat, rots' >= rots
  PROVE  BackupInv'
<1>1. FilesTyped /\ cycle \in [Cycles -> CycleRows]
  BY DEF BackupInv
<1>2. FilesTyped'
  <2>1. BadBackups' = BadBackups /\ Cardinality(BadBackups) \in Nat
    <3>1. BadBackups \in SUBSET DOMAIN backups
      BY DEF BadBackups
    <3>2. IsFiniteSet(BadBackups)
      BY <1>1, <3>1, FS_Subset DEF FilesTyped
    <3> QED
      BY <3>2, FS_CardinalityType DEF BadBackups
  <2> QED
    BY <1>1, <2>1 DEF FilesTyped
<1>3. ASSUME NEW c \in Cycles PROVE CycleStands(c)'
  <2>1. CycleStands(c) /\ (cycle[c] # NoCycle => cycle[c].name \in Nat) /\ hour \in Nat
    BY <1>1 DEF BackupInv, CycleRows, FilesTyped
  <2>2. cycle'[c] # NoCycle => cycle'[c].name <= hour'
    BY <2>1 DEF CycleStands
  <2> QED
    BY <2>1, <2>2 DEF CycleStands
<1> QED
  BY <1>1, <1>2, <1>3 DEF BackupInv, BackupsStand

\* One cycle moves: it is the one with the lock, or it stays outside.
LEMMA OneCycle ==
  ASSUME BackupInv, NEW c \in Cycles, NEW new \in CycleRows, Becomes(c, new), hour' = hour,
         \/ \A d \in Cycles \ {c} : cycle[d].pc \notin Active
         \/ UNCHANGED <<backups, completed, backupLock>> /\ new.pc \notin Active,
         FilesTyped', BackupsStand', CycleStands(c)'
  PROVE  BackupInv'
<1>1. /\ cycle' \in [Cycles -> CycleRows] /\ cycle'[c] = new
      /\ \A d \in Cycles \ {c} : cycle'[d] = cycle[d]
  BY DEF BackupInv, Becomes
<1>2. ASSUME NEW d \in Cycles \ {c} PROVE CycleStands(d)'
  <2>1. CycleStands(d) /\ cycle'[d] = cycle[d]
    BY <1>1 DEF BackupInv
  <2>2. CASE cycle[d].pc \notin Active
    BY <2>1, <2>2 DEF CycleStands, Active
  <2>3. CASE UNCHANGED <<backups, completed, backupLock>> /\ new.pc \notin Active
    BY <1>1, <2>1, <2>3 DEF CycleStands
  <2> QED
    BY <2>2, <2>3
<1> QED
  BY <1>1, <1>2 DEF BackupInv

\* What a cycle is doing tells what it keeps.
LEMMA CycleShape ==
  ASSUME BackupInv, NEW c \in Cycles, cycle[c] # NoCycle
  PROVE  /\ cycle[c] \in [pc : {"dated", "creating", "created", "retaining"}, name : Nat]
         /\ cycle[c].name <= hour /\ cycle[c].name \in Nat /\ CycleStands(c)
BY DEF BackupInv, CycleRows, CycleStands

\* Nobody else is active beside an active cycle, or when the lock is free.
LEMMA OnlyActive ==
  ASSUME BackupInv, NEW c \in Cycles, cycle[c].pc \in Active \/ ~backupLock
  PROVE  \A d \in Cycles \ {c} : cycle[d].pc \notin Active
BY DEF BackupInv, CycleStands

\* The backups, and the bad ones among them, can be counted.
LEMMA CardinalitiesKnown ==
  ASSUME FilesTyped
  PROVE  /\ Cardinality(DOMAIN backups) \in Nat /\ Cardinality(completed) \in Nat
         /\ IsFiniteSet(BadBackups) /\ Cardinality(BadBackups) \in Nat
         /\ Retain \in Nat /\ Retain >= 2
<1>1. BadBackups \in SUBSET DOMAIN backups
  BY DEF BadBackups
<1>2. IsFiniteSet(BadBackups)
  BY <1>1, FS_Subset DEF FilesTyped
<1> QED
  BY <1>2, FS_CardinalityType, BackupAssumption DEF FilesTyped

\* A cycle leaves: with its backup or without it the others are enough.
LEMMA CycleLeaves ==
  ASSUME BackupInv, NEW c \in Cycles, Becomes(c, NoCycle), hour' = hour,
         \/ \A d \in Cycles \ {c} : cycle[d].pc \notin Active
         \/ UNCHANGED <<backups, completed, backupLock>>,
         FilesTyped', BackupsStand'
  PROVE  BackupInv'
<1>1. NoCycle \in CycleRows /\ NoCycle.pc \notin Active /\ NoCycle.pc # "created" /\ NoCycle.pc # "retaining"
  BY DEF CycleRows, NoCycle, Active
<1>2. cycle'[c] = NoCycle
  BY DEF BackupInv, Becomes
<1>3. CycleStands(c)'
  BY <1>1, <1>2 DEF CycleStands
<1> QED
  BY <1>1, <1>3, OneCycle

\* The files without one backup.
LEMMA OneBackupLess ==
  ASSUME BackupInv, NEW n \in DOMAIN backups, backups' = Without(n), UNCHANGED <<hour, completed, rots>>
  PROVE  /\ FilesTyped' /\ DOMAIN backups' = DOMAIN backups \ {n}
         /\ Cardinality(DOMAIN backups') = Cardinality(DOMAIN backups) - 1
<1>1. FilesTyped
  BY DEF BackupInv
<1>2. DOMAIN backups' = DOMAIN backups \ {n} /\ \A m \in DOMAIN backups \ {n} : backups'[m] = backups[m]
  BY DEF Without
<1>3. /\ IsFiniteSet(DOMAIN backups \ {n}) /\ Cardinality(DOMAIN backups \ {n}) = Cardinality(DOMAIN backups) - 1
  BY <1>1, FS_RemoveElement DEF FilesTyped
<1>4. BadBackups' \in SUBSET BadBackups
  BY <1>2 DEF BadBackups
<1>5. IsFiniteSet(BadBackups') /\ Cardinality(BadBackups') <= Cardinality(BadBackups)
  BY <1>1, <1>4, CardinalitiesKnown, FS_Subset
<1>6. Cardinality(BadBackups') <= rots
  BY <1>1, <1>5, CardinalitiesKnown, FS_CardinalityType DEF FilesTyped
<1> QED
  BY <1>1, <1>2, <1>3, <1>6 DEF FilesTyped

\* Before the first backup.
LEMMA InitBackups ==
  ASSUME BackupInit
  PROVE  BackupInv
<1>1. /\ hour = 1 /\ backups = [n \in {} |-> ""] /\ cycle = [c \in Cycles |-> NoCycle] /\ completed = {} /\ rots = 0
  BY DEF BackupInit
<1>2. DOMAIN backups = {} /\ BadBackups = {}
  BY <1>1 DEF BadBackups
<1>3. FilesTyped
  BY <1>1, <1>2, FS_EmptySet DEF FilesTyped
<1>4. BackupsStand
  BY <1>1, <1>2, FS_EmptySet DEF BackupsStand
<1>5. cycle \in [Cycles -> CycleRows] /\ \A c \in Cycles : CycleStands(c)
  BY <1>1 DEF CycleRows, CycleStands, NoCycle, Active
<1> QED
  BY <1>3, <1>4, <1>5 DEF BackupInv

\* A cycle takes its name, and then the lock or nothing.
LEMMA CycleBegins ==
  ASSUME BackupInv, NEW c \in Cycles, startCycle(c) \/ acquireBackupLock(c)
  PROVE  BackupInv'
<1>1. UNCHANGED <<hour, rots, backups, completed>> /\ FilesTyped /\ BackupsStand /\ hour \in Nat
  BY DEF BackupInv, FilesTyped, startCycle, acquireBackupLock, BackupKeeps
<1>2. FilesTyped' /\ BackupsStand'
  BY <1>1 DEF FilesTyped, BackupsStand, BadBackups
<1>3. CASE startCycle(c)
  <2>1. PICK new : new = [pc |-> "dated", name |-> hour]
    OBVIOUS
  <2>2. Becomes(c, new) /\ backupLock' = backupLock /\ new \in CycleRows /\ new.pc = "dated" /\ new.name = hour
    BY <1>1, <1>3, <2>1 DEF startCycle, CycleRows
  <2>3. cycle'[c] = new
    BY <2>2 DEF BackupInv, Becomes
  <2>4. CycleStands(c)'
    BY <1>1, <2>2, <2>3 DEF CycleStands, Active
  <2> QED
    BY <1>1, <1>2, <2>2, <2>4, OneCycle DEF Active
<1>4. CASE acquireBackupLock(c) /\ backupLock
  <2>1. Becomes(c, NoCycle) /\ backupLock' = backupLock
    BY <1>4 DEF acquireBackupLock
  <2> QED
    BY <1>1, <1>2, <2>1, CycleLeaves
<1>5. CASE acquireBackupLock(c) /\ ~backupLock
  <2>1. cycle[c].pc = "dated" /\ cycle[c] # NoCycle
    BY <1>5 DEF acquireBackupLock, NoCycle
  <2>2. /\ cycle[c] \in [pc : {"dated", "creating", "created", "retaining"}, name : Nat] /\ cycle[c].name <= hour
    BY <2>1, CycleShape
  <2>3. PICK new : new = [cycle[c] EXCEPT !.pc = "creating"]
    OBVIOUS
  <2>4. new \in CycleRows /\ new.pc = "creating" /\ new.name = cycle[c].name
    BY <2>2, <2>3 DEF CycleRows
  <2>5. Becomes(c, new) /\ backupLock' = TRUE
    BY <1>5, <2>3 DEF acquireBackupLock
  <2>6. /\ cycle'[c] = new /\ \A d \in Cycles \ {c} : cycle'[d] = cycle[d]
    BY <2>5 DEF BackupInv, Becomes
  <2>7. \A d \in Cycles \ {c} : cycle[d].pc \notin Active
    BY <1>5, OnlyActive
  <2>8. CycleStands(c)'
    BY <1>1, <2>2, <2>4, <2>5, <2>6, <2>7 DEF CycleStands
  <2> QED
    BY <1>1, <1>2, <2>4, <2>5, <2>7, <2>8, OneCycle
<1> QED
  BY <1>3, <1>4, <1>5

\* The backup is made, or the cycle gives up.
LEMMA CycleCreates ==
  ASSUME BackupInv, NEW c \in Cycles, createBackup(c)
  PROVE  BackupInv'
<1>1. /\ UNCHANGED <<hour, rots>> /\ FilesTyped /\ BackupsStand /\ cycle[c].pc = "creating" /\ cycle[c] # NoCycle
      /\ completed' = completed
  BY DEF BackupInv, createBackup, BackupKeeps, abandonCycle, NoCycle
<1>2. \A d \in Cycles \ {c} : cycle[d].pc \notin Active
  BY <1>1, OnlyActive DEF Active
<1>3. PICK n : n = cycle[c].name
  OBVIOUS
<1>4. /\ cycle[c] \in [pc : {"dated", "creating", "created", "retaining"}, name : Nat]
      /\ n <= hour /\ n \in Nat /\ CycleStands(c) /\ backupLock
  BY <1>1, <1>3, CycleShape DEF CycleStands, Active
<1>5. CASE abandonCycle(c, backups)
  <2>1. Becomes(c, NoCycle) /\ backups' = backups
    BY <1>5 DEF abandonCycle
  <2>2. FilesTyped' /\ BackupsStand'
    BY <1>1, <2>1 DEF FilesTyped, BackupsStand, BadBackups
  <2> QED
    BY <1>1, <1>2, <2>1, <2>2, CycleLeaves
<1>6. CASE /\ n \notin DOMAIN backups
           /\ backups' = [m \in DOMAIN backups \union {n} |-> IF m = n THEN "good" ELSE backups[m]]
           /\ Becomes(c, [cycle[c] EXCEPT !.pc = "created"])
           /\ backupLock' = backupLock
  <2>1. PICK new : new = [cycle[c] EXCEPT !.pc = "created"]
    OBVIOUS
  <2>2. new \in CycleRows /\ new.pc = "created" /\ new.name = n
    BY <1>3, <1>4, <2>1 DEF CycleRows
  <2>3. /\ Becomes(c, new) /\ cycle'[c] = new /\ \A d \in Cycles \ {c} : cycle'[d] = cycle[d]
    BY <1>6, <2>1 DEF BackupInv, Becomes
  <2>4. /\ DOMAIN backups' = DOMAIN backups \cup {n} /\ backups'[n] = "good"
        /\ \A m \in DOMAIN backups : backups'[m] = backups[m]
    BY <1>6
  <2>5. /\ IsFiniteSet(DOMAIN backups') /\ Cardinality(DOMAIN backups') = Cardinality(DOMAIN backups) + 1
    BY <1>1, <1>6, <2>4, FS_AddElement DEF FilesTyped
  <2>6. BadBackups' = BadBackups
    BY <1>6, <2>4 DEF BadBackups
  <2>7. FilesTyped'
    BY <1>1, <1>4, <2>4, <2>5, <2>6 DEF FilesTyped
  <2>8. /\ Cardinality(DOMAIN backups) \in Nat /\ Cardinality(completed) \in Nat /\ Retain \in Nat
    BY <1>1, CardinalitiesKnown
  <2>9. BackupsStand'
    BY <1>1, <2>4, <2>5, <2>8 DEF BackupsStand
  <2>10. DOMAIN backups' \ {n} = DOMAIN backups
    BY <1>6, <2>4
  <2>11. CycleStands(c)'
    BY <1>1, <1>2, <1>4, <1>6, <2>2, <2>3, <2>4, <2>5, <2>8, <2>10 DEF CycleStands, BackupsStand
  <2> QED
    BY <1>1, <1>2, <2>2, <2>3, <2>7, <2>9, <2>11, OneCycle
<1> QED
  BY <1>3, <1>5, <1>6 DEF createBackup

\* The new backup is verified, or goes again.
LEMMA CycleVerifies ==
  ASSUME BackupInv, NEW c \in Cycles, verifyCreated(c)
  PROVE  BackupInv'
<1>1. /\ UNCHANGED <<hour, rots, completed>> /\ FilesTyped /\ BackupsStand /\ cycle[c].pc = "created"
      /\ cycle[c] # NoCycle
  BY DEF BackupInv, verifyCreated, BackupKeeps, abandonCycle, NoCycle
<1>2. \A d \in Cycles \ {c} : cycle[d].pc \notin Active
  BY <1>1, OnlyActive DEF Active
<1>3. PICK n : n = cycle[c].name
  OBVIOUS
<1>4. /\ cycle[c] \in [pc : {"dated", "creating", "created", "retaining"}, name : Nat]
      /\ n <= hour /\ n \in Nat /\ backupLock /\ n \in DOMAIN backups
      /\ \/ Cardinality(DOMAIN backups) >= Retain + 1
         \/ Cardinality(DOMAIN backups) >= Cardinality(completed) + 1
      /\ \A k \in completed : \E m \in DOMAIN backups \ {n} : m >= k
  BY <1>1, <1>3, CycleShape DEF CycleStands, Active
<1>5. /\ Cardinality(DOMAIN backups) \in Nat /\ Cardinality(completed) \in Nat /\ Retain \in Nat
  BY <1>1, CardinalitiesKnown
<1>6. CASE abandonCycle(c, Without(n))
  <2>1. Becomes(c, NoCycle) /\ backups' = Without(n)
    BY <1>6 DEF abandonCycle
  <2>2. /\ FilesTyped' /\ DOMAIN backups' = DOMAIN backups \ {n}
        /\ Cardinality(DOMAIN backups') = Cardinality(DOMAIN backups) - 1
    BY <1>1, <1>4, <2>1, OneBackupLess
  <2>3. BackupsStand'
    BY <1>1, <1>4, <1>5, <2>2 DEF BackupsStand
  <2> QED
    BY <1>1, <1>2, <2>1, <2>2, <2>3, CycleLeaves
<1>7. CASE Becomes(c, [cycle[c] EXCEPT !.pc = "retaining"]) /\ UNCHANGED <<backups, backupLock>>
  <2>1. PICK new : new = [cycle[c] EXCEPT !.pc = "retaining"]
    OBVIOUS
  <2>2. new \in CycleRows /\ new.pc = "retaining" /\ new.name = n
    BY <1>3, <1>4, <2>1 DEF CycleRows
  <2>3. /\ Becomes(c, new) /\ cycle'[c] = new /\ \A d \in Cycles \ {c} : cycle'[d] = cycle[d]
    BY <1>7, <2>1 DEF BackupInv, Becomes
  <2>4. FilesTyped' /\ BackupsStand'
    BY <1>1, <1>7 DEF FilesTyped, BackupsStand, BadBackups
  <2>5. CycleStands(c)'
    BY <1>1, <1>2, <1>4, <1>5, <1>7, <2>2, <2>3 DEF CycleStands
  <2> QED
    BY <1>1, <1>2, <2>2, <2>3, <2>4, <2>5, OneCycle
<1> QED
  BY <1>3, <1>6, <1>7 DEF verifyCreated

\* A round of the retention: more than enough were there, and a newer one than the one that goes stays.
LEMMA CycleRemoves ==
  ASSUME BackupInv, NEW c \in Cycles, removeOldBackup(c)
  PROVE  BackupInv'
<1>1. /\ UNCHANGED <<hour, rots, completed>> /\ FilesTyped /\ BackupsStand /\ cycle[c].pc = "retaining"
      /\ cycle[c] # NoCycle /\ TooMany(DOMAIN backups)
  BY DEF BackupInv, removeOldBackup, BackupKeeps, abandonCycle, NoCycle
<1>2. \A d \in Cycles \ {c} : cycle[d].pc \notin Active
  BY <1>1, OnlyActive DEF Active
<1>3. PICK n : n = cycle[c].name
  OBVIOUS
<1>4. /\ n <= hour /\ n \in Nat /\ backupLock /\ n \in DOMAIN backups
  BY <1>1, <1>3, CycleShape DEF CycleStands, Active
<1>5. /\ Cardinality(DOMAIN backups) \in Nat /\ Cardinality(completed) \in Nat /\ Retain \in Nat /\ Retain >= 2
      /\ Cardinality(DOMAIN backups) > Retain
  BY <1>1, CardinalitiesKnown DEF TooMany
<1>6. CASE abandonCycle(c, backups)
  <2>1. Becomes(c, NoCycle) /\ backups' = backups
    BY <1>6 DEF abandonCycle
  <2>2. FilesTyped' /\ BackupsStand'
    BY <1>1, <2>1 DEF FilesTyped, BackupsStand, BadBackups
  <2> QED
    BY <1>1, <1>2, <2>1, <2>2, CycleLeaves
<1>7. PICK old : old = Min(DOMAIN backups \ {n})
  OBVIOUS
<1>8. CASE backups' = Without(old) /\ UNCHANGED <<backupLock, cycle>>
  <2>1. /\ IsFiniteSet(DOMAIN backups \ {n}) /\ Cardinality(DOMAIN backups \ {n}) = Cardinality(DOMAIN backups) - 1
    BY <1>1, <1>4, FS_RemoveElement DEF FilesTyped
  <2>2. DOMAIN backups \ {n} # {} /\ DOMAIN backups \ {n} \subseteq Nat
    BY <1>1, <1>5, <2>1, FS_EmptySet DEF FilesTyped
  <2>3. old \in DOMAIN backups \ {n} /\ \A m \in DOMAIN backups \ {n} : old <= m
    BY <1>7, <2>2, MinIsLeast
  <2>4. /\ IsFiniteSet((DOMAIN backups \ {n}) \ {old})
        /\ Cardinality((DOMAIN backups \ {n}) \ {old}) = Cardinality(DOMAIN backups) - 1 - 1
    BY <2>1, <2>3, FS_RemoveElement
  <2>5. (DOMAIN backups \ {n}) \ {old} # {}
    BY <1>5, <2>4, FS_EmptySet
  <2>6. PICK kept : kept \in (DOMAIN backups \ {n}) \ {old}
    BY <2>5
  <2>7. /\ FilesTyped' /\ DOMAIN backups' = DOMAIN backups \ {old}
        /\ Cardinality(DOMAIN backups') = Cardinality(DOMAIN backups) - 1
    BY <1>1, <1>8, <2>3, OneBackupLess
  <2>8. kept \in DOMAIN backups' /\ kept >= old /\ kept \in Nat /\ old \in Nat
    BY <2>2, <2>3, <2>6, <2>7
  <2>9. ASSUME NEW k \in completed PROVE \E m \in DOMAIN backups' : m >= k
    <3>1. PICK m \in DOMAIN backups : m >= k
      BY <1>1 DEF BackupsStand
    <3>2. k \in Nat
      BY <1>1 DEF FilesTyped
    <3>3. CASE m = old
      BY <2>8, <3>1, <3>2, <3>3
    <3>4. CASE m # old
      BY <2>7, <3>1, <3>4
    <3> QED
      BY <3>3, <3>4
  <2>10. Cardinality(DOMAIN backups') >= Retain
    BY <1>5, <2>7
  <2>11. BackupsStand'
    BY <1>1, <2>9, <2>10 DEF BackupsStand
  <2>12. CycleStands(c)'
    <3>1. n \in DOMAIN backups'
      BY <1>4, <2>3, <2>7
    <3> QED
      BY <1>1, <1>2, <1>3, <1>4, <1>8, <2>10, <3>1 DEF CycleStands
  <2>13. \A d \in Cycles \ {c} : CycleStands(d)'
    BY <1>1, <1>2, <1>8 DEF BackupInv, CycleStands, Active
  <2> QED
    BY <1>8, <2>7, <2>11, <2>12, <2>13 DEF BackupInv
<1> QED
  BY <1>3, <1>6, <1>7, <1>8 DEF removeOldBackup

\* The cycle answers: its backup counts from now on.
LEMMA CycleAnswers ==
  ASSUME BackupInv, NEW c \in Cycles, answerReady(c)
  PROVE  BackupInv'
<1>1. /\ UNCHANGED <<hour, rots, backups>> /\ FilesTyped /\ BackupsStand /\ cycle[c].pc = "retaining"
      /\ cycle[c] # NoCycle /\ completed' = completed \cup {cycle[c].name} /\ Becomes(c, NoCycle)
  BY DEF BackupInv, answerReady, BackupKeeps, NoCycle
<1>2. \A d \in Cycles \ {c} : cycle[d].pc \notin Active
  BY <1>1, OnlyActive DEF Active
<1>3. PICK n : n = cycle[c].name
  OBVIOUS
<1>4. /\ n \in Nat /\ n \in DOMAIN backups
      /\ \/ Cardinality(DOMAIN backups) >= Retain
         \/ Cardinality(DOMAIN backups) >= Cardinality(completed) + 1
  BY <1>1, <1>3, CycleShape DEF CycleStands
<1>5. /\ Cardinality(DOMAIN backups) \in Nat /\ Cardinality(completed) \in Nat /\ Retain \in Nat
  BY <1>1, CardinalitiesKnown
<1>6. IsFiniteSet(completed') /\ Cardinality(completed') <= Cardinality(completed) + 1 /\ Cardinality(completed') \in Nat
  BY <1>1, <1>5, OneMore DEF FilesTyped
<1>7. FilesTyped'
  BY <1>1, <1>3, <1>4, <1>6 DEF FilesTyped, BadBackups
<1>8. \A k \in completed' : \E m \in DOMAIN backups : m >= k
  BY <1>1, <1>3, <1>4 DEF BackupsStand
<1>9. BackupsStand'
  BY <1>1, <1>4, <1>5, <1>6, <1>8 DEF BackupsStand
<1> QED
  BY <1>1, <1>2, <1>7, <1>9, CycleLeaves

\* Faults: a cycle is killed, a file rots, an operator removes the lock of a cycle that is gone.
LEMMA BackupFaults ==
  ASSUME BackupInv, \/ \E c \in Cycles : KillCycle(c)
                    \/ \E n \in DOMAIN backups : RotBackup(n)
                    \/ RemoveBackupLock
  PROVE  BackupInv'
<1>1. FilesTyped /\ BackupsStand
  BY DEF BackupInv
<1>2. ASSUME NEW c \in Cycles, KillCycle(c) PROVE BackupInv'
  <2>1. UNCHANGED <<hour, rots, backups, backupLock, completed>> /\ Becomes(c, NoCycle)
    BY <1>2 DEF KillCycle
  <2>2. FilesTyped' /\ BackupsStand'
    BY <1>1, <2>1 DEF FilesTyped, BackupsStand, BadBackups
  <2> QED
    BY <2>1, <2>2, CycleLeaves
<1>3. ASSUME NEW n \in DOMAIN backups, RotBackup(n) PROVE BackupInv'
  <2>1. /\ UNCHANGED <<hour, backupLock, completed, cycle>> /\ rots' = rots + 1
        /\ backups' = [backups EXCEPT ![n] = "bad"]
    BY <1>3 DEF RotBackup
  <2>2. /\ DOMAIN backups' = DOMAIN backups /\ backups'[n] = "bad"
        /\ \A m \in DOMAIN backups \ {n} : backups'[m] = backups[m]
    BY <2>1
  <2>3. BadBackups' \in SUBSET (BadBackups \cup {n})
    BY <2>2 DEF BadBackups
  <2>4. IsFiniteSet(BadBackups) /\ Cardinality(BadBackups) \in Nat /\ rots \in Nat /\ Cardinality(BadBackups) <= rots
    BY <1>1, CardinalitiesKnown DEF FilesTyped
  <2>5. IsFiniteSet(BadBackups \cup {n}) /\ Cardinality(BadBackups \cup {n}) <= rots + 1
        /\ Cardinality(BadBackups \cup {n}) \in Nat
    <3>1. IsFiniteSet(BadBackups \cup {n}) /\ Cardinality(BadBackups \cup {n}) \in Nat
          /\ Cardinality(BadBackups \cup {n}) <= Cardinality(BadBackups) + 1
      BY <2>4, OneMore
    <3> QED
      BY <2>4, <3>1
  <2>6. IsFiniteSet(BadBackups') /\ Cardinality(BadBackups') <= Cardinality(BadBackups \cup {n})
    BY <2>3, <2>5, FS_Subset
  <2>7. Cardinality(BadBackups') <= rots'
    BY <2>1, <2>4, <2>5, <2>6, FS_CardinalityType
  <2>8. FilesTyped'
    BY <1>1, <2>1, <2>2, <2>7 DEF FilesTyped
  <2>9. BackupsStand' /\ \A c \in Cycles : CycleStands(c)'
    BY <1>1, <2>1, <2>2 DEF BackupInv, BackupsStand, CycleStands
  <2> QED
    BY <2>1, <2>8, <2>9 DEF BackupInv
<1>4. CASE RemoveBackupLock
  <2>1. UNCHANGED <<hour, rots, backups, completed, cycle>> /\ \A c \in Cycles : cycle[c].pc \notin Active
    BY <1>4 DEF RemoveBackupLock, BackupKeeps, Active
  <2>2. FilesTyped' /\ BackupsStand'
    BY <1>1, <2>1 DEF FilesTyped, BackupsStand, BadBackups
  <2>3. \A c \in Cycles : CycleStands(c)'
    BY <2>1 DEF BackupInv, CycleStands, Active
  <2> QED
    BY <2>1, <2>2, <2>3 DEF BackupInv
<1> QED
  BY <1>2, <1>3, <1>4

Bodies == [source : Nat, keys : SUBSET KeyIds, content : {"good", "bad"}, copy : {"intact", "rotten"}]
PackageRows == [body : Bodies, digest : Digests]
CustodyRows ==
  {NoCycle} \cup [pc : {"chosen", "verified"}, source : Nat, keys : SUBSET KeyIds]
            \cup [pc : {"sealed"}, package : Bodies]
            \cup [pc : {"published", "retaining"}, package : PackageRows]

Spoilt == {p \in packages : ~(p.body.copy = "intact" /\ p.body.content = "good")}

\* A backup that rotted between its verification and its sealing is about to be published.
Pending ==
  \/ custody.pc = "verified" /\ custody.source \in DOMAIN backups /\ backups[custody.source] # "good"
  \/ custody.pc = "sealed" /\ custody.package.content # "good"

PackagesTyped ==
  /\ packages \subseteq PackageRows /\ IsFiniteSet(packages)
  /\ \A p \in packages : p.body.source <= hour /\ p.body.keys # {}
  /\ \A p, q \in packages : p.body.source = q.body.source /\ p.digest = q.digest => p = q
  /\ custody \in CustodyRows
  /\ custodyDone \in Nat /\ custodyNewest \in Nat /\ custodyNewest <= hour
  /\ recipients \subseteq KeyIds

PackagesStand ==
  /\ Cardinality(packages) >= Retain \/ Cardinality(packages) >= custodyDone
  /\ custodyNewest > 0 => \E p \in packages : p.body.source >= custodyNewest
  /\ Cardinality(Spoilt) <= rots /\ (Pending => Cardinality(Spoilt) + 1 <= rots)

CustodyStands ==
  /\ custody.pc \in {"chosen", "verified"} => custody.source <= hour /\ custody.keys # {}
  /\ custody.pc = "sealed" =>
       custody.package.source <= hour /\ custody.package.keys # {} /\ custody.package.copy = "intact"
  /\ custody.pc = "published" =>
       /\ \E q \in packages : q \in Named(custody.package)
       /\ Cardinality(packages) >= Retain + 1 \/ Cardinality(packages) >= custodyDone + 1
       /\ custodyNewest > 0 => \E p \in packages \ Named(custody.package) : p.body.source >= custodyNewest
  /\ custody.pc = "retaining" =>
       /\ \E q \in packages : q \in Named(custody.package)
       /\ Cardinality(packages) >= Retain \/ Cardinality(packages) >= custodyDone + 1

CustodyInv == PackagesTyped /\ PackagesStand /\ CustodyStands

\* What custody is doing tells what it keeps.
LEMMA CustodyShape ==
  ASSUME PackagesTyped
  PROVE  /\ custody.pc \in {"chosen", "verified"} =>
              custody \in [pc : {"chosen", "verified"}, source : Nat, keys : SUBSET KeyIds]
         /\ custody.pc = "sealed" => custody \in [pc : {"sealed"}, package : Bodies]
         /\ custody.pc \in {"published", "retaining"} =>
              custody \in [pc : {"published", "retaining"}, package : PackageRows]
BY DEF PackagesTyped, CustodyRows, NoCycle

\* So can the packages in custody, and the spoilt ones among them.
LEMMA PackagesCounted ==
  ASSUME PackagesTyped
  PROVE  /\ Cardinality(packages) \in Nat /\ IsFiniteSet(Spoilt) /\ Cardinality(Spoilt) \in Nat
         /\ Retain \in Nat /\ Retain >= 2
<1>1. Spoilt \in SUBSET packages
  BY DEF Spoilt
<1>2. IsFiniteSet(Spoilt)
  BY <1>1, FS_Subset DEF PackagesTyped
<1> QED
  BY <1>2, FS_CardinalityType, BackupAssumption DEF PackagesTyped

\* Steps beside custody.
LEMMA CustodyAside ==
  ASSUME CustodyInv, FilesTyped, UNCHANGED <<packages, custody, custodyDone, custodyNewest>>,
         recipients' \subseteq KeyIds, hour' \in Nat, hour' >= hour, rots' \in Nat, rots' >= rots,
         Pending' => Pending \/ rots' = rots + 1
  PROVE  CustodyInv'
<1>1. PackagesTyped /\ hour \in Nat /\ rots \in Nat
  BY DEF CustodyInv, FilesTyped
<1>2. PackagesTyped'
  <2>1. \A p \in packages : p.body.source \in Nat /\ p.body.source <= hour'
    BY <1>1 DEF PackagesTyped, PackageRows, Bodies
  <2> QED
    BY <1>1, <2>1 DEF PackagesTyped
<1>3. PackagesStand'
  <2>1. Spoilt' = Spoilt /\ Cardinality(Spoilt) \in Nat
    BY <1>1, PackagesCounted DEF Spoilt
  <2> QED
    BY <1>1, <2>1 DEF CustodyInv, PackagesStand
<1>4. CustodyStands'
  <2>1. custody.pc \in {"chosen", "verified"} => custody.source \in Nat /\ custody.source <= hour'
    BY <1>1, CustodyShape DEF CustodyInv, CustodyStands
  <2>2. custody.pc = "sealed" => custody.package.source \in Nat /\ custody.package.source <= hour'
    BY <1>1, CustodyShape DEF CustodyInv, CustodyStands, Bodies
  <2> QED
    BY <2>1, <2>2 DEF CustodyInv, CustodyStands, Named
<1> QED
  BY <1>2, <1>3, <1>4 DEF CustodyInv

\* Custody moves on without touching the packages.
LEMMA CustodyMoves ==
  ASSUME CustodyInv, UNCHANGED <<packages, custodyDone, custodyNewest, recipients, hour, rots>>,
         custody' \in CustodyRows, CustodyStands', Pending' => Pending
  PROVE  CustodyInv'
BY DEF CustodyInv, PackagesTyped, PackagesStand, Spoilt

\* Custody leaves: some packages may have gone, but enough are left.
LEMMA CustodyLeaves ==
  ASSUME CustodyInv, custody' = NoCycle, packages' \in SUBSET packages,
         UNCHANGED <<custodyDone, custodyNewest, recipients, hour, rots>>, rots \in Nat,
         Cardinality(packages') >= Retain \/ Cardinality(packages') >= custodyDone,
         custodyNewest > 0 => \E p \in packages' : p.body.source >= custodyNewest
  PROVE  CustodyInv'
<1>1. PackagesTyped /\ PackagesStand
  BY DEF CustodyInv
<1>2. NoCycle \in CustodyRows /\ NoCycle.pc = "off"
  BY DEF CustodyRows, NoCycle
<1>3. IsFiniteSet(packages')
  BY <1>1, FS_Subset DEF PackagesTyped
<1>4. PackagesTyped'
  BY <1>1, <1>2, <1>3 DEF PackagesTyped
<1>5. Spoilt' \in SUBSET Spoilt
  BY DEF Spoilt
<1>6. Cardinality(Spoilt') <= rots
  <2>1. IsFiniteSet(Spoilt) /\ Cardinality(Spoilt) \in Nat /\ Cardinality(Spoilt) <= rots
    BY <1>1, PackagesCounted DEF PackagesStand
  <2>2. IsFiniteSet(Spoilt') /\ Cardinality(Spoilt') <= Cardinality(Spoilt)
    BY <1>5, <2>1, FS_Subset
  <2> QED
    BY <2>1, <2>2, FS_CardinalityType
<1>7. ~Pending'
  BY <1>2 DEF Pending
<1>8. PackagesStand'
  BY <1>6, <1>7 DEF PackagesStand
<1>9. CustodyStands'
  BY <1>2 DEF CustodyStands
<1> QED
  BY <1>4, <1>8, <1>9 DEF CustodyInv

\* The earliest and the latest of some packages: by the time of the source, then by the digest.
LEMMA EarliestPackage ==
  ASSUME NEW S, S \subseteq PackageRows, S # {}
  PROVE  /\ Extreme(S, Earlier) \in S
         /\ \A q \in S : Earlier(Extreme(S, Earlier), q)
<1>1. PICK T : T = {p.body.source : p \in S}
  OBVIOUS
<1>2. T \subseteq Nat /\ T # {}
  BY <1>1 DEF PackageRows, Bodies
<1>3. PICK t \in T : \A u \in T : t <= u
  BY <1>2, LeastNatural
<1>4. PICK U : U = {p.digest : p \in {q \in S : q.body.source = t}}
  OBVIOUS
<1>5. U \subseteq Nat /\ U # {}
  BY <1>1, <1>3, <1>4, BackupAssumption DEF PackageRows
<1>6. PICK d \in U : \A e \in U : d <= e
  BY <1>5, LeastNatural
<1>7. PICK p \in S : p.body.source = t /\ p.digest = d
  BY <1>4, <1>6
<1>8. ASSUME NEW q \in S PROVE Earlier(p, q)
  <2>1. q.body.source \in T /\ t <= q.body.source /\ q.body.source \in Nat /\ t \in Nat
    BY <1>1, <1>2, <1>3
  <2>2. CASE q.body.source = t
    BY <1>4, <1>6, <1>7, <2>2 DEF Earlier
  <2>3. CASE q.body.source # t
    BY <1>7, <2>1, <2>3 DEF Earlier
  <2> QED
    BY <2>2, <2>3
<1> QED
  BY <1>7, <1>8 DEF Extreme

\* The latest of some packages is one of them, and no other is later.
LEMMA LatestPackage ==
  ASSUME NEW S, S \subseteq PackageRows, S # {}, NEW top \in Nat, \A p \in S : p.body.source <= top
  PROVE  /\ Extreme(S, LAMBDA p, q : Earlier(q, p)) \in S
         /\ \A q \in S : Earlier(q, Extreme(S, LAMBDA x, y : Earlier(y, x)))
<1>1. PICK T : T = {p.body.source : p \in S}
  OBVIOUS
<1>2. T \subseteq Nat /\ T # {} /\ \A t \in T : t <= top
  BY <1>1 DEF PackageRows, Bodies
<1>3. PICK t \in T : \A u \in T : u <= t
  BY <1>2, MaxIsMax
<1>4. PICK U : U = {p.digest : p \in {q \in S : q.body.source = t}}
  OBVIOUS
<1>5. U \subseteq Nat /\ U # {} /\ U \subseteq Digests
  BY <1>1, <1>3, <1>4, BackupAssumption DEF PackageRows
<1>6. PICK d \in U : \A e \in U : e <= d
  BY <1>5, MaxIsMax, BackupAssumption
<1>7. PICK p \in S : p.body.source = t /\ p.digest = d
  BY <1>4, <1>6
<1>8. ASSUME NEW q \in S PROVE Earlier(q, p)
  <2>1. q.body.source \in T /\ q.body.source <= t /\ q.body.source \in Nat /\ t \in Nat
    BY <1>1, <1>2, <1>3
  <2>2. CASE q.body.source = t
    BY <1>4, <1>6, <1>7, <2>2 DEF Earlier
  <2>3. CASE q.body.source # t
    BY <1>7, <2>1, <2>3 DEF Earlier
  <2> QED
    BY <2>2, <2>3
<1> QED
  BY <1>7, <1>8 DEF Extreme

\* A name is of one package.
LEMMA OneNamed ==
  ASSUME PackagesTyped, NEW x \in PackageRows, NEW q \in Named(x)
  PROVE  Named(x) = {q} /\ q \in packages /\ q.body.source = x.body.source /\ q.digest = x.digest
BY DEF PackagesTyped, Named

\* Before the first package.
LEMMA InitCustody ==
  ASSUME BackupInit
  PROVE  CustodyInv
<1>1. /\ packages = {} /\ custody = NoCycle /\ custodyDone = 0 /\ custodyNewest = 0 /\ recipients = {}
      /\ hour = 1 /\ rots = 0
  BY DEF BackupInit
<1>2. Spoilt = {} /\ NoCycle \in CustodyRows /\ NoCycle.pc = "off"
  BY <1>1 DEF Spoilt, CustodyRows, NoCycle
<1>3. PackagesTyped
  BY <1>1, <1>2, FS_EmptySet DEF PackagesTyped
<1>4. PackagesStand
  BY <1>1, <1>2, FS_EmptySet DEF PackagesStand, Pending
<1>5. CustodyStands
  BY <1>1, <1>2 DEF CustodyStands
<1> QED
  BY <1>3, <1>4, <1>5 DEF CustodyInv

\* A step of custody up to the sealed content.
LEMMA CustodySeals ==
  ASSUME CustodyInv, FilesTyped, startCustody \/ verifySource \/ sealContent
  PROVE  CustodyInv'
<1>1. /\ PackagesTyped /\ PackagesStand /\ CustodyStands /\ hour \in Nat /\ rots \in Nat
      /\ UNCHANGED <<backups, recipients, hour, rots>>
  BY DEF CustodyInv, FilesTyped, startCustody, verifySource, sealContent, CustodyKeeps, backupFiles, keyVars
<1>2. CASE abandonCustody(packages)
  <2>1. custody' = NoCycle /\ packages' = packages /\ UNCHANGED <<custodyDone, custodyNewest>>
    BY <1>2 DEF abandonCustody
  <2> QED
    BY <1>1, <2>1, CustodyLeaves DEF PackagesStand
<1>3. CASE startCustody
  <2>1. /\ custody' = [pc |-> "chosen", source |-> Max(DOMAIN backups), keys |-> recipients]
        /\ UNCHANGED <<packages, custodyDone, custodyNewest>> /\ recipients # {} /\ DOMAIN backups # {}
    BY <1>3 DEF startCustody
  <2>2. Max(DOMAIN backups) \in DOMAIN backups
    BY <2>1, MaxIsMax DEF FilesTyped
  <2>3. Max(DOMAIN backups) \in Nat /\ Max(DOMAIN backups) <= hour
    BY <2>2 DEF FilesTyped
  <2>4. /\ custody' \in [pc : {"chosen", "verified"}, source : Nat, keys : SUBSET KeyIds]
        /\ custody'.pc = "chosen" /\ custody'.source <= hour /\ custody'.keys # {}
    BY <1>1, <2>1, <2>3 DEF PackagesTyped
  <2>5. custody' \in CustodyRows /\ ~Pending' /\ CustodyStands'
    BY <1>1, <2>4 DEF CustodyRows, Pending, CustodyStands
  <2> QED
    BY <1>1, <2>1, <2>5, CustodyMoves
<1>4. CASE verifySource /\ verifyBackup(custody.source)
  <2>1. /\ custody.pc = "chosen" /\ custody' = [custody EXCEPT !.pc = "verified"]
        /\ UNCHANGED <<packages, custodyDone, custodyNewest>>
    BY <1>4 DEF verifySource
  <2>2. custody \in [pc : {"chosen", "verified"}, source : Nat, keys : SUBSET KeyIds]
    BY <1>1, <2>1, CustodyShape
  <2>3. /\ custody' \in [pc : {"chosen", "verified"}, source : Nat, keys : SUBSET KeyIds]
        /\ custody'.pc = "verified" /\ custody'.source = custody.source /\ custody'.keys = custody.keys
    BY <2>1, <2>2
  <2>4. custody' \in CustodyRows /\ CustodyStands'
    BY <1>1, <2>1, <2>3 DEF CustodyRows, CustodyStands
  <2>5. ~Pending'
    BY <1>1, <1>4, <2>3 DEF Pending, verifyBackup
  <2> QED
    BY <1>1, <2>1, <2>4, <2>5, CustodyMoves
<1>5. CASE sealContent /\ custody.source \in DOMAIN backups
  <2>1. PICK b : b = ContentChunkEncryptor(custody.source, custody.keys)
    OBVIOUS
  <2>2. /\ custody.pc = "verified" /\ custody' = [pc |-> "sealed", package |-> b]
        /\ UNCHANGED <<packages, custodyDone, custodyNewest>>
    BY <1>5, <2>1 DEF sealContent
  <2>3. custody \in [pc : {"chosen", "verified"}, source : Nat, keys : SUBSET KeyIds]
    BY <1>1, <2>2, CustodyShape
  <2>4. /\ b \in Bodies /\ b.source = custody.source /\ b.keys = custody.keys
        /\ b.content = backups[custody.source] /\ b.copy = "intact"
    BY <1>5, <2>1, <2>3 DEF ContentChunkEncryptor, Bodies, FilesTyped
  <2>5. custody' \in [pc : {"sealed"}, package : Bodies] /\ custody'.pc = "sealed" /\ custody'.package = b
    BY <2>2, <2>4
  <2>6. custody' \in CustodyRows /\ CustodyStands'
    BY <1>1, <2>2, <2>4, <2>5 DEF CustodyRows, CustodyStands
  <2>7. Pending' => Pending
    BY <1>5, <2>2, <2>4, <2>5 DEF Pending
  <2> QED
    BY <1>1, <2>2, <2>6, <2>7, CustodyMoves
<1> QED
  BY <1>2, <1>3, <1>4, <1>5 DEF verifySource, sealContent

\* A package is published under a name of its own.
LEMMA CustodyPublishes ==
  ASSUME CustodyInv, FilesTyped, publishPackage
  PROVE  CustodyInv'
<1>1. /\ PackagesTyped /\ PackagesStand /\ CustodyStands /\ hour \in Nat /\ rots \in Nat
      /\ UNCHANGED <<recipients, hour, rots, custodyDone, custodyNewest>> /\ custody.pc = "sealed"
      /\ custodyDone \in Nat
  BY DEF CustodyInv, FilesTyped, publishPackage, CustodyKeeps, keyVars, PackagesTyped
<1>2. PICK d \in Digests :
        /\ \A q \in packages : q.body.source # custody.package.source \/ q.digest # d
        /\ packages' = packages \cup {[body |-> custody.package, digest |-> d]}
        /\ custody' = [pc |-> "published", package |-> [body |-> custody.package, digest |-> d]]
  BY DEF publishPackage
<1>3. PICK p : p = [body |-> custody.package, digest |-> d]
  OBVIOUS
<1>4. /\ custody.package \in Bodies /\ custody.package.source <= hour /\ custody.package.keys # {}
      /\ custody.package.copy = "intact"
  BY <1>1, CustodyShape DEF CustodyStands
<1>5. /\ p \in PackageRows /\ p.body = custody.package /\ p.digest = d /\ p \notin packages
  BY <1>2, <1>3, <1>4 DEF PackageRows
<1>6. /\ packages' = packages \cup {p} /\ custody'.pc = "published" /\ custody'.package = p
      /\ custody' \in [pc : {"published", "retaining"}, package : PackageRows]
  BY <1>2, <1>3, <1>5
<1>7. IsFiniteSet(packages') /\ Cardinality(packages') = Cardinality(packages) + 1
  BY <1>1, <1>5, <1>6, FS_AddElement DEF PackagesTyped
<1>8. PackagesTyped'
  <2>1. custody' \in CustodyRows
    BY <1>6 DEF CustodyRows
  <2>2. \A x, y \in packages' : x.body.source = y.body.source /\ x.digest = y.digest => x = y
    BY <1>1, <1>2, <1>5, <1>6 DEF PackagesTyped
  <2>3. \A x \in packages' : x.body.source <= hour /\ x.body.keys # {}
    BY <1>1, <1>4, <1>5, <1>6 DEF PackagesTyped
  <2> QED
    BY <1>1, <1>5, <1>6, <1>7, <2>1, <2>2, <2>3 DEF PackagesTyped
<1>9. Cardinality(packages) \in Nat /\ Retain \in Nat /\ IsFiniteSet(Spoilt) /\ Cardinality(Spoilt) \in Nat
  BY <1>1, PackagesCounted
<1>10. Cardinality(Spoilt') <= rots
  <2>1. CASE p.body.content = "good"
    <3>1. Spoilt' = Spoilt
      BY <1>4, <1>5, <1>6, <2>1 DEF Spoilt
    <3> QED
      BY <1>1, <3>1 DEF PackagesStand
  <2>2. CASE p.body.content # "good"
    <3>1. Spoilt' = Spoilt \cup {p}
      BY <1>5, <1>6, <2>2 DEF Spoilt
    <3>2. Cardinality(Spoilt) + 1 <= rots
      BY <1>1, <1>5, <2>2 DEF PackagesStand, Pending
    <3>3. Cardinality(Spoilt') <= Cardinality(Spoilt) + 1 /\ Cardinality(Spoilt') \in Nat
      BY <1>9, <3>1, OneMore
    <3> QED
      BY <1>1, <1>9, <3>2, <3>3
  <2> QED
    BY <2>1, <2>2
<1>11. ~Pending'
  BY <1>6 DEF Pending
<1>12. PackagesStand'
  BY <1>1, <1>6, <1>7, <1>9, <1>10, <1>11 DEF PackagesStand
<1>13. CustodyStands'
  <2>1. Named(p)' = {p}
    BY <1>2, <1>5, <1>6 DEF Named
  <2>2. packages' \ {p} = packages
    BY <1>5, <1>6
  <2>3. custodyNewest > 0 => \E x \in packages' \ {p} : x.body.source >= custodyNewest
    BY <1>1, <2>2 DEF PackagesStand
  <2>4. Cardinality(packages') >= Retain + 1 \/ Cardinality(packages') >= custodyDone + 1
    BY <1>1, <1>7, <1>9 DEF PackagesStand
  <2>5. Named(custody.package)' = {p} /\ p \in packages'
    BY <1>6, <2>1 DEF Named
  <2> QED
    BY <1>1, <1>6, <2>3, <2>4, <2>5 DEF CustodyStands
<1> QED
  BY <1>8, <1>12, <1>13 DEF CustodyInv

\* The published package is inspected, or goes again.
LEMMA CustodyInspects ==
  ASSUME CustodyInv, FilesTyped, inspectPublished
  PROVE  CustodyInv'
<1>1. /\ PackagesTyped /\ PackagesStand /\ CustodyStands /\ hour \in Nat /\ rots \in Nat
      /\ UNCHANGED <<recipients, hour, rots, custodyDone, custodyNewest>> /\ custody.pc = "published"
      /\ custodyDone \in Nat
  BY DEF CustodyInv, FilesTyped, inspectPublished, CustodyKeeps, keyVars, PackagesTyped, abandonCustody
<1>2. /\ custody \in [pc : {"published", "retaining"}, package : PackageRows]
      /\ custody.package \in PackageRows
  BY <1>1, CustodyShape
<1>3. PICK q \in packages : q \in Named(custody.package)
  BY <1>1 DEF CustodyStands
<1>4. Named(custody.package) = {q}
  BY <1>1, <1>2, <1>3, OneNamed
<1>5. Cardinality(packages) \in Nat /\ Retain \in Nat
  BY <1>1, PackagesCounted
<1>6. CASE abandonCustody(packages \ Named(custody.package))
  <2>1. custody' = NoCycle /\ packages' = packages \ {q}
    BY <1>4, <1>6 DEF abandonCustody
  <2>2. Cardinality(packages') = Cardinality(packages) - 1
    BY <1>1, <2>1, FS_RemoveElement DEF PackagesTyped
  <2>3. Cardinality(packages') >= Retain \/ Cardinality(packages') >= custodyDone
    BY <1>1, <1>5, <2>2 DEF CustodyStands
  <2>4. custodyNewest > 0 => \E p \in packages' : p.body.source >= custodyNewest
    BY <1>1, <1>4, <2>1 DEF CustodyStands
  <2> QED
    BY <1>1, <2>1, <2>3, <2>4, CustodyLeaves
<1>7. CASE custody' = [custody EXCEPT !.pc = "retaining"] /\ packages' = packages
  <2>1. /\ custody' \in [pc : {"published", "retaining"}, package : PackageRows]
        /\ custody'.pc = "retaining" /\ custody'.package = custody.package
    BY <1>2, <1>7
  <2>2. custody' \in CustodyRows /\ ~Pending'
    BY <2>1 DEF CustodyRows, Pending
  <2>3. q \in Named(custody.package)'
    BY <1>3, <1>7, <2>1 DEF Named
  <2>4. CustodyStands'
    BY <1>1, <1>3, <1>5, <1>7, <2>1, <2>3 DEF CustodyStands
  <2> QED
    BY <1>1, <1>7, <2>2, <2>4, CustodyMoves
<1> QED
  BY <1>6, <1>7 DEF inspectPublished

\* A round of the retention of packages.
LEMMA CustodyRemoves ==
  ASSUME CustodyInv, FilesTyped, removeOldPackage
  PROVE  CustodyInv'
<1>1. /\ PackagesTyped /\ PackagesStand /\ CustodyStands /\ hour \in Nat /\ rots \in Nat
      /\ UNCHANGED <<recipients, hour, rots, custodyDone, custodyNewest>> /\ custody.pc = "retaining"
      /\ custodyDone \in Nat /\ custodyNewest \in Nat /\ TooMany(packages)
  BY DEF CustodyInv, FilesTyped, removeOldPackage, CustodyKeeps, keyVars, PackagesTyped, abandonCustody
<1>2. /\ custody \in [pc : {"published", "retaining"}, package : PackageRows]
      /\ custody.package \in PackageRows
  BY <1>1, CustodyShape
<1>3. PICK q \in packages : q \in Named(custody.package)
  BY <1>1 DEF CustodyStands
<1>4. Named(custody.package) = {q}
  BY <1>1, <1>2, <1>3, OneNamed
<1>5. Cardinality(packages) \in Nat /\ Retain \in Nat /\ Retain >= 2 /\ Cardinality(packages) > Retain
  BY <1>1, PackagesCounted DEF TooMany
<1>6. CASE abandonCustody(packages)
  <2>1. custody' = NoCycle /\ packages' = packages
    BY <1>6 DEF abandonCustody
  <2> QED
    BY <1>1, <2>1, CustodyLeaves DEF PackagesStand
<1>7. PICK old : old = Extreme(packages \ Named(custody.package), Earlier)
  OBVIOUS
<1>8. CASE packages' = packages \ {old} /\ custody' = custody
  <2>1. IsFiniteSet(packages \ {q}) /\ Cardinality(packages \ {q}) = Cardinality(packages) - 1
    BY <1>1, FS_RemoveElement DEF PackagesTyped
  <2>2. packages \ {q} # {} /\ packages \ {q} \subseteq PackageRows
    BY <1>1, <1>5, <2>1, FS_EmptySet DEF PackagesTyped
  <2>3. old \in packages \ {q} /\ \A x \in packages \ {q} : Earlier(old, x)
    BY <1>4, <1>7, <2>2, EarliestPackage
  <2>4. IsFiniteSet((packages \ {q}) \ {old}) /\ Cardinality((packages \ {q}) \ {old}) = Cardinality(packages) - 1 - 1
    BY <2>1, <2>3, FS_RemoveElement
  <2>5. (packages \ {q}) \ {old} # {}
    BY <1>5, <2>4, FS_EmptySet
  <2>6. PICK kept : kept \in (packages \ {q}) \ {old}
    BY <2>5
  <2>7. kept \in packages' /\ kept.body.source >= old.body.source /\ kept.body.source \in Nat /\ old.body.source \in Nat
    <3>1. kept.body.source \in Nat /\ old.body.source \in Nat
      BY <1>1, <2>3, <2>6 DEF PackagesTyped, PackageRows, Bodies
    <3> QED
      BY <1>8, <2>3, <2>6, <3>1 DEF Earlier
  <2>8. /\ IsFiniteSet(packages') /\ Cardinality(packages') = Cardinality(packages) - 1
        /\ Cardinality(packages') >= Retain
    <3>1. old \in packages /\ IsFiniteSet(packages)
      BY <1>1, <2>3 DEF PackagesTyped
    <3>2. IsFiniteSet(packages \ {old}) /\ Cardinality(packages \ {old}) = Cardinality(packages) - 1
      BY <3>1, FS_RemoveElement
    <3> QED
      BY <1>5, <1>8, <3>2
  <2>9. ASSUME custodyNewest > 0 PROVE \E p \in packages' : p.body.source >= custodyNewest
    <3>1. PICK m \in packages : m.body.source >= custodyNewest
      BY <1>1, <2>9 DEF PackagesStand
    <3>2. CASE m = old
      BY <1>1, <2>7, <3>1, <3>2
    <3>3. CASE m # old
      BY <1>8, <3>1, <3>3
    <3> QED
      BY <3>2, <3>3
  <2>10. PackagesTyped'
    BY <1>1, <1>8, <2>8 DEF PackagesTyped
  <2>11. Spoilt' \in SUBSET Spoilt
    BY <1>8 DEF Spoilt
  <2>12. Cardinality(Spoilt') <= rots
    <3>1. IsFiniteSet(Spoilt) /\ Cardinality(Spoilt) \in Nat /\ Cardinality(Spoilt) <= rots
      BY <1>1, PackagesCounted DEF PackagesStand
    <3>2. IsFiniteSet(Spoilt') /\ Cardinality(Spoilt') <= Cardinality(Spoilt)
      BY <2>11, <3>1, FS_Subset
    <3> QED
      BY <1>1, <3>1, <3>2, FS_CardinalityType
  <2>13. ~Pending'
    BY <1>1, <1>8 DEF Pending
  <2>14. PackagesStand'
    BY <1>1, <2>8, <2>9, <2>12, <2>13 DEF PackagesStand
  <2>15. q \in packages' /\ q \in Named(custody.package)'
    BY <1>3, <1>8, <2>3 DEF Named
  <2>16. CustodyStands'
    BY <1>1, <1>8, <2>8, <2>15 DEF CustodyStands
  <2> QED
    BY <2>10, <2>14, <2>16 DEF CustodyInv
<1> QED
  BY <1>6, <1>7, <1>8 DEF removeOldPackage

\* The cycle of custody ends: its package counts from now on.
LEMMA CustodyEnds ==
  ASSUME CustodyInv, FilesTyped, endCustody
  PROVE  CustodyInv'
<1>1. /\ PackagesTyped /\ PackagesStand /\ CustodyStands /\ hour \in Nat /\ rots \in Nat
      /\ UNCHANGED <<recipients, hour, rots, packages>> /\ custody.pc = "retaining"
      /\ custodyDone \in Nat /\ custodyNewest \in Nat /\ custodyNewest <= hour /\ custodyDone' = custodyDone + 1
      /\ custodyNewest' = Max({custodyNewest, custody.package.body.source}) /\ custody' = NoCycle
  BY DEF CustodyInv, FilesTyped, endCustody, CustodyKeeps, keyVars, PackagesTyped
<1>2. custody.package \in PackageRows
  BY <1>1, CustodyShape
<1>3. PICK q \in packages : q \in Named(custody.package)
  BY <1>1 DEF CustodyStands
<1>4. /\ q.body.source = custody.package.body.source /\ q.body.source <= hour /\ q.body.source \in Nat
  BY <1>1, <1>2, <1>3 DEF Named, PackagesTyped, PackageRows, Bodies
<1>5. custodyNewest' \in {custodyNewest, q.body.source}
  BY <1>1, <1>4, MaxIsMax
<1>6. Cardinality(packages) \in Nat /\ Retain \in Nat
  BY <1>1, PackagesCounted
<1>7. NoCycle \in CustodyRows /\ NoCycle.pc = "off"
  BY DEF CustodyRows, NoCycle
<1>8. PackagesTyped'
  BY <1>1, <1>4, <1>5, <1>7 DEF PackagesTyped
<1>9. Cardinality(packages) >= Retain \/ Cardinality(packages) >= custodyDone + 1
  BY <1>1 DEF CustodyStands
<1>10. ASSUME custodyNewest' > 0 PROVE \E p \in packages : p.body.source >= custodyNewest'
  <2>1. CASE custodyNewest' = q.body.source
    BY <1>4, <2>1
  <2>2. CASE custodyNewest' = custodyNewest
    BY <1>1, <1>10, <2>2 DEF PackagesStand
  <2> QED
    BY <1>5, <2>1, <2>2
<1>11. ~Pending' /\ Spoilt' = Spoilt
  BY <1>1, <1>7 DEF Pending, Spoilt
<1>12. PackagesStand'
  BY <1>1, <1>9, <1>10, <1>11 DEF PackagesStand
<1>13. CustodyStands'
  BY <1>1, <1>7 DEF CustodyStands
<1> QED
  BY <1>8, <1>12, <1>13 DEF CustodyInv

\* A package rots: it keeps its name.
LEMMA PackageRots ==
  ASSUME CustodyInv, FilesTyped, NEW p \in packages, RotPackage(p)
  PROVE  CustodyInv'
<1>1. /\ PackagesTyped /\ PackagesStand /\ CustodyStands /\ hour \in Nat /\ rots \in Nat
      /\ UNCHANGED <<recipients, hour, custody, custodyDone, custodyNewest>> /\ rots' = rots + 1
      /\ p.body.copy = "intact" /\ packages' = (packages \ {p}) \cup {[p EXCEPT !.body.copy = "rotten"]}
      /\ backups' = backups
  BY DEF CustodyInv, FilesTyped, RotPackage, keyVars, inspectCustodyPackage, backupFiles
<1>2. PICK b : b = [p.body EXCEPT !.copy = "rotten"]
  OBVIOUS
<1>3. PICK new : new = [p EXCEPT !.body = b]
  OBVIOUS
<1>4. p \in PackageRows /\ p.body \in Bodies
  BY <1>1 DEF PackagesTyped, PackageRows
<1>5. b \in Bodies /\ b.source = p.body.source /\ b.keys = p.body.keys /\ b.copy = "rotten"
  BY <1>2, <1>4 DEF Bodies
<1>6. new \in PackageRows /\ new.body = b /\ new.digest = p.digest
  BY <1>3, <1>4, <1>5 DEF PackageRows
<1>7. packages' = (packages \ {p}) \cup {new}
  BY <1>1, <1>2, <1>3
<1>8. new \notin packages
  <2> SUFFICES ASSUME new \in packages PROVE FALSE
    OBVIOUS
  <2>1. new = p
    BY <1>1, <1>5, <1>6 DEF PackagesTyped
  <2> QED
    BY <1>1, <1>5, <1>6, <2>1
<1>9. IsFiniteSet(packages \ {p}) /\ Cardinality(packages \ {p}) = Cardinality(packages) - 1 /\ new \notin packages \ {p}
  BY <1>1, <1>8, FS_RemoveElement DEF PackagesTyped
<1>10. IsFiniteSet(packages') /\ Cardinality(packages') = Cardinality(packages) - 1 + 1
  BY <1>7, <1>9, FS_AddElement
<1>11. Cardinality(packages) \in Nat /\ IsFiniteSet(Spoilt) /\ Cardinality(Spoilt) \in Nat
  BY <1>1, PackagesCounted
<1>12. Cardinality(packages') = Cardinality(packages)
  BY <1>10, <1>11
<1>13. PackagesTyped'
  <2>1. \A x, y \in packages' : x.body.source = y.body.source /\ x.digest = y.digest => x = y
    BY <1>1, <1>5, <1>6, <1>7 DEF PackagesTyped
  <2>2. \A x \in packages' : x.body.source <= hour /\ x.body.keys # {}
    BY <1>1, <1>5, <1>6, <1>7 DEF PackagesTyped
  <2> QED
    BY <1>1, <1>6, <1>7, <1>10, <2>1, <2>2 DEF PackagesTyped
<1>14. Cardinality(Spoilt') <= Cardinality(Spoilt) + 1 /\ Cardinality(Spoilt') \in Nat
  <2>1. Spoilt' \in SUBSET (Spoilt \cup {new})
    BY <1>7 DEF Spoilt
  <2>2. IsFiniteSet(Spoilt \cup {new}) /\ Cardinality(Spoilt \cup {new}) <= Cardinality(Spoilt) + 1
        /\ Cardinality(Spoilt \cup {new}) \in Nat
    BY <1>11, OneMore
  <2>3. IsFiniteSet(Spoilt') /\ Cardinality(Spoilt') <= Cardinality(Spoilt \cup {new})
    BY <2>1, <2>2, FS_Subset
  <2>4. Cardinality(Spoilt') \in Nat
    BY <2>3, FS_CardinalityType
  <2> QED
    BY <1>11, <2>2, <2>3, <2>4
<1>15. Pending' <=> Pending
  BY <1>1 DEF Pending
<1>16. Cardinality(Spoilt') <= rots' /\ (Pending' => Cardinality(Spoilt') + 1 <= rots')
  BY <1>1, <1>11, <1>14, <1>15 DEF PackagesStand
<1>17. ASSUME NEW x \in packages
       PROVE  \E y \in packages' : y.body.source = x.body.source /\ y.digest = x.digest
  BY <1>5, <1>6, <1>7
<1>18. PackagesStand'
  BY <1>1, <1>12, <1>16, <1>17 DEF PackagesStand
<1>19. CustodyStands'
  <2>1. ASSUME NEW x, \E q \in packages : q \in Named(x)
        PROVE  \E y \in packages' : y \in Named(x)'
    BY <1>17, <2>1 DEF Named
  <2>2. ASSUME NEW x, NEW t \in packages \ Named(x)
        PROVE  \E y \in packages' \ Named(x)' : y.body.source = t.body.source
    BY <1>17 DEF Named
  <2>3. (\E q \in packages : q \in Named(custody.package)) => \E y \in packages' : y \in Named(custody.package)'
    <3>1. PICK x : x = custody.package
      OBVIOUS
    <3>2. Named(custody.package)' = Named(x)' /\ Named(custody.package) = Named(x)
      BY <1>1, <3>1 DEF Named
    <3> QED
      BY <2>1, <3>2
  <2>4. (\E t \in packages \ Named(custody.package) : t.body.source >= custodyNewest) =>
          \E y \in packages' \ Named(custody.package)' : y.body.source >= custodyNewest
    <3>1. PICK x : x = custody.package
      OBVIOUS
    <3>2. Named(custody.package)' = Named(x)' /\ Named(custody.package) = Named(x)
      BY <1>1, <3>1 DEF Named
    <3> QED
      BY <2>2, <3>2
  <2> QED
    BY <1>1, <1>12, <2>3, <2>4 DEF CustodyStands
<1> QED
  BY <1>13, <1>18, <1>19 DEF CustodyInv

\* What was recovered was good, and opened by a key its package was sealed for.
KeysStand == RecoveredIsVerified

CopiesInv == BackupInv /\ CustodyInv /\ KeysStand

\* Steps on the backups do not disturb custody, but for a file that rots under it.
LEMMA BackupSteps ==
  ASSUME CopiesInv,
         \/ \E c \in Cycles : \/ startCycle(c) \/ acquireBackupLock(c) \/ createBackup(c)
                              \/ verifyCreated(c) \/ removeOldBackup(c) \/ answerReady(c) \/ KillCycle(c)
         \/ \E n \in DOMAIN backups : RotBackup(n)
         \/ RemoveBackupLock
  PROVE  CopiesInv'
<1>1. FilesTyped /\ hour \in Nat /\ rots \in Nat /\ recipients \subseteq KeyIds
  BY DEF CopiesInv, BackupInv, FilesTyped, CustodyInv, PackagesTyped
<1>2. /\ UNCHANGED <<packages, custody, custodyDone, custodyNewest, recipients, held, recovered, hour>>
  BY DEF startCycle, acquireBackupLock, createBackup, verifyCreated, removeOldBackup, answerReady, KillCycle, RotBackup,
         RemoveBackupLock, BackupKeeps, custodyFiles, keyVars
<1>3. BackupInv'
  BY CycleBegins, CycleCreates, CycleVerifies, CycleRemoves, CycleAnswers, BackupFaults DEF CopiesInv
<1>4. \/ rots' = rots + 1
      \/ rots' = rots /\ \A n \in DOMAIN backups' : backups'[n] # "good" => n \in DOMAIN backups /\ backups[n] # "good"
  <2>1. CASE \E n \in DOMAIN backups : RotBackup(n)
    BY <2>1 DEF RotBackup
  <2>2. ASSUME NEW c \in Cycles, createBackup(c)
        PROVE rots' = rots /\ \A n \in DOMAIN backups' : backups'[n] # "good" => n \in DOMAIN backups /\ backups[n] # "good"
    BY <2>2 DEF createBackup, BackupKeeps, abandonCycle
  <2>3. ASSUME NEW c \in Cycles, verifyCreated(c) \/ removeOldBackup(c)
        PROVE rots' = rots /\ \A n \in DOMAIN backups' : backups'[n] # "good" => n \in DOMAIN backups /\ backups[n] # "good"
    BY <2>3 DEF verifyCreated, removeOldBackup, BackupKeeps, abandonCycle, Without
  <2>4. ASSUME \/ \E c \in Cycles : startCycle(c) \/ acquireBackupLock(c) \/ answerReady(c) \/ KillCycle(c)
               \/ RemoveBackupLock
        PROVE  rots' = rots /\ backups' = backups
    BY <2>4 DEF startCycle, acquireBackupLock, answerReady, KillCycle, RemoveBackupLock, BackupKeeps
  <2> QED
    BY <2>1, <2>2, <2>3, <2>4
<1>5. Pending' => Pending \/ rots' = rots + 1
  BY <1>2, <1>4 DEF Pending
<1>6. hour' \in Nat /\ hour' >= hour /\ rots' \in Nat /\ rots' >= rots
  BY <1>1, <1>2, <1>4
<1>7. CustodyInv'
  BY <1>1, <1>2, <1>5, <1>6, CustodyAside DEF CopiesInv
<1>8. KeysStand'
  BY <1>2 DEF CopiesInv, KeysStand, RecoveredIsVerified
<1> QED
  BY <1>3, <1>7, <1>8 DEF CopiesInv

\* Steps of custody read the backups and leave them alone.
LEMMA CustodySteps ==
  ASSUME CopiesInv,
         \/ startCustody \/ verifySource \/ sealContent \/ publishPackage
         \/ inspectPublished \/ removeOldPackage \/ endCustody \/ KillCustody
         \/ \E p \in packages : RotPackage(p)
         \/ RemoveCustodyLock
  PROVE  CopiesInv'
<1>1. FilesTyped /\ hour \in Nat /\ rots \in Nat /\ CustodyInv /\ recipients \subseteq KeyIds
  BY DEF CopiesInv, BackupInv, FilesTyped, CustodyInv, PackagesTyped
<1>2. UNCHANGED <<backups, backupLock, cycle, completed, hour, recipients, held, recovered>>
  BY DEF startCustody, verifySource, sealContent, publishPackage, inspectPublished, removeOldPackage, endCustody,
         KillCustody, RotPackage, RemoveCustodyLock, CustodyKeeps, backupFiles, keyVars
<1>3. rots' = rots \/ rots' = rots + 1
  BY DEF startCustody, verifySource, sealContent, publishPackage, inspectPublished, removeOldPackage, endCustody,
         KillCustody, RotPackage, RemoveCustodyLock, CustodyKeeps
<1>4. BackupInv'
  BY <1>1, <1>2, <1>3, BackupsAside DEF CopiesInv
<1>5. CustodyInv'
  <2>1. CASE KillCustody
    <3>1. /\ custody' = NoCycle /\ packages' = packages
          /\ UNCHANGED <<custodyDone, custodyNewest, recipients, hour, rots>>
      BY <2>1 DEF KillCustody, keyVars
    <3> QED
      BY <1>1, <3>1, CustodyLeaves DEF CustodyInv, PackagesStand
  <2>2. CASE RemoveCustodyLock
    <3>1. UNCHANGED <<packages, custody, custodyDone, custodyNewest, rots, backups>>
      BY <2>2 DEF RemoveCustodyLock, CustodyKeeps, backupFiles
    <3>2. Pending' => Pending
      BY <3>1 DEF Pending
    <3> QED
      BY <1>1, <1>2, <3>1, <3>2, CustodyAside
  <2> QED
    BY <1>1, <2>1, <2>2, CustodySeals, CustodyPublishes, CustodyInspects, CustodyRemoves, CustodyEnds, PackageRots
<1>6. KeysStand'
  BY <1>2 DEF CopiesInv, KeysStand, RecoveredIsVerified
<1> QED
  BY <1>4, <1>5, <1>6 DEF CopiesInv

\* Keys, the extraction of a package, and time.
LEMMA KeySteps ==
  ASSUME CopiesInv,
         \/ \E k \in KeyIds : generateCustodyRecipient(k)
         \/ \E S \in SUBSET KeyIds : parseCustodyRecipients(S)
         \/ \E p \in packages, k \in KeyIds : extractCustodyPackage(p, k)
         \/ AdvanceHour
  PROVE  CopiesInv'
<1>1. FilesTyped /\ hour \in Nat /\ rots \in Nat /\ CustodyInv /\ recipients \subseteq KeyIds
  BY DEF CopiesInv, BackupInv, FilesTyped, CustodyInv, PackagesTyped
<1>2. /\ UNCHANGED <<backups, backupLock, cycle, completed, rots>>
      /\ UNCHANGED <<packages, custody, custodyDone, custodyNewest>>
  BY DEF generateCustodyRecipient, parseCustodyRecipients, extractCustodyPackage, AdvanceHour, KeyKeeps, backupFiles,
         custodyFiles
<1>3. hour' \in Nat /\ hour' >= hour /\ recipients' \subseteq KeyIds
  BY <1>1 DEF generateCustodyRecipient, parseCustodyRecipients, extractCustodyPackage, AdvanceHour, KeyKeeps, keyVars
<1>4. BackupInv'
  BY <1>1, <1>2, <1>3, BackupsAside DEF CopiesInv
<1>5. Pending' => Pending
  BY <1>2 DEF Pending
<1>6. CustodyInv'
  BY <1>1, <1>2, <1>3, <1>5, CustodyAside
<1>7. KeysStand'
  <2>1. CASE AdvanceHour \/ \E S \in SUBSET KeyIds : parseCustodyRecipients(S)
    BY <2>1 DEF AdvanceHour, parseCustodyRecipients, keyVars, CopiesInv, KeysStand, RecoveredIsVerified
  <2>2. CASE \E k \in KeyIds : generateCustodyRecipient(k)
    BY <2>2 DEF generateCustodyRecipient, CopiesInv, KeysStand, RecoveredIsVerified
  <2>3. ASSUME NEW p \in packages, NEW k \in KeyIds, extractCustodyPackage(p, k)
        PROVE  KeysStand'
    <3>1. /\ InnerExtractor(p, k).content = "good" /\ recovered' = {InnerExtractor(p, k)} /\ held' = held
          /\ k \in p.body.keys /\ k \in held
      BY <2>3 DEF extractCustodyPackage, unwrapContentKey, readPrivateKey
    <3>2. InnerExtractor(p, k).key = k /\ InnerExtractor(p, k).keys = p.body.keys
      BY DEF InnerExtractor
    <3> QED
      BY <3>1, <3>2 DEF KeysStand, RecoveredIsVerified
  <2> QED
    BY <2>1, <2>2, <2>3
<1> QED
  BY <1>4, <1>6, <1>7 DEF CopiesInv

\* CopiesInv is inductive.
LEMMA CopiesStep ==
  ASSUME CopiesInv, [BackupNext]_backupVars
  PROVE  CopiesInv'
<1>1. CASE UNCHANGED backupVars
  <2>1. FilesTyped /\ hour \in Nat /\ rots \in Nat /\ CustodyInv /\ recipients \subseteq KeyIds
    BY DEF CopiesInv, BackupInv, FilesTyped, CustodyInv, PackagesTyped
  <2>2. /\ UNCHANGED <<backups, backupLock, cycle, completed, rots, hour>>
        /\ UNCHANGED <<packages, custody, custodyDone, custodyNewest, recipients, held, recovered>>
    BY <1>1 DEF backupVars, backupFiles, custodyFiles, keyVars
  <2>3. BackupInv'
    BY <2>1, <2>2, BackupsAside DEF CopiesInv
  <2>4. Pending' => Pending
    BY <2>2 DEF Pending
  <2>5. CustodyInv'
    BY <2>1, <2>2, <2>4, CustodyAside
  <2> QED
    BY <2>2, <2>3, <2>5 DEF CopiesInv, KeysStand, RecoveredIsVerified
<1>2. CASE BackupNext
  BY <1>2, BackupSteps, CustodySteps, KeySteps DEF BackupNext
<1> QED
  BY <1>1, <1>2

\* The smaller of two numbers.
LEMMA MinOfTwo ==
  ASSUME NEW a \in Nat, NEW b \in Nat
  PROVE  Min({a, b}) \in Nat /\ Min({a, b}) <= a /\ Min({a, b}) <= b
<1>1. {a, b} \subseteq Nat /\ {a, b} # {}
  OBVIOUS
<1> QED
  BY <1>1, MinIsLeast

\* Of a set in two halves, what one half lacks the other has.
LEMMA TwoHalves ==
  ASSUME NEW S, IsFiniteSet(S), NEW A \in SUBSET S, NEW B \in SUBSET S, S = A \cup B
  PROVE  /\ Cardinality(S) <= Cardinality(A) + Cardinality(B)
         /\ Cardinality(S) \in Nat /\ Cardinality(A) \in Nat /\ Cardinality(B) \in Nat
<1>1. IsFiniteSet(A) /\ IsFiniteSet(B) /\ IsFiniteSet(A \cap B)
  BY FS_Subset
<1>2. Cardinality(S) = Cardinality(A) + Cardinality(B) - Cardinality(A \cap B)
  BY <1>1, FS_Union
<1>3. /\ Cardinality(S) \in Nat /\ Cardinality(A) \in Nat /\ Cardinality(B) \in Nat /\ Cardinality(A \cap B) \in Nat
  BY <1>1, FS_CardinalityType
<1> QED
  BY <1>2, <1>3

\* Enough is kept.
LEMMA EnoughIsKept ==
  ASSUME CopiesInv
  PROVE  RetentionKeepsEnough
<1>1. FilesTyped /\ BackupsStand /\ PackagesTyped /\ PackagesStand /\ rots \in Nat /\ custodyDone \in Nat
  BY DEF CopiesInv, BackupInv, CustodyInv, FilesTyped, PackagesTyped
<1>2. PICK G : G = {n \in DOMAIN backups : verifyBackup(n)}
  OBVIOUS
<1>3. G \in SUBSET DOMAIN backups /\ BadBackups \in SUBSET DOMAIN backups /\ DOMAIN backups = G \cup BadBackups
  BY <1>2 DEF BadBackups, verifyBackup
<1>4. /\ Cardinality(DOMAIN backups) <= Cardinality(G) + Cardinality(BadBackups)
      /\ Cardinality(DOMAIN backups) \in Nat /\ Cardinality(G) \in Nat /\ Cardinality(BadBackups) \in Nat
  BY <1>1, <1>3, TwoHalves DEF FilesTyped
<1>5. Cardinality(completed) \in Nat /\ Retain \in Nat
  BY <1>1, CardinalitiesKnown
<1>6. Cardinality(G) + rots >= Cardinality(DOMAIN backups)
  BY <1>1, <1>4 DEF FilesTyped
<1>7. /\ Min({Retain, Cardinality(completed)}) \in Nat /\ Min({Retain, Cardinality(completed)}) <= Retain
      /\ Min({Retain, Cardinality(completed)}) <= Cardinality(completed)
  BY <1>5, MinOfTwo
<1>8. Cardinality(G) + rots >= Min({Retain, Cardinality(completed)})
  BY <1>1, <1>4, <1>5, <1>6, <1>7 DEF BackupsStand
<1>9. PICK H : H = {p \in packages : p.body.copy = "intact" /\ p.body.content = "good"}
  OBVIOUS
<1>10. H \in SUBSET packages /\ Spoilt \in SUBSET packages /\ packages = H \cup Spoilt
  BY <1>9 DEF Spoilt
<1>11. /\ Cardinality(packages) <= Cardinality(H) + Cardinality(Spoilt)
       /\ Cardinality(packages) \in Nat /\ Cardinality(H) \in Nat /\ Cardinality(Spoilt) \in Nat
  BY <1>1, <1>10, TwoHalves DEF PackagesTyped
<1>12. Cardinality(H) + rots >= Cardinality(packages)
  BY <1>1, <1>11 DEF PackagesStand
<1>13. /\ Min({Retain, custodyDone}) \in Nat /\ Min({Retain, custodyDone}) <= Retain
       /\ Min({Retain, custodyDone}) <= custodyDone
  BY <1>1, <1>5, MinOfTwo
<1>14. Cardinality(H) + rots >= Min({Retain, custodyDone})
  BY <1>1, <1>5, <1>11, <1>12, <1>13 DEF PackagesStand
<1> QED
  BY <1>2, <1>8, <1>9, <1>14 DEF RetentionKeepsEnough

\* A newest copy that is not too old is ready.
LEMMA ReadyWhenRecent ==
  ASSUME hour \in Nat, MaxAge \in Nat, NEW n \in Nat, NEW m \in Nat, n <= m, m <= hour, hour - n <= MaxAge
  PROVE  readinessResult(m) = "ready"
BY DEF readinessResult

\* No false alarm.
LEMMA NoAlarm ==
  ASSUME CopiesInv
  PROVE  NoFalseAlarm
<1> SUFFICES ASSUME rots = 0
             PROVE  /\ (\E n \in completed : hour - n <= MaxAge) => checkLatestBackup = "ready"
                    /\ custodyNewest > 0 /\ hour - custodyNewest <= MaxAge => checkLatestCustody = "ready"
  BY DEF NoFalseAlarm
<1>1. FilesTyped /\ BackupsStand /\ PackagesTyped /\ PackagesStand /\ hour \in Nat /\ MaxAge \in Nat
  BY BackupAssumption DEF CopiesInv, BackupInv, CustodyInv, FilesTyped
<1>2. BadBackups = {}
  <2>1. IsFiniteSet(BadBackups) /\ Cardinality(BadBackups) = 0
    BY <1>1, CardinalitiesKnown DEF FilesTyped
  <2> QED
    BY <2>1, FS_EmptySet
<1>3. Spoilt = {}
  <2>1. IsFiniteSet(Spoilt) /\ Cardinality(Spoilt) = 0
    BY <1>1, PackagesCounted DEF PackagesStand
  <2> QED
    BY <2>1, FS_EmptySet
<1>4. ASSUME NEW n \in completed, hour - n <= MaxAge
      PROVE  checkLatestBackup = "ready"
  <2>1. PICK m \in DOMAIN backups : m >= n
    BY <1>1 DEF BackupsStand
  <2>2. PICK newest : newest = Max(DOMAIN backups)
    OBVIOUS
  <2>3. newest \in DOMAIN backups /\ \A x \in DOMAIN backups : x <= newest
    BY <1>1, <2>1, <2>2, MaxIsMax DEF FilesTyped
  <2>4. newest \in Nat /\ newest <= hour /\ n \in Nat /\ n <= newest
    BY <1>1, <2>1, <2>3 DEF FilesTyped
  <2>5. verifyBackup(newest)
    BY <1>2, <2>3 DEF BadBackups, verifyBackup
  <2>6. readinessResult(newest) = "ready"
    BY <1>1, <1>4, <2>4, ReadyWhenRecent
  <2> QED
    BY <2>1, <2>2, <2>5, <2>6 DEF checkLatestBackup
<1>5. ASSUME custodyNewest > 0, hour - custodyNewest <= MaxAge
      PROVE  checkLatestCustody = "ready"
  <2>1. PICK p \in packages : p.body.source >= custodyNewest
    BY <1>1, <1>5 DEF PackagesStand
  <2>2. PICK newest : newest = Extreme(packages, LAMBDA x, y : Earlier(y, x))
    OBVIOUS
  <2>3. newest \in packages /\ \A q \in packages : Earlier(q, newest)
    BY <1>1, <2>1, <2>2, LatestPackage DEF PackagesTyped
  <2>4. /\ newest.body.source \in Nat /\ p.body.source \in Nat /\ custodyNewest \in Nat /\ newest.body.source <= hour
        /\ newest.body.keys # {}
    BY <1>1, <2>1, <2>3 DEF PackagesTyped, PackageRows, Bodies
  <2>5. custodyNewest <= newest.body.source
    BY <2>1, <2>3, <2>4 DEF Earlier
  <2>6. inspectCustodyPackage(newest)
    BY <1>3, <2>3, <2>4 DEF Spoilt, inspectCustodyPackage, validateHeader
  <2>7. readinessResult(newest.body.source) = "ready"
    BY <1>1, <1>5, <2>4, <2>5, ReadyWhenRecent
  <2> QED
    BY <2>1, <2>2, <2>6, <2>7 DEF checkLatestCustody
<1> QED
  BY <1>4, <1>5

\* Retention keeps enough verified copies, the checks raise no false alarm over them, and what is
\* extracted was verified: for any number of cycles, packages and keys, any retention of at least two,
\* and however many files rot or cycles are killed.
THEOREM BackupsAreSound == BackupSpec => []BackupsSound
<1>1. BackupInit => CopiesInv
  BY InitBackups, InitCustody DEF CopiesInv, KeysStand, RecoveredIsVerified, BackupInit
<1>2. CopiesInv => BackupsSound
  BY EnoughIsKept, NoAlarm DEF CopiesInv, KeysStand, BackupsSound
<1> QED
  BY <1>1, <1>2, CopiesStep, PTL DEF BackupSpec

-----------------------------------------------------------------------------
(* AlertSpool.                                                             *)

SpoolTyped ==
    /\ pending \subseteq 1..failures /\ reported \subseteq 1..failures /\ IsFiniteSet(acknowledged)
    /\ partials \in Nat /\ overflow \in Nat /\ answered \in Nat /\ failures \in Nat /\ kills \in Nat
    /\ \/ spool = Idle
       \/ spool = [pc |-> "moved"]
       \/ /\ failures > 0
          /\ \E pc \in {"locked", "written", "recorded"} : spool = [pc |-> pc, failure |-> failures]

\* The failure whose record is under way has no record yet; when it has, it is one that is
\* not reported.
RecordStands ==
    /\ spool.pc \in {"locked", "written"} => failures \notin pending
    /\ spool.pc = "written" => partials > 0
    /\ LET underWay == IF spool.pc = "recorded" THEN 1 ELSE 0
       IN  Cardinality(reported) + underWay <= Cardinality(pending) + overflow + answered

\* One move is more than the limit while an acknowledgement is under way, and for each that
\* was killed.
LimitsStand ==
    /\ Cardinality(pending) + partials <= MaxPending
    /\ Cardinality(acknowledged) <= MaxAcknowledged + kills + (IF spool.pc = "moved" THEN 1 ELSE 0)

SpoolInv == SpoolTyped /\ RecordStands /\ LimitsStand

\* The cardinalities of the spool's sets are naturals.
LEMMA SpoolCounts ==
  ASSUME SpoolTyped
  PROVE  /\ IsFiniteSet(pending) /\ IsFiniteSet(reported)
         /\ Cardinality(pending) \in Nat /\ Cardinality(reported) \in Nat /\ Cardinality(acknowledged) \in Nat
<1>1. IsFiniteSet(1..failures)
  BY FS_Interval DEF SpoolTyped
<1>2. IsFiniteSet(pending) /\ IsFiniteSet(reported)
  BY <1>1, FS_Subset DEF SpoolTyped
<1> QED
  BY <1>2, FS_CardinalityType DEF SpoolTyped

\* An empty spool.
LEMMA SpoolStarts == SpoolInit => SpoolInv
<1> SUFFICES ASSUME SpoolInit PROVE SpoolInv
  OBVIOUS
<1>1. IsFiniteSet({}) /\ Cardinality({}) = 0
  BY FS_EmptySet
<1>2. SpoolTyped
  BY <1>1 DEF SpoolInit, SpoolTyped
<1>3. RecordStands /\ LimitsStand
  BY <1>1, SpoolAssumption DEF SpoolInit, RecordStands, LimitsStand, Idle
<1> QED
  BY <1>2, <1>3 DEF SpoolInv

\* Every command, step by step, and a kill between any two of them.
LEMMA SpoolStep == SpoolInv /\ [SpoolNext]_spoolVars => SpoolInv'
<1> SUFFICES ASSUME SpoolInv, [SpoolNext]_spoolVars PROVE SpoolInv'
  OBVIOUS
<1>0. SpoolTyped /\ RecordStands /\ LimitsStand
  BY DEF SpoolInv
<1>00. /\ IsFiniteSet(pending) /\ IsFiniteSet(reported) /\ IsFiniteSet(acknowledged)
       /\ Cardinality(pending) \in Nat /\ Cardinality(reported) \in Nat /\ Cardinality(acknowledged) \in Nat
       /\ partials \in Nat /\ overflow \in Nat /\ answered \in Nat /\ failures \in Nat /\ kills \in Nat
       /\ MaxPending \in Nat /\ MaxAcknowledged \in Nat
  BY <1>0, SpoolCounts, SpoolAssumption DEF SpoolTyped
<1>1. CASE acquire_lock
  <2>1. SpoolTyped'
    BY <1>0, <1>00, <1>1 DEF SpoolTyped, acquire_lock
  <2>2. failures + 1 \notin pending
    BY <1>0, <1>00 DEF SpoolTyped
  <2>3. RecordStands' /\ LimitsStand'
    BY <1>0, <1>00, <1>1, <2>2 DEF RecordStands, LimitsStand, acquire_lock
  <2> QED BY <2>1, <2>3 DEF SpoolInv
<1>2. CASE write_overflow
  <2>1. spool = [pc |-> "locked", failure |-> failures] /\ failures > 0
    BY <1>0, <1>2 DEF SpoolTyped, write_overflow, Idle
  <2>2. SpoolTyped'
    BY <1>0, <1>00, <1>2, <2>1 DEF SpoolTyped, write_overflow
  <2>3. RecordStands' /\ LimitsStand'
    BY <1>0, <1>00, <1>2, <2>1 DEF RecordStands, LimitsStand, write_overflow
  <2> QED BY <2>2, <2>3 DEF SpoolInv
<1>3. CASE write_temporary
  <2>1. spool = [pc |-> "locked", failure |-> failures] /\ failures > 0
    BY <1>0, <1>3 DEF SpoolTyped, write_temporary, Idle
  <2>2. SpoolTyped'
    BY <1>0, <1>00, <1>3, <2>1 DEF SpoolTyped, write_temporary
  <2>3. RecordStands' /\ LimitsStand'
    BY <1>0, <1>00, <1>3, <2>1 DEF RecordStands, LimitsStand, write_temporary, count_pending
  <2> QED BY <2>2, <2>3 DEF SpoolInv
<1>4. CASE record_failure
  <2>1. spool = [pc |-> "written", failure |-> failures] /\ partials > 0 /\ failures \notin pending /\ failures > 0
    BY <1>0, <1>4 DEF SpoolTyped, RecordStands, record_failure, Idle
  <2>2. failures \in 1..failures
    BY <1>00, <2>1
  <2>3. Cardinality(pending') = Cardinality(pending) + 1
    BY <1>00, <1>4, <2>1, FS_AddElement DEF record_failure
  <2>4. SpoolTyped'
    BY <1>0, <1>00, <1>4, <2>1, <2>2 DEF SpoolTyped, record_failure
  <2>5. RecordStands' /\ LimitsStand'
    BY <1>0, <1>00, <1>4, <2>1, <2>3 DEF RecordStands, LimitsStand, record_failure
  <2> QED BY <2>4, <2>5 DEF SpoolInv
<1>5. CASE fail_record
  <2>1. spool = [pc |-> "written", failure |-> failures] /\ partials > 0
    BY <1>0, <1>5 DEF SpoolTyped, RecordStands, fail_record, Idle
  <2>2. SpoolTyped'
    BY <1>0, <1>00, <1>5, <2>1 DEF SpoolTyped, fail_record
  <2>3. RecordStands' /\ LimitsStand'
    BY <1>0, <1>00, <1>5, <2>1 DEF RecordStands, LimitsStand, fail_record, Idle
  <2> QED BY <2>2, <2>3 DEF SpoolInv
<1>6. CASE report_recorded
  <2>1. spool = [pc |-> "recorded", failure |-> failures] /\ failures > 0
    BY <1>0, <1>6 DEF SpoolTyped, report_recorded, Idle
  <2>2. failures \in 1..failures
    BY <1>00, <2>1
  <2>3. Cardinality(reported') \in Nat /\ Cardinality(reported') <= Cardinality(reported) + 1
    <3>1. reported' = reported \cup {failures}
      BY <1>6, <2>1 DEF report_recorded
    <3>2. CASE failures \in reported
      BY <1>00, <3>1, <3>2
    <3>3. CASE failures \notin reported
      <4>1. Cardinality(reported \cup {failures}) = Cardinality(reported) + 1
        BY <1>00, <3>3, FS_AddElement
      <4> QED BY <1>00, <3>1, <4>1
    <3> QED BY <3>2, <3>3
  <2>4. SpoolTyped'
    BY <1>0, <1>00, <1>6, <2>1, <2>2 DEF SpoolTyped, report_recorded
  <2>5. RecordStands' /\ LimitsStand'
    BY <1>0, <1>00, <1>6, <2>1, <2>3 DEF RecordStands, LimitsStand, report_recorded, Idle
  <2> QED BY <2>4, <2>5 DEF SpoolInv
<1>7. CASE acknowledge_record
  <2>0. spool.pc = "idle" /\ spool'.pc = "moved"
    BY <1>7 DEF acknowledge_record
  <2>1. PICK e : acknowledged' = acknowledged \cup {e}
    BY <1>7 DEF acknowledge_record
  <2>2. IsFiniteSet(acknowledged') /\ Cardinality(acknowledged') \in Nat /\ Cardinality(acknowledged') <= Cardinality(acknowledged) + 1
    BY <1>00, <2>1, FS_AddElement
  <2>3. CASE \E f \in pending : pending' = pending \ {f} /\ answered' = answered + 1 /\ UNCHANGED overflow
    <3>1. PICK f \in pending : pending' = pending \ {f}
      BY <2>3
    <3>2. Cardinality(pending') = Cardinality(pending) - 1 /\ Cardinality(pending') \in Nat
      BY <1>00, <3>1, FS_RemoveElement, FS_CardinalityType
    <3>3. SpoolTyped'
      BY <1>0, <1>00, <1>7, <2>2, <2>3 DEF SpoolTyped, acknowledge_record
    <3>4. RecordStands' /\ LimitsStand'
      BY <1>0, <1>00, <1>7, <2>0, <2>2, <2>3, <3>2 DEF RecordStands, LimitsStand, acknowledge_record
    <3> QED BY <3>3, <3>4 DEF SpoolInv
  <2>4. CASE overflow' = 0 /\ answered' = answered + overflow /\ UNCHANGED pending
    <3>1. SpoolTyped'
      BY <1>0, <1>00, <1>7, <2>2, <2>4 DEF SpoolTyped, acknowledge_record
    <3>2. RecordStands' /\ LimitsStand'
      BY <1>0, <1>00, <1>7, <2>0, <2>2, <2>4 DEF RecordStands, LimitsStand, acknowledge_record
    <3> QED BY <3>1, <3>2 DEF SpoolInv
  <2> QED BY <1>7, <2>3, <2>4 DEF acknowledge_record
<1>8. CASE prune_acknowledged
  <2>1. CASE Cardinality(acknowledged) > MaxAcknowledged
    <3>1. acknowledged' = acknowledged \ {Oldest} /\ UNCHANGED <<spool, pending, partials, overflow, answered, failures, reported, kills>>
      BY <1>8, <2>1 DEF prune_acknowledged
    <3>2. IsFiniteSet(acknowledged') /\ Cardinality(acknowledged') \in Nat /\ Cardinality(acknowledged') <= Cardinality(acknowledged)
      BY <1>00, <3>1, FS_Subset, FS_CardinalityType
    <3>3. SpoolTyped'
      BY <1>0, <3>1, <3>2 DEF SpoolTyped
    <3>4. RecordStands' /\ LimitsStand'
      BY <1>0, <1>00, <3>1, <3>2 DEF RecordStands, LimitsStand
    <3> QED BY <3>3, <3>4 DEF SpoolInv
  <2>2. CASE ~(Cardinality(acknowledged) > MaxAcknowledged)
    <3>1. spool' = Idle /\ UNCHANGED <<acknowledged, pending, partials, overflow, answered, failures, reported, kills>> /\ spool.pc = "moved"
      BY <1>8, <2>2 DEF prune_acknowledged
    <3>2. SpoolTyped'
      BY <1>0, <3>1 DEF SpoolTyped
    <3>3. RecordStands' /\ LimitsStand'
      BY <1>0, <1>00, <2>2, <3>1 DEF RecordStands, LimitsStand, Idle
    <3> QED BY <3>2, <3>3 DEF SpoolInv
  <2> QED BY <2>1, <2>2
<1>9. CASE kill_command
  <2>1. SpoolTyped'
    BY <1>0, <1>00, <1>9 DEF SpoolTyped, kill_command
  <2>2. RecordStands' /\ LimitsStand'
    BY <1>0, <1>00, <1>9 DEF RecordStands, LimitsStand, kill_command, Idle
  <2> QED BY <2>1, <2>2 DEF SpoolInv
<1>10. CASE UNCHANGED spoolVars
  BY <1>0, <1>10 DEF spoolVars, SpoolInv, SpoolTyped, RecordStands, LimitsStand
<1> QED
  BY <1>1, <1>2, <1>3, <1>4, <1>5, <1>6, <1>7, <1>8, <1>9, <1>10 DEF SpoolNext

(* No alert whose record command succeeded is lost before an operator        *)
(* acknowledges it, and the spool keeps its limits, for any limits, any      *)
(* number of failures and wherever operational-alert-spool.sh is killed.     *)
THEOREM SpoolIsSound == SpoolInit /\ [][SpoolNext]_spoolVars => []SpoolSound
<1>1. SpoolInv => SpoolSound
  <2> SUFFICES ASSUME SpoolInv PROVE SpoolSound
    OBVIOUS
  <2>1. SpoolTyped /\ RecordStands /\ LimitsStand
    BY DEF SpoolInv
  <2>2. /\ Cardinality(pending) \in Nat /\ Cardinality(reported) \in Nat /\ Cardinality(acknowledged) \in Nat
        /\ partials \in Nat /\ overflow \in Nat /\ answered \in Nat /\ kills \in Nat /\ MaxAcknowledged \in Nat
    BY <2>1, SpoolCounts, SpoolAssumption DEF SpoolTyped
  <2>3. Cardinality(reported) <= Cardinality(pending) + overflow + answered
    BY <2>1, <2>2 DEF RecordStands
  <2>4. ASSUME status_spool = "ready" PROVE Cardinality(reported) <= answered
    <3>1. pending = {} /\ overflow = 0
      BY <2>2, <2>4 DEF status_spool
    <3>2. Cardinality(pending) = 0
      BY <3>1, FS_EmptySet
    <3> QED BY <2>2, <2>3, <3>1, <3>2
  <2>5. SpoolBounded
    BY <2>1, <2>2 DEF LimitsStand, SpoolBounded
  <2> QED BY <2>3, <2>4, <2>5 DEF SpoolSound, NoAlertLost
<1> QED
  BY <1>1, SpoolStarts, SpoolStep, PTL
=============================================================================

--------------------------- MODULE SchemaRollout ---------------------------
(***************************************************************************)
(* The database file, its backups and the commands that create, upgrade,   *)
(* replace or serve it, each a process of its own.                         *)
(*                                                                         *)
(* A command takes the lock of the file before it writes and keeps it to   *)
(* its end; previews read without it.  The durable keys of the rollout     *)
(* tell an upgrade how far an interrupted one came.  A process may stop    *)
(* between any two steps: the system releases its lock and undoes nothing. *)
(***************************************************************************)
EXTENDS Migrations

CONSTANTS
    Process,      \* processes of the local-agent command
    NoDatabase,   \* no database file
    Missing,      \* no backup file of a name
    Partial,      \* a backup file that was created and not filled
    None,
    Found,        \* databases an installation may find: no file, or an older one
    Times,        \* seconds a backup's name may carry
    StepsBack,    \* whether the older release is started after a failed upgrade
    MaxFaults,    \* bound: failed writes and copies
    MaxCrashes,   \* bound: processes that stop in a command
    MaxWrites,    \* bound: rows the older release writes
    MaxRemovals   \* bound: backups the operator removes

VARIABLES
    db,        \* the configured database file
    backups,   \* files of the backup directory
    lock,      \* holder of the exclusive lock
    pc, local, \* the step of each process and what it has read
    now,       \* the second a backup made now is named after
    source,    \* image of the database its last migration or adoption found
    removed,   \* backups the operator removed since the last fresh upgrade began
    faults, crashes, writes, removals

vars == <<db, backups, lock, pc, local, now, source, removed, faults, crashes, writes,
          removals>>
disk == <<db, backups>>
environment == <<now, removed, faults, crashes, writes, removals>>

\* A backup's name carries the version it was taken at and a second.
Paths == ({d.version : d \in Found \ {NoDatabase}} \cup {TargetVersion}) \X Times

\* What a backup copies, and what the database records of one.
Images     == [version : Nat, content : Contents, lost : Nat]
Files      == {Missing, Partial} \cup Images
Identities == [path : Paths, version : Nat, image : Files]
Databases  ==
    [version : Nat, content : Contents, lost : Nat, marked : Nat,
     baseline : Nat \cup {None}, cutoff : {None, "zero", "now"},
     backup : Identities \cup {None}, required : BOOLEAN,
     postflight : {None, "passed", "failed"}, disposed : BOOLEAN]

Image(d) == [version |-> d.version, content |-> d.content, lost |-> d.lost]

\* A file with no rollout keys: lost counts the completed rows without a
\* result identity, marked those the quarantine set aside.
File(v, c, n) ==
    [version |-> v, content |-> c, lost |-> n, marked |-> 0,
     baseline |-> None, cutoff |-> None, backup |-> None, required |-> TRUE,
     postflight |-> None, disposed |-> FALSE]

ASSUME RolloutAssumption ==
    /\ StepsBack \in BOOLEAN /\ Times \subseteq Nat
    /\ {MaxFaults, MaxCrashes, MaxWrites, MaxRemovals} \subseteq Nat
    /\ None \notin Nat \cup Process \cup Images \cup Identities
                   \cup {"zero", "now", "passed", "failed"}
    /\ Missing # Partial /\ Missing \notin Images /\ Partial \notin Images
    /\ NoDatabase \notin Databases
    /\ \A d \in Found \ {NoDatabase} :
          d \in Databases /\ d = File(d.version, d.content, d.lost)

ASSUME FoundAssumption ==
    \A d \in Found \ {NoDatabase} :
        d.version \in MinSourceVersion .. TargetVersion => Fits(d.version, d.content)

Commands == {None, "upgrade", "init", "reset", "run", "mutate", "quarantine"}
Idle == [command |-> None, version |-> 0, row |-> None, expected |-> 0,
         baseline |-> None, backup |-> None]

-----------------------------------------------------------------------------
(* The classifier of the durable keys.                                     *)

Supported(v) == v \in MinSourceVersion .. TargetVersion

Row(v, d) ==
    LET recorded == d.baseline # None /\ d.cutoff # None
        halves   == (d.baseline = None) # (d.cutoff = None)
        both     == d.backup # None /\ ~d.required
        identity == d.backup # None \/ ~d.required
    IN  IF both \/ halves THEN "corrupt"
        ELSE IF v < TargetVersion THEN
            CASE \/ ~d.required \/ d.postflight # None
                 \/ recorded # (d.backup # None)     -> "corrupt"
              [] OTHER                               ->
                    IF ~recorded THEN "fresh_capture"
                    ELSE IF d.backup.version = v THEN "fresh_resume" ELSE "corrupt"
        ELSE
            CASE ~recorded                         ->
                    IF identity \/ d.postflight # None THEN "corrupt" ELSE "adoption"
              [] recorded /\ ~identity             -> "corrupt"
              [] recorded /\ identity              ->
                    IF d.postflight = "passed" THEN "complete" ELSE "resume_needed"

Kind(row) == IF row \in {"fresh_capture", "fresh_resume"} THEN "fresh" ELSE row

Complete(d) == d # NoDatabase /\ Supported(d.version) /\ Row(d.version, d) = "complete"

\* Variant: a file of the recorded name is enough.
VerifiesByName(identity, v) == identity.version = v

\* The recorded backup is there, whole, and the one that was recorded.
Verifies(identity, v) ==
    LET file == backups[identity.path]
    IN  /\ file \notin {Missing, Partial}
        /\ file.version = v /\ file = identity.image

-----------------------------------------------------------------------------
(* Steps shared by the commands.                                           *)

Goto(p, step, l) == pc' = [pc EXCEPT ![p] = step] /\ local' = [local EXCEPT ![p] = l]
\* Variant: an error return that keeps the lock.
StopsHolding(p) == Goto(p, "idle", Idle) /\ UNCHANGED lock
Stops(p) == Goto(p, "idle", Idle) /\ lock' = IF lock = p THEN None ELSE lock
Refused(p) == Stops(p) /\ UNCHANGED <<disk, source, environment>>
MayFail == faults < MaxFaults /\ faults' = faults + 1

\* Acquiring the lock never waits.
Locks(p, step, l) == lock = None /\ lock' = p /\ Goto(p, step, l)

-----------------------------------------------------------------------------
(* db upgrade                                                              *)

\* The preview reads the version and then the keys, on two connections and
\* without the lock.
PreviewVersion(p) ==
    /\ pc[p] = "idle"
    /\ db # NoDatabase /\ Supported(db.version)
    /\ Goto(p, "preview", [Idle EXCEPT !.command = "upgrade", !.version = db.version])
    /\ UNCHANGED <<disk, lock, source, environment>>

PreviewKeys(p) ==
    /\ pc[p] = "preview"
    /\ LET row == Row(local[p].version, db)
       IN  IF db = NoDatabase \/ row \in {"corrupt", "complete"}
           THEN Refused(p)
           ELSE /\ Goto(p, "confirm", [local[p] EXCEPT !.row = Kind(row)])
                /\ UNCHANGED <<disk, lock, source, environment>>

\* The operator declines, or another process holds the lock.
ConfirmFails(p) == pc[p] = "confirm" /\ Refused(p)

\* Everything is read again under the lock; a row of another kind than the
\* one that was confirmed ends the command before it writes.
LockAndClassify(p) ==
    /\ pc[p] = "confirm"
    /\ lock = None
    /\ LET row == Row(db.version, db)
           l   == [local[p] EXCEPT !.row = row, !.version = db.version]
       IN  IF \/ db = NoDatabase
              \/ ~Supported(db.version)
              \/ Kind(row) # local[p].row
              \/ row = "adoption" /\ db.lost # 0
           THEN Refused(p)
           ELSE /\ CASE row = "adoption"      -> Locks(p, "backup", [l EXCEPT !.baseline = 0])
                     [] row = "fresh_capture" -> Locks(p, "backup", [l EXCEPT !.baseline = db.lost])
                     [] row = "fresh_resume"  ->
                            Locks(p, IF Verifies(db.backup, db.version) THEN "migrate" ELSE "backup",
                                  [l EXCEPT !.baseline = db.baseline])
                     [] row = "resume_needed" -> Locks(p, "postflight", l)
                /\ removed' = IF row = "resume_needed" THEN removed ELSE {}
                /\ UNCHANGED <<disk, source, now, faults, crashes, writes, removals>>

BackupPath(p) == <<local[p].version, now>>

\* The file is created exclusively; a name that is taken fails, and the
\* caller's clean-up removes the file of that name.
CreateBackup(p) ==
    /\ pc[p] = "backup"
    /\ IF backups[BackupPath(p)] # Missing
       THEN /\ backups' = [backups EXCEPT ![BackupPath(p)] = Missing]
            /\ Stops(p)
       ELSE /\ backups' = [backups EXCEPT ![BackupPath(p)] = Partial]
            /\ Goto(p, "copy", [local[p] EXCEPT !.backup = BackupPath(p)])
            /\ UNCHANGED lock
    /\ UNCHANGED <<db, source, environment>>

CopyDatabase(p) ==
    /\ pc[p] = "copy"
    /\ backups' = [backups EXCEPT ![local[p].backup] = Image(db)]
    /\ Goto(p, "record", local[p])
    /\ UNCHANGED <<db, lock, source, environment>>

CopyFails(p) ==
    /\ pc[p] = "copy" /\ MayFail
    /\ backups' = [backups EXCEPT ![local[p].backup] = Missing]
    /\ Stops(p)
    /\ UNCHANGED <<db, source, now, removed, crashes, writes, removals>>

\* Variant: the identity of the backup is left for another transaction.
RecordBaselineOnly(p) ==
    /\ pc[p] = "record"
    /\ db' = [db EXCEPT !.baseline = local[p].baseline, !.cutoff = "now"]
    /\ Goto(p, "migrate", local[p])
    /\ UNCHANGED <<backups, lock, source, environment>>

\* One transaction: the baseline and the cutoff stay as first written, the
\* identity of the backup is replaced.
RecordBaselineAndCutoff(p) ==
    /\ pc[p] = "record"
    /\ LET path    == local[p].backup
           adopted == local[p].row = "adoption"
       IN  /\ db' = [db EXCEPT !.baseline = IF @ = None THEN local[p].baseline ELSE @,
                               !.cutoff   = IF @ # None THEN @ ELSE IF adopted THEN "zero" ELSE "now",
                               !.backup   = [path |-> path, version |-> path[1],
                                             image |-> backups[path]]]
           /\ source' = IF adopted THEN Image(db) ELSE source
           /\ Goto(p, IF adopted THEN "postflight" ELSE "migrate", local[p])
    /\ UNCHANGED <<backups, lock, environment>>

\* All migrations and the new version in one transaction.
Migrate(p) ==
    /\ pc[p] = "migrate"
    /\ db' = [db EXCEPT !.version = TargetVersion, !.content = Migrated(db.version, @)]
    /\ source' = Image(db)
    /\ Goto(p, "postflight", local[p])
    /\ UNCHANGED <<backups, lock, environment>>

\* The rows without an identity may not be more than when the upgrade began.
Postflight(p) ==
    /\ pc[p] = "postflight"
    /\ db' = [db EXCEPT !.postflight = IF db.lost > db.baseline THEN "failed" ELSE "passed"]
    /\ Stops(p)
    /\ UNCHANGED <<backups, source, environment>>

WriteFails(p) ==
    /\ pc[p] \in {"record", "migrate", "postflight"} /\ MayFail
    /\ Stops(p)
    /\ UNCHANGED <<disk, source, now, removed, crashes, writes, removals>>

-----------------------------------------------------------------------------
(* init and init --reset-state                                             *)

\* The create path needs a missing file; a finished database is left alone.
CreateDatabase(p) ==
    /\ pc[p] = "idle" /\ lock = None /\ db = NoDatabase
    /\ Locks(p, "create", [Idle EXCEPT !.command = "init"])
    /\ UNCHANGED <<disk, source, environment>>

ResetState(p) ==
    /\ pc[p] = "idle" /\ db # NoDatabase
    /\ Locks(p, "create", [Idle EXCEPT !.command = "reset"])
    /\ db' = NoDatabase
    /\ source' = None
    /\ UNCHANGED <<backups, environment>>

CreateFile(p) ==
    /\ pc[p] = "create"
    /\ db' = File(0, EmptyContent, 0)
    /\ Goto(p, "create_migrate", local[p])
    /\ UNCHANGED <<backups, lock, source, environment>>

CreateMigrate(p) ==
    /\ pc[p] = "create_migrate"
    /\ db' = [db EXCEPT !.version = TargetVersion, !.content = Migrated(0, @)]
    /\ Goto(p, "create_adopt", local[p])
    /\ UNCHANGED <<backups, lock, source, environment>>

RecordAdoptionAtCreation(p) ==
    /\ pc[p] = "create_adopt"
    /\ db' = [db EXCEPT !.baseline = 0, !.cutoff = "now", !.postflight = "passed",
                        !.required = FALSE, !.disposed = TRUE]
    /\ Stops(p)
    /\ UNCHANGED <<backups, source, environment>>

\* A failed creation removes its file.
CreateFails(p) ==
    /\ pc[p] \in {"create_migrate", "create_adopt"} /\ MayFail
    /\ db' = NoDatabase
    /\ Stops(p)
    /\ UNCHANGED <<backups, source, now, removed, crashes, writes, removals>>

-----------------------------------------------------------------------------
(* run, and the commands that change rows: reconcile, close, rebuild       *)

\* Variant: a command that opens the database without the lock.
ServeUnlocked(p, command) ==
    /\ pc[p] = "idle" /\ Complete(db)
    /\ command = "run" => db.disposed
    /\ Goto(p, "serving", [Idle EXCEPT !.command = command])
    /\ UNCHANGED <<disk, lock, source, environment>>
Serve(p, command) ==
    /\ pc[p] = "idle"
    /\ Complete(db)
    /\ command = "run" => db.disposed
    /\ Locks(p, "serving", [Idle EXCEPT !.command = command])
    /\ UNCHANGED <<disk, source, environment>>

Leave(p) == pc[p] = "serving" /\ Refused(p)

-----------------------------------------------------------------------------
(* jobs quarantine-legacy-identity                                         *)

PostflightPassed == db # NoDatabase /\ db.version = TargetVersion /\ db.postflight = "passed"
\* The cutoff of an adopted database matches no row.
Matches == IF db.cutoff = "zero" THEN 0 ELSE db.lost

PreviewQuarantine(p) ==
    /\ pc[p] = "idle" /\ PostflightPassed /\ ~db.disposed
    /\ Goto(p, "confirm_quarantine",
            [Idle EXCEPT !.command = "quarantine", !.expected = Matches])
    /\ UNCHANGED <<disk, lock, source, environment>>

ApplyQuarantine(p) ==
    /\ pc[p] = "confirm_quarantine"
    /\ IF lock = None /\ PostflightPassed /\ ~db.disposed /\ Matches = local[p].expected
       THEN /\ db' = [db EXCEPT !.marked = @ + Matches, !.lost = @ - Matches, !.disposed = TRUE]
            /\ Goto(p, "idle", Idle)
            /\ UNCHANGED <<backups, lock, source, environment>>
       ELSE Refused(p)

-----------------------------------------------------------------------------
(* The environment.                                                        *)

Crash(p) ==
    /\ pc[p] # "idle" /\ crashes < MaxCrashes
    /\ crashes' = crashes + 1
    /\ Stops(p)
    /\ UNCHANGED <<disk, source, now, removed, faults, writes, removals>>

Tick == \E t \in Times : t > now /\ now' = t
        /\ UNCHANGED <<disk, lock, pc, local, source, removed, faults, crashes, writes, removals>>

\* The older release knows no lock; the operator promises it is stopped when
\* an upgrade begins.  A row it completes may lack a result identity.
OlderReleaseWrites ==
    /\ db # NoDatabase /\ Supported(db.version) /\ db.version < TargetVersion
    /\ lock = None /\ writes < MaxWrites
    /\ db.baseline = None \/ StepsBack
    /\ writes' = writes + 1
    /\ db' = [db EXCEPT !.lost = @ + 1]
    /\ UNCHANGED <<backups, lock, pc, local, now, source, removed, faults, crashes, removals>>

OperatorRemovesBackup ==
    /\ removals < MaxRemovals
    /\ removals' = removals + 1
    /\ \E path \in Paths :
         /\ backups[path] # Missing
         /\ backups' = [backups EXCEPT ![path] = Missing]
         /\ removed' = removed \cup {path}
    /\ UNCHANGED <<db, lock, pc, local, now, source, faults, crashes, writes>>

Upgrade(p) ==
    \/ PreviewVersion(p) \/ PreviewKeys(p) \/ ConfirmFails(p) \/ LockAndClassify(p)
    \/ CreateBackup(p) \/ CopyDatabase(p) \/ CopyFails(p)
    \/ RecordBaselineAndCutoff(p) \/ Migrate(p) \/ Postflight(p) \/ WriteFails(p)

Create(p) ==
    \/ CreateDatabase(p) \/ ResetState(p) \/ CreateFile(p) \/ CreateMigrate(p)
    \/ RecordAdoptionAtCreation(p) \/ CreateFails(p)

Quarantine(p) == PreviewQuarantine(p) \/ ApplyQuarantine(p)

Init ==
    /\ db \in Found
    /\ backups = [path \in Paths |-> Missing]
    /\ lock = None
    /\ pc = [p \in Process |-> "idle"] /\ local = [p \in Process |-> Idle]
    /\ now \in Times /\ \A t \in Times : now <= t
    /\ source = None /\ removed = {}
    /\ faults = 0 /\ crashes = 0 /\ writes = 0 /\ removals = 0

Next ==
    \/ \E p \in Process : \/ Upgrade(p) \/ Create(p) \/ Quarantine(p)
                          \/ Serve(p, "run") \/ Serve(p, "mutate") \/ Leave(p)
                          \/ Crash(p)
    \/ Tick \/ OlderReleaseWrites \/ OperatorRemovesBackup

Spec == Init /\ [][Next]_vars

-----------------------------------------------------------------------------

Steps == {"idle", "preview", "confirm", "backup", "copy", "record", "migrate", "postflight",
          "create", "create_migrate", "create_adopt", "serving", "confirm_quarantine"}

\* A process holds the lock in these.
Locked == Steps \ {"idle", "preview", "confirm", "confirm_quarantine"}

Locals ==
    [command : Commands, version : Nat,
     row : {None, "fresh", "fresh_capture", "fresh_resume", "adoption", "resume_needed"},
     expected : Nat, baseline : Nat \cup {None}, backup : Paths \cup {None}]

TypeOK ==
    /\ db \in Databases \cup {NoDatabase}
    /\ backups \in [Paths -> Files]
    /\ lock \in Process \cup {None}
    /\ pc \in [Process -> Steps]
    /\ \A p \in Process : lock = p <=> pc[p] \in Locked
    /\ local \in [Process -> Locals]
    /\ now \in Times
    /\ source \in Images \cup {None}
    /\ removed \subseteq Paths
    /\ {faults, crashes, writes, removals} \subseteq Nat

(***************************************************************************)
(* Wherever a command stopped, the keys it left make one of the rows of    *)
(* the recovery table: an upgrade can tell how far the last one came       *)
(* (ClassifyRollout calls the rest corrupt, and no command repairs it).    *)
(***************************************************************************)
DatabaseClassifies ==
    db # NoDatabase /\ Supported(db.version) => Row(db.version, db) # "corrupt"

(***************************************************************************)
(* A database that was migrated or adopted records a backup, and the file  *)
(* of that name is all of the database as the migration found it, unless   *)
(* the operator removed it: what README.md tells to restore to roll back.  *)
(***************************************************************************)
BackedUp ==
    db # NoDatabase /\ source # None =>
        \/ db.version < TargetVersion
        \/ db.backup # None /\ db.backup.path \in removed
        \/ db.backup # None /\ backups[db.backup.path] = source

(***************************************************************************)
(* An upgraded database keeps the data of the one it came from: see        *)
(* KeepsData.  The migrations run in one transaction.                      *)
(***************************************************************************)
UpgradedDataIsWhole ==
    db # NoDatabase /\ db.version = TargetVersion /\ source # None
        => KeepsData(source.version, source.content, db.content)

(***************************************************************************)
(* A command serves a database only when its rollout is complete and, for  *)
(* run, the legacy rows are disposed of; and no other process changes the  *)
(* database or replaces its file before it leaves.                         *)
(***************************************************************************)
ServedAlone ==
    [][\A p \in Process : pc'[p] = "serving" =>
          /\ Complete(db') /\ db'.lost <= db'.baseline
          /\ local'[p].command = "run" => db'.disposed
          /\ pc[p] = "serving" => db' = db]_vars

(***************************************************************************)
(* No command removes or overwrites a whole backup, the work of another    *)
(* one: BackupInto creates its file exclusively.                           *)
(***************************************************************************)
BackupsAreKept ==
    [][\A path \in Paths : backups[path] \notin {Missing, Partial}
          => backups'[path] = backups[path] \/ path \in removed']_vars

=============================================================================

------------------------ MODULE SchemaRollout_proofs ------------------------
(***************************************************************************)
(* Proofs about SchemaRollout: types, the recovery table, a served         *)
(* database left to its holder, the backup to go back to, and the data an  *)
(* upgrade leaves, for any number of processes, jobs, items and documents  *)
(* and every version a database may be found at.                           *)
(***************************************************************************)
EXTENDS SchemaRollout, TLAPS, WellFoundedInduction

\* A set of natural numbers that is not empty has a least one.
LEMMA LeastOfSet ==
    ASSUME NEW T \in SUBSET Nat, T # {}
    PROVE  \E x \in T : \A y \in T : x <= y
<1> DEFINE Less == {ss \in Nat \X Nat : ss[1] < ss[2]}
<1>1. \E x \in T : \A y \in T : ~(<<y, x>> \in Less)
    <2>1. IsWellFoundedOn(Less, Nat)
        BY NatLessThanWellFounded DEF OpToRel
    <2> HIDE DEF Less
    <2>2. QED
        BY <2>1, WFMin
<1>2. PICK x \in T : \A y \in T : ~(<<y, x>> \in Less)
    BY <1>1
<1>3. \A y \in T : ~(y < x)
    BY <1>2
<1> HIDE DEF Less
<1>4. \A y \in T : x <= y
    BY <1>3
<1>5. QED
    BY <1>4

\* The task's heir is one of the jobs bound to its current execution.
LEMMA Heir ==
    ASSUME NEW heirs \in SUBSET Jobs, heirs # {}
    PROVE  (CHOOSE j \in heirs : \A k \in heirs : j <= k) \in heirs
<1>1. heirs \in SUBSET Nat
    BY JobsAssumption
<1>2. \E j \in heirs : \A k \in heirs : j <= k
    BY <1>1, LeastOfSet
<1>3. QED
    BY <1>2

\* A migration makes a well-typed content of another.
LEMMA MigrationTyped ==
    ASSUME NEW c \in Contents, NEW v \in Nat
    PROVE  Migration(v, c) \in Contents
<1>1. /\ V32(c) \in Contents /\ V33(c) \in Contents /\ V34(c) \in Contents
      /\ V35(c) \in Contents
    BY DEF V32, V33, V34, V35, Contents, Parts, Actions
<1>2. /\ V36(c) \in Contents /\ V37(c) \in Contents /\ V38(c) \in Contents
    BY DEF V36, V37, V38, Contents, Parts, Actions, Bindings
<1>3. V39(c) \in Contents
    BY DEF V39, Contents, Parts, Present
<1>4. V40(c) \in Contents /\ V41(c) \in Contents
    BY DEF V40, V41, Contents, Parts
<1>5. V42(c) \in Contents
    <2> DEFINE imported == {d \in Docs : c.docs[d] = "imported"}
               stale    == {d \in Docs : c.docs[d] \in {"stale", "stale_archived"}}
               shape    == c.shape \ {"memory"}
               docs     == [d \in Docs |-> IF d \in imported \cup stale THEN "none"
                                           ELSE c.docs[d]]
               queued   == (c.queued \ (Docs \ (Present(c) \ imported))) \cup stale
               indexed  == c.indexed \ (imported \cup stale)
               held     == c.held \cup {d \in Docs : c.docs[d] = "active"}
               project  == c.project \/ imported \cup stale # {}
    <2>1. /\ shape \in SUBSET Parts
          /\ docs \in [Docs -> Documents]
          /\ queued \in SUBSET (Facts \cup Docs)
          /\ indexed \in SUBSET (Facts \cup Docs)
          /\ held \in SUBSET Docs
          /\ project \in BOOLEAN
        BY DEF Contents, Documents
    <2>2. V42(c) = [c EXCEPT !.shape = shape, !.docs = docs, !.queued = queued,
                             !.indexed = indexed, !.held = held, !.project = project]
        BY DEF V42
    <2> HIDE DEF imported, stale, shape, docs, queued, indexed, held, project
    <2>3. QED
        BY <2>1, <2>2 DEF Contents
<1>6. V43(c) \in Contents /\ V44(c) \in Contents
    BY DEF V43, V44, Contents, Parts
<1>7. V45(c) \in Contents /\ V46(c) \in Contents
    BY DEF V45, V46, Contents, Parts, Policies
<1>8. V47(c) \in Contents
    <2> DEFINE heirs  == {j \in Jobs : c.bound[j] = "current"}
               silent == {j \in Jobs : c.policy[j] = "workstream_only"}
               wakes  == c.wakes \ silent
               owner  == IF c.owner = NoJob /\ heirs # {}
                         THEN CHOOSE j \in heirs : \A k \in heirs : j <= k ELSE c.owner
               policy == [j \in Jobs |-> IF j \in silent THEN "delivery_only" ELSE c.policy[j]]
               bound  == [j \in Jobs |-> "none"]
               shape  == c.shape \ {"bindings"}
               admits == c.admits \cup {"queue_task", "settle_task"}
    <2>1. /\ wakes \in SUBSET Jobs
          /\ policy \in [Jobs -> Policies]
          /\ bound \in [Jobs -> Bindings]
          /\ shape \in SUBSET Parts
          /\ admits \in SUBSET Actions
        BY DEF Contents, Policies, Bindings, Actions
    <2>2. owner \in Jobs \cup {NoJob}
        BY Heir DEF Contents
    <2>3. V47(c) = [c EXCEPT !.wakes = wakes, !.owner = owner, !.policy = policy,
                             !.bound = bound, !.shape = shape, !.admits = admits]
        BY DEF V47
    <2> HIDE DEF heirs, silent, wakes, owner, policy, bound, shape, admits
    <2>4. QED
        BY <2>1, <2>2, <2>3 DEF Contents
<1>9. QED
    BY <1>1, <1>2, <1>3, <1>4, <1>5, <1>6, <1>7, <1>8 DEF Migration

LEMMA MigratedTyped ==
    ASSUME NEW c \in Contents, NEW v \in Nat
    PROVE  Migrated(v, c) \in Contents
<1> DEFINE n == TargetVersion
<1>1. \A k \in Nat : \A x \in Contents : Step(v, n, k, x) \in Contents
    BY MigrationTyped DEF Step
<1> HIDE DEF n
<1>2. \A x \in Contents : To35(v, n, x) \in Contents
    BY <1>1 DEF To35
<1>3. \A x \in Contents : To39(v, n, x) \in Contents
    BY <1>1 DEF To39
<1>4. \A x \in Contents : To43(v, n, x) \in Contents
    BY <1>1 DEF To43
<1>5. \A x \in Contents : To47(v, n, x) \in Contents
    BY <1>1 DEF To47
<1>6. QED
    BY <1>2, <1>3, <1>4, <1>5 DEF Migrated, Upto, n

LEMMA EmptyTyped == EmptyContent \in Contents
BY DEF EmptyContent, Contents, Bindings, Policies, Documents, NoJob

-----------------------------------------------------------------------------
(* What the durable keys may say.                                           *)

Blank(d) ==
    /\ d.baseline = None /\ d.cutoff = None /\ d.backup = None
    /\ d.required /\ d.postflight = None

\* The baseline, the cutoff and who may vouch for them are written together.
Recorded(d) ==
    /\ d.baseline # None /\ d.cutoff # None
    /\ IF d.required THEN d.backup # None ELSE d.backup = None

\* The versions a database passes through: found, created or upgraded.
Versions == {d.version : d \in Found \ {NoDatabase}} \cup {0, TargetVersion}

Keys(d) ==
    /\ d.version \in Versions
    /\ Blank(d) \/ Recorded(d)
    /\ d.version < TargetVersion /\ Recorded(d) =>
          /\ d.required /\ d.postflight = None /\ d.backup.version = d.version
    /\ d.postflight = "passed" => d.lost <= d.baseline

Verdict(d) ==
    IF d.version < TargetVersion THEN IF Blank(d) THEN "fresh_capture" ELSE "fresh_resume"
    ELSE IF Blank(d) THEN "adoption"
    ELSE IF d.postflight = "passed" THEN "complete" ELSE "resume_needed"

LEMMA RowVerdict ==
    ASSUME NEW d \in Databases, Keys(d)
    PROVE  Row(d.version, d) = Verdict(d)
<1>1. /\ d.version \in Nat /\ d.required \in BOOLEAN
      /\ d.postflight \in {None, "passed", "failed"}
    BY DEF Databases
<1>2. CASE d.version < TargetVersion /\ Blank(d)
    BY <1>1, <1>2 DEF Row, Verdict, Blank
<1>3. CASE d.version < TargetVersion /\ Recorded(d)
    <2>1. d.required /\ d.postflight = None /\ d.backup # None /\ d.backup.version = d.version
        BY <1>3 DEF Keys, Recorded
    <2>2. QED
        BY <1>1, <1>3, <2>1 DEF Row, Verdict, Blank, Recorded
<1>4. CASE ~(d.version < TargetVersion) /\ Blank(d)
    BY <1>1, <1>4 DEF Row, Verdict, Blank
<1>5. CASE ~(d.version < TargetVersion) /\ Recorded(d)
    BY <1>1, <1>5 DEF Row, Verdict, Blank, Recorded
<1>6. QED
    BY <1>2, <1>3, <1>4, <1>5 DEF Keys

\* A database of the target version whose rollout is complete.
LEMMA CompleteKeys ==
    ASSUME NEW d \in Databases, Keys(d), Complete(d)
    PROVE  ~(d.version < TargetVersion) /\ Recorded(d) /\ d.postflight = "passed"
           /\ d.version \in MinSourceVersion .. TargetVersion
<1>1. Verdict(d) = "complete" /\ Supported(d.version)
    BY RowVerdict DEF Complete
<1>2. QED
    BY <1>1 DEF Verdict, Keys, Supported

-----------------------------------------------------------------------------
(* The inductive invariant.                                                 *)

DatabaseOK == db \in Databases \cup {NoDatabase} /\ (db # NoDatabase => Keys(db))

\* What the holder of the lock knows of the database.
Work(p) ==
    /\ pc[p] = "confirm" => local[p].row \in {"fresh", "adoption", "resume_needed"}
    /\ pc[p] \in {"backup", "copy", "record"} =>
          /\ db # NoDatabase /\ local[p].version = db.version /\ local[p].baseline # None
          /\ Supported(db.version)
          /\ local[p].row = Verdict(db)
          /\ local[p].row \in {"fresh_capture", "fresh_resume", "adoption"}
    /\ pc[p] \in {"copy", "record"} => local[p].backup \in Paths /\ local[p].backup[1] = db.version
    /\ pc[p] = "migrate" =>
          db # NoDatabase /\ Supported(db.version) /\ db.version < TargetVersion /\ Recorded(db)
    /\ pc[p] = "postflight" =>
          db # NoDatabase /\ db.version = TargetVersion /\ Recorded(db)
    /\ pc[p] = "create" => db = NoDatabase
    /\ pc[p] = "create_migrate" => db # NoDatabase /\ Blank(db) /\ db.version = 0 /\ db.lost = 0
    /\ pc[p] = "create_adopt" =>
          db # NoDatabase /\ Blank(db) /\ db.version = TargetVersion /\ db.lost = 0
    /\ pc[p] = "serving" => Complete(db) /\ (local[p].command = "run" => db.disposed)

Working == \A p \in Process : Work(p)

RolloutInv == TypeOK /\ DatabaseOK /\ Working

LEMMA Unlike ==
    /\ None \notin Nat /\ None \notin Process /\ None \notin Images /\ None \notin Identities
    /\ None \notin {"zero", "now", "passed", "failed"}
    /\ Missing # Partial /\ Missing \notin Images /\ Partial \notin Images
    /\ NoDatabase \notin Databases
BY RolloutAssumption

LEMMA FoundOK ==
    ASSUME NEW d \in Found, d # NoDatabase
    PROVE  d \in Databases /\ Keys(d) /\ Blank(d)
<1>1. d \in Databases /\ d = File(d.version, d.content, d.lost)
    BY RolloutAssumption
<1>2. Blank(d)
    BY <1>1 DEF File, Blank
<1>3. ~Recorded(d) /\ d.postflight # "passed"
    BY <1>2, Unlike DEF Blank, Recorded
<1>4. QED
    BY <1>1, <1>2, <1>3 DEF Keys, Versions

LEMMA InvInit == Init => RolloutInv
<1> SUFFICES ASSUME Init PROVE RolloutInv
    OBVIOUS
<1>1. DatabaseOK
    BY FoundOK DEF Init, DatabaseOK
<1>2. \A p \in Process : pc[p] = "idle" /\ local[p] = Idle /\ lock # p
    BY Unlike DEF Init
<1>3. Working
    BY <1>2 DEF Working, Work
<1>4. backups \in [Paths -> Files]
    BY DEF Init, Files
<1>5. Idle \in Locals
    BY DEF Idle, Locals, Commands
<1>6. TypeOK
    BY <1>1, <1>2, <1>4, <1>5 DEF Init, TypeOK, DatabaseOK, Steps, Locked
<1>7. QED
    BY <1>1, <1>3, <1>6 DEF RolloutInv

\* Nobody else holds the lock that a process holds or takes.
LEMMA OthersFree ==
    ASSUME TypeOK, NEW p \in Process, lock \in {p, None}, NEW q \in Process, q # p
    PROVE  pc[q] \notin Locked
BY Unlike DEF TypeOK

\* What a process knows that holds no lock survives every step of another.
LEMMA OthersKeepWork ==
    ASSUME RolloutInv, NEW p \in Process, lock \in {p, None},
           NEW step, NEW l, Goto(p, step, l),
           NEW q \in Process, q # p
    PROVE  Work(q)'
<1>1. pc'[q] = pc[q] /\ local'[q] = local[q]
    BY DEF Goto, RolloutInv, TypeOK
<1>2. pc[q] \in Steps \ Locked
    BY OthersFree DEF RolloutInv, TypeOK
<1>3. pc[q] \in {"idle", "preview", "confirm", "confirm_quarantine"}
    BY <1>2 DEF Locked
<1>4. QED
    BY <1>1, <1>3 DEF Work, RolloutInv, Working

\* A step that leaves the database alone keeps what the others know.
LEMMA OthersUndisturbed ==
    ASSUME RolloutInv, NEW p \in Process, NEW step, NEW l, Goto(p, step, l), UNCHANGED db,
           NEW q \in Process, q # p
    PROVE  Work(q)'
<1>1. pc'[q] = pc[q] /\ local'[q] = local[q]
    BY DEF Goto, RolloutInv, TypeOK
<1>2. QED
    BY <1>1 DEF Work, RolloutInv, Working

\* A step goes on under the lock it has, takes it, or gives it up.
LEMMA LockKept ==
    ASSUME TypeOK, NEW p \in Process, NEW step \in Steps, NEW l, Goto(p, step, l),
           \/ lock' = lock /\ (pc[p] \in Locked <=> step \in Locked)
           \/ lock = None /\ lock' = p /\ step \in Locked
           \/ lock' = (IF lock = p THEN None ELSE lock) /\ step \notin Locked
    PROVE  /\ lock' \in Process \cup {None}
           /\ pc' \in [Process -> Steps]
           /\ \A q \in Process : lock' = q <=> pc'[q] \in Locked
           /\ l \in Locals => local' \in [Process -> Locals]
           /\ pc'[p] = step /\ local'[p] = l
BY Unlike DEF TypeOK, Goto

-----------------------------------------------------------------------------
(* Every step keeps the invariant.                                          *)

\* What a step has to show, once for all commands.
LEMMA Assembled ==
    ASSUME RolloutInv, NEW p \in Process, NEW step \in Steps, NEW l \in Locals, Goto(p, step, l),
           \/ lock' = lock /\ (pc[p] \in Locked <=> step \in Locked)
           \/ lock = None /\ lock' = p /\ step \in Locked
           \/ lock' = (IF lock = p THEN None ELSE lock) /\ step \notin Locked,
           UNCHANGED db \/ lock \in {p, None},
           DatabaseOK', backups' \in [Paths -> Files], source' \in Images \cup {None},
           removed' \subseteq Paths, now' \in Times,
           {faults', crashes', writes', removals'} \subseteq Nat,
           Work(p)'
    PROVE  RolloutInv'
<1>1. TypeOK
    BY DEF RolloutInv
<1>2. /\ lock' \in Process \cup {None}
      /\ pc' \in [Process -> Steps] /\ local' \in [Process -> Locals]
      /\ \A q \in Process : lock' = q <=> pc'[q] \in Locked
    BY <1>1, LockKept
<1>3. TypeOK'
    BY <1>2 DEF TypeOK, DatabaseOK
<1>4. Working'
    <2> SUFFICES ASSUME NEW q \in Process PROVE Work(q)'
        BY DEF Working
    <2>1. CASE q = p
        BY <2>1
    <2>2. CASE q # p /\ UNCHANGED db
        BY <2>2, OthersUndisturbed
    <2>3. CASE q # p /\ lock \in {p, None}
        BY <2>3, OthersKeepWork
    <2>4. QED
        BY <2>1, <2>2, <2>3
<1>5. QED
    BY <1>3, <1>4 DEF RolloutInv

\* Where a command ends, it knows nothing.
LEMMA Stopped ==
    ASSUME RolloutInv, NEW p \in Process, Stops(p),
           UNCHANGED db \/ lock \in {p, None},
           DatabaseOK', backups' \in [Paths -> Files], source' \in Images \cup {None},
           removed' \subseteq Paths, now' \in Times,
           {faults', crashes', writes', removals'} \subseteq Nat
    PROVE  RolloutInv'
<1>1. Idle \in Locals /\ "idle" \in Steps /\ "idle" \notin Locked
    BY DEF Idle, Locals, Commands, Steps, Locked
<1>2. Goto(p, "idle", Idle) /\ lock' = (IF lock = p THEN None ELSE lock)
    BY DEF Stops
<1>3. pc'[p] = "idle"
    BY <1>2 DEF Goto, RolloutInv, TypeOK
<1>4. Work(p)'
    BY <1>3 DEF Work
<1>5. QED
    BY <1>1, <1>2, <1>4, Assembled

LEMMA EnvironmentTyped ==
    ASSUME TypeOK, UNCHANGED environment
    PROVE  /\ removed' \subseteq Paths /\ now' \in Times
           /\ {faults', crashes', writes', removals'} \subseteq Nat
BY DEF TypeOK, environment

LEMMA SourceTyped ==
    ASSUME TypeOK, UNCHANGED source
    PROVE  source' \in Images \cup {None}
BY DEF TypeOK

LEMMA DatabaseKept ==
    ASSUME RolloutInv, UNCHANGED db
    PROVE  DatabaseOK'
BY DEF RolloutInv, DatabaseOK

LEMMA BackupsTyped ==
    ASSUME TypeOK, UNCHANGED backups
    PROVE  backups' \in [Paths -> Files]
BY DEF TypeOK

LEMMA StoppedUnchanged ==
    ASSUME RolloutInv, NEW p \in Process, Refused(p)
    PROVE  RolloutInv'
<1>1. Stops(p) /\ UNCHANGED <<db, backups, source, environment>>
    BY DEF Refused, disk
<1>2. QED
    BY <1>1, Stopped, EnvironmentTyped, SourceTyped, BackupsTyped, DatabaseKept DEF RolloutInv

LEMMA RowRange ==
    ASSUME NEW v, NEW d
    PROVE  Row(v, d) \in {"corrupt", "fresh_capture", "fresh_resume", "adoption",
                          "complete", "resume_needed"}
<1> DEFINE recorded == d.baseline # None /\ d.cutoff # None
           identity == d.backup # None \/ ~d.required
<1>1. CASE ~recorded
    BY <1>1 DEF Row
<1>2. CASE recorded
    BY <1>2 DEF Row
<1>3. QED
    BY <1>1, <1>2

LEMMA VersionInv == ASSUME RolloutInv, NEW p \in Process, PreviewVersion(p) PROVE RolloutInv'
<1> DEFINE l == [Idle EXCEPT !.command = "upgrade", !.version = db.version]
<1>1. db \in Databases /\ Goto(p, "preview", l)
    BY DEF PreviewVersion, RolloutInv, DatabaseOK
<1>2. l \in Locals
    BY <1>1 DEF Databases, Idle, Locals, Commands
<1> HIDE DEF l
<1>3. "preview" \in Steps /\ "preview" \notin Locked /\ pc[p] \notin Locked
    BY DEF PreviewVersion, Steps, Locked
<1>4. pc'[p] = "preview"
    BY <1>1 DEF Goto, RolloutInv, TypeOK
<1>5. Work(p)'
    BY <1>4 DEF Work
<1>6. UNCHANGED <<db, backups, lock, source, environment>>
    BY DEF PreviewVersion, disk
<1>7. QED
    BY <1>1, <1>2, <1>3, <1>5, <1>6, Assembled, EnvironmentTyped, SourceTyped, BackupsTyped,
       DatabaseKept DEF RolloutInv

LEMMA KeysInv == ASSUME RolloutInv, NEW p \in Process, PreviewKeys(p) PROVE RolloutInv'
<1> DEFINE row == Row(local[p].version, db)
           l   == [local[p] EXCEPT !.row = Kind(row)]
<1>1. CASE Refused(p)
    BY <1>1, StoppedUnchanged
<1>2. CASE ~Refused(p)
    <2>1. /\ pc[p] = "preview" /\ row \notin {"corrupt", "complete"}
          /\ Goto(p, "confirm", l)
          /\ UNCHANGED <<db, backups, lock, source, environment>>
        BY <1>2 DEF PreviewKeys, disk
    <2>2. row \in {"fresh_capture", "fresh_resume", "adoption", "resume_needed"}
        BY <2>1, RowRange
    <2> HIDE DEF row
    <2>3. Kind(row) \in {"fresh", "adoption", "resume_needed"}
        BY <2>2 DEF Kind
    <2>4. local[p] \in Locals
        BY DEF RolloutInv, TypeOK
    <2>5. l \in Locals /\ l.row = Kind(row)
        BY <2>3, <2>4 DEF Locals
    <2> HIDE DEF l
    <2>6. "confirm" \in Steps /\ "confirm" \notin Locked /\ pc[p] \notin Locked
        BY <2>1 DEF Steps, Locked
    <2>7. pc'[p] = "confirm" /\ local'[p] = l
        BY <2>1 DEF Goto, RolloutInv, TypeOK
    <2>8. Work(p)'
        BY <2>3, <2>5, <2>7 DEF Work
    <2>9. QED
        BY <2>1, <2>5, <2>6, <2>8, Assembled, EnvironmentTyped, SourceTyped, BackupsTyped,
           DatabaseKept DEF RolloutInv
<1>3. QED
    BY <1>1, <1>2

LEMMA ClassifyInv == ASSUME RolloutInv, NEW p \in Process, LockAndClassify(p) PROVE RolloutInv'
<1> DEFINE row == Row(db.version, db)
           l   == [local[p] EXCEPT !.row = row, !.version = db.version]
           lb  == [l EXCEPT !.baseline = 0]
           lc  == [l EXCEPT !.baseline = db.lost]
           lr  == [l EXCEPT !.baseline = db.baseline]
<1>1. CASE Refused(p)
    BY <1>1, StoppedUnchanged
<1>2. CASE ~Refused(p)
    <2>1. /\ db # NoDatabase /\ Supported(db.version) /\ Kind(row) = local[p].row
          /\ pc[p] = "confirm" /\ lock = None
          /\ removed' = (IF row = "resume_needed" THEN removed ELSE {})
          /\ UNCHANGED <<db, backups, source, now, faults, crashes, writes, removals>>
          /\ CASE row = "adoption"      -> Locks(p, "backup", lb)
               [] row = "fresh_capture" -> Locks(p, "backup", lc)
               [] row = "fresh_resume"  ->
                      Locks(p, IF Verifies(db.backup, db.version) THEN "migrate" ELSE "backup", lr)
               [] row = "resume_needed" -> Locks(p, "postflight", l)
        BY <1>2 DEF LockAndClassify, disk
    <2>2. db \in Databases /\ Keys(db)
        BY <2>1 DEF RolloutInv, DatabaseOK
    <2>3. row = Verdict(db)
        BY <2>2, RowVerdict
    <2>4. local[p] \in Locals /\ local[p].row \in {"fresh", "adoption", "resume_needed"}
        BY <2>1 DEF RolloutInv, TypeOK, Working, Work
    <2>5. row \in {"fresh_capture", "fresh_resume", "adoption", "resume_needed"}
        BY <2>1, <2>4, RowRange DEF Kind
    <2>6. /\ db.version \in Nat /\ db.lost \in Nat /\ db.baseline \in Nat \cup {None}
        BY <2>2 DEF Databases
    <2> HIDE DEF row
    <2>7. /\ {l, lb, lc, lr} \subseteq Locals
          /\ \A x \in {l, lb, lc, lr} : x.row = row /\ x.version = db.version
          /\ lb.baseline = 0 /\ lc.baseline = db.lost /\ lr.baseline = db.baseline
        <3>1. l \in Locals /\ l.row = row /\ l.version = db.version
            BY <2>4, <2>5, <2>6 DEF Locals
        <3> HIDE DEF l
        <3>2. lb \in Locals /\ lb.row = row /\ lb.version = db.version /\ lb.baseline = 0
            BY <3>1 DEF Locals
        <3>3. lc \in Locals /\ lc.row = row /\ lc.version = db.version /\ lc.baseline = db.lost
            BY <2>6, <3>1 DEF Locals
        <3>4. lr \in Locals /\ lr.row = row /\ lr.version = db.version /\ lr.baseline = db.baseline
            BY <2>6, <3>1 DEF Locals
        <3> HIDE DEF lb, lc, lr
        <3>5. QED
            BY <3>1, <3>2, <3>3, <3>4
    <2> HIDE DEF l, lb, lc, lr
    <2>8. row = "fresh_resume" => Recorded(db) /\ db.version < TargetVersion
        BY <2>2, <2>3 DEF Verdict, Keys
    <2>9. row = "resume_needed" => Recorded(db) /\ db.version = TargetVersion
        BY <2>1, <2>2, <2>3, <2>6 DEF Verdict, Keys, Supported, TargetVersion, MinSourceVersion
    <2>10. PICK step \in {"backup", "migrate", "postflight"}, x \in {l, lb, lc, lr} :
              /\ Locks(p, step, x)
              /\ step = "backup" => x.baseline # None /\ row # "resume_needed"
              /\ step = "migrate" => row = "fresh_resume"
              /\ step = "postflight" => row = "resume_needed"
        <3>1. CASE row = "adoption"
            BY <2>1, <2>7, <3>1, Unlike
        <3>2. CASE row = "fresh_capture"
            BY <2>1, <2>6, <2>7, <3>2, Unlike
        <3>3. CASE row = "fresh_resume"
            BY <2>1, <2>7, <2>8, <3>3 DEF Recorded
        <3>4. CASE row = "resume_needed"
            BY <2>1, <3>4
        <3>5. QED
            BY <2>5, <3>1, <3>2, <3>3, <3>4
    <2>11. /\ Goto(p, step, x) /\ lock' = p /\ step \in Steps /\ step \in Locked
           /\ x \in Locals
        BY <2>7, <2>10 DEF Locks, Steps, Locked
    <2>12. pc'[p] = step /\ local'[p] = x
        BY <2>11 DEF Goto, RolloutInv, TypeOK
    <2>13. Work(p)'
        <3>1. CASE step = "backup"
            BY <2>1, <2>3, <2>5, <2>7, <2>10, <2>12, <3>1 DEF Work
        <3>2. CASE step = "migrate"
            BY <2>1, <2>8, <2>10, <2>12, <3>2 DEF Work
        <3>3. CASE step = "postflight"
            BY <2>1, <2>9, <2>10, <2>12, <3>3 DEF Work
        <3>4. QED
            BY <2>10, <3>1, <3>2, <3>3
    <2>14. /\ removed' \subseteq Paths /\ now' \in Times
           /\ {faults', crashes', writes', removals'} \subseteq Nat
        BY <2>1 DEF RolloutInv, TypeOK
    <2>15. QED
        BY <2>1, <2>11, <2>13, <2>14, Assembled, SourceTyped, BackupsTyped, DatabaseKept
           DEF RolloutInv
<1>3. QED
    BY <1>1, <1>2

\* The holder of the lock is the one that writes.
LEMMA HoldsLock ==
    ASSUME TypeOK, NEW p \in Process, pc[p] \in Locked
    PROVE  lock = p
BY DEF TypeOK

LEMMA CreateBackupInv == ASSUME RolloutInv, NEW p \in Process, CreateBackup(p) PROVE RolloutInv'
<1> DEFINE path == BackupPath(p)
           l    == [local[p] EXCEPT !.backup = path]
<1>1. /\ pc[p] = "backup" /\ UNCHANGED <<db, source, environment>>
      /\ db # NoDatabase /\ local[p].version = db.version /\ db.version \in Nat
      /\ Supported(db.version) /\ local[p].row = Verdict(db) /\ local[p].baseline # None
      /\ local[p].row \in {"fresh_capture", "fresh_resume", "adoption"}
      /\ local[p] \in Locals
    BY DEF CreateBackup, RolloutInv, TypeOK, Databases, Working, Work
<1>2. CASE backups[path] # Missing
    <2>1. Stops(p) /\ backups' = [backups EXCEPT ![path] = Missing]
        BY <1>2 DEF CreateBackup
    <2>2. backups' \in [Paths -> Files]
        BY <2>1 DEF RolloutInv, TypeOK, Files
    <2>3. QED
        BY <1>1, <2>1, <2>2, Stopped, EnvironmentTyped, SourceTyped, DatabaseKept DEF RolloutInv
<1>3. CASE backups[path] = Missing
    <2>1. Goto(p, "copy", l) /\ UNCHANGED lock /\ backups' = [backups EXCEPT ![path] = Partial]
        BY <1>3 DEF CreateBackup
    <2>2. backups' \in [Paths -> Files]
        BY <2>1 DEF RolloutInv, TypeOK, Files
    <2>3. path \in Paths /\ path[1] = db.version
        <3>1. db.version \in Versions \ {0} /\ now \in Times
            BY <1>1 DEF RolloutInv, TypeOK, DatabaseOK, Keys, Supported, MinSourceVersion
        <3>2. QED
            BY <1>1, <3>1 DEF BackupPath, Paths, Versions
    <2> HIDE DEF path
    <2>4. /\ l \in Locals /\ l.backup = path /\ l.version = db.version /\ l.row = local[p].row
          /\ l.baseline = local[p].baseline
        BY <1>1, <2>3 DEF Locals
    <2> HIDE DEF l
    <2>5. "copy" \in Steps /\ "copy" \in Locked /\ pc[p] \in Locked
        BY <1>1 DEF Steps, Locked
    <2>6. pc'[p] = "copy" /\ local'[p] = l
        BY <2>1 DEF Goto, RolloutInv, TypeOK
    <2>7. Work(p)'
        BY <1>1, <2>3, <2>4, <2>6 DEF Work
    <2>8. QED
        BY <1>1, <2>1, <2>2, <2>4, <2>5, <2>7, Assembled, EnvironmentTyped, SourceTyped,
           DatabaseKept DEF RolloutInv
<1>4. QED
    BY <1>2, <1>3

LEMMA CopyInv == ASSUME RolloutInv, NEW p \in Process, CopyDatabase(p) PROVE RolloutInv'
<1>1. /\ pc[p] = "copy" /\ UNCHANGED <<db, lock, source, environment>>
      /\ Goto(p, "record", local[p]) /\ local[p] \in Locals
      /\ backups' = [backups EXCEPT ![local[p].backup] = Image(db)]
      /\ db \in Databases
    BY DEF CopyDatabase, RolloutInv, TypeOK, Working, Work
<1>2. Image(db) \in Images
    BY <1>1 DEF Image, Images, Databases
<1>3. backups' \in [Paths -> Files]
    BY <1>1, <1>2 DEF RolloutInv, TypeOK, Files
<1>4. "record" \in Steps /\ "record" \in Locked /\ pc[p] \in Locked
    BY <1>1 DEF Steps, Locked
<1>5. pc'[p] = "record" /\ local'[p] = local[p]
    BY <1>1 DEF Goto, RolloutInv, TypeOK
<1>6. Work(p)
    BY DEF RolloutInv, Working
<1>7. Work(p)'
    BY <1>1, <1>5, <1>6 DEF Work
<1>8. QED
    BY <1>1, <1>3, <1>4, <1>7, Assembled, EnvironmentTyped, SourceTyped, DatabaseKept DEF RolloutInv

LEMMA FailInv ==
    ASSUME RolloutInv, NEW p \in Process, CopyFails(p) \/ WriteFails(p) \/ Crash(p)
    PROVE  RolloutInv'
<1>1. /\ Stops(p) /\ UNCHANGED <<db, source, now, removed, writes, removals>>
      /\ faults' \in {faults, faults + 1} /\ crashes' \in {crashes, crashes + 1}
    BY DEF CopyFails, WriteFails, Crash, MayFail, disk
<1>2. backups' \in [Paths -> Files]
    BY DEF CopyFails, WriteFails, Crash, RolloutInv, TypeOK, Files, disk
<1>3. /\ removed' \subseteq Paths /\ now' \in Times
      /\ {faults', crashes', writes', removals'} \subseteq Nat
    BY <1>1 DEF RolloutInv, TypeOK
<1>4. QED
    BY <1>1, <1>2, <1>3, Stopped, SourceTyped, DatabaseKept DEF RolloutInv

LEMMA RecordInv == ASSUME RolloutInv, NEW p \in Process, RecordBaselineAndCutoff(p) PROVE RolloutInv'
<1> DEFINE path     == local[p].backup
           adopted  == local[p].row = "adoption"
           identity == [path |-> path, version |-> path[1], image |-> backups[path]]
           baseline == IF db.baseline = None THEN local[p].baseline ELSE db.baseline
           cutoff   == IF db.cutoff # None THEN db.cutoff ELSE IF adopted THEN "zero" ELSE "now"
           d        == [db EXCEPT !.baseline = baseline, !.cutoff = cutoff, !.backup = identity]
           step     == IF adopted THEN "postflight" ELSE "migrate"
<1>1. /\ pc[p] = "record" /\ local[p] \in Locals
      /\ db' = d
      /\ source' = IF adopted THEN Image(db) ELSE source
      /\ Goto(p, step, local[p])
      /\ UNCHANGED <<backups, lock, environment>>
    BY DEF RecordBaselineAndCutoff, RolloutInv, TypeOK
<1>2. Work(p) /\ db # NoDatabase
    BY <1>1 DEF RolloutInv, Working, Work
<1>3. db \in Databases /\ Keys(db) /\ db.version \in Nat
    BY <1>2 DEF RolloutInv, TypeOK, DatabaseOK, Databases
<1>4. identity \in Identities /\ identity.version = db.version
    BY <1>1, <1>2, <1>3 DEF Work, Identities, RolloutInv, TypeOK
<1> HIDE DEF identity
<1>5. /\ local[p].row = Verdict(db) /\ Supported(db.version)
      /\ local[p].row \in {"fresh_capture", "fresh_resume", "adoption"}
      /\ local[p].baseline \in Nat
    BY <1>1, <1>2 DEF Work, Locals
<1>6. /\ db.postflight = None /\ db.required
      /\ adopted => db.version = TargetVersion
      /\ ~adopted => db.version < TargetVersion
      /\ Blank(db) \/ Recorded(db)
    BY <1>3, <1>5 DEF Verdict, Keys, Blank, Supported, TargetVersion, MinSourceVersion
<1>7. baseline \in Nat /\ cutoff \in {"zero", "now"}
    BY <1>3, <1>5, <1>6 DEF Databases
<1> HIDE DEF baseline, cutoff
<1>8. /\ d \in Databases
      /\ d.version = db.version /\ d.baseline = baseline /\ d.cutoff = cutoff
      /\ d.backup = identity /\ d.required = db.required /\ d.postflight = db.postflight
    BY <1>3, <1>4, <1>7 DEF Databases
<1> HIDE DEF d
<1>9. Recorded(d) /\ Keys(d) /\ d # NoDatabase
    BY <1>3, <1>4, <1>6, <1>7, <1>8, Unlike DEF Recorded, Keys
<1>10. DatabaseOK'
    BY <1>1, <1>8, <1>9 DEF DatabaseOK
<1>11. source' \in Images \cup {None}
    BY <1>1, <1>3 DEF RolloutInv, TypeOK, Image, Images, Databases
<1>12. step \in Steps /\ step \in Locked /\ pc[p] \in Locked
    BY <1>1 DEF Steps, Locked
<1>13. pc'[p] = step
    BY <1>1 DEF Goto, RolloutInv, TypeOK
<1>14. Work(p)'
    BY <1>1, <1>5, <1>6, <1>8, <1>9, <1>13 DEF Work
<1> HIDE DEF step
<1>15. QED
    BY <1>1, <1>10, <1>11, <1>12, <1>14, HoldsLock, Assembled, EnvironmentTyped, BackupsTyped
       DEF RolloutInv

LEMMA MigrateInv == ASSUME RolloutInv, NEW p \in Process, Migrate(p) PROVE RolloutInv'
<1> DEFINE c == Migrated(db.version, db.content)
           d == [db EXCEPT !.version = TargetVersion, !.content = c]
<1>1. /\ pc[p] = "migrate" /\ local[p] \in Locals
      /\ db' = d /\ source' = Image(db)
      /\ Goto(p, "postflight", local[p])
      /\ UNCHANGED <<backups, lock, environment>>
    BY DEF Migrate, RolloutInv, TypeOK
<1>2. db # NoDatabase /\ db.version < TargetVersion /\ Recorded(db)
    BY <1>1 DEF RolloutInv, Working, Work
<1>3. db \in Databases /\ Keys(db) /\ db.version \in Nat /\ db.content \in Contents
    BY <1>2 DEF RolloutInv, TypeOK, DatabaseOK, Databases
<1>4. c \in Contents
    BY <1>3, MigratedTyped
<1> HIDE DEF c
<1>5. /\ d \in Databases /\ d.version = TargetVersion
      /\ d.baseline = db.baseline /\ d.cutoff = db.cutoff /\ d.backup = db.backup
      /\ d.required = db.required /\ d.postflight = db.postflight
    BY <1>3, <1>4 DEF Databases, TargetVersion
<1> HIDE DEF d
<1>6. Recorded(d) /\ Keys(d) /\ d # NoDatabase
    BY <1>2, <1>3, <1>5, Unlike DEF Recorded, Keys, Versions, TargetVersion
<1>7. DatabaseOK'
    BY <1>1, <1>5, <1>6 DEF DatabaseOK
<1>8. source' \in Images \cup {None}
    BY <1>1, <1>3 DEF Image, Images, Databases
<1>9. "postflight" \in Steps /\ "postflight" \in Locked /\ pc[p] \in Locked
    BY <1>1 DEF Steps, Locked
<1>10. pc'[p] = "postflight"
    BY <1>1 DEF Goto, RolloutInv, TypeOK
<1>11. Work(p)'
    BY <1>1, <1>5, <1>6, <1>10 DEF Work
<1>12. QED
    BY <1>1, <1>7, <1>8, <1>9, <1>11, HoldsLock, Assembled, EnvironmentTyped, BackupsTyped
       DEF RolloutInv

LEMMA PostflightInv == ASSUME RolloutInv, NEW p \in Process, Postflight(p) PROVE RolloutInv'
<1> DEFINE verdict == IF db.lost > db.baseline THEN "failed" ELSE "passed"
           d       == [db EXCEPT !.postflight = verdict]
<1>1. /\ pc[p] = "postflight" /\ db' = d /\ Stops(p)
      /\ UNCHANGED <<backups, source, environment>>
    BY DEF Postflight
<1>2. db # NoDatabase /\ db.version = TargetVersion /\ Recorded(db)
    BY <1>1 DEF RolloutInv, Working, Work
<1>3. db \in Databases /\ db.lost \in Nat /\ db.baseline \in Nat
    BY <1>2 DEF RolloutInv, TypeOK, DatabaseOK, Databases, Recorded
<1>4. verdict \in {"passed", "failed"} /\ (verdict = "passed" => db.lost <= db.baseline)
    BY <1>3
<1> HIDE DEF verdict
<1>5. /\ d \in Databases /\ d.version = TargetVersion /\ d.postflight = verdict
      /\ d.baseline = db.baseline /\ d.cutoff = db.cutoff /\ d.backup = db.backup
      /\ d.required = db.required /\ d.lost = db.lost
    BY <1>2, <1>3, <1>4 DEF Databases
<1> HIDE DEF d
<1>6. Recorded(d) /\ Keys(d)
    BY <1>2, <1>4, <1>5, Unlike DEF Recorded, Keys, Versions, TargetVersion
<1>7. DatabaseOK'
    BY <1>1, <1>5, <1>6 DEF DatabaseOK
<1>8. lock = p
    BY <1>1, HoldsLock DEF RolloutInv, Steps, Locked
<1>9. QED
    BY <1>1, <1>7, <1>8, Stopped, EnvironmentTyped, SourceTyped, BackupsTyped DEF RolloutInv

LEMMA BeginInv ==
    ASSUME RolloutInv, NEW p \in Process, CreateDatabase(p) \/ ResetState(p)
    PROVE  RolloutInv'
<1> DEFINE l == IF db = NoDatabase THEN [Idle EXCEPT !.command = "init"]
                                   ELSE [Idle EXCEPT !.command = "reset"]
<1>1. /\ pc[p] = "idle" /\ lock = None /\ db' = NoDatabase
      /\ Locks(p, "create", l) /\ UNCHANGED <<backups, environment>>
      /\ source' \in {source, None}
    BY DEF CreateDatabase, ResetState, Locks, disk
<1>2. l \in Locals
    BY DEF Idle, Locals, Commands
<1> HIDE DEF l
<1>3. Goto(p, "create", l) /\ lock' = p /\ "create" \in Steps /\ "create" \in Locked
    BY <1>1 DEF Locks, Steps, Locked
<1>4. pc'[p] = "create"
    BY <1>3 DEF Goto, RolloutInv, TypeOK
<1>5. Work(p)'
    BY <1>1, <1>4 DEF Work
<1>6. DatabaseOK' /\ source' \in Images \cup {None}
    BY <1>1 DEF DatabaseOK, RolloutInv, TypeOK
<1>7. QED
    BY <1>1, <1>2, <1>3, <1>5, <1>6, Assembled, EnvironmentTyped, BackupsTyped DEF RolloutInv

LEMMA CreateFileInv == ASSUME RolloutInv, NEW p \in Process, CreateFile(p) PROVE RolloutInv'
<1> DEFINE d == File(0, EmptyContent, 0)
<1>1. /\ pc[p] = "create" /\ db' = d /\ Goto(p, "create_migrate", local[p])
      /\ local[p] \in Locals /\ UNCHANGED <<backups, lock, source, environment>>
    BY DEF CreateFile, RolloutInv, TypeOK
<1>2. d \in Databases /\ Blank(d) /\ d.version = 0 /\ d.postflight = None
    BY EmptyTyped DEF File, Databases, Blank
<1> HIDE DEF d
<1>3. Keys(d) /\ d # NoDatabase
    BY <1>2, Unlike DEF Keys, Versions, Blank, Recorded
<1>4. DatabaseOK'
    BY <1>1, <1>2, <1>3 DEF DatabaseOK
<1>5. /\ "create_migrate" \in Steps /\ "create_migrate" \in Locked /\ pc[p] \in Locked
    BY <1>1 DEF Steps, Locked
<1>6. pc'[p] = "create_migrate"
    BY <1>1 DEF Goto, RolloutInv, TypeOK
<1>7. d.lost = 0
    BY DEF File, d
<1>8. Work(p)'
    BY <1>1, <1>2, <1>3, <1>6, <1>7 DEF Work
<1>9. QED
    BY <1>1, <1>4, <1>5, <1>8, HoldsLock, Assembled, EnvironmentTyped, SourceTyped, BackupsTyped
       DEF RolloutInv

LEMMA CreateMigrateInv == ASSUME RolloutInv, NEW p \in Process, CreateMigrate(p) PROVE RolloutInv'
<1> DEFINE c == Migrated(0, db.content)
           d == [db EXCEPT !.version = TargetVersion, !.content = c]
<1>1. /\ pc[p] = "create_migrate" /\ db' = d /\ Goto(p, "create_adopt", local[p])
      /\ local[p] \in Locals /\ UNCHANGED <<backups, lock, source, environment>>
    BY DEF CreateMigrate, RolloutInv, TypeOK
<1>2. db # NoDatabase /\ Blank(db) /\ db.lost = 0
    BY <1>1 DEF RolloutInv, Working, Work
<1>3. db \in Databases
    BY <1>2 DEF RolloutInv, TypeOK
<1>4. c \in Contents
    BY <1>3, MigratedTyped DEF Databases
<1> HIDE DEF c
<1>5. /\ d \in Databases /\ d.version = TargetVersion /\ d.lost = db.lost
      /\ d.baseline = db.baseline /\ d.cutoff = db.cutoff /\ d.backup = db.backup
      /\ d.required = db.required /\ d.postflight = db.postflight
    BY <1>3, <1>4 DEF Databases, TargetVersion
<1> HIDE DEF d
<1>6. Blank(d) /\ Keys(d) /\ d # NoDatabase
    BY <1>2, <1>5, Unlike DEF Keys, Versions, Blank, Recorded
<1>7. DatabaseOK'
    BY <1>1, <1>5, <1>6 DEF DatabaseOK
<1>8. "create_adopt" \in Steps /\ "create_adopt" \in Locked /\ pc[p] \in Locked
    BY <1>1 DEF Steps, Locked
<1>9. pc'[p] = "create_adopt"
    BY <1>1 DEF Goto, RolloutInv, TypeOK
<1>10. Work(p)'
    BY <1>1, <1>2, <1>5, <1>6, <1>9 DEF Work
<1>11. QED
    BY <1>1, <1>7, <1>8, <1>10, HoldsLock, Assembled, EnvironmentTyped, SourceTyped, BackupsTyped
       DEF RolloutInv

LEMMA AdoptInv ==
    ASSUME RolloutInv, NEW p \in Process, RecordAdoptionAtCreation(p)
    PROVE  RolloutInv'
<1> DEFINE d == [db EXCEPT !.baseline = 0, !.cutoff = "now", !.postflight = "passed",
                           !.required = FALSE, !.disposed = TRUE]
<1>1. /\ pc[p] = "create_adopt" /\ db' = d /\ Stops(p)
      /\ UNCHANGED <<backups, source, environment>>
    BY DEF RecordAdoptionAtCreation
<1>2. db # NoDatabase /\ Blank(db) /\ db.version = TargetVersion /\ db.lost = 0
    BY <1>1 DEF RolloutInv, Working, Work
<1>3. db \in Databases
    BY <1>2 DEF RolloutInv, TypeOK
<1>4. /\ d \in Databases /\ d.version = db.version /\ d.lost = 0 /\ d.baseline = 0
      /\ d.cutoff = "now" /\ d.postflight = "passed" /\ d.required = FALSE /\ d.backup = db.backup
    BY <1>2, <1>3 DEF Databases
<1> HIDE DEF d
<1>5. Keys(d)
    BY <1>2, <1>4, Unlike DEF Keys, Versions, Blank, Recorded, TargetVersion
<1>6. DatabaseOK'
    BY <1>1, <1>4, <1>5 DEF DatabaseOK
<1>7. lock = p
    BY <1>1, HoldsLock DEF RolloutInv, Steps, Locked
<1>8. QED
    BY <1>1, <1>6, <1>7, Stopped, EnvironmentTyped, SourceTyped, BackupsTyped DEF RolloutInv

LEMMA CreateFailsInv == ASSUME RolloutInv, NEW p \in Process, CreateFails(p) PROVE RolloutInv'
<1>1. /\ pc[p] \in {"create_migrate", "create_adopt"} /\ db' = NoDatabase /\ Stops(p)
      /\ faults' = faults + 1
      /\ UNCHANGED <<backups, source, now, removed, crashes, writes, removals>>
    BY DEF CreateFails, MayFail
<1>2. lock = p
    BY <1>1, HoldsLock DEF RolloutInv, Steps, Locked
<1>3. DatabaseOK'
    BY <1>1 DEF DatabaseOK
<1>4. /\ removed' \subseteq Paths /\ now' \in Times
      /\ {faults', crashes', writes', removals'} \subseteq Nat
    BY <1>1 DEF RolloutInv, TypeOK
<1>5. QED
    BY <1>1, <1>2, <1>3, <1>4, Stopped, SourceTyped, BackupsTyped DEF RolloutInv

LEMMA ServeInv ==
    ASSUME RolloutInv, NEW p \in Process, NEW command \in {"run", "mutate"}, Serve(p, command)
    PROVE  RolloutInv'
<1> DEFINE l == [Idle EXCEPT !.command = command]
<1>1. /\ Complete(db) /\ (command = "run" => db.disposed)
      /\ Locks(p, "serving", l) /\ UNCHANGED <<db, backups, source, environment>>
    BY DEF Serve, disk
<1>2. l \in Locals /\ l.command = command
    BY DEF Idle, Locals, Commands
<1> HIDE DEF l
<1>3. /\ Goto(p, "serving", l) /\ lock = None /\ lock' = p
      /\ "serving" \in Steps /\ "serving" \in Locked
    BY <1>1 DEF Locks, Steps, Locked
<1>4. pc'[p] = "serving" /\ local'[p] = l
    BY <1>3 DEF Goto, RolloutInv, TypeOK
<1>5. Complete(db)' /\ (command = "run" => db'.disposed)
    BY <1>1 DEF Complete
<1>6. Work(p)'
    BY <1>2, <1>4, <1>5 DEF Work
<1>7. QED
    BY <1>1, <1>2, <1>3, <1>6, Assembled, EnvironmentTyped, SourceTyped, BackupsTyped, DatabaseKept
       DEF RolloutInv

LEMMA PreviewQuarantineInv ==
    ASSUME RolloutInv, NEW p \in Process, PreviewQuarantine(p)
    PROVE  RolloutInv'
<1> DEFINE l == [Idle EXCEPT !.command = "quarantine", !.expected = Matches]
<1>1. /\ pc[p] = "idle" /\ db # NoDatabase /\ Goto(p, "confirm_quarantine", l)
      /\ UNCHANGED <<db, backups, lock, source, environment>>
    BY DEF PreviewQuarantine, PostflightPassed, disk
<1>2. Matches \in Nat
    BY <1>1 DEF Matches, RolloutInv, TypeOK, Databases
<1>3. l \in Locals
    BY <1>2 DEF Idle, Locals, Commands
<1> HIDE DEF l
<1>4. /\ "confirm_quarantine" \in Steps /\ "confirm_quarantine" \notin Locked
      /\ pc[p] \notin Locked
    BY <1>1 DEF Steps, Locked
<1>5. pc'[p] = "confirm_quarantine"
    BY <1>1 DEF Goto, RolloutInv, TypeOK
<1>6. Work(p)'
    BY <1>5 DEF Work
<1>7. QED
    BY <1>1, <1>3, <1>4, <1>6, Assembled, EnvironmentTyped, SourceTyped, BackupsTyped, DatabaseKept
       DEF RolloutInv

LEMMA ApplyQuarantineInv ==
    ASSUME RolloutInv, NEW p \in Process, ApplyQuarantine(p)
    PROVE  RolloutInv'
<1> DEFINE n == Matches
           d == [db EXCEPT !.marked = @ + n, !.lost = @ - n, !.disposed = TRUE]
<1>1. CASE Refused(p)
    BY <1>1, StoppedUnchanged
<1>2. CASE ~Refused(p)
    <2>1. /\ pc[p] = "confirm_quarantine" /\ lock = None /\ PostflightPassed
          /\ db' = d /\ Goto(p, "idle", Idle)
          /\ UNCHANGED <<backups, lock, source, environment>>
        BY <1>2 DEF ApplyQuarantine
    <2>2. db \in Databases /\ Keys(db)
        BY <2>1 DEF PostflightPassed, RolloutInv, DatabaseOK
    <2>3. n \in Nat /\ n <= db.lost /\ db.lost \in Nat /\ db.marked \in Nat
        BY <2>2 DEF Matches, Databases
    <2> HIDE DEF n
    <2>4. db.lost - n \in Nat /\ db.lost - n <= db.lost /\ db.marked + n \in Nat
        BY <2>3
    <2>5. /\ d \in Databases /\ d.version = db.version /\ d.lost = db.lost - n
          /\ d.baseline = db.baseline /\ d.cutoff = db.cutoff /\ d.backup = db.backup
          /\ d.required = db.required /\ d.postflight = db.postflight
        BY <2>2, <2>4 DEF Databases
    <2> HIDE DEF d
    <2>6. Blank(d) <=> Blank(db)
        BY <2>5 DEF Blank
    <2>7. Recorded(d) <=> Recorded(db)
        BY <2>5 DEF Recorded
    <2>8. d.postflight = "passed" => d.lost <= d.baseline
        <3>1. db.postflight = "passed" => Recorded(db)
            BY <2>2, Unlike DEF Keys, Blank
        <3>2. db.postflight = "passed" => db.baseline \in Nat
            BY <2>2, <3>1 DEF Recorded, Databases
        <3>3. QED
            BY <2>2, <2>3, <2>4, <2>5, <3>2 DEF Keys
    <2>9. Keys(d)
        BY <2>2, <2>5, <2>6, <2>7, <2>8 DEF Keys
    <2>10. DatabaseOK'
        BY <2>1, <2>5, <2>9 DEF DatabaseOK
    <2>11. Stops(p)
        BY <2>1, Unlike DEF Stops
    <2>12. QED
        BY <2>1, <2>10, <2>11, Stopped, EnvironmentTyped, SourceTyped, BackupsTyped DEF RolloutInv
<1>3. QED
    BY <1>1, <1>2

\* The environment moves no process.
LEMMA StandingStill ==
    ASSUME RolloutInv, UNCHANGED <<lock, pc, local>>, UNCHANGED db \/ lock = None,
           DatabaseOK', backups' \in [Paths -> Files], source' \in Images \cup {None},
           removed' \subseteq Paths, now' \in Times,
           {faults', crashes', writes', removals'} \subseteq Nat
    PROVE  RolloutInv'
<1>1. TypeOK'
    BY DEF RolloutInv, TypeOK, DatabaseOK
<1>2. ASSUME NEW q \in Process PROVE Work(q)'
    <2>1. CASE UNCHANGED db
        BY <2>1 DEF RolloutInv, Working, Work
    <2>2. CASE lock = None
        <3>1. pc[q] \in {"idle", "preview", "confirm", "confirm_quarantine"}
            BY <2>2, Unlike DEF RolloutInv, TypeOK, Locked
        <3>2. QED
            BY <3>1 DEF RolloutInv, Working, Work
    <2>3. QED
        BY <2>1, <2>2
<1>3. QED
    BY <1>1, <1>2 DEF RolloutInv, Working

LEMMA EnvironmentInv ==
    ASSUME RolloutInv, Tick \/ OlderReleaseWrites \/ OperatorRemovesBackup
    PROVE  RolloutInv'
<1>1. CASE Tick
    <2>1. UNCHANGED <<db, backups, lock, pc, local, source>> /\ now' \in Times
          /\ UNCHANGED <<removed, faults, crashes, writes, removals>>
        BY <1>1 DEF Tick, disk
    <2>2. QED
        BY <2>1, StandingStill, SourceTyped, BackupsTyped, DatabaseKept DEF RolloutInv, TypeOK
<1>2. CASE OperatorRemovesBackup
    <2>1. /\ UNCHANGED <<db, lock, pc, local, now, source, faults, crashes, writes>>
          /\ removals' = removals + 1
          /\ \E path \in Paths : /\ backups' = [backups EXCEPT ![path] = Missing]
                                 /\ removed' = removed \cup {path}
        BY <1>2 DEF OperatorRemovesBackup
    <2>2. backups' \in [Paths -> Files]
        BY <2>1 DEF RolloutInv, TypeOK, Files
    <2>3. QED
        BY <2>1, <2>2, StandingStill, SourceTyped, DatabaseKept DEF RolloutInv, TypeOK
<1>3. CASE OlderReleaseWrites
    <2> DEFINE d == [db EXCEPT !.lost = @ + 1]
    <2>1. /\ db # NoDatabase /\ db.version < TargetVersion /\ lock = None
          /\ writes' = writes + 1 /\ db' = d
          /\ UNCHANGED <<backups, lock, pc, local, now, source, removed, faults, crashes, removals>>
        BY <1>3 DEF OlderReleaseWrites
    <2>2. db \in Databases /\ Keys(db) /\ db.lost \in Nat
        BY <2>1 DEF RolloutInv, DatabaseOK, Databases
    <2>3. /\ d \in Databases /\ d.version = db.version
          /\ d.baseline = db.baseline /\ d.cutoff = db.cutoff /\ d.backup = db.backup
          /\ d.required = db.required /\ d.postflight = db.postflight
        BY <2>2 DEF Databases
    <2> HIDE DEF d
    <2>4. Keys(d)
        BY <2>1, <2>2, <2>3, Unlike DEF Keys, Blank, Recorded
    <2>5. DatabaseOK'
        BY <2>1, <2>3, <2>4 DEF DatabaseOK
    <2>6. QED
        BY <2>1, <2>5, StandingStill, SourceTyped, BackupsTyped DEF RolloutInv, TypeOK
<1>4. QED
    BY <1>1, <1>2, <1>3

LEMMA InvNext == RolloutInv /\ [Next]_vars => RolloutInv'
<1> SUFFICES ASSUME RolloutInv, [Next]_vars PROVE RolloutInv'
    OBVIOUS
<1>1. ASSUME NEW p \in Process, Upgrade(p) PROVE RolloutInv'
    BY <1>1, VersionInv, KeysInv, StoppedUnchanged, ClassifyInv, CreateBackupInv, CopyInv, FailInv,
       RecordInv, MigrateInv, PostflightInv DEF Upgrade, ConfirmFails
<1>2. ASSUME NEW p \in Process, Create(p) PROVE RolloutInv'
    BY <1>2, BeginInv, CreateFileInv, CreateMigrateInv, AdoptInv, CreateFailsInv DEF Create
<1>3. ASSUME NEW p \in Process, Quarantine(p) PROVE RolloutInv'
    BY <1>3, PreviewQuarantineInv, ApplyQuarantineInv DEF Quarantine
<1>4. ASSUME NEW p \in Process,
             Serve(p, "run") \/ Serve(p, "mutate") \/ Leave(p) \/ Crash(p)
      PROVE  RolloutInv'
    BY <1>4, ServeInv, StoppedUnchanged, FailInv DEF Leave
<1>5. CASE Tick \/ OlderReleaseWrites \/ OperatorRemovesBackup
    BY <1>5, EnvironmentInv
<1>6. CASE UNCHANGED vars
    <2>1. UNCHANGED <<db, backups, lock, pc, local, now, source, removed, faults, crashes, writes,
                      removals>>
        BY <1>6 DEF vars
    <2>2. QED
        BY <2>1, StandingStill, SourceTyped, BackupsTyped, DatabaseKept DEF RolloutInv, TypeOK
<1>7. QED
    BY <1>1, <1>2, <1>3, <1>4, <1>5, <1>6 DEF Next

\* Every reachable state satisfies RolloutInv: the types, the keys a database
\* carries for its version (database_upgrade.go, upgrade_state.go), and what
\* each process knows at its step of an upgrade, a creation or a service.
THEOREM Invariant == Spec => []RolloutInv
BY InvInit, InvNext, PTL DEF Spec

\* The database, its backups and every process's step and locals have their
\* types in every reachable state.
THEOREM TypeCorrect == Spec => []TypeOK
<1>1. RolloutInv => TypeOK
    BY DEF RolloutInv
<1>2. QED
    BY Invariant, <1>1, PTL

\* The recovery table of upgrade_state.go never meets a combination of the
\* version and the four keys that it calls corrupt, whatever upgrades,
\* creations, faults and crashes came before.
THEOREM Classifies == Spec => []DatabaseClassifies
<1>1. RolloutInv => DatabaseClassifies
    <2> SUFFICES ASSUME RolloutInv, db # NoDatabase PROVE Row(db.version, db) # "corrupt"
        BY DEF DatabaseClassifies
    <2>1. db \in Databases /\ Keys(db)
        BY DEF RolloutInv, DatabaseOK
    <2>2. Row(db.version, db) = Verdict(db)
        BY <2>1, RowVerdict
    <2>3. QED
        BY <2>2 DEF Verdict
<1>2. QED
    BY Invariant, <1>1, PTL

-----------------------------------------------------------------------------
(* A served database is complete and left alone.                           *)

\* A command changes the database under the lock that it holds and does not
\* serve under, or while nobody holds it.
LEMMA Writers ==
    ASSUME [Next]_vars
    PROVE  \/ UNCHANGED db \/ lock = None
           \/ \E q \in Process : pc[q] \in Locked \ {"serving"}
<1>1. ASSUME NEW q \in Process, Upgrade(q)
      PROVE  UNCHANGED db \/ pc[q] \in {"record", "migrate", "postflight"}
    <2>1. CASE PreviewVersion(q) \/ PreviewKeys(q) \/ ConfirmFails(q) \/ LockAndClassify(q)
        BY <2>1 DEF PreviewVersion, PreviewKeys, ConfirmFails, LockAndClassify, Refused, disk
    <2>2. CASE CreateBackup(q) \/ CopyDatabase(q) \/ CopyFails(q) \/ WriteFails(q)
        BY <2>2 DEF CreateBackup, CopyDatabase, CopyFails, WriteFails, disk
    <2>3. CASE RecordBaselineAndCutoff(q) \/ Migrate(q) \/ Postflight(q)
        BY <2>3 DEF RecordBaselineAndCutoff, Migrate, Postflight
    <2>4. QED
        BY <1>1, <2>1, <2>2, <2>3 DEF Upgrade
<1>2. ASSUME NEW q \in Process, Create(q)
      PROVE  lock = None \/ pc[q] \in {"create", "create_migrate", "create_adopt"}
    BY <1>2 DEF Create, CreateDatabase, ResetState, Locks, CreateFile, CreateMigrate,
       RecordAdoptionAtCreation, CreateFails
<1>3. ASSUME NEW q \in Process, Quarantine(q)
      PROVE  UNCHANGED db \/ lock = None
    BY <1>3 DEF Quarantine, PreviewQuarantine, ApplyQuarantine, Refused, disk
<1>4. ASSUME NEW q \in Process,
             Serve(q, "run") \/ Serve(q, "mutate") \/ Leave(q) \/ Crash(q)
      PROVE  UNCHANGED db
    BY <1>4 DEF Serve, Leave, Crash, Refused, disk
<1>5. CASE Tick \/ OlderReleaseWrites \/ OperatorRemovesBackup
    BY <1>5 DEF Tick, OlderReleaseWrites, OperatorRemovesBackup, disk
<1>6. CASE UNCHANGED vars
    BY <1>6 DEF vars
<1>7. {"record", "migrate", "postflight", "create", "create_migrate", "create_adopt"}
          \subseteq Locked \ {"serving"}
    BY DEF Locked, Steps
<1>8. QED
    BY <1>1, <1>2, <1>3, <1>4, <1>5, <1>6, <1>7 DEF Next

\* A process begins to serve only a database whose upgrade is complete, whose
\* lost results are counted in the baseline and, for run, whose legacy jobs
\* are disposed of; and nobody else changes a database that is served.
THEOREM Served == Spec => ServedAlone
<1>1. ASSUME RolloutInv, [Next]_vars, NEW p \in Process, pc'[p] = "serving"
      PROVE  /\ Complete(db') /\ db'.lost <= db'.baseline
             /\ local'[p].command = "run" => db'.disposed
             /\ pc[p] = "serving" => db' = db
    <2>1. RolloutInv'
        BY <1>1, InvNext
    <2>2. Work(p)'
        BY <2>1 DEF RolloutInv, Working
    <2>3. Complete(db)' /\ (local'[p].command = "run" => db'.disposed)
        BY <1>1, <2>2 DEF Work
    <2>4. Complete(db')
        BY <2>3 DEF Complete
    <2>5. db' \in Databases /\ Keys(db')
        BY <2>1, <2>4 DEF RolloutInv, DatabaseOK, Complete
    <2>6. db'.lost <= db'.baseline
        BY <2>4, <2>5, CompleteKeys DEF Keys
    <2>7. ASSUME pc[p] = "serving" PROVE db' = db
        <3>1. lock = p
            BY <1>1, <2>7, HoldsLock DEF RolloutInv, Locked, Steps
        <3>2. \A q \in Process : pc[q] \in Locked => q = p
            BY <1>1, <3>1, HoldsLock DEF RolloutInv
        <3>3. lock # None
            BY <3>1, Unlike
        <3>4. QED
            BY <1>1, <2>7, <3>2, <3>3, Writers
    <2>8. QED
        BY <2>3, <2>4, <2>6, <2>7
<1>2. RolloutInv /\ [Next]_vars =>
        [\A p \in Process : pc'[p] = "serving" =>
            /\ Complete(db') /\ db'.lost <= db'.baseline
            /\ local'[p].command = "run" => db'.disposed
            /\ pc[p] = "serving" => db' = db]_vars
    BY <1>1
<1>3. QED
    BY Invariant, <1>2, PTL DEF Spec, ServedAlone

-----------------------------------------------------------------------------
(* The backup of a database, where the older release is not started again   *)
(* once an upgrade has begun.                                               *)

\* A file the operator leaves alone is this image.
Covers(path, image) ==
    \/ backups[path] = image
    \/ backups[path] = Missing /\ path \in removed

RecordedWhole ==
    db # NoDatabase /\ db.version < TargetVersion /\ db.backup # None
        => db.backup.image \in {Image(db), Missing}

RestorePoint ==
    source # None =>
        /\ db # NoDatabase /\ db.version = TargetVersion /\ db.backup # None
        /\ db.backup.path \in removed \/ backups[db.backup.path] = source

\* What an upgrade goes on from after its backup.
Saved(p) ==
    /\ pc[p] = "record" => Covers(local[p].backup, Image(db))
    /\ pc[p] = "migrate" =>
          db.backup.path \in removed \/ backups[db.backup.path] = Image(db)

BackupInv == RecordedWhole /\ RestorePoint /\ \A p \in Process : Saved(p)

LEMMA BackupsUndisturbed ==
    ASSUME BackupInv, UNCHANGED <<db, backups, source, removed>>,
           \A q \in Process : pc'[q] \in {"record", "migrate"}
                                => pc'[q] = pc[q] /\ local'[q] = local[q]
    PROVE  BackupInv'
<1>1. RecordedWhole' /\ RestorePoint'
    BY DEF BackupInv, RecordedWhole, RestorePoint, Image
<1>2. ASSUME NEW q \in Process PROVE Saved(q)'
    BY DEF BackupInv, Saved, Covers, Image
<1>3. QED
    BY <1>1, <1>2 DEF BackupInv

\* While one process writes, no other one is between its backup and its
\* migration.
LEMMA OthersSaved ==
    ASSUME RolloutInv, NEW p \in Process, lock \in {p, None}, NEW step, NEW l, Goto(p, step, l),
           Saved(p)'
    PROVE  \A q \in Process : Saved(q)'
<1> SUFFICES ASSUME NEW q \in Process, q # p PROVE Saved(q)'
    OBVIOUS
<1>1. pc'[q] = pc[q]
    BY DEF Goto, RolloutInv, TypeOK
<1>2. pc[q] \notin Locked
    BY OthersFree DEF RolloutInv
<1>3. QED
    BY <1>1, <1>2 DEF Saved, Locked, Steps

LEMMA OtherPlace ==
    ASSUME RolloutInv, NEW p \in Process, lock \in {p, None}, NEW step, NEW l, Goto(p, step, l),
           step \notin {"record", "migrate"}
    PROVE  \A q \in Process : Saved(q)'
<1>1. pc'[p] = step
    BY DEF Goto, RolloutInv, TypeOK
<1>2. Saved(p)'
    BY <1>1 DEF Saved
<1>3. QED
    BY <1>2, OthersSaved

\* A step to another place that leaves the files alone.
LEMMA MovedOn ==
    ASSUME RolloutInv, BackupInv, NEW p \in Process, NEW step, NEW l, Goto(p, step, l),
           step \notin {"record", "migrate"}, UNCHANGED <<db, backups, source, removed>>
    PROVE  BackupInv'
<1>1. \A q \in Process : pc'[q] \in {"record", "migrate"}
                           => pc'[q] = pc[q] /\ local'[q] = local[q]
    BY DEF Goto, RolloutInv, TypeOK
<1>2. QED
    BY <1>1, BackupsUndisturbed

\* Before the upgrade of a database there is no other one to restore.
LEMMA NothingYet ==
    ASSUME BackupInv, db = NoDatabase \/ db.version < TargetVersion \/ Blank(db)
    PROVE  source = None
BY DEF BackupInv, RestorePoint, Blank, TargetVersion

LEMMA ClassifyBacked ==
    ASSUME RolloutInv, BackupInv, NEW p \in Process, LockAndClassify(p)
    PROVE  BackupInv'
<1> DEFINE row == Row(db.version, db)
           l   == [local[p] EXCEPT !.row = row, !.version = db.version]
           step == IF row = "resume_needed" THEN "postflight"
                   ELSE IF row = "fresh_resume" /\ Verifies(db.backup, db.version)
                   THEN "migrate" ELSE "backup"
<1>1. CASE Refused(p)
    BY <1>1, MovedOn DEF Refused, Stops, disk, environment
<1>2. CASE ~Refused(p)
    <2>1. /\ db # NoDatabase /\ Supported(db.version) /\ Kind(row) = local[p].row
          /\ pc[p] = "confirm" /\ lock = None
          /\ removed' = (IF row = "resume_needed" THEN removed ELSE {})
          /\ UNCHANGED <<db, backups, source>>
        BY <1>2 DEF LockAndClassify, disk
    <2>2. db \in Databases /\ Keys(db)
        BY <2>1 DEF RolloutInv, DatabaseOK
    <2>3. row = Verdict(db)
        BY <2>2, RowVerdict
    <2>4. local[p].row \in {"fresh", "adoption", "resume_needed"}
        BY <2>1 DEF RolloutInv, Working, Work
    <2>5. row \in {"fresh_capture", "fresh_resume", "adoption", "resume_needed"}
        BY <2>1, <2>4, RowRange DEF Kind
    <2>6. PICK x : Goto(p, step, x)
        BY <1>2, <2>1, <2>5 DEF LockAndClassify, Locks
    <2> HIDE DEF row
    <2>7. pc'[p] = step
        BY <2>6 DEF Goto, RolloutInv, TypeOK
    <2>8. row # "resume_needed" => source = None
        BY <2>3, <2>5, NothingYet DEF Verdict
    <2>9. RecordedWhole' /\ RestorePoint'
        BY <2>1, <2>8 DEF BackupInv, RecordedWhole, RestorePoint, Image
    <2>10. Saved(p)'
        <3>1. CASE step = "migrate"
            <4>1. row = "fresh_resume" /\ Verifies(db.backup, db.version)
                BY <3>1
            <4>2. db.version < TargetVersion /\ db.backup # None
                BY <2>2, <2>3, <4>1 DEF Verdict, Keys, Recorded
            <4>3. backups[db.backup.path] = Image(db)
                BY <2>1, <4>1, <4>2 DEF Verifies, BackupInv, RecordedWhole
            <4>4. QED
                BY <2>1, <2>7, <3>1, <4>3 DEF Saved, Image
        <3>2. CASE step # "migrate"
            BY <2>7, <3>2 DEF Saved
        <3>3. QED
            BY <3>1, <3>2
    <2>11. \A q \in Process : Saved(q)'
        BY <2>1, <2>6, <2>10, OthersSaved
    <2>12. QED
        BY <2>9, <2>11 DEF BackupInv
<1>3. QED
    BY <1>1, <1>2

\* The steps that make the backup come before there is anything to restore.
LEMMA CopyBacked ==
    ASSUME RolloutInv, BackupInv, NEW p \in Process,
           CreateBackup(p) \/ CopyDatabase(p) \/ CopyFails(p)
    PROVE  BackupInv'
<1>1. /\ pc[p] \in {"backup", "copy"} /\ UNCHANGED <<db, source, removed>>
    BY DEF CreateBackup, CopyDatabase, CopyFails, environment
<1>2. /\ db \in Databases /\ Keys(db) /\ lock = p
      /\ Verdict(db) \in {"fresh_capture", "fresh_resume", "adoption"}
    <2>1. Work(p) /\ pc[p] \in Locked
        BY <1>1 DEF RolloutInv, Working, Locked, Steps
    <2>2. QED
        BY <1>1, <2>1, HoldsLock DEF Work, RolloutInv, DatabaseOK
<1>3. source = None
    BY <1>2, NothingYet DEF Verdict
<1>4. RecordedWhole' /\ RestorePoint'
    BY <1>1, <1>3 DEF BackupInv, RecordedWhole, RestorePoint, Image
<1>5. CASE CreateBackup(p) \/ CopyFails(p)
    <2>1. PICK step, x : step \in {"idle", "copy"} /\ Goto(p, step, x)
        BY <1>5 DEF CreateBackup, CopyFails, Stops
    <2>2. QED
        BY <1>2, <1>4, <2>1, OtherPlace DEF BackupInv
<1>6. CASE CopyDatabase(p)
    <2>1. /\ Goto(p, "record", local[p]) /\ local[p].backup \in Paths
          /\ backups' = [backups EXCEPT ![local[p].backup] = Image(db)]
        BY <1>6 DEF CopyDatabase, RolloutInv, Working, Work
    <2>2. pc'[p] = "record" /\ local'[p] = local[p]
        BY <2>1 DEF Goto, RolloutInv, TypeOK
    <2>3. backups'[local[p].backup] = Image(db)
        BY <2>1 DEF RolloutInv, TypeOK
    <2>4. Saved(p)'
        BY <1>1, <2>2, <2>3 DEF Saved, Covers, Image
    <2>5. QED
        BY <1>2, <1>4, <2>1, <2>4, OthersSaved DEF BackupInv
<1>7. QED
    BY <1>5, <1>6

LEMMA RecordBacked ==
    ASSUME RolloutInv, BackupInv, NEW p \in Process, RecordBaselineAndCutoff(p)
    PROVE  BackupInv'
<1> DEFINE path    == local[p].backup
           adopted == local[p].row = "adoption"
           step    == IF adopted THEN "postflight" ELSE "migrate"
<1>1. /\ pc[p] = "record" /\ UNCHANGED <<backups, removed>>
      /\ source' = (IF adopted THEN Image(db) ELSE source)
      /\ Goto(p, step, local[p])
    BY DEF RecordBaselineAndCutoff, environment
<1>2. /\ db \in Databases /\ Keys(db) /\ lock = p
      /\ local[p].row = Verdict(db) /\ Supported(db.version)
      /\ local[p].row \in {"fresh_capture", "fresh_resume", "adoption"}
    <2>1. Work(p) /\ pc[p] \in Locked
        BY <1>1 DEF RolloutInv, Working, Locked, Steps
    <2>2. QED
        BY <1>1, <2>1, HoldsLock DEF Work, RolloutInv, DatabaseOK
<1>3. /\ db' # NoDatabase /\ db'.backup # None /\ db'.backup.path = path
      /\ db'.backup.image = backups[path] /\ db'.version = db.version /\ Image(db') = Image(db)
    <2>1. RolloutInv'
        BY InvNext DEF Next, Upgrade
    <2>2. /\ db'.backup = [path |-> path, version |-> path[1], image |-> backups[path]]
          /\ db'.version = db.version /\ db'.content = db.content /\ db'.lost = db.lost
        BY <1>2 DEF RecordBaselineAndCutoff, Databases
    <2>3. path \in Paths /\ path[1] = db.version /\ backups[path] \in Files
        BY <1>1 DEF RolloutInv, Working, Work, TypeOK
    <2>4. db'.backup \in Identities
        BY <1>2, <2>2, <2>3 DEF Identities, Databases
    <2>5. pc'[p] \in {"postflight", "migrate"} /\ Work(p)'
        BY <1>1, <2>1 DEF Goto, RolloutInv, TypeOK, Working
    <2>6. QED
        BY <2>2, <2>4, <2>5, Unlike DEF Work, Image
<1>4. Covers(path, Image(db))
    BY <1>1 DEF BackupInv, Saved
<1>5. source = None
    BY <1>2, NothingYet DEF Verdict
<1>6. adopted => db.version = TargetVersion
    BY <1>2 DEF Verdict, Supported, MinSourceVersion, TargetVersion
<1>7. RecordedWhole'
    BY <1>3, <1>4 DEF RecordedWhole, Covers
<1>8. RestorePoint'
    BY <1>1, <1>3, <1>4, <1>5, <1>6 DEF RestorePoint, Covers
<1>9. Saved(p)'
    <2>1. pc'[p] = step
        BY <1>1 DEF Goto, RolloutInv, TypeOK
    <2>2. QED
        BY <1>1, <1>3, <1>4, <2>1 DEF Saved, Covers
<1>10. QED
    BY <1>1, <1>2, <1>7, <1>8, <1>9, OthersSaved DEF BackupInv

LEMMA MigrateBacked ==
    ASSUME RolloutInv, BackupInv, NEW p \in Process, Migrate(p)
    PROVE  BackupInv'
<1>1. /\ pc[p] = "migrate" /\ UNCHANGED <<backups, removed>> /\ source' = Image(db)
      /\ Goto(p, "postflight", local[p])
    BY DEF Migrate, environment
<1>2. /\ db \in Databases /\ lock = p /\ db.backup # None /\ db.version < TargetVersion
    <2>1. Work(p) /\ pc[p] \in Locked
        BY <1>1 DEF RolloutInv, Working, Locked, Steps
    <2>2. db # NoDatabase /\ db.version < TargetVersion /\ Recorded(db)
        BY <1>1, <2>1 DEF Work
    <2>3. QED
        BY <2>1, <2>2, HoldsLock DEF RolloutInv, DatabaseOK, Keys, Recorded
<1>3. db' # NoDatabase /\ db'.backup = db.backup /\ db'.version = TargetVersion
    <2>1. RolloutInv'
        BY InvNext DEF Next, Upgrade
    <2>2. pc'[p] = "postflight" /\ Work(p)'
        BY <1>1, <2>1 DEF Goto, RolloutInv, TypeOK, Working
    <2>3. db'.backup = db.backup
        BY <1>2 DEF Migrate, Databases
    <2>4. QED
        BY <2>2, <2>3 DEF Work
<1>4. db.backup.path \in removed \/ backups[db.backup.path] = Image(db)
    BY <1>1 DEF BackupInv, Saved
<1>5. RecordedWhole' /\ RestorePoint'
    BY <1>1, <1>2, <1>3, <1>4 DEF RecordedWhole, RestorePoint, TargetVersion
<1>6. QED
    BY <1>1, <1>2, <1>5, OtherPlace DEF BackupInv

\* Later writes at the target version keep the recorded backup.
LEMMA TargetBacked ==
    ASSUME RolloutInv, BackupInv, NEW p \in Process,
           Postflight(p) \/ ApplyQuarantine(p)
    PROVE  BackupInv'
<1>1. CASE Refused(p)
    BY <1>1, MovedOn DEF Refused, Stops, disk, environment
<1>2. CASE ~Refused(p)
    <2>1. /\ db # NoDatabase /\ db.version = TargetVersion /\ lock \in {p, None}
        <3>1. CASE Postflight(p)
            <4>1. Work(p) /\ pc[p] \in Locked /\ pc[p] = "postflight"
                BY <3>1 DEF RolloutInv, Working, Locked, Steps, Postflight
            <4>2. QED
                BY <4>1, HoldsLock DEF Work, RolloutInv
        <3>2. CASE ApplyQuarantine(p)
            BY <1>2, <3>2 DEF ApplyQuarantine, PostflightPassed
        <3>3. QED
            BY <3>1, <3>2
    <2>2. db \in Databases
        BY <2>1 DEF RolloutInv, DatabaseOK
    <2>3. /\ Goto(p, "idle", Idle) /\ UNCHANGED <<backups, source, removed>>
        BY <1>2 DEF Postflight, ApplyQuarantine, Stops, environment
    <2>4. /\ db'.version = db.version /\ db'.backup = db.backup
          /\ db' \in Databases
        <3>1. CASE Postflight(p)
            BY <2>2, <3>1 DEF Postflight, Databases
        <3>2. CASE ApplyQuarantine(p)
            <4> DEFINE m == db.marked + Matches
                       n == db.lost - Matches
            <4>1. db' = [db EXCEPT !.marked = m, !.lost = n, !.disposed = TRUE]
                BY <1>2, <2>2, <3>2 DEF ApplyQuarantine, Databases
            <4>2. m \in Nat /\ n \in Nat
                BY <2>2 DEF Matches, Databases
            <4> HIDE DEF m, n
            <4>3. QED
                BY <2>2, <4>1, <4>2 DEF Databases
        <3>3. QED
            BY <3>1, <3>2
    <2>5. RecordedWhole' /\ RestorePoint'
        BY <2>1, <2>3, <2>4, Unlike DEF BackupInv, RecordedWhole, RestorePoint, TargetVersion
    <2>6. QED
        BY <2>1, <2>3, <2>5, OtherPlace DEF BackupInv
<1>3. QED
    BY <1>1, <1>2

\* A database in creation has no predecessor.
LEMMA CreateBacked ==
    ASSUME RolloutInv, BackupInv, NEW p \in Process, Create(p)
    PROVE  BackupInv'
<1>1. CASE CreateDatabase(p)
    <2>1. PICK x : Goto(p, "create", x)
        BY <1>1 DEF CreateDatabase, Locks
    <2>2. QED
        BY <1>1, <2>1, MovedOn DEF CreateDatabase, disk, environment
<1>2. CASE ResetState(p)
    <2>1. PICK x : Goto(p, "create", x)
        BY <1>2 DEF ResetState, Locks
    <2>2. lock = None /\ db' = NoDatabase /\ source' = None
        BY <1>2 DEF ResetState, Locks
    <2>3. QED
        BY <2>1, <2>2, OtherPlace DEF BackupInv, RecordedWhole, RestorePoint
<1>3. CASE CreateFile(p) \/ CreateMigrate(p) \/ RecordAdoptionAtCreation(p) \/ CreateFails(p)
    <2>1. pc[p] \in {"create", "create_migrate", "create_adopt"} /\ UNCHANGED source
        BY <1>3 DEF CreateFile, CreateMigrate, RecordAdoptionAtCreation, CreateFails
    <2>2. Work(p) /\ lock = p
        BY <2>1, HoldsLock DEF RolloutInv, Working, Locked, Steps
    <2>3. db = NoDatabase \/ Blank(db)
        BY <2>1, <2>2 DEF Work
    <2>4. source' = None
        BY <2>1, <2>3, NothingYet
    <2>5. db' = NoDatabase \/ db'.backup = None
        <3>1. CASE CreateFile(p)
            BY <3>1 DEF CreateFile, File
        <3>2. CASE CreateFails(p)
            BY <3>2 DEF CreateFails
        <3>3. CASE CreateMigrate(p)
            <4>1. pc[p] = "create_migrate"
                BY <3>3 DEF CreateMigrate
            <4>2. db \in Databases /\ Blank(db)
                BY <2>2, <4>1 DEF Work, RolloutInv, DatabaseOK
            <4>3. QED
                BY <3>3, <4>2 DEF CreateMigrate, Blank, Databases
        <3>4. CASE RecordAdoptionAtCreation(p)
            <4>1. pc[p] = "create_adopt"
                BY <3>4 DEF RecordAdoptionAtCreation
            <4>2. db \in Databases /\ Blank(db)
                BY <2>2, <4>1 DEF Work, RolloutInv, DatabaseOK
            <4>3. QED
                BY <3>4, <4>2 DEF RecordAdoptionAtCreation, Blank, Databases
        <3>5. QED
            BY <1>3, <3>1, <3>2, <3>3, <3>4
    <2>6. PICK step, x : step \in {"create_migrate", "create_adopt", "idle"} /\ Goto(p, step, x)
        BY <1>3 DEF CreateFile, CreateMigrate, RecordAdoptionAtCreation, CreateFails, Stops
    <2>7. QED
        BY <2>2, <2>4, <2>5, <2>6, OtherPlace DEF BackupInv, RecordedWhole, RestorePoint
<1>4. QED
    BY <1>1, <1>2, <1>3 DEF Create

LEMMA EnvironmentBacked ==
    ASSUME RolloutInv, BackupInv, ~StepsBack,
           Tick \/ OlderReleaseWrites \/ OperatorRemovesBackup
    PROVE  BackupInv'
<1>1. CASE Tick
    BY <1>1, BackupsUndisturbed DEF Tick, disk
<1>2. CASE OperatorRemovesBackup
    <2>1. /\ UNCHANGED <<db, pc, local, source>>
          /\ \E path \in Paths : /\ backups' = [backups EXCEPT ![path] = Missing]
                                 /\ removed' = removed \cup {path}
        BY <1>2 DEF OperatorRemovesBackup
    <2>2. ASSUME NEW path, NEW image
          PROVE  /\ backups[path] = image => backups'[path] = image \/ path \in removed'
                 /\ Covers(path, image) => Covers(path, image)'
        BY <2>1 DEF Covers, RolloutInv, TypeOK
    <2>3. RecordedWhole' /\ RestorePoint'
        BY <2>1, <2>2 DEF BackupInv, RecordedWhole, RestorePoint, Image
    <2>4. ASSUME NEW q \in Process PROVE Saved(q)'
        <3>1. Saved(q)
            BY DEF BackupInv
        <3>2. pc[q] = "record" =>
                 \/ backups'[local[q].backup] = Image(db)
                 \/ backups'[local[q].backup] = Missing /\ local[q].backup \in removed'
            BY <2>2, <3>1 DEF Saved, Covers
        <3>3. pc[q] = "migrate" =>
                 db.backup.path \in removed' \/ backups'[db.backup.path] = Image(db)
            BY <2>1, <2>2, <3>1 DEF Saved
        <3>4. QED
            BY <2>1, <3>2, <3>3 DEF Saved, Covers, Image
    <2>5. QED
        BY <2>3, <2>4 DEF BackupInv
<1>3. CASE OlderReleaseWrites
    <2>1. /\ db # NoDatabase /\ db.version < TargetVersion /\ lock = None /\ db.baseline = None
          /\ db' = [db EXCEPT !.lost = @ + 1]
          /\ UNCHANGED <<pc, source>>
        BY <1>3 DEF OlderReleaseWrites
    <2>2. db \in Databases /\ Keys(db)
        BY <2>1 DEF RolloutInv, DatabaseOK
    <2>3. source = None /\ db'.backup = None
        BY <2>1, <2>2, NothingYet DEF Keys, Blank, Recorded, Databases
    <2>4. ASSUME NEW q \in Process PROVE Saved(q)'
        BY <2>1, Unlike DEF Saved, RolloutInv, TypeOK, Locked, Steps
    <2>5. QED
        BY <2>1, <2>3, <2>4 DEF BackupInv, RecordedWhole, RestorePoint
<1>4. QED
    BY <1>1, <1>2, <1>3

LEMMA BackupStep ==
    ASSUME RolloutInv, BackupInv, ~StepsBack, [Next]_vars
    PROVE  BackupInv'
<1>1. ASSUME NEW p \in Process, Upgrade(p) PROVE BackupInv'
    <2>1. CASE PreviewVersion(p) \/ PreviewKeys(p) \/ ConfirmFails(p) \/ WriteFails(p)
        <3>1. PICK step, x : step \in {"preview", "confirm", "idle"} /\ Goto(p, step, x)
            BY <2>1 DEF PreviewVersion, PreviewKeys, ConfirmFails, WriteFails, Refused, Stops
        <3>2. UNCHANGED <<db, backups, source, removed>>
            BY <2>1 DEF PreviewVersion, PreviewKeys, ConfirmFails, WriteFails, Refused, disk,
               environment
        <3>3. QED
            BY <3>1, <3>2, MovedOn
    <2>2. QED
        BY <1>1, <2>1, ClassifyBacked, CopyBacked, RecordBacked, MigrateBacked, TargetBacked
           DEF Upgrade
<1>2. ASSUME NEW p \in Process, Quarantine(p) PROVE BackupInv'
    <2>1. CASE PreviewQuarantine(p)
        <3>1. PICK x : Goto(p, "confirm_quarantine", x)
            BY <2>1 DEF PreviewQuarantine
        <3>2. QED
            BY <2>1, <3>1, MovedOn DEF PreviewQuarantine, disk, environment
    <2>2. QED
        BY <1>2, <2>1, TargetBacked DEF Quarantine
<1>3. ASSUME NEW p \in Process,
             Serve(p, "run") \/ Serve(p, "mutate") \/ Leave(p) \/ Crash(p)
      PROVE  BackupInv'
    <2>1. PICK step, x : step \in {"serving", "idle"} /\ Goto(p, step, x)
        BY <1>3 DEF Serve, Locks, Leave, Crash, Refused, Stops
    <2>2. UNCHANGED <<db, backups, source, removed>>
        BY <1>3 DEF Serve, Leave, Crash, Refused, disk, environment
    <2>3. QED
        BY <2>1, <2>2, MovedOn
<1>4. CASE UNCHANGED vars
    BY <1>4, BackupsUndisturbed DEF vars
<1>5. QED
    BY <1>1, <1>2, <1>3, <1>4, CreateBacked, EnvironmentBacked DEF Next

\* While no older release writes to a database once its upgrade has recorded a
\* backup, an upgraded installation keeps, until the operator removes it, a
\* whole copy of what the upgrade started from (backup_unix.go and
\* database_upgrade.go).
THEOREM RestorePointKept == ASSUME ~StepsBack PROVE Spec => []BackedUp
<1>1. Init => BackupInv
    BY FoundOK DEF Init, BackupInv, RecordedWhole, RestorePoint, Saved, Blank
<1>2. RolloutInv /\ BackupInv /\ [Next]_vars => BackupInv'
    BY BackupStep
<1>3. BackupInv => BackedUp
    BY DEF BackupInv, RestorePoint, BackedUp
<1>4. QED
    BY Invariant, <1>1, <1>2, <1>3, PTL DEF Spec

-----------------------------------------------------------------------------
(* What the migrations leave of the data.                                  *)

Span == 32 .. 47

LEMMA StepIs ==
    ASSUME NEW v \in Nat, NEW n \in Nat, NEW k \in Nat, NEW c
    PROVE  Step(v, n, k, c) = IF v < k /\ k <= n THEN Migration(k, c) ELSE c
BY DEF Step

LEMMA MigrationIs ==
    ASSUME NEW c
    PROVE  /\ Migration(32, c) = V32(c) /\ Migration(33, c) = V33(c) /\ Migration(34, c) = V34(c) /\ Migration(35, c) = V35(c)
           /\ Migration(36, c) = V36(c) /\ Migration(37, c) = V37(c) /\ Migration(38, c) = V38(c) /\ Migration(39, c) = V39(c)
           /\ Migration(40, c) = V40(c) /\ Migration(41, c) = V41(c) /\ Migration(42, c) = V42(c) /\ Migration(43, c) = V43(c)
           /\ Migration(44, c) = V44(c) /\ Migration(45, c) = V45(c) /\ Migration(46, c) = V46(c) /\ Migration(47, c) = V47(c)
BY DEF Migration

\* What a migration that only adds tables leaves alone.
SameRows(c, d) ==
    /\ d.journal = c.journal /\ d.bound = c.bound /\ d.detached = c.detached
    /\ d.policy = c.policy /\ d.wakes = c.wakes /\ d.owner = c.owner
    /\ d.facts = c.facts /\ d.docs = c.docs /\ d.queued = c.queued
    /\ d.indexed = c.indexed /\ d.held = c.held /\ d.project = c.project
    /\ d.named = c.named /\ d.refs = c.refs

LEMMA PlainMigrations ==
    ASSUME NEW c \in Contents
    PROVE  /\ V32(c).shape = c.shape \cup {"jobs", "memory"} /\ V32(c).admits = c.admits
           /\ SameRows(c, V32(c))
           /\ V33(c).shape = c.shape \cup {"workstreams"} /\ V33(c).admits = c.admits \cup {"create_workstream"}
           /\ SameRows(c, V33(c))
           /\ V34(c).shape = c.shape \cup {"results"} /\ V34(c).admits = c.admits
           /\ SameRows(c, V34(c))
           /\ V35(c).shape = c.shape /\ V35(c).admits = c.admits \cup {"link_completed_result"}
           /\ SameRows(c, V35(c))
           /\ V36(c).shape = c.shape \cup {"epochs"} /\ V36(c).admits = c.admits
           /\ SameRows(c, V36(c))
           /\ V38(c).shape = c.shape \cup {"knowledge"} /\ V38(c).admits = c.admits
           /\ SameRows(c, V38(c))
           /\ V40(c).shape = c.shape \cup {"analyses"} /\ V40(c).admits = c.admits
           /\ SameRows(c, V40(c))
           /\ V43(c).shape = c.shape \cup {"transcripts"} /\ V43(c).admits = c.admits
           /\ SameRows(c, V43(c))
           /\ V44(c).shape = c.shape \cup {"error_classes"} /\ V44(c).admits = c.admits
           /\ SameRows(c, V44(c))
<1>1. /\ V32(c).shape = c.shape \cup {"jobs", "memory"}
      /\ V32(c).admits = c.admits /\ SameRows(c, V32(c))
    BY DEF V32, Contents, SameRows
<1>2. /\ V33(c).shape = c.shape \cup {"workstreams"}
      /\ V33(c).admits = c.admits \cup {"create_workstream"} /\ SameRows(c, V33(c))
    BY DEF V33, Contents, SameRows
<1>3. /\ V34(c).shape = c.shape \cup {"results"}
      /\ V34(c).admits = c.admits /\ SameRows(c, V34(c))
    BY DEF V34, Contents, SameRows
<1>4. /\ V35(c).shape = c.shape
      /\ V35(c).admits = c.admits \cup {"link_completed_result"} /\ SameRows(c, V35(c))
    BY DEF V35, Contents, SameRows
<1>5. /\ V36(c).shape = c.shape \cup {"epochs"}
      /\ V36(c).admits = c.admits /\ SameRows(c, V36(c))
    BY DEF V36, Contents, SameRows
<1>6. /\ V38(c).shape = c.shape \cup {"knowledge"}
      /\ V38(c).admits = c.admits /\ SameRows(c, V38(c))
    BY DEF V38, Contents, SameRows
<1>7. /\ V40(c).shape = c.shape \cup {"analyses"}
      /\ V40(c).admits = c.admits /\ SameRows(c, V40(c))
    BY DEF V40, Contents, SameRows
<1>8. /\ V43(c).shape = c.shape \cup {"transcripts"}
      /\ V43(c).admits = c.admits /\ SameRows(c, V43(c))
    BY DEF V43, Contents, SameRows
<1>9. /\ V44(c).shape = c.shape \cup {"error_classes"}
      /\ V44(c).admits = c.admits /\ SameRows(c, V44(c))
    BY DEF V44, Contents, SameRows
<1>10. QED
    BY <1>1, <1>2, <1>3, <1>4, <1>5, <1>6, <1>7, <1>8, <1>9

SilentPolicy(c) ==
    [j \in Jobs |-> IF j \in c.detached /\ c.bound[j] # "none" THEN "workstream_only"
                                                             ELSE "delivery_only"]

\* What the others do to the rows they find.
LEMMA DataMigrations ==
    ASSUME NEW c \in Contents
    PROVE  /\ V37(c).shape = c.shape \cup {"bindings"} /\ V37(c).admits = c.admits \cup {"start_task"}
           /\ SameRows([c EXCEPT !.bound = [j \in Jobs |-> "none"]], V37(c))
           /\ V39(c).shape = c.shape \cup {"retrieval"} /\ V39(c).admits = c.admits
           /\ SameRows([c EXCEPT !.queued = c.facts \cup Present(c)], V39(c))
           /\ V41(c).shape = c.shape \cup {"result_refs"} /\ V41(c).admits = c.admits
           /\ SameRows([c EXCEPT !.refs = c.named], V41(c))
           /\ V45(c).shape = c.shape \cup {"policies"} /\ V45(c).admits = c.admits
           /\ SameRows([c EXCEPT !.policy = SilentPolicy(c)], V45(c))
           /\ V46(c).shape = c.shape \cup {"task_jobs"} /\ V46(c).admits = c.admits
           /\ SameRows([c EXCEPT !.owner = NoJob], V46(c))
<1>1. /\ V37(c).shape = c.shape \cup {"bindings"} /\ V37(c).admits = c.admits \cup {"start_task"}
      /\ SameRows([c EXCEPT !.bound = [j \in Jobs |-> "none"]], V37(c))
    BY DEF V37, Contents, SameRows
<1>2. /\ V39(c).shape = c.shape \cup {"retrieval"} /\ V39(c).admits = c.admits
      /\ SameRows([c EXCEPT !.queued = c.facts \cup Present(c)], V39(c))
    BY DEF V39, Contents, SameRows
<1>3. /\ V41(c).shape = c.shape \cup {"result_refs"} /\ V41(c).admits = c.admits
      /\ SameRows([c EXCEPT !.refs = c.named], V41(c))
    BY DEF V41, Contents, SameRows
<1>4. /\ V45(c).shape = c.shape \cup {"policies"} /\ V45(c).admits = c.admits
      /\ SameRows([c EXCEPT !.policy = SilentPolicy(c)], V45(c))
    BY DEF V45, Contents, SameRows, SilentPolicy
<1>5. /\ V46(c).shape = c.shape \cup {"task_jobs"} /\ V46(c).admits = c.admits
      /\ SameRows([c EXCEPT !.owner = NoJob], V46(c))
    BY DEF V46, Contents, SameRows
<1>6. QED
    BY <1>1, <1>2, <1>3, <1>4, <1>5

\* What no migration touches.
SameEvidence(c, d) ==
    d.journal = c.journal /\ d.detached = c.detached /\ d.facts = c.facts /\ d.named = c.named

\* The migration that ends imported documents, part by part.
Imported(c) == {d \in Docs : c.docs[d] = "imported"}
Stale(c)    == {d \in Docs : c.docs[d] \in {"stale", "stale_archived"}}

LEMMA V42Is ==
    ASSUME NEW c \in Contents
    PROVE  LET gone == Imported(c) \cup Stale(c) IN
           /\ V42(c).docs = [d \in Docs |-> IF d \in gone THEN "none" ELSE c.docs[d]]
           /\ V42(c).queued = (c.queued \ (Docs \ (Present(c) \ Imported(c)))) \cup Stale(c)
           /\ V42(c).indexed = c.indexed \ gone
           /\ V42(c).held = c.held \cup {d \in Docs : c.docs[d] = "active"}
           /\ V42(c).project = (c.project \/ gone # {})
           /\ V42(c).bound = c.bound /\ V42(c).policy = c.policy /\ V42(c).wakes = c.wakes
           /\ V42(c).owner = c.owner /\ V42(c).refs = c.refs
           /\ V42(c).shape = c.shape \ {"memory"} /\ V42(c).admits = c.admits
           /\ SameEvidence(c, V42(c))
<1> DEFINE gone    == Imported(c) \cup Stale(c)
           docs    == [d \in Docs |-> IF d \in gone THEN "none" ELSE c.docs[d]]
           queued  == (c.queued \ (Docs \ (Present(c) \ Imported(c)))) \cup Stale(c)
           indexed == c.indexed \ gone
           held    == c.held \cup {d \in Docs : c.docs[d] = "active"}
           project == c.project \/ gone # {}
           shape   == c.shape \ {"memory"}
<1>1. V42(c) = [c EXCEPT !.shape = shape, !.docs = docs, !.queued = queued,
                         !.indexed = indexed, !.held = held, !.project = project]
    BY DEF V42, Imported, Stale
<1> HIDE DEF shape, docs, queued, indexed, held, project
<1>2. /\ V42(c).docs = docs /\ V42(c).queued = queued /\ V42(c).indexed = indexed
      /\ V42(c).held = held /\ V42(c).project = project
      /\ V42(c).bound = c.bound /\ V42(c).policy = c.policy /\ V42(c).wakes = c.wakes
      /\ V42(c).owner = c.owner /\ V42(c).refs = c.refs
      /\ V42(c).shape = shape /\ V42(c).admits = c.admits
      /\ SameEvidence(c, V42(c))
    BY <1>1 DEF Contents, SameEvidence
<1>3. QED
    BY <1>2 DEF shape, docs, queued, indexed, held, project

\* The last migration, field by field.
LEMMA V47Is ==
    ASSUME NEW c \in Contents
    PROVE  LET heirs  == {j \in Jobs : c.bound[j] = "current"}
               silent == {j \in Jobs : c.policy[j] = "workstream_only"}
           IN  /\ V47(c).wakes = c.wakes \ silent
               /\ V47(c).owner = IF c.owner = NoJob /\ heirs # {}
                                 THEN CHOOSE j \in heirs : \A k \in heirs : j <= k ELSE c.owner
               /\ V47(c).policy = [j \in Jobs |-> IF j \in silent THEN "delivery_only" ELSE c.policy[j]]
               /\ V47(c).bound = [j \in Jobs |-> "none"]
               /\ V47(c).shape = c.shape \ {"bindings"}
               /\ V47(c).admits = c.admits \cup {"queue_task", "settle_task"}
               /\ V47(c).journal = c.journal /\ V47(c).detached = c.detached /\ V47(c).facts = c.facts
               /\ V47(c).docs = c.docs /\ V47(c).queued = c.queued /\ V47(c).indexed = c.indexed /\ V47(c).held = c.held
               /\ V47(c).project = c.project /\ V47(c).named = c.named /\ V47(c).refs = c.refs
<1> DEFINE heirs  == {j \in Jobs : c.bound[j] = "current"}
           silent == {j \in Jobs : c.policy[j] = "workstream_only"}
           wakes  == c.wakes \ silent
           owner  == IF c.owner = NoJob /\ heirs # {}
                     THEN CHOOSE j \in heirs : \A k \in heirs : j <= k ELSE c.owner
           policy == [j \in Jobs |-> IF j \in silent THEN "delivery_only" ELSE c.policy[j]]
           bound  == [j \in Jobs |-> "none"]
           shape  == c.shape \ {"bindings"}
           admits == c.admits \cup {"queue_task", "settle_task"}
<1>1. V47(c) = [c EXCEPT !.wakes = wakes, !.owner = owner, !.policy = policy,
                         !.bound = bound, !.shape = shape, !.admits = admits]
    BY DEF V47
<1>2. c \in Contents
    OBVIOUS
<1> HIDE DEF wakes, owner, policy, bound, shape, admits
<1>3. /\ V47(c).wakes = wakes /\ V47(c).owner = owner /\ V47(c).policy = policy
      /\ V47(c).bound = bound /\ V47(c).shape = shape /\ V47(c).admits = admits
      /\ V47(c).journal = c.journal /\ V47(c).detached = c.detached /\ V47(c).facts = c.facts
      /\ V47(c).docs = c.docs /\ V47(c).queued = c.queued /\ V47(c).indexed = c.indexed /\ V47(c).held = c.held
      /\ V47(c).project = c.project /\ V47(c).named = c.named /\ V47(c).refs = c.refs
    BY <1>1, <1>2 DEF Contents
<1>4. QED
    BY <1>3 DEF wakes, owner, policy, bound, shape, admits

\* The tables and the check of the journal that a migration leaves depend on
\* nothing but those it finds.
SameSchema(c, d) == c.shape = d.shape /\ c.admits = d.admits

LEMMA SchemaStep ==
    ASSUME NEW k \in Span, NEW c \in Contents, NEW d \in Contents, SameSchema(c, d)
    PROVE  SameSchema(Migration(k, c), Migration(k, d))
<1>1. SameSchema(V32(c), V32(d))
    BY DEF V32, Contents, SameSchema
<1>2. SameSchema(V33(c), V33(d))
    BY DEF V33, Contents, SameSchema
<1>3. SameSchema(V34(c), V34(d))
    BY DEF V34, Contents, SameSchema
<1>4. SameSchema(V35(c), V35(d))
    BY DEF V35, Contents, SameSchema
<1>5. SameSchema(V36(c), V36(d))
    BY DEF V36, Contents, SameSchema
<1>6. SameSchema(V37(c), V37(d))
    BY DEF V37, Contents, SameSchema
<1>7. SameSchema(V38(c), V38(d))
    BY DEF V38, Contents, SameSchema
<1>8. SameSchema(V39(c), V39(d))
    BY DEF V39, Contents, SameSchema
<1>9. SameSchema(V40(c), V40(d))
    BY DEF V40, Contents, SameSchema
<1>10. SameSchema(V41(c), V41(d))
    BY DEF V41, Contents, SameSchema
<1>11. SameSchema(V42(c), V42(d))
    <2>1. V42(c).shape = c.shape \ {"memory"} /\ V42(c).admits = c.admits
        BY DEF V42, Contents
    <2>2. V42(d).shape = d.shape \ {"memory"} /\ V42(d).admits = d.admits
        BY DEF V42, Contents
    <2>3. QED
        BY <2>1, <2>2 DEF SameSchema
<1>12. SameSchema(V43(c), V43(d))
    BY DEF V43, Contents, SameSchema
<1>13. SameSchema(V44(c), V44(d))
    BY DEF V44, Contents, SameSchema
<1>14. SameSchema(V45(c), V45(d))
    BY DEF V45, Contents, SameSchema
<1>15. SameSchema(V46(c), V46(d))
    BY DEF V46, Contents, SameSchema
<1>16. SameSchema(V47(c), V47(d))
    BY V47Is DEF SameSchema
<1>17. CASE k \in 32 .. 35
    <2>1. k = 32 \/ k = 33 \/ k = 34 \/ k = 35
        BY <1>17
    <2>2. QED
        BY <2>1, MigrationIs, <1>1, <1>2, <1>3, <1>4
<1>18. CASE k \in 36 .. 39
    <2>1. k = 36 \/ k = 37 \/ k = 38 \/ k = 39
        BY <1>18
    <2>2. QED
        BY <2>1, MigrationIs, <1>5, <1>6, <1>7, <1>8
<1>19. CASE k \in 40 .. 43
    <2>1. k = 40 \/ k = 41 \/ k = 42 \/ k = 43
        BY <1>19
    <2>2. QED
        BY <2>1, MigrationIs, <1>9, <1>10, <1>11, <1>12
<1>20. CASE k \in 44 .. 47
    <2>1. k = 44 \/ k = 45 \/ k = 46 \/ k = 47
        BY <1>20
    <2>2. QED
        BY <2>1, MigrationIs, <1>13, <1>14, <1>15, <1>16
<1>21. QED
    BY <1>17, <1>18, <1>19, <1>20 DEF Span

LEMMA UptoTyped ==
    ASSUME NEW v \in Nat, NEW n \in Nat, NEW c \in Contents
    PROVE  /\ To35(v, n, c) \in Contents /\ To39(v, n, c) \in Contents
           /\ To43(v, n, c) \in Contents /\ To47(v, n, c) \in Contents
           /\ Upto(v, n, c) \in Contents
<1>1. \A k \in Nat : \A x \in Contents : Step(v, n, k, x) \in Contents
    BY MigrationTyped DEF Step
<1>2. \A x \in Contents : /\ To35(v, n, x) \in Contents /\ To39(v, n, x) \in Contents
                          /\ To43(v, n, x) \in Contents /\ To47(v, n, x) \in Contents
    BY <1>1 DEF To35, To39, To43, To47
<1>3. QED
    BY <1>2 DEF Upto

LEMMA SchemaFollows ==
    ASSUME NEW v \in Nat, NEW n \in Nat, NEW c \in Contents, NEW d \in Contents, SameSchema(c, d)
    PROVE  SameSchema(Upto(v, n, c), Upto(v, n, d))
<1>1. \A k \in Span : \A x, y \in Contents :
        SameSchema(x, y) => SameSchema(Step(v, n, k, x), Step(v, n, k, y))
    BY SchemaStep, StepIs DEF Span
<1>2. \A k \in Span : \A x \in Contents : Step(v, n, k, x) \in Contents
    BY MigrationTyped DEF Step, Span
<1>3. \A x, y \in Contents : SameSchema(x, y) => SameSchema(To35(v, n, x), To35(v, n, y))
    BY <1>1, <1>2 DEF To35, Span
<1>4. \A x, y \in Contents : SameSchema(x, y) => SameSchema(To39(v, n, x), To39(v, n, y))
    BY <1>1, <1>2 DEF To39, Span
<1>5. \A x, y \in Contents : SameSchema(x, y) => SameSchema(To43(v, n, x), To43(v, n, y))
    BY <1>1, <1>2 DEF To43, Span
<1>6. \A x, y \in Contents : SameSchema(x, y) => SameSchema(To47(v, n, x), To47(v, n, y))
    BY <1>1, <1>2 DEF To47, Span
<1>7. QED
    BY <1>3, <1>4, <1>5, <1>6, UptoTyped DEF Upto

\* Upgrading what a fresh file of version v has makes what a fresh file of the
\* target version has.
LEMMA UptoComposes ==
    ASSUME NEW v \in MinSourceVersion .. TargetVersion, NEW c \in Contents
    PROVE  Upto(v, 47, Upto(0, v, c)) = Upto(0, 47, c)
<1>1. \A k \in Span : \A x : /\ k > v => Step(0, v, k, x) = x
                             /\ k <= v => Step(v, 47, k, x) = x
                             /\ k <= v => Step(0, v, k, x) = Step(0, 47, k, x)
                             /\ k > v => Step(v, 47, k, x) = Step(0, 47, k, x)
    BY StepIs DEF Span, MinSourceVersion, TargetVersion
<1>2. v \in 33 .. 35 \/ v \in 36 .. 39 \/ v \in 40 .. 43 \/ v \in 44 .. 47
    BY DEF MinSourceVersion, TargetVersion
<1>3. /\ v >= 35 => \A x : To35(0, v, x) = To35(0, 47, x) /\ To35(v, 47, x) = x
      /\ v >= 39 => \A x : To39(0, v, x) = To39(0, 47, x) /\ To39(v, 47, x) = x
      /\ v >= 43 => \A x : To43(0, v, x) = To43(0, 47, x) /\ To43(v, 47, x) = x
      /\ v >= 47 => \A x : To47(0, v, x) = To47(0, 47, x) /\ To47(v, 47, x) = x
    BY <1>1 DEF To35, To39, To43, To47, Span
<1>4. /\ v < 36 => \A x : To39(0, v, x) = x /\ To39(v, 47, x) = To39(0, 47, x)
      /\ v < 40 => \A x : To43(0, v, x) = x /\ To43(v, 47, x) = To43(0, 47, x)
      /\ v < 44 => \A x : To47(0, v, x) = x /\ To47(v, 47, x) = To47(0, 47, x)
    BY <1>1 DEF To35, To39, To43, To47, Span
<1>5. /\ v \in 33 .. 35 => \A x : To35(v, 47, To35(0, v, x)) = To35(0, 47, x)
      /\ v \in 36 .. 39 => \A x : To39(v, 47, To39(0, v, x)) = To39(0, 47, x)
      /\ v \in 40 .. 43 => \A x : To43(v, 47, To43(0, v, x)) = To43(0, 47, x)
      /\ v \in 44 .. 47 => \A x : To47(v, 47, To47(0, v, x)) = To47(0, 47, x)
    <2>1. CASE v \in 33 .. 35
        <3>1. v = 33 \/ v = 34 \/ v = 35
            BY <2>1
        <3>2. QED
            BY <1>1, <2>1, <3>1 DEF To35, Span
    <2>2. CASE v \in 36 .. 39
        <3>1. v = 36 \/ v = 37 \/ v = 38 \/ v = 39
            BY <2>2
        <3>2. QED
            BY <1>1, <2>2, <3>1 DEF To39, Span
    <2>3. CASE v \in 40 .. 43
        <3>1. v = 40 \/ v = 41 \/ v = 42 \/ v = 43
            BY <2>3
        <3>2. QED
            BY <1>1, <2>3, <3>1 DEF To43, Span
    <2>4. CASE v \in 44 .. 47
        <3>1. v = 44 \/ v = 45 \/ v = 46 \/ v = 47
            BY <2>4
        <3>2. QED
            BY <1>1, <2>4, <3>1 DEF To47, Span
    <2>5. QED
        BY <1>2, <2>1, <2>2, <2>3, <2>4
<1>6. QED
    <2>1. CASE v \in 33 .. 35
        BY <1>4, <1>5, <2>1 DEF Upto
    <2>2. CASE v \in 36 .. 39
        BY <1>3, <1>4, <1>5, <2>2 DEF Upto
    <2>3. CASE v \in 40 .. 43
        BY <1>3, <1>4, <1>5, <2>3 DEF Upto
    <2>4. CASE v \in 44 .. 47
        BY <1>3, <1>5, <2>4 DEF Upto
    <2>5. QED
        BY <1>2, <2>1, <2>2, <2>3, <2>4

LEMMA SameRowsTransitive ==
    ASSUME NEW a, NEW b, NEW c, SameRows(a, b), SameRows(b, c)
    PROVE  SameRows(a, c)
BY DEF SameRows

LEMMA PlainStep ==
    ASSUME NEW v \in Nat, NEW c \in Contents, NEW k \in {32, 33, 34, 35, 36, 38, 40, 43, 44}
    PROVE  Step(v, 47, k, c) \in Contents /\ SameRows(c, Step(v, 47, k, c))
<1>1. SameRows(c, Migration(k, c))
    <2>1. CASE k \in {32, 33, 34, 35, 36}
        BY <2>1, MigrationIs, PlainMigrations
    <2>2. CASE k \in {38, 40, 43, 44}
        BY <2>2, MigrationIs, PlainMigrations
    <2>3. QED
        BY <2>1, <2>2
<1>2. k \in Nat /\ Migration(k, c) \in Contents /\ SameRows(c, c)
    BY MigrationTyped DEF SameRows
<1>3. QED
    BY <1>1, <1>2, StepIs

LEMMA StepTyped ==
    ASSUME NEW v \in Nat, NEW k \in Nat, NEW c \in Contents
    PROVE  Step(v, 47, k, c) \in Contents
BY MigrationTyped, StepIs

LEMMA Rows35 ==
    ASSUME NEW v \in Nat, NEW c \in Contents
    PROVE  SameRows(c, To35(v, 47, c))
<1> DEFINE a == Step(v, 47, 32, c)
           b == Step(v, 47, 33, a)
           x == Step(v, 47, 34, b)
           y == Step(v, 47, 35, x)
<1>1. To35(v, 47, c) = y
    BY DEF To35
<1>2. a \in Contents /\ SameRows(c, a)
    BY PlainStep
<1> HIDE DEF a
<1>3. b \in Contents /\ SameRows(c, b)
    BY <1>2, PlainStep, SameRowsTransitive
<1> HIDE DEF b
<1>4. x \in Contents /\ SameRows(c, x)
    BY <1>3, PlainStep, SameRowsTransitive
<1> HIDE DEF x
<1>5. SameRows(c, y)
    BY <1>4, PlainStep, SameRowsTransitive
<1>6. QED
    BY <1>1, <1>5

\* The queues are seeded, and no job was bound before.
LEMMA Rows39 ==
    ASSUME NEW v \in Nat, NEW c \in Contents, v < 37 => \A j \in Jobs : c.bound[j] = "none"
    PROVE  SameRows([c EXCEPT !.queued = IF v < 39 THEN c.facts \cup Present(c) ELSE c.queued],
                    To39(v, 47, c))
<1> DEFINE a == Step(v, 47, 36, c)
           b == Step(v, 47, 37, a)
           x == Step(v, 47, 38, b)
           y == Step(v, 47, 39, x)
<1>1. To39(v, 47, c) = y
    BY DEF To39
<1>2. a \in Contents /\ SameRows(c, a)
    BY PlainStep
<1> HIDE DEF a
<1>3. b \in Contents /\ SameRows(c, b)
    <2>1. b = IF v < 37 THEN V37(a) ELSE a
        BY StepIs, MigrationIs
    <2>2. b \in Contents
        BY <1>2, StepTyped
    <2> HIDE DEF b
    <2>3. CASE v < 37
        <3>1. a.bound = [j \in Jobs |-> "none"]
            BY <1>2, <2>3 DEF SameRows, Contents
        <3> DEFINE none == [j \in Jobs |-> "none"]
        <3>2. b = V37(a) /\ SameRows([a EXCEPT !.bound = none], V37(a))
            BY <1>2, <2>1, <2>3, DataMigrations
        <3> HIDE DEF none
        <3>3. SameRows(a, b)
            <4>1. a.bound = none
                BY <3>1 DEF none
            <4>2. QED
                BY <1>2, <3>2, <4>1 DEF SameRows, Contents
        <3>4. QED
            BY <1>2, <2>2, <3>3, SameRowsTransitive
    <2>4. CASE ~(v < 37)
        BY <1>2, <2>1, <2>4
    <2>5. QED
        BY <2>3, <2>4
<1> HIDE DEF b
<1>4. x \in Contents /\ SameRows(c, x)
    BY <1>3, PlainStep, SameRowsTransitive
<1> HIDE DEF x
<1>5. y = IF v < 39 THEN V39(x) ELSE x
    BY StepIs, MigrationIs
<1> HIDE DEF y
<1>6. CASE v < 39
    <2>1. SameRows([x EXCEPT !.queued = x.facts \cup Present(x)], V39(x))
        BY <1>4, DataMigrations
    <2>2. x.facts = c.facts /\ Present(x) = Present(c)
        BY <1>4 DEF SameRows, Present
    <2>3. SameRows([c EXCEPT !.queued = c.facts \cup Present(c)], [x EXCEPT !.queued = c.facts \cup Present(c)])
        BY <1>4 DEF SameRows, Contents
    <2>4. QED
        BY <1>1, <1>5, <1>6, <2>1, <2>2, <2>3, SameRowsTransitive
<1>7. CASE ~(v < 39)
    <2>1. SameRows([c EXCEPT !.queued = c.queued], x)
        BY <1>4 DEF SameRows, Contents
    <2>2. QED
        BY <1>1, <1>5, <1>7, <2>1
<1>8. QED
    BY <1>6, <1>7

\* What the end of imported documents makes of a content.
Ended(c, d) ==
    /\ d.docs = [i \in Docs |-> IF i \in Imported(c) \cup Stale(c) THEN "none" ELSE c.docs[i]]
    /\ d.queued = (c.queued \ (Docs \ (Present(c) \ Imported(c)))) \cup Stale(c)
    /\ d.indexed = c.indexed \ (Imported(c) \cup Stale(c))
    /\ d.held = c.held \cup {i \in Docs : c.docs[i] = "active"}
    /\ d.project = (c.project \/ Imported(c) \cup Stale(c) # {})

SameItems(c, d) ==
    /\ d.docs = c.docs /\ d.queued = c.queued /\ d.indexed = c.indexed
    /\ d.held = c.held /\ d.project = c.project

SameJobs(c, d) ==
    d.bound = c.bound /\ d.policy = c.policy /\ d.wakes = c.wakes /\ d.owner = c.owner

LEMMA Rows43 ==
    ASSUME NEW v \in Nat, NEW c \in Contents
    PROVE  LET d == To43(v, 47, c) IN
           /\ SameEvidence(c, d) /\ SameJobs(c, d)
           /\ d.refs = (IF v < 41 THEN c.named ELSE c.refs)
           /\ IF v < 42 THEN Ended(c, d) ELSE SameItems(c, d)
<1> DEFINE a == Step(v, 47, 40, c)
           b == Step(v, 47, 41, a)
           x == Step(v, 47, 42, b)
           y == Step(v, 47, 43, x)
<1>1. To43(v, 47, c) = y
    BY DEF To43
<1>2. a \in Contents /\ SameRows(c, a)
    BY PlainStep
<1> HIDE DEF a
<1>3. /\ b \in Contents /\ SameEvidence(c, b) /\ SameJobs(c, b) /\ SameItems(c, b)
      /\ b.refs = (IF v < 41 THEN c.named ELSE c.refs)
    <2>1. b = IF v < 41 THEN V41(a) ELSE a
        BY StepIs, MigrationIs
    <2>2. b \in Contents
        BY <1>2, StepTyped
    <2>3. SameRows([a EXCEPT !.refs = a.named], V41(a))
        BY <1>2, DataMigrations
    <2> HIDE DEF b
    <2>4. QED
        BY <1>2, <2>1, <2>2, <2>3
           DEF SameRows, SameEvidence, SameJobs, SameItems, Contents
<1> HIDE DEF b
<1>4. x = IF v < 42 THEN V42(b) ELSE b
    BY StepIs, MigrationIs
<1>5. x \in Contents
    BY <1>3, StepTyped
<1>6. y \in Contents /\ SameRows(x, y)
    BY <1>5, PlainStep
<1> HIDE DEF x, y
<1>7. Imported(b) = Imported(c) /\ Stale(b) = Stale(c) /\ Present(b) = Present(c)
    BY <1>3 DEF SameItems, Imported, Stale, Present
<1>8. CASE v < 42
    <2>1. /\ SameEvidence(b, x) /\ SameJobs(b, x) /\ x.refs = b.refs /\ Ended(b, x)
        BY <1>3, <1>4, <1>8, V42Is DEF SameJobs, Ended
    <2>2. Ended(c, x)
        BY <1>3, <1>7, <2>1 DEF Ended, SameItems
    <2>3. Ended(c, y)
        BY <1>6, <2>2 DEF Ended, SameRows
    <2>4. QED
        BY <1>1, <1>3, <1>6, <1>8, <2>1, <2>3 DEF SameRows, SameEvidence, SameJobs
<1>9. CASE ~(v < 42)
    BY <1>1, <1>3, <1>4, <1>6, <1>9 DEF SameRows, SameEvidence, SameJobs, SameItems
<1>10. QED
    BY <1>8, <1>9

\* The task takes over its jobs.
Heirs(c)  == {j \in Jobs : c.bound[j] = "current"}
Silent(c) == {j \in Jobs : c.policy[j] = "workstream_only"}

Settled(c, d) ==
    /\ d.wakes = c.wakes \ Silent(c)
    /\ d.bound = [j \in Jobs |-> "none"]
    /\ d.policy = [j \in Jobs |-> IF j \in Silent(c) THEN "delivery_only" ELSE c.policy[j]]
    /\ c.owner # NoJob \/ Heirs(c) = {} => d.owner = c.owner
    /\ c.owner = NoJob /\ Heirs(c) # {} => d.owner \in Heirs(c)

LEMMA Rows47 ==
    ASSUME NEW v \in Nat, NEW c \in Contents, v < 46 => c.owner = NoJob
    PROVE  LET d == To47(v, 47, c)
               e == IF v < 45 THEN [c EXCEPT !.policy = SilentPolicy(c)] ELSE c
           IN  /\ SameEvidence(c, d) /\ SameItems(c, d) /\ d.refs = c.refs
               /\ IF v < 47 THEN Settled(e, d) ELSE SameJobs(c, d)
<1> DEFINE e == IF v < 45 THEN [c EXCEPT !.policy = SilentPolicy(c)] ELSE c
           a == Step(v, 47, 44, c)
           b == Step(v, 47, 45, a)
           x == Step(v, 47, 46, b)
           y == Step(v, 47, 47, x)
<1>1. To47(v, 47, c) = y
    BY DEF To47
<1>2. a \in Contents /\ SameRows(c, a)
    BY PlainStep
<1> HIDE DEF a
<1>3. b \in Contents /\ SameRows(e, b)
    <2>1. b = IF v < 45 THEN V45(a) ELSE a
        BY StepIs, MigrationIs
    <2>2. b \in Contents
        BY <1>2, StepTyped
    <2> HIDE DEF b
    <2>3. SameRows([a EXCEPT !.policy = SilentPolicy(a)], V45(a))
        BY <1>2, DataMigrations
    <2>4. SilentPolicy(a) = SilentPolicy(c)
        BY <1>2 DEF SameRows, SilentPolicy
    <2>5. ASSUME NEW policy
          PROVE  SameRows([c EXCEPT !.policy = policy], [a EXCEPT !.policy = policy])
        BY <1>2 DEF SameRows, Contents
    <2>6. CASE v < 45
        <3>1. SameRows([c EXCEPT !.policy = SilentPolicy(c)], b)
            BY <2>1, <2>3, <2>4, <2>5, <2>6, SameRowsTransitive
        <3>2. QED
            BY <2>2, <2>6, <3>1
    <2>7. CASE ~(v < 45)
        BY <1>2, <2>1, <2>2, <2>7
    <2>8. QED
        BY <2>6, <2>7
<1> HIDE DEF b
<1>4. e \in Contents
    <2>1. SilentPolicy(c) \in [Jobs -> Policies]
        BY DEF SilentPolicy, Policies
    <2>2. QED
        BY <2>1 DEF Contents
<1>5. /\ SameEvidence(c, e) /\ SameItems(c, e) /\ e.refs = c.refs /\ e.owner = c.owner
      /\ v >= 45 => e = c
    <2> DEFINE policy == SilentPolicy(c)
    <2> HIDE DEF policy
    <2>1. /\ SameEvidence(c, [c EXCEPT !.policy = policy])
          /\ SameItems(c, [c EXCEPT !.policy = policy])
          /\ [c EXCEPT !.policy = policy].refs = c.refs /\ [c EXCEPT !.policy = policy].owner = c.owner
        BY DEF SameEvidence, SameItems, Contents
    <2>2. QED
        BY <2>1 DEF policy, SameEvidence, SameItems
<1> HIDE DEF e
<1>6. x \in Contents /\ SameRows(e, x)
    <2>1. x = IF v < 46 THEN V46(b) ELSE b
        BY StepIs, MigrationIs
    <2>2. x \in Contents
        BY <1>3, StepTyped
    <2> HIDE DEF x
    <2>3. CASE v < 46
        <3>1. b.owner = NoJob
            BY <1>3, <1>5, <2>3 DEF SameRows
        <3>2. [b EXCEPT !.owner = NoJob] = b
            BY <1>3, <3>1 DEF Contents
        <3>3. SameRows(b, x)
            BY <1>3, <2>1, <2>3, <3>2, DataMigrations
        <3>4. QED
            BY <1>3, <2>2, <3>3, SameRowsTransitive
    <2>4. CASE ~(v < 46)
        BY <1>3, <2>1, <2>2, <2>4
    <2>5. QED
        BY <2>3, <2>4
<1> HIDE DEF x
<1>7. y = IF v < 47 THEN V47(x) ELSE x
    BY StepIs, MigrationIs
<1> HIDE DEF y
<1>8. CASE v < 47
    <2>1. /\ y.wakes = x.wakes \ Silent(x) /\ y.bound = [j \in Jobs |-> "none"]
          /\ y.policy = [j \in Jobs |-> IF j \in Silent(x) THEN "delivery_only" ELSE x.policy[j]]
          /\ y.owner = IF x.owner = NoJob /\ Heirs(x) # {}
                       THEN CHOOSE j \in Heirs(x) : \A k \in Heirs(x) : j <= k ELSE x.owner
        BY <1>6, <1>7, <1>8, V47Is DEF Silent, Heirs
    <2>2. SameEvidence(x, y) /\ SameItems(x, y) /\ y.refs = x.refs
        BY <1>6, <1>7, <1>8, V47Is DEF SameEvidence, SameItems
    <2>3. Heirs(x) # {} => (CHOOSE j \in Heirs(x) : \A k \in Heirs(x) : j <= k) \in Heirs(x)
        BY Heir DEF Heirs
    <2>4. Heirs(x) = Heirs(e) /\ Silent(x) = Silent(e)
        BY <1>6 DEF SameRows, Heirs, Silent
    <2>5. Settled(e, y)
        BY <1>6, <2>1, <2>3, <2>4 DEF Settled, SameRows
    <2>6. SameEvidence(c, y) /\ SameItems(c, y) /\ y.refs = c.refs
        BY <1>5, <1>6, <2>2 DEF SameRows, SameEvidence, SameItems
    <2>7. QED
        BY <1>1, <1>8, <2>5, <2>6 DEF e
<1>9. CASE ~(v < 47)
    <2>1. SameRows(c, y)
        BY <1>5, <1>6, <1>7, <1>9
    <2>2. QED
        BY <1>1, <1>9, <2>1 DEF SameRows, SameEvidence, SameItems, SameJobs
<1>10. QED
    BY <1>8, <1>9

LEMMA FreshActions == FreshContent.admits = Actions
<1> DEFINE a == To35(0, 47, EmptyContent)
           b == To39(0, 47, a)
           x == To43(0, 47, b)
           y == To47(0, 47, x)
<1>1. \A k \in Span : \A c \in Contents :
          c.admits \subseteq Step(0, 47, k, c).admits /\ Step(0, 47, k, c) \in Contents
    <2> SUFFICES ASSUME NEW k \in Span, NEW c \in Contents
                 PROVE  c.admits \subseteq Migration(k, c).admits
        <3>1. ASSUME NEW k \in Span PROVE k \in Nat /\ 0 < k /\ k <= 47
            BY DEF Span
        <3>2. QED
            BY <3>1, MigrationTyped, StepIs
    <2>1. CASE k \in 32 .. 35
        BY <2>1 DEF Migration, V32, V33, V34, V35, Contents
    <2>2. CASE k \in 36 .. 41
        BY <2>2 DEF Migration, V36, V37, V38, V39, V40, V41, Contents
    <2>3. CASE k \in 43 .. 46
        BY <2>3 DEF Migration, V43, V44, V45, V46, Contents
    <2>4. CASE k = 42 \/ k = 47
        <3>1. V42(c).admits = c.admits
            BY V42Is
        <3>2. c.admits \subseteq V47(c).admits
            BY V47Is
        <3>3. QED
            BY <2>4, <3>1, <3>2, MigrationIs
    <2>5. QED
        BY <2>1, <2>2, <2>3, <2>4 DEF Span
<1>2. \A c \in Contents : /\ "create_workstream" \in Step(0, 47, 33, c).admits
                          /\ "link_completed_result" \in Step(0, 47, 35, c).admits
                          /\ "start_task" \in Step(0, 47, 37, c).admits
                          /\ {"queue_task", "settle_task"} \subseteq Step(0, 47, 47, c).admits
    <2> SUFFICES ASSUME NEW c \in Contents
                 PROVE  /\ "create_workstream" \in V33(c).admits
                        /\ "link_completed_result" \in V35(c).admits
                        /\ "start_task" \in V37(c).admits
                        /\ {"queue_task", "settle_task"} \subseteq V47(c).admits
        BY StepIs, MigrationIs
    <2>1. QED
        BY V47Is DEF V33, V35, V37, Contents
<1>3. EmptyContent \in Contents
    BY EmptyTyped
<1>4. a \in Contents /\ {"create_workstream", "link_completed_result"} \subseteq a.admits
    <2> DEFINE s1 == Step(0, 47, 32, EmptyContent)
               s2 == Step(0, 47, 33, s1)
               s3 == Step(0, 47, 34, s2)
               s4 == Step(0, 47, 35, s3)
    <2>1. a = s4
        BY DEF To35
    <2>2. s1 \in Contents /\ EmptyContent.admits \subseteq s1.admits
        BY <1>1, <1>3 DEF Span
    <2>3. s2 \in Contents /\ s1.admits \subseteq s2.admits
        BY <1>1, <2>2 DEF Span
    <2>4. s3 \in Contents /\ s2.admits \subseteq s3.admits
        BY <1>1, <2>3 DEF Span
    <2>5. s4 \in Contents /\ s3.admits \subseteq s4.admits
        BY <1>1, <2>4 DEF Span
    <2>6. "create_workstream" \in s2.admits /\ "link_completed_result" \in s4.admits
        BY <1>2, <2>2, <2>4
    <2> HIDE DEF s1, s2, s3, s4
    <2>7. QED
        BY <2>1, <2>3, <2>4, <2>5, <2>6
<1> HIDE DEF a
<1>5. /\ b \in Contents
      /\ {"create_workstream", "link_completed_result", "start_task"} \subseteq b.admits
    <2> DEFINE s1 == Step(0, 47, 36, a)
               s2 == Step(0, 47, 37, s1)
               s3 == Step(0, 47, 38, s2)
               s4 == Step(0, 47, 39, s3)
    <2>1. b = s4
        BY DEF To39
    <2>2. s1 \in Contents /\ a.admits \subseteq s1.admits
        BY <1>1, <1>4 DEF Span
    <2>3. s2 \in Contents /\ s1.admits \subseteq s2.admits
        BY <1>1, <2>2 DEF Span
    <2>4. s3 \in Contents /\ s2.admits \subseteq s3.admits
        BY <1>1, <2>3 DEF Span
    <2>5. s4 \in Contents /\ s3.admits \subseteq s4.admits
        BY <1>1, <2>4 DEF Span
    <2>6. "start_task" \in s2.admits
        BY <1>2, <2>2
    <2> HIDE DEF s1, s2, s3, s4
    <2>7. QED
        BY <1>4, <2>1, <2>2, <2>3, <2>4, <2>5, <2>6
<1> HIDE DEF b
<1>6. x \in Contents /\ b.admits \subseteq x.admits
    BY <1>1, <1>5 DEF To43, Span
<1> HIDE DEF x
<1>7. y \in Contents /\ x.admits \subseteq y.admits /\ {"queue_task", "settle_task"} \subseteq y.admits
    <2> DEFINE s1 == Step(0, 47, 44, x)
               s2 == Step(0, 47, 45, s1)
               s3 == Step(0, 47, 46, s2)
               s4 == Step(0, 47, 47, s3)
    <2>1. y = s4
        BY DEF To47
    <2>2. s1 \in Contents /\ x.admits \subseteq s1.admits
        BY <1>1, <1>6 DEF Span
    <2>3. s2 \in Contents /\ s1.admits \subseteq s2.admits
        BY <1>1, <2>2 DEF Span
    <2>4. s3 \in Contents /\ s2.admits \subseteq s3.admits
        BY <1>1, <2>3 DEF Span
    <2>5. s4 \in Contents /\ s3.admits \subseteq s4.admits
        BY <1>1, <2>4 DEF Span
    <2>6. {"queue_task", "settle_task"} \subseteq s4.admits
        BY <1>2, <2>4
    <2> HIDE DEF s1, s2, s3, s4
    <2>7. QED
        BY <2>1, <2>2, <2>3, <2>4, <2>5, <2>6
<1>8. y = FreshContent
    BY DEF FreshContent, Migrated, Upto, TargetVersion, a, b, x
<1> HIDE DEF y
<1>9. y.admits \subseteq Actions
    BY <1>7 DEF Contents
<1>10. Actions \subseteq y.admits
    BY <1>5, <1>6, <1>7 DEF Actions
<1>11. QED
    BY <1>8, <1>9, <1>10

\* All rows of an upgrade, from any version.
LEMMA RowsMigrated ==
    ASSUME NEW v \in MinSourceVersion .. TargetVersion, NEW c \in Contents, Fits(v, c)
    PROVE  LET d == Migrated(v, c)
               q == [c EXCEPT !.queued = IF v < 39 THEN c.facts \cup Present(c) ELSE c.queued]
               e == IF v < 45 THEN [c EXCEPT !.policy = SilentPolicy(c)] ELSE c
           IN  /\ SameEvidence(c, d)
               /\ d.refs = (IF v < 41 THEN c.named ELSE c.refs)
               /\ IF v < 42 THEN Ended(q, d) ELSE SameItems(c, d)
               /\ IF v < 47 THEN Settled(e, d) ELSE SameJobs(c, d)
               /\ v < 47 => d.bound = [j \in Jobs |-> "none"]
<1> DEFINE w == IF v < 39 THEN c.facts \cup Present(c) ELSE c.queued
           q == [c EXCEPT !.queued = w]
           e == IF v < 45 THEN [c EXCEPT !.policy = SilentPolicy(c)] ELSE c
           x == To35(v, 47, c)
           y == To39(v, 47, x)
           z == To43(v, 47, y)
           d == To47(v, 47, z)
<1>1. v \in Nat /\ (v < 37 => \A j \in Jobs : c.bound[j] = "none") /\ (v < 46 => c.owner = NoJob)
    BY DEF Fits, MinSourceVersion, TargetVersion
<1>2. Migrated(v, c) = d
    BY DEF Migrated, Upto, TargetVersion
<1>3. x \in Contents /\ SameRows(c, x)
    BY <1>1, Rows35, UptoTyped
<1> HIDE DEF x
<1>4. y \in Contents /\ SameRows(q, y)
    <2>1. /\ y \in Contents
          /\ SameRows([x EXCEPT !.queued = IF v < 39 THEN x.facts \cup Present(x) ELSE x.queued], y)
        <3>1. v < 37 => \A j \in Jobs : x.bound[j] = "none"
            BY <1>1, <1>3 DEF SameRows
        <3>2. QED
            BY <1>1, <1>3, <3>1, Rows39, UptoTyped
    <2>2. x.facts = c.facts /\ Present(x) = Present(c) /\ x.queued = c.queued
        BY <1>3 DEF SameRows, Present
    <2>3. SameRows([x EXCEPT !.queued = w], y)
        BY <2>1, <2>2
    <2> HIDE DEF w
    <2>4. SameRows([c EXCEPT !.queued = w], [x EXCEPT !.queued = w])
        BY <1>3 DEF SameRows, Contents
    <2>5. QED
        BY <2>1, <2>3, <2>4, SameRowsTransitive
<1> HIDE DEF y
<1>5. /\ z \in Contents /\ SameEvidence(y, z) /\ SameJobs(y, z)
      /\ z.refs = (IF v < 41 THEN y.named ELSE y.refs)
      /\ IF v < 42 THEN Ended(y, z) ELSE SameItems(y, z)
    BY <1>1, <1>4, Rows43, UptoTyped
<1> HIDE DEF z
<1>6. /\ q.journal = c.journal /\ q.detached = c.detached /\ q.facts = c.facts /\ q.named = c.named
      /\ SameJobs(c, q) /\ q.refs = c.refs /\ q.docs = c.docs /\ q.queued = w
      /\ q.indexed = c.indexed /\ q.held = c.held /\ q.project = c.project
    BY DEF SameJobs, Contents
<1> HIDE DEF q
<1>7. /\ SameEvidence(c, z) /\ SameJobs(c, z)
      /\ z.refs = (IF v < 41 THEN c.named ELSE c.refs)
    BY <1>4, <1>5, <1>6 DEF SameRows, SameEvidence, SameJobs
<1>8. IF v < 42 THEN Ended(q, z) ELSE SameItems(c, z)
    <2>1. Imported(q) = Imported(y) /\ Stale(q) = Stale(y) /\ Present(q) = Present(y)
        BY <1>4 DEF SameRows, Imported, Stale, Present
    <2>2. v < 42 => Ended(q, z)
        BY <1>4, <1>5, <2>1 DEF SameRows, Ended
    <2>3. ~(v < 42) => SameItems(c, z)
        BY <1>1, <1>4, <1>5, <1>6 DEF SameRows, SameItems, w
    <2>4. QED
        BY <2>2, <2>3
<1> DEFINE f == IF v < 45 THEN [z EXCEPT !.policy = SilentPolicy(z)] ELSE z
<1>9. /\ SameEvidence(z, d) /\ SameItems(z, d) /\ d.refs = z.refs
      /\ IF v < 47 THEN Settled(f, d) ELSE SameJobs(z, d)
    BY <1>1, <1>5, <1>7, Rows47 DEF SameJobs
<1> HIDE DEF d
<1>10. SameJobs(e, f)
    <2>1. SilentPolicy(z) = SilentPolicy(c)
        BY <1>7 DEF SameJobs, SameEvidence, SilentPolicy
    <2> DEFINE policy == SilentPolicy(c)
    <2> HIDE DEF policy
    <2>2. SameJobs([c EXCEPT !.policy = policy], [z EXCEPT !.policy = policy])
        BY <1>5, <1>7 DEF SameJobs, Contents
    <2>3. QED
        BY <1>7, <2>1, <2>2 DEF policy
<1> HIDE DEF e, f
<1>11. v < 47 => Settled(e, d)
    <2>1. Heirs(e) = Heirs(f) /\ Silent(e) = Silent(f)
        BY <1>10 DEF SameJobs, Heirs, Silent
    <2>2. QED
        BY <1>9, <1>10, <2>1 DEF SameJobs, Settled
<1>12. ~(v < 47) => SameJobs(c, d)
    BY <1>7, <1>9 DEF SameJobs
<1>13. SameEvidence(c, d) /\ d.refs = (IF v < 41 THEN c.named ELSE c.refs)
    BY <1>7, <1>9 DEF SameEvidence
<1>14. IF v < 42 THEN Ended(q, d) ELSE SameItems(c, d)
    BY <1>8, <1>9 DEF Ended, SameItems
<1>15. v < 47 => d.bound = [j \in Jobs |-> "none"]
    BY <1>11 DEF Settled
<1>16. QED
    BY <1>2, <1>11, <1>12, <1>13, <1>14, <1>15 DEF e, q

LEMMA DataKept ==
    ASSUME NEW v \in MinSourceVersion .. TargetVersion, NEW c \in Contents, Fits(v, c)
    PROVE  KeepsData(v, c, Migrated(v, c))
<1> DEFINE d == Migrated(v, c)
           w == IF v < 39 THEN c.facts \cup Present(c) ELSE c.queued
           q == [c EXCEPT !.queued = w]
           e == IF v < 45 THEN [c EXCEPT !.policy = SilentPolicy(c)] ELSE c
<1>1. /\ SameEvidence(c, d)
      /\ d.refs = (IF v < 41 THEN c.named ELSE c.refs)
      /\ IF v < 42 THEN Ended(q, d) ELSE SameItems(c, d)
      /\ IF v < 47 THEN Settled(e, d) ELSE SameJobs(c, d)
    BY RowsMigrated
<1>2. /\ v \in Nat /\ d \in Contents
      /\ v < 37 \/ v >= 47 => \A j \in Jobs : c.bound[j] = "none"
      /\ v < 46 => c.owner = NoJob
      /\ v >= 47 => \A j \in Jobs : c.policy[j] # "workstream_only"
      /\ v >= 41 => c.named \subseteq c.refs
      /\ v >= 42 => \A i \in Docs : c.docs[i] = "active" => i \in c.held
      /\ c.indexed \subseteq c.facts \cup Present(c) \cup (IF v >= 42 THEN c.queued ELSE {})
    BY MigratedTyped DEF Fits, MinSourceVersion, TargetVersion
<1>3. d.shape = FreshShape /\ d.admits = Actions
    <2> DEFINE f == Upto(0, v, EmptyContent)
    <2>1. f \in Contents /\ SameSchema(c, f)
        BY <1>2, UptoTyped, EmptyTyped DEF Fits, SameSchema
    <2>2. SameSchema(Upto(v, 47, c), Upto(v, 47, f))
        BY <1>2, <2>1, SchemaFollows
    <2>3. Upto(v, 47, f) = FreshContent /\ Upto(v, 47, c) = d
        BY UptoComposes, EmptyTyped DEF FreshContent, Migrated, TargetVersion
    <2> HIDE DEF f
    <2>4. QED
        BY <2>2, <2>3, FreshActions DEF SameSchema, FreshShape
<1>4. /\ q.docs = c.docs /\ q.queued = w /\ q.indexed = c.indexed /\ q.held = c.held
      /\ q.project = c.project
    BY DEF Contents
<1>5. /\ e.wakes = c.wakes /\ e.owner = c.owner /\ e.bound = c.bound
      /\ e.policy = IF v < 45 THEN SilentPolicy(c) ELSE c.policy
    <2> DEFINE policy == SilentPolicy(c)
    <2> HIDE DEF policy
    <2>1. LET x == [c EXCEPT !.policy = policy] IN
             x.wakes = c.wakes /\ x.owner = c.owner /\ x.bound = c.bound /\ x.policy = policy
        BY DEF Contents
    <2>2. QED
        BY <2>1 DEF policy
<1> HIDE DEF d, q, e
\* Of the documents those that are imported or cannot be verified go.
<1>6. v < 42 => /\ Imported(q) = Imported(c) /\ Stale(q) = Stale(c) /\ Present(q) = Present(c)
                /\ d.docs = [i \in Docs |-> IF i \in Imported(c) \cup Stale(c) THEN "none"
                                                                       ELSE c.docs[i]]
                /\ d.queued = (w \ (Docs \ (Present(c) \ Imported(c)))) \cup Stale(c)
                /\ d.indexed = c.indexed \ (Imported(c) \cup Stale(c))
                /\ d.held = c.held \cup {i \in Docs : c.docs[i] = "active"}
                /\ d.project = (c.project \/ Imported(c) \cup Stale(c) # {})
    BY <1>1, <1>4 DEF Ended, Imported, Stale, Present
<1>7. v >= 42 => /\ d.docs = c.docs /\ d.queued = c.queued /\ d.indexed = c.indexed
                 /\ d.held = c.held /\ d.project = c.project
    BY <1>1, <1>2 DEF SameItems
<1>8. \A i \in Docs : c.docs[i] \in Documents
    BY DEF Contents
<1>9. v < 42 => Present(d) = Present(c) \ (Imported(c) \cup Stale(c))
    BY <1>6 DEF Present
<1>10. v >= 42 => Present(d) = Present(c)
    BY <1>7 DEF Present
<1>11. \A i \in Docs : d.docs[i] = (IF c.docs[i] \in {"active", "archived"} \/ v >= 42
                                    THEN c.docs[i] ELSE "none")
    <2> SUFFICES ASSUME NEW i \in Docs
                 PROVE  d.docs[i] = (IF c.docs[i] \in {"active", "archived"} \/ v >= 42
                                     THEN c.docs[i] ELSE "none")
        OBVIOUS
    <2>1. CASE v < 42
        <3>1. d.docs[i] = IF i \in Imported(c) \cup Stale(c) THEN "none" ELSE c.docs[i]
            BY <1>6, <2>1
        <3>2. QED
            BY <1>2, <1>8, <2>1, <3>1 DEF Imported, Stale, Documents
    <2>2. CASE v >= 42
        BY <1>7, <2>2
    <2>3. QED
        BY <1>2, <2>1, <2>2
<1>12. \A i \in Docs : d.docs[i] = "active" => i \in d.held
    BY <1>2, <1>6, <1>7, <1>11
<1>13. d.facts = c.facts /\ d.journal = c.journal /\ d.named = c.named
    BY <1>1 DEF SameEvidence
<1>14. d.indexed \subseteq d.facts \cup Present(d) \cup d.queued
    <2>1. CASE v < 42
        BY <1>2, <1>6, <1>9, <1>13, <2>1
    <2>2. CASE v >= 42
        BY <1>2, <1>7, <1>10, <1>13, <2>2
    <2>3. QED
        BY <1>2, <2>1, <2>2
<1>15. (c.queued \cup (IF v < 39 THEN c.facts \cup Present(c) ELSE {}))
           \cap (d.facts \cup Present(d)) \subseteq d.queued
    <2>1. c.queued \subseteq Facts \cup Docs /\ c.facts \subseteq Facts /\ Present(c) \subseteq Docs
        BY DEF Contents, Present
    <2>2. v < 39 => c.queued \cap (c.facts \cup Present(c)) \subseteq w
        OBVIOUS
    <2>3. CASE v < 42
        <3>1. (c.queued \cup (IF v < 39 THEN c.facts \cup Present(c) ELSE {}))
                  \cap (c.facts \cup Present(c)) \subseteq w
            BY <2>2
        <3>2. Stale(c) \subseteq Docs /\ Imported(c) \subseteq Docs
            BY DEF Stale, Imported
        <3>3. QED
            BY <1>6, <1>9, <1>13, <2>1, <2>3, <3>1, <3>2, ItemsAssumption
    <2>4. CASE v >= 42
        BY <1>2, <1>7, <2>4
    <2>5. QED
        BY <1>2, <2>3, <2>4
<1>16. Present(c) # Present(d) => d.project
    <2>1. CASE v < 42
        BY <1>6, <1>9, <2>1
    <2>2. CASE v >= 42
        BY <1>10, <2>2
    <2>3. QED
        BY <1>2, <2>1, <2>2
<1>17. d.named \subseteq d.refs
    BY <1>1, <1>2, <1>13
\* The task takes its oldest job over, and silent jobs stay silent.
<1>18. v < 47 => /\ d.wakes = c.wakes \ Silent(e)
                 /\ \A j \in Jobs : d.policy[j] = IF j \in Silent(e) THEN "delivery_only"
                                                                 ELSE e.policy[j]
                 /\ c.owner # NoJob \/ Heirs(c) = {} => d.owner = c.owner
                 /\ c.owner = NoJob /\ Heirs(c) # {} => d.owner \in Heirs(c)
    <2>1. Heirs(e) = Heirs(c)
        BY <1>5 DEF Heirs
    <2>2. QED
        BY <1>1, <1>5, <2>1 DEF Settled
<1>19. ~(v < 47) => /\ d.wakes = c.wakes /\ d.policy = c.policy /\ d.owner = c.owner
                    /\ Heirs(c) = {}
    BY <1>1, <1>2 DEF SameJobs, Heirs
<1>20. \A j \in Jobs : d.policy[j] # "workstream_only"
    BY <1>2, <1>18, <1>19 DEF Silent
<1>21. \A j \in Jobs : c.policy[j] = "automatic_root" /\ v >= 45
                          => d.policy[j] = "automatic_root" /\ (j \in c.wakes => j \in d.wakes)
    BY <1>2, <1>5, <1>18, <1>19 DEF Silent
<1>22. \A j \in Jobs : j \in c.detached /\ c.bound[j] # "none" /\ v < 45 => j \notin d.wakes
    BY <1>2, <1>5, <1>18 DEF Silent, SilentPolicy
<1>23. c.owner # NoJob => d.owner = c.owner
    BY <1>2, <1>18, <1>19
<1>24. c.owner = NoJob /\ (\E j \in Jobs : c.bound[j] = "current")
          => d.owner # NoJob /\ c.bound[d.owner] = "current"
    <2>1. NoJob \notin Jobs
        BY JobsAssumption DEF NoJob
    <2>2. \A j \in Heirs(c) : j \in Jobs /\ c.bound[j] = "current"
        BY DEF Heirs
    <2>3. (\E j \in Jobs : c.bound[j] = "current") => Heirs(c) # {}
        BY DEF Heirs
    <2>4. QED
        BY <1>18, <1>19, <2>1, <2>2, <2>3
<1>25. KeepsData(v, c, d)
    BY <1>3, <1>11, <1>12, <1>13, <1>14, <1>15, <1>16, <1>17, <1>20, <1>21, <1>22, <1>23, <1>24
       DEF KeepsData
<1>26. QED
    BY <1>25 DEF d

LEMMA NothingToDo ==
    ASSUME NEW c
    PROVE  Upto(TargetVersion, TargetVersion, c) = c
<1>1. \A k \in Nat : \A x : ~(47 < k /\ k <= 47)
    OBVIOUS
<1>2. \A k \in Nat : \A x : Step(47, 47, k, x) = x
    BY <1>1 DEF Step
<1>3. QED
    BY <1>2 DEF Upto, To35, To39, To43, To47, TargetVersion

\* A database made by the target release holds what that version can hold.
LEMMA FreshFits == FreshContent \in Contents /\ Fits(TargetVersion, FreshContent)
<1> DEFINE b == Upto(0, 33, EmptyContent)
<1>1. b = V33(V32(EmptyContent))
    <2>1. \A k \in Nat : \A x : k > 33 => Step(0, 33, k, x) = x
        BY StepIs
    <2>2. \A x : Step(0, 33, 32, x) = V32(x) /\ Step(0, 33, 33, x) = V33(x)
        BY StepIs, MigrationIs
    <2>3. QED
        BY <2>1, <2>2 DEF Upto, To35, To39, To43, To47
<1>2. b \in Contents /\ EmptyContent \in Contents /\ V32(EmptyContent) \in Contents
    BY UptoTyped, EmptyTyped, MigrationTyped, MigrationIs
<1>3. SameRows(EmptyContent, b)
    BY <1>1, <1>2, PlainMigrations, SameRowsTransitive
<1>4. FreshContent = Migrated(33, b)
    BY UptoComposes, EmptyTyped DEF FreshContent, Migrated, TargetVersion, MinSourceVersion
<1>5. Fits(33, b)
    <2>1. /\ \A j \in Jobs : b.bound[j] = "none"
          /\ b.owner = NoJob /\ b.indexed = {}
        BY <1>3 DEF SameRows, EmptyContent
    <2>2. b.shape = Upto(0, 33, EmptyContent).shape /\ b.admits = Upto(0, 33, EmptyContent).admits
        OBVIOUS
    <2> HIDE DEF b
    <2>3. QED
        BY <2>1, <2>2 DEF Fits
<1> HIDE DEF b
<1>6. FreshContent \in Contents
    BY <1>2, <1>4, MigratedTyped
<1>7. KeepsData(33, b, FreshContent)
    BY <1>2, <1>4, <1>5, DataKept DEF MinSourceVersion, TargetVersion
<1>8. \A j \in Jobs : FreshContent.bound[j] = "none"
    <2> DEFINE v == 33
    <2>1. v \in MinSourceVersion .. TargetVersion /\ v < 47 /\ Fits(v, b)
        BY <1>5 DEF MinSourceVersion, TargetVersion
    <2>2. FreshContent = Migrated(v, b)
        BY <1>4
    <2> HIDE DEF v
    <2>3. v < 47 => Migrated(v, b).bound = [j \in Jobs |-> "none"]
        BY <1>2, <2>1, RowsMigrated
    <2>4. QED
        BY <2>1, <2>2, <2>3
<1>9. /\ FreshContent.named \subseteq FreshContent.refs
      /\ \A i \in Docs : FreshContent.docs[i] = "active" => i \in FreshContent.held
      /\ \A j \in Jobs : FreshContent.policy[j] # "workstream_only"
      /\ FreshContent.indexed \subseteq FreshContent.facts \cup Present(FreshContent)
                                        \cup FreshContent.queued
    BY <1>7 DEF KeepsData
<1>10. FreshContent = Upto(0, TargetVersion, EmptyContent)
    BY DEF FreshContent, Migrated
<1>11. QED
    <2> DEFINE f == FreshContent
    <2>1. f.shape = Upto(0, TargetVersion, EmptyContent).shape
          /\ f.admits = Upto(0, TargetVersion, EmptyContent).admits
        BY <1>10
    <2>2. TargetVersion = 47
        BY DEF TargetVersion
    <2> HIDE DEF f
    <2>3. Fits(TargetVersion, f)
        BY <1>8, <1>9, <2>1, <2>2 DEF Fits, f
    <2>4. QED
        BY <1>6, <2>3 DEF f

-----------------------------------------------------------------------------
(* The data of the installation, with or without an upgrade behind it.      *)

Sourced ==
    source # None => db # NoDatabase /\ db.version = TargetVersion /\ db.backup # None

DataInv ==
    /\ Sourced
    /\ db # NoDatabase /\ Supported(db.version) /\ source = None => Fits(db.version, db.content)
    /\ db # NoDatabase /\ source # None => KeepsData(source.version, source.content, db.content)
    /\ \A p \in Process : pc[p] = "create_migrate" => db.content = EmptyContent

\* Steps that write neither rows nor the version.
LEMMA SameData ==
    ASSUME DataInv, UNCHANGED source,
           \A q \in Process : pc'[q] = "create_migrate" => pc[q] = "create_migrate",
           \/ UNCHANGED db
           \/ /\ db # NoDatabase /\ db' # NoDatabase
              /\ db'.version = db.version /\ db'.content = db.content
              /\ db.backup # None => db'.backup # None
    PROVE  DataInv'
BY DEF DataInv, Sourced

\* The migration and the adoption, the two ways a database gets a predecessor.
LEMMA UpgradeData ==
    ASSUME RolloutInv, DataInv, NEW p \in Process, Upgrade(p)
    PROVE  DataInv'
<1>1. RolloutInv'
    BY InvNext DEF Next
<1>2. CASE PreviewVersion(p) \/ PreviewKeys(p) \/ ConfirmFails(p) \/ LockAndClassify(p)
    <2>1. PICK step, x :
             /\ step \in {"preview", "confirm", "idle", "backup", "migrate", "postflight"}
             /\ Goto(p, step, x)
        <3>1. CASE PreviewVersion(p) \/ PreviewKeys(p) \/ ConfirmFails(p)
            BY <3>1 DEF PreviewVersion, PreviewKeys, ConfirmFails, Refused, Stops
        <3>2. CASE LockAndClassify(p)
            <4>1. ASSUME ~Refused(p) PROVE Row(db.version, db) # "corrupt" /\ Row(db.version, db) # "complete"
                BY <3>2, <4>1 DEF LockAndClassify, Kind, RolloutInv, Working, Work
            <4>2. Row(db.version, db) \in {"corrupt", "fresh_capture", "fresh_resume", "adoption",
                                           "complete", "resume_needed"}
                BY RowRange
            <4> DEFINE row == Row(db.version, db)
                       l   == [local[p] EXCEPT !.row = row, !.version = db.version]
                       Some(s) == \E y : Goto(p, s, y)
            <4>3. ASSUME Refused(p) PROVE Some("idle")
                BY <4>3 DEF Refused, Stops
            <4>4. ASSUME ~Refused(p)
                  PROVE  CASE row = "adoption"      -> Locks(p, "backup", [l EXCEPT !.baseline = 0])
                           [] row = "fresh_capture" -> Locks(p, "backup", [l EXCEPT !.baseline = db.lost])
                           [] row = "fresh_resume"  ->
                                  Locks(p, IF Verifies(db.backup, db.version) THEN "migrate" ELSE "backup",
                                        [l EXCEPT !.baseline = db.baseline])
                           [] row = "resume_needed" -> Locks(p, "postflight", l)
                BY <3>2, <4>4 DEF LockAndClassify
            <4> HIDE DEF row, l
            <4>5. ASSUME ~Refused(p), row = "adoption" PROVE Some("backup")
                BY <4>4, <4>5 DEF Locks
            <4>6. ASSUME ~Refused(p), row = "fresh_capture" PROVE Some("backup")
                BY <4>4, <4>6 DEF Locks
            <4>7. ASSUME ~Refused(p), row = "fresh_resume" PROVE Some("migrate") \/ Some("backup")
                BY <4>4, <4>7 DEF Locks
            <4>8. ASSUME ~Refused(p), row = "resume_needed" PROVE Some("postflight")
                BY <4>4, <4>8 DEF Locks
            <4>9. ASSUME ~Refused(p)
                  PROVE  row \in {"adoption", "fresh_capture", "fresh_resume", "resume_needed"}
                BY <4>1, <4>2, <4>9 DEF row
            <4>10. QED
                BY <4>3, <4>5, <4>6, <4>7, <4>8, <4>9
        <3>3. QED
            BY <1>2, <3>1, <3>2
    <2>2. UNCHANGED <<db, source>>
        BY <1>2 DEF PreviewVersion, PreviewKeys, ConfirmFails, LockAndClassify, Refused, disk
    <2>3. QED
        BY <2>1, <2>2, SameData DEF Goto, RolloutInv, TypeOK
<1>3. CASE CreateBackup(p) \/ CopyDatabase(p) \/ CopyFails(p) \/ WriteFails(p)
    <2>1. PICK step, x : step \in {"idle", "copy", "record"} /\ Goto(p, step, x)
        BY <1>3 DEF CreateBackup, CopyDatabase, CopyFails, WriteFails, Stops
    <2>2. UNCHANGED <<db, source>>
        BY <1>3 DEF CreateBackup, CopyDatabase, CopyFails, WriteFails, disk
    <2>3. QED
        BY <2>1, <2>2, SameData DEF Goto, RolloutInv, TypeOK
<1>4. CASE RecordBaselineAndCutoff(p)
    <2>1. /\ pc[p] = "record" /\ Work(p)
          /\ Goto(p, IF local[p].row = "adoption" THEN "postflight" ELSE "migrate", local[p])
        BY <1>4 DEF RecordBaselineAndCutoff, RolloutInv, Working
    <2>2. /\ db \in Databases /\ db # NoDatabase /\ Keys(db)
          /\ local[p].row = Verdict(db) /\ Supported(db.version)
        BY <2>1 DEF Work, RolloutInv, DatabaseOK
    <2>3. pc'[p] \in {"postflight", "migrate"} /\ Work(p)'
        BY <1>1, <2>1 DEF Goto, RolloutInv, TypeOK, Working
    <2>4. /\ db' # NoDatabase /\ db'.version = db.version /\ db'.content = db.content
          /\ db'.backup = [path |-> local[p].backup, version |-> local[p].backup[1],
                           image |-> backups[local[p].backup]]
        BY <2>2, <2>3, <1>4 DEF RecordBaselineAndCutoff, Databases, Work
    <2>5. db'.backup # None
        <3>1. local[p].backup \in Paths /\ local[p].backup[1] = db.version
              /\ backups[local[p].backup] \in Files
            BY <2>1 DEF Work, RolloutInv, TypeOK
        <3>2. db'.backup \in Identities
            BY <2>2, <2>4, <3>1 DEF Identities, Databases
        <3>3. QED
            BY <3>2, Unlike
    <2>6. \A q \in Process : pc'[q] = "create_migrate" => pc[q] = "create_migrate"
        BY <2>1, <2>3 DEF Goto, RolloutInv, TypeOK
    <2>7. CASE local[p].row = "adoption"
        <3>1. source' = Image(db) /\ db.version = TargetVersion /\ Blank(db)
            BY <1>4, <2>2, <2>7
               DEF RecordBaselineAndCutoff, Verdict, Supported, MinSourceVersion, TargetVersion
        <3>2. source = None
            BY <2>2, <3>1 DEF DataInv, Sourced, Blank
        <3>3. Fits(TargetVersion, db.content) /\ db.content \in Contents
            BY <2>2, <3>1, <3>2 DEF DataInv, Databases
        <3>4. KeepsData(TargetVersion, db.content, db.content)
            BY <3>3, DataKept, NothingToDo DEF Migrated, MinSourceVersion, TargetVersion
        <3>5. source'.version = TargetVersion /\ source'.content = db.content /\ source' # None
            <4>1. source' \in Images
                BY <2>2, <3>1 DEF Image, Images, Databases
            <4>2. QED
                BY <3>1, <4>1, Unlike DEF Image
        <3>6. \A q \in Process : pc'[q] = "create_migrate" => db'.content = EmptyContent
            BY <2>4, <2>6 DEF DataInv
        <3>7. QED
            BY <2>4, <2>5, <3>1, <3>4, <3>5, <3>6 DEF DataInv, Sourced
    <2>8. CASE local[p].row # "adoption"
        <3>1. UNCHANGED source
            BY <1>4, <2>8 DEF RecordBaselineAndCutoff
        <3>2. QED
            BY <2>2, <2>4, <2>5, <2>6, <3>1, SameData
    <2>9. QED
        BY <2>7, <2>8
<1>5. CASE Migrate(p)
    <2>1. pc[p] = "migrate" /\ Work(p) /\ Goto(p, "postflight", local[p]) /\ source' = Image(db)
        BY <1>5 DEF Migrate, RolloutInv, Working
    <2>2. /\ db \in Databases /\ db # NoDatabase /\ Keys(db) /\ Recorded(db)
          /\ Supported(db.version) /\ db.version < TargetVersion /\ db.backup # None
        BY <2>1 DEF Work, RolloutInv, DatabaseOK, Keys, Recorded
    <2>3. source = None
        BY <2>2 DEF DataInv, Sourced, TargetVersion
    <2>4. KeepsData(db.version, db.content, Migrated(db.version, db.content))
        BY <2>2, <2>3, DataKept DEF DataInv, Supported, Databases
    <2>5. pc'[p] = "postflight" /\ Work(p)'
        BY <1>1, <2>1 DEF Goto, RolloutInv, TypeOK, Working
    <2>6. /\ db' # NoDatabase /\ db'.version = TargetVersion /\ db'.backup = db.backup
          /\ db'.content = Migrated(db.version, db.content)
        <3> DEFINE c == Migrated(db.version, db.content)
        <3>1. db' = [db EXCEPT !.version = TargetVersion, !.content = c]
            BY <1>5, <2>2 DEF Migrate, Databases
        <3> HIDE DEF c
        <3>2. db'.backup = db.backup /\ db'.content = c
            BY <2>2, <3>1 DEF Databases
        <3>3. QED
            BY <2>5, <3>2 DEF Work, c
    <2>7. source'.version = db.version /\ source'.content = db.content /\ source' # None
        <3>1. source' \in Images
            BY <2>1, <2>2 DEF Image, Images, Databases
        <3>2. QED
            BY <2>1, <3>1, Unlike DEF Image
    <2>8. \A q \in Process : pc'[q] # "create_migrate"
        <3>1. lock = p
            BY <2>1, HoldsLock DEF RolloutInv, Locked, Steps
        <3>2. \A q \in Process : q # p => pc[q] # "create_migrate"
            BY <3>1, OthersFree DEF RolloutInv, Locked, Steps
        <3>3. QED
            BY <2>1, <3>2 DEF Goto, RolloutInv, TypeOK
    <2>9. QED
        BY <2>2, <2>4, <2>6, <2>7, <2>8 DEF DataInv, Sourced
<1>6. CASE Postflight(p)
    <2>1. Goto(p, "idle", Idle) /\ pc[p] = "postflight" /\ Work(p) /\ UNCHANGED source
        BY <1>6 DEF Postflight, Stops, RolloutInv, Working
    <2>2. db \in Databases /\ db # NoDatabase
        BY <2>1 DEF Work, RolloutInv, DatabaseOK
    <2>3. /\ db' \in Databases
          /\ db'.version = db.version /\ db'.content = db.content /\ db'.backup = db.backup
        BY <1>6, <2>2 DEF Postflight, Databases
    <2>4. QED
        BY <2>1, <2>2, <2>3, SameData, Unlike DEF Goto, RolloutInv, TypeOK
<1>7. QED
    BY <1>2, <1>3, <1>4, <1>5, <1>6 DEF Upgrade

LEMMA CreateData ==
    ASSUME RolloutInv, DataInv, NEW p \in Process, Create(p)
    PROVE  DataInv'
<1>1. RolloutInv'
    BY InvNext DEF Next
<1>2. CASE CreateDatabase(p)
    <2>1. PICK x : Goto(p, "create", x)
        BY <1>2 DEF CreateDatabase, Locks
    <2>2. QED
        BY <1>2, <2>1, SameData DEF CreateDatabase, disk, Goto, RolloutInv, TypeOK
<1>3. CASE ~CreateDatabase(p)
    <2>1. lock \in {p, None}
        BY <1>3, HoldsLock DEF Create, ResetState, Locks, CreateFile, CreateMigrate,
           RecordAdoptionAtCreation, CreateFails, RolloutInv, Locked, Steps
    <2>2. PICK step, x : Goto(p, step, x)
        BY <1>3 DEF Create, ResetState, Locks, CreateFile, CreateMigrate,
           RecordAdoptionAtCreation, CreateFails, Stops
    <2>3. \A q \in Process : q # p => pc'[q] # "create_migrate"
        BY <2>1, <2>2, OthersFree DEF Goto, RolloutInv, TypeOK, Locked, Steps
    <2>4. pc[p] \in {"create", "create_migrate", "create_adopt"} =>
              source = None /\ (db = NoDatabase \/ (db \in Databases /\ Blank(db)))
        <3> SUFFICES ASSUME pc[p] \in {"create", "create_migrate", "create_adopt"}
                     PROVE  source = None /\ (db = NoDatabase \/ (db \in Databases /\ Blank(db)))
            OBVIOUS
        <3>1. Work(p)
            BY DEF RolloutInv, Working
        <3>2. db = NoDatabase \/ (db \in Databases /\ Blank(db))
            <4>1. CASE pc[p] = "create"
                BY <3>1, <4>1 DEF Work
            <4>2. CASE pc[p] = "create_migrate"
                BY <3>1, <4>2 DEF Work, RolloutInv, DatabaseOK
            <4>3. CASE pc[p] = "create_adopt"
                BY <3>1, <4>3 DEF Work, RolloutInv, DatabaseOK
            <4>4. QED
                BY <4>1, <4>2, <4>3
        <3>3. QED
            BY <3>2 DEF DataInv, Sourced, Blank
    <2>5. CASE ResetState(p) \/ CreateFails(p)
        <3>1. db' = NoDatabase /\ source' = None
            BY <2>4, <2>5 DEF ResetState, CreateFails
        <3>2. pc'[p] # "create_migrate"
            BY <2>5 DEF ResetState, Locks, CreateFails, Stops, Goto, RolloutInv, TypeOK
        <3>3. QED
            BY <2>3, <3>1, <3>2 DEF DataInv, Sourced
    <2>6. CASE CreateFile(p)
        <3>1. db' = File(0, EmptyContent, 0) /\ source' = None
            BY <2>4, <2>6 DEF CreateFile
        <3>2. db'.version = 0 /\ db'.content = EmptyContent
            BY <3>1 DEF File
        <3>3. QED
            BY <3>1, <3>2, <2>3 DEF DataInv, Sourced, Supported, MinSourceVersion
    <2>7. CASE CreateMigrate(p)
        <3>1. pc[p] = "create_migrate" /\ source' = None /\ db.content = EmptyContent
            BY <2>4, <2>7 DEF CreateMigrate, DataInv
        <3>2. db \in Databases
            BY <3>1 DEF RolloutInv, DatabaseOK, Working, Work
        <3>3. db'.version = TargetVersion /\ db'.content = FreshContent
            <4> DEFINE c == Migrated(0, db.content)
            <4>1. db' = [db EXCEPT !.version = TargetVersion, !.content = c]
                BY <2>7, <3>2 DEF CreateMigrate, Databases
            <4>2. c = FreshContent
                BY <3>1 DEF FreshContent
            <4> HIDE DEF c
            <4>3. QED
                BY <3>2, <4>1, <4>2 DEF Databases
        <3>4. pc'[p] # "create_migrate"
            BY <2>7 DEF CreateMigrate, Goto, RolloutInv, TypeOK
        <3>5. QED
            BY <2>3, <3>1, <3>3, <3>4, FreshFits DEF DataInv, Sourced
    <2>8. CASE RecordAdoptionAtCreation(p)
        <3>1. pc[p] = "create_adopt" /\ source' = source
            BY <2>8 DEF RecordAdoptionAtCreation
        <3>2. db \in Databases /\ db # NoDatabase /\ Blank(db)
            BY <2>4, <3>1 DEF RolloutInv, Working, Work
        <3>3. /\ db' \in Databases /\ db'.version = db.version /\ db'.content = db.content
              /\ db'.backup = db.backup
            BY <2>8, <3>2 DEF RecordAdoptionAtCreation, Databases
        <3>4. pc'[p] # "create_migrate"
            BY <2>8 DEF RecordAdoptionAtCreation, Stops, Goto, RolloutInv, TypeOK
        <3>5. QED
            BY <2>3, <3>1, <3>2, <3>3, <3>4, SameData, Unlike
    <2>9. QED
        BY <1>3, <2>5, <2>6, <2>7, <2>8 DEF Create
<1>4. QED
    BY <1>2, <1>3

LEMMA OtherData ==
    ASSUME RolloutInv, DataInv, NEW p \in Process,
           \/ Quarantine(p) \/ Serve(p, "run") \/ Serve(p, "mutate") \/ Leave(p) \/ Crash(p)
    PROVE  DataInv'
<1>1. PICK step, x : step \in {"idle", "serving", "confirm_quarantine"} /\ Goto(p, step, x)
    BY DEF Quarantine, PreviewQuarantine, ApplyQuarantine, Serve, Locks, Leave, Crash, Refused, Stops
<1>2. /\ UNCHANGED source
      /\ \A q \in Process : pc'[q] = "create_migrate" => pc[q] = "create_migrate"
    BY <1>1 DEF Quarantine, PreviewQuarantine, ApplyQuarantine, Serve, Leave, Crash, Refused, Goto,
       RolloutInv, TypeOK
<1>3. CASE ApplyQuarantine(p) /\ ~Refused(p)
    <2>1. /\ db # NoDatabase
          /\ db' = [db EXCEPT !.marked = @ + Matches, !.lost = @ - Matches, !.disposed = TRUE]
        BY <1>3 DEF ApplyQuarantine, PostflightPassed
    <2>2. db \in Databases
        BY <2>1 DEF RolloutInv, DatabaseOK
    <2> DEFINE m == db.marked + Matches
               n == db.lost - Matches
    <2>3. db' = [db EXCEPT !.marked = m, !.lost = n, !.disposed = TRUE] /\ m \in Nat /\ n \in Nat
        BY <2>1, <2>2 DEF Matches, Databases
    <2> HIDE DEF m, n
    <2>4. /\ db' \in Databases /\ db'.version = db.version /\ db'.content = db.content
          /\ db'.backup = db.backup
        BY <2>2, <2>3 DEF Databases
    <2>5. QED
        BY <1>2, <2>1, <2>4, SameData, Unlike
<1>4. CASE ~(ApplyQuarantine(p) /\ ~Refused(p))
    <2>1. UNCHANGED db
        BY <1>4 DEF Quarantine, PreviewQuarantine, ApplyQuarantine, Serve, Leave, Crash, Refused, disk
    <2>2. QED
        BY <1>2, <2>1, SameData
<1>5. QED
    BY <1>3, <1>4

LEMMA DataStep ==
    ASSUME RolloutInv, DataInv, [Next]_vars
    PROVE  DataInv'
<1>1. CASE Tick \/ OperatorRemovesBackup \/ UNCHANGED vars
    <2>1. UNCHANGED <<db, source, pc>>
        BY <1>1 DEF Tick, OperatorRemovesBackup, vars, disk
    <2>2. QED
        BY <2>1, SameData
<1>2. CASE OlderReleaseWrites
    <2>1. db # NoDatabase /\ db' = [db EXCEPT !.lost = @ + 1] /\ UNCHANGED <<source, pc>>
        BY <1>2 DEF OlderReleaseWrites
    <2>2. db \in Databases
        BY <2>1 DEF RolloutInv, DatabaseOK
    <2>3. /\ db' \in Databases /\ db'.version = db.version /\ db'.content = db.content
          /\ db'.backup = db.backup
        BY <2>1, <2>2 DEF Databases
    <2>4. QED
        BY <2>1, <2>3, SameData, Unlike
<1>3. QED
    BY <1>1, <1>2, UpgradeData, CreateData, OtherData DEF Next

\* What the chain of migrations leaves of the rows of any version is what the
\* release that wrote them meant: migrate_v33.go to migrate_v47.go, for any
\* number of jobs, items and documents.
THEOREM DataWhole == Spec => []UpgradedDataIsWhole
<1>1. Init => DataInv
    BY FoundAssumption DEF Init, DataInv, Sourced, Supported
<1>2. RolloutInv /\ DataInv /\ [Next]_vars => DataInv'
    BY DataStep
<1>3. DataInv => UpgradedDataIsWhole
    BY DEF DataInv, UpgradedDataIsWhole
<1>4. QED
    BY Invariant, <1>1, <1>2, <1>3, PTL DEF Spec

=============================================================================

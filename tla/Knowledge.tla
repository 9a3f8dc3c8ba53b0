------------------------------- MODULE Knowledge -------------------------------
(***************************************************************************)
(* Remembered claims and preferences: the commands of people               *)
(* (internal/usecase/knowledge/service.go), the authoritative rows         *)
(* (internal/adapter/sqlite/knowledge_store.go) and the copies derived     *)
(* from them: the lexical index, the vector index and the projected        *)
(* bundle of files.                                                        *)
(*                                                                         *)
(* Copies only read the rows and never each other, so a behaviour follows  *)
(* the rows and at most one copy, chosen at the start.  A command is three steps   *)
(* (find the target, commit the receipt of its source, change the rows);   *)
(* commands of different conversations interleave and each may fail or be  *)
(* lost in a crash between its steps and be delivered again.  Values,      *)
(* validity windows, scopes other than the subject's own and the reading   *)
(* of cards are left out.  No caller creates documents.                    *)
(***************************************************************************)
EXTENDS Naturals, Sequences, FiniteSets

CONSTANTS
    Claim,          \* identities the store may generate for claims
    Pref,           \* owner and key of the preferences
    Subject,        \* subjects, each under one scope
    Event,          \* Slack events that carry a command; its source_ref
    Copies,         \* the copies followed: "lexical", "vector", "bundle" or "none"
    VectorBatch,    \* items embedded by one request
    MaxAttempts,    \* attempts of a queue item
    MaxRetries,     \* retries of a projection
    MaxClaims,      \* claims one subject may have
    MaxCommands,    \* bound, for each copy: events with a command
    MaxGeneration,  \* bound: repairs stop at this queue generation
    MaxTriggers,    \* bound: rows of the projection outbox
    MaxRestarts,    \* bound: restarts of an index worker
    None

ASSUME NoneAssumption == None \notin Claim \cup Subject \cup Pref
\* Two tables, each with identities of its own.
ASSUME KindAssumption == Claim # {} /\ Claim \cap Pref = {}
ASSUME BoundAssumption ==
    /\ {VectorBatch, MaxAttempts, MaxRetries, MaxClaims, MaxGeneration, MaxTriggers,
         MaxRestarts} \subseteq Nat
    /\ MaxCommands \in [Copies -> Nat]

VARIABLES
    row,        \* the authoritative row of each item with its revisions
    tombstone,  \* subjects that were forgotten
    event,      \* the command of each event: text, step, target, receipt
    copy,       \* which copy this behaviour follows
    queue,      \* queue row of each item, for an index
    index,      \* revision each index row was built from, 0 when there is none
    batch,      \* the claims the index worker holds, in order
    todo,       \* what reconciliation has still to queue
    outbox,     \* triggers of the projection
    turn,       \* step of the projector and the triggers it renders for
    dir,        \* the bundle, its backup and the staging directory
    restarts

truth   == <<row, tombstone>>
indexer == <<index, batch, todo>>
project == <<turn, dir>>
vars == <<truth, event, copy, queue, indexer, outbox, project, restarts>>

Item == Claim \cup Pref

Indexed == copy \in {"lexical", "vector"}

-----------------------------------------------------------------------------
(* Rows.  The revisions of an item are a journal: each has the source that  *)
(* committed it and what it did.                                           *)

Stored(i) == row[i].status \notin {"absent", "gone"}

Revision(i) == Len(row[i].log)

Sources(i) == {row[i].log[n].source : n \in DOMAIN row[i].log}

Live(i) == row[i].status \in {"verified", "disputed"}

NewRow(status, subject, prior, e) ==
    [status |-> status, subject |-> subject, prior |-> prior,
     log |-> <<[source |-> e, op |-> "create"]>>]

Revised(r, status, e, op) ==
    [r EXCEPT !.status = status, !.log = Append(@, [source |-> e, op |-> op])]

\* Mutation: the revisions of a forgotten claim are kept.
ForgottenButJournal(r) == [r EXCEPT !.status = "gone"]

Forgotten(r) == [status |-> "gone", subject |-> None, prior |-> None, log |-> <<>>]

\* The identity the store generates next is any that was never used.
Unused == {c \in Claim : row[c].status = "absent"}

Generated == CHOOSE c \in Unused : TRUE

Holding(s) == {c \in Claim : Stored(c) /\ row[c].subject = s}

-----------------------------------------------------------------------------
(* Triggers: every change of a row queues it, in the same transaction. *)

Requeued(q) == [status |-> "pending", gen |-> q.gen + 1, attempts |-> 0]

Trigger == [status |-> "pending", attempts |-> 0]

Changed(items) ==
    /\ Len(outbox) < MaxTriggers
    /\ queue' = [i \in Item |-> IF Indexed /\ i \in items
                                  THEN Requeued(queue[i]) ELSE queue[i]]
    /\ outbox' = IF copy = "bundle" THEN Append(outbox, Trigger) ELSE outbox

-----------------------------------------------------------------------------
(* Commands. *)

Text(op, on, rev) == [op |-> op, on |-> on, rev |-> rev]

NoText == Text("none", None, 0)

\* What a person may type: identities that were shown, a revision there was.
Typeable ==
    {Text(op, None, 0) : op \in {"remember", "forget"}}
    \cup {Text("correct", c, 0) : c \in {d \in Claim : Stored(d)}}
    \cup (UNION {{Text(op, c, n) : op \in {"archive", "dispute"}, n \in DOMAIN row[c].log} :
                   c \in Claim})
    \cup {Text("prefer", p, 0) : p \in Pref}
    \cup (UNION {{Text(op, p, n) : op \in {"prefer", "retire"}, n \in DOMAIN row[p].log} :
                   p \in Pref})

\* The binding of the conversation gives a subject its scope at each delivery.
Targets(t) == IF t.op \in {"remember", "forget"} THEN Subject ELSE {t.on}

NewEvent == [text |-> NoText, step |-> "idle", target |-> None, receipt |-> None]

\* Slack delivers an event; again when its deduplication record has expired.
\* Commands on claims first read the claim.
Deliver(e, t, x) ==
    /\ event[e].step = "idle"
    /\ IF event[e].text = NoText THEN t \in Typeable ELSE t = event[e].text
    /\ Cardinality({d \in Event : d = e \/ event[d].text # NoText}) <= MaxCommands[copy]
    /\ x \in Targets(t)
    /\ t.op \in {"correct", "archive", "dispute"} => Stored(t.on)
    /\ event' = [event EXCEPT ![e].text = t, ![e].step = "found", ![e].target = x]
    /\ UNCHANGED <<truth, copy, queue, indexer, outbox, project, restarts>>

\* CommitCommandReceipt: a source names one command with one target for ever.
CommitReceipt(e) ==
    /\ event[e].step = "found"
    /\ event[e].receipt \in {None, event[e].target}
    /\ event' = [event EXCEPT ![e].step = "receipted", ![e].receipt = event[e].target]
    /\ UNCHANGED <<truth, copy, queue, indexer, outbox, project, restarts>>

\* Refused, failed, replayed without effect, or lost in a crash.
Abandon(e) ==
    /\ event[e].step # "idle"
    /\ event' = [event EXCEPT ![e].step = "idle", ![e].target = None]
    /\ UNCHANGED <<truth, copy, queue, indexer, outbox, project, restarts>>

Performs(e, op) ==
    /\ event[e].step = "receipted" /\ event[e].text.op = op
    /\ event' = [event EXCEPT ![e].step = "idle", ![e].target = None]
    /\ UNCHANGED <<copy, indexer, project, restarts>>

\* CreateClaim: not a replay, not forgotten, not too many.
Admissible(s, e) ==
    /\ \A c \in Holding(s) : row[c].log[1].source # e
    /\ s \notin tombstone
    /\ Cardinality(Holding(s)) < MaxClaims

Remember(e) ==
    /\ Performs(e, "remember")
    /\ Admissible(event[e].target, e)
    /\ Unused # {}
    /\ row' = [row EXCEPT ![Generated] = NewRow("verified", event[e].target, None, e)]
    /\ Changed({Generated})
    /\ UNCHANGED tombstone

\* Mutation: only an archived claim is refused.
CorrectableUnlessArchived(p, e) == Stored(p) /\ row[p].status # "archived" /\ e \notin Sources(p)

\* A prior that is superseded by another source or archived is refused.
Correctable(p, e) == Live(p) /\ e \notin Sources(p)

Correct(e) ==
    LET p == event[e].target IN
    /\ Performs(e, "correct")
    /\ Correctable(p, e)
    /\ Cardinality(Holding(row[p].subject)) < MaxClaims
    /\ Unused # {}
    /\ row' = [row EXCEPT ![p] = Revised(@, "superseded", e, "supersede"),
                          ![Generated] = NewRow("verified", row[p].subject, p, e)]
    /\ Changed({p, Generated})
    /\ UNCHANGED tombstone

Status(op) == IF op = "dispute" THEN "disputed" ELSE "archived"

\* TransitionClaimStatus: once for each source, at the revision it names.
ChangeStatus(e, op) ==
    LET p == event[e].target IN
    /\ Performs(e, op)
    /\ Live(p) /\ e \notin Sources(p)
    /\ event[e].text.rev = Revision(p)
    /\ row' = [row EXCEPT ![p] = Revised(@, Status(op), e, op)]
    /\ Changed({p})
    /\ UNCHANGED tombstone

\* ForgetSubject deletes on every call, whatever the tombstone says.
Forget(e) ==
    LET s == event[e].target IN
    /\ Performs(e, "forget")
    /\ tombstone' = tombstone \cup {s}
    /\ row' = [i \in Item |-> IF i \in Holding(s) THEN Forgotten(row[i]) ELSE row[i]]
    /\ Changed(Holding(s))

Prefer(e) ==
    LET p == event[e].target IN
    /\ Performs(e, "prefer")
    /\ event[e].text.rev = 0 /\ row[p].status = "absent"
    /\ row' = [row EXCEPT ![p] = NewRow("active", None, None, e)]
    /\ Changed({p})
    /\ UNCHANGED tombstone

\* A preference is changed at the revision the command names.
RevisePref(e, op) ==
    LET p == event[e].target IN
    /\ Performs(e, op)
    /\ row[p].status = "active" /\ e \notin Sources(p)
    /\ event[e].text.rev = Revision(p)
    /\ row' = [row EXCEPT ![p] = Revised(@, IF op = "retire" THEN "archived" ELSE "active",
                                         e, op)]
    /\ Changed({p})
    /\ UNCHANGED tombstone

UpdatePreference(e) == RevisePref(e, "prefer")

ArchivePreference(e) == RevisePref(e, "retire")

Command ==
    \/ \E e \in Event : \/ \E t \in Typeable \cup {event[e].text} :
                             \E x \in Targets(t) : Deliver(e, t, x)
                        \/ CommitReceipt(e) \/ Abandon(e)
                        \/ Remember(e) \/ Correct(e) \/ Forget(e) \/ Prefer(e)
    \/ \E e \in Event : \/ \E op \in {"archive", "dispute"} : ChangeStatus(e, op)
                        \/ UpdatePreference(e) \/ ArchivePreference(e)

-----------------------------------------------------------------------------
(* Index workers.  The lexical worker holds one claim, the embedding worker *)
(* a batch: it reads every item, embeds those to keep in one request and    *)
(* then writes and settles them.  A claim whose row was queued again has    *)
(* another generation and settles nothing.                                  *)

Indexable(i) ==
    IF row[i].status \in {"verified", "disputed", "active"} THEN Revision(i) ELSE 0

BatchSize == IF copy = "vector" THEN VectorBatch ELSE 1

Capped(n, bound) == IF n > bound THEN bound ELSE n

\* ClaimNext, of one kind: a pending row that is due or a lapsed claim.
ClaimItem(i) ==
    LET attempt == Capped(queue[i].attempts + 1, MaxAttempts) IN
    /\ Indexed /\ todo = {} /\ Len(batch) < BatchSize
    /\ \A k \in DOMAIN batch : /\ batch[k].step = "claimed"
                               /\ batch[k].item \in Claim <=> i \in Claim
    /\ \/ queue[i].status = "pending"
       \/ /\ queue[i].status = "processing"
          /\ \A k \in DOMAIN batch : batch[k].item # i
    /\ queue' = [queue EXCEPT ![i].status = "processing", ![i].attempts = attempt]
    /\ batch' = Append(batch, [item |-> i, gen |-> queue[i].gen, attempts |-> attempt,
                               step |-> "claimed", seen |-> 0])
    /\ UNCHANGED <<truth, event, copy, index, todo, outbox, project, restarts>>

\* A removal is written, and a written item settled, before the next is read.
Pressing(k) == \/ batch[k].step = "written"
               \/ batch[k].step = "read" /\ batch[k].seen = 0

First(k, step) == /\ batch[k].step = step
                  /\ \A j \in 1..(k - 1) : batch[j].step # step

IsNext(k) ==
    \/ Pressing(k)
    \/ /\ \A j \in DOMAIN batch : ~Pressing(j)
       /\ \/ First(k, "claimed")
          \/ /\ First(k, "read")
             /\ \A j \in DOMAIN batch : batch[j].step # "claimed"

Stepped(k, step) ==
    LET after == [batch EXCEPT ![k].step = step] IN
    batch' = IF \A j \in DOMAIN after : after[j].step = "settled" THEN <<>> ELSE after

ReadItem(k) ==
    /\ IsNext(k) /\ batch[k].step = "claimed"
    /\ batch' = [batch EXCEPT ![k].step = "read", ![k].seen = Indexable(batch[k].item)]
    /\ UNCHANGED <<truth, event, copy, queue, index, todo, outbox, project, restarts>>

\* Replace the index row, or delete it.
WriteItem(k) ==
    /\ IsNext(k) /\ batch[k].step = "read"
    /\ index' = [index EXCEPT ![batch[k].item] = batch[k].seen]
    /\ Stepped(k, "written")
    /\ UNCHANGED <<truth, event, copy, queue, todo, outbox, project, restarts>>

\* Mutation: the row is settled by its identity alone.
HoldsUnchecked(b) == b.item \in Item

\* The exact claim is still the one of the row.
Holds(b) == queue[b.item].status = "processing" /\ queue[b.item].gen = b.gen

\* Complete, Retry and Fail; a conflict changes nothing.
Settled(k, status) ==
    /\ queue' = IF Holds(batch[k]) THEN [queue EXCEPT ![batch[k].item].status = status]
                                   ELSE queue
    /\ Stepped(k, "settled")
    /\ UNCHANGED <<truth, event, copy, index, todo, outbox, project, restarts>>

CompleteItem(k) == IsNext(k) /\ batch[k].step = "written" /\ Settled(k, "done")

\* A read, a write or the provider failed; invalid output of the provider is final.
FailItem(k) ==
    /\ IsNext(k) /\ batch[k].step \in {"claimed", "read"}
    /\ \/ Settled(k, IF batch[k].attempts >= MaxAttempts THEN "failed" ELSE "pending")
       \/ copy = "vector" /\ batch[k].step = "read" /\ batch[k].seen > 0 /\ Settled(k, "failed")

\* The queue cannot be written: the claim is left to lapse.
LeaveItem(k) ==
    /\ IsNext(k)
    /\ Stepped(k, "settled")
    /\ UNCHANGED <<truth, event, copy, queue, index, todo, outbox, project, restarts>>

\* Reconciliation queues every stored item and every index row without one.
Reconcile(i) ==
    /\ i \in todo
    /\ todo' = todo \ {i}
    /\ queue' = [queue EXCEPT ![i] = Requeued(@)]
    /\ UNCHANGED <<truth, event, copy, index, batch, outbox, project, restarts>>

ReconcileFails ==
    /\ todo # {}
    /\ todo' = {}
    /\ UNCHANGED <<truth, event, copy, queue, index, batch, outbox, project, restarts>>

\* A retrieval met a stale hit; hits of both indexes are queued for the lexical one.
Repair(i) ==
    /\ copy = "lexical" /\ index[i] \notin {0, Indexable(i)}
    /\ queue[i].gen < MaxGeneration
    /\ queue' = [queue EXCEPT ![i] = Requeued(@)]
    /\ UNCHANGED <<truth, event, copy, indexer, outbox, project, restarts>>

IndexStep ==
    \/ \E i \in Item : ClaimItem(i) \/ Reconcile(i) \/ Repair(i)
    \/ \E k \in DOMAIN batch : ReadItem(k) \/ WriteItem(k) \/ CompleteItem(k)
                                 \/ FailItem(k) \/ LeaveItem(k)
    \/ ReconcileFails

-----------------------------------------------------------------------------
(* Projection: one worker claims the due triggers as a batch and renders    *)
(* one snapshot for them.  Directories are replaced by renaming.            *)

NoDir == [i \in {} |-> 0]

Empty == [i \in Item |-> 0]

Snapshot == [i \in Item |-> IF Stored(i) THEN Revision(i) ELSE 0]

Rest == [step |-> "rest", for |-> {}]

With(status) == {k \in DOMAIN outbox : outbox[k].status = status}

\* Pending rows are due; a delay or the lease of a lost batch may have passed.
ClaimTriggers(lapsed) ==
    LET due == With("pending") \cup lapsed IN
    /\ turn = Rest /\ due # {}
    /\ lapsed \subseteq With("delayed") \cup With("processing")
    /\ outbox' = [k \in DOMAIN outbox |->
                    IF k \in due THEN [status |-> "processing",
                                       attempts |-> Capped(outbox[k].attempts + 1, MaxRetries + 1)]
                                 ELSE outbox[k]]
    /\ turn' = [step |-> "clear_staging", for |-> due]
    /\ UNCHANGED <<truth, event, copy, queue, indexer, dir, restarts>>

Goes(step) == turn' = [turn EXCEPT !.step = step]

Moves(from, to) == dir' = [dir EXCEPT ![to] = dir[from], ![from] = NoDir]

Removes(d) == dir' = [dir EXCEPT ![d] = NoDir]

Keeps == UNCHANGED <<truth, event, copy, queue, indexer, restarts>>

ClearStaging ==
    /\ turn.step = "clear_staging"
    /\ Removes("staging") /\ Goes("clear_backup")
    /\ UNCHANGED outbox /\ Keeps

\* Without a bundle the backup is the only copy and is put back.
BackupCleared ==
    IF dir.live = NoDir /\ dir.backup # NoDir THEN Moves("backup", "live") ELSE Removes("backup")

\* The end of recovery, which the worker also runs once when it starts.
ClearBackup ==
    /\ turn.step = "clear_backup"
    /\ BackupCleared
    /\ IF turn.for = {} THEN turn' = Rest ELSE Goes("render")
    /\ UNCHANGED outbox /\ Keeps

\* The bundle's directory exists from here on; the snapshot is one read.
Render ==
    /\ turn.step = "render"
    /\ dir' = [dir EXCEPT !.live = IF @ = NoDir THEN Empty ELSE @, !.staging = Snapshot]
    /\ Goes("move_aside")
    /\ UNCHANGED outbox /\ Keeps

MoveAside ==
    /\ turn.step = "move_aside"
    /\ Moves("live", "backup") /\ Goes("move_in")
    /\ UNCHANGED outbox /\ Keeps

MoveIn ==
    /\ turn.step = "move_in"
    /\ Moves("staging", "live") /\ Goes("drop_backup")
    /\ UNCHANGED outbox /\ Keeps

DropBackup ==
    /\ turn.step = "drop_backup"
    /\ Removes("backup") /\ Goes("complete")
    /\ UNCHANGED outbox /\ Keeps

Batch(next) == [k \in DOMAIN outbox |-> IF k \in turn.for THEN next[k] ELSE outbox[k]]

CompleteBatch ==
    /\ turn.step = "complete"
    /\ outbox' = Batch([k \in turn.for |-> [outbox[k] EXCEPT !.status = "done"]])
    /\ turn' = Rest
    /\ UNCHANGED dir /\ Keeps

\* Mutation: residue that could not be removed does not keep the batch.
DeferredAsDone(t) == [t EXCEPT !.status = "done"]

\* DeferProjectionCleanupBatch gives the attempt back.
Deferred(t) == [status |-> "delayed", attempts |-> IF t.attempts > 0 THEN t.attempts - 1 ELSE 0]

\* settleBatch: by its own count each trigger is delayed or fails.
Spent(t) == [t EXCEPT !.status = IF t.attempts > MaxRetries THEN "failed" ELSE "delayed"]

\* Staging is removed after a failure; when it cannot be, that is the failure.
Discard ==
    \/ dir' = [dir EXCEPT !.staging = NoDir] /\ outbox' = Batch([k \in turn.for |-> Spent(outbox[k])])
    \/ UNCHANGED dir /\ outbox' = Batch([k \in turn.for |-> Deferred(outbox[k])])

\* The directory that holds what is to go cannot be removed.
CleanupFails ==
    /\ \/ turn.step = "clear_staging" /\ dir.staging # NoDir
       \/ turn.step = "clear_backup" /\ dir.backup # NoDir /\ dir.live # NoDir
       \/ turn.step = "drop_backup"
    /\ outbox' = Batch([k \in turn.for |-> Deferred(outbox[k])])
    /\ turn' = Rest
    /\ UNCHANGED dir /\ Keeps

\* The backup cannot be put back, the snapshot not read or rendered, the bundle
\* not moved aside.
ProjectFails ==
    /\ \/ /\ turn.step = "clear_backup" /\ dir.backup # NoDir /\ dir.live = NoDir
          /\ outbox' = Batch([k \in turn.for |-> Spent(outbox[k])]) /\ UNCHANGED dir
       \/ turn.step = "render" /\ outbox' = Batch([k \in turn.for |-> Spent(outbox[k])]) /\ UNCHANGED dir
       \/ turn.step = "move_aside" /\ Discard
    /\ turn' = Rest
    /\ Keeps

\* Staging cannot become the bundle: the backup is put back, if it can be.
RollBack ==
    /\ turn.step = "move_in"
    /\ \E live, backup, staging \in {dir.backup, dir.staging, NoDir} :
         /\ \/ live = dir.backup /\ backup = NoDir
            \/ live = NoDir /\ backup = dir.backup
         /\ staging \in {dir.staging, NoDir}
         /\ dir' = [live |-> live, backup |-> backup, staging |-> staging]
         /\ outbox' = IF staging = NoDir THEN Batch([k \in turn.for |-> Spent(outbox[k])]) ELSE Batch([k \in turn.for |-> Deferred(outbox[k])])
    /\ turn' = Rest
    /\ Keeps

\* The outbox cannot be written, or a shutdown stops the worker: the lease lapses.
LeaveBatch ==
    /\ turn # Rest
    /\ turn' = Rest
    /\ UNCHANGED <<dir, outbox>> /\ Keeps

\* CleanupProjection after the retention period.
Purge(k) ==
    /\ turn = Rest /\ outbox[k].status \in {"done", "failed"}
    /\ outbox' = [outbox EXCEPT ![k].status = "deleted"]
    /\ UNCHANGED project /\ Keeps

ProjectStep ==
    \/ \E lapsed \in SUBSET DOMAIN outbox : ClaimTriggers(lapsed)
    \/ ClearStaging \/ ClearBackup \/ Render \/ MoveAside \/ MoveIn \/ DropBackup
    \/ CompleteBatch \/ CleanupFails \/ ProjectFails \/ RollBack \/ LeaveBatch
    \/ \E k \in DOMAIN outbox : Purge(k)

-----------------------------------------------------------------------------
\* Workers start anew: in a new process, or after a panic.
Restart ==
    /\ Indexed => restarts < MaxRestarts
    /\ restarts' = IF Indexed THEN restarts + 1 ELSE restarts
    /\ batch' = <<>>
    /\ todo' = IF Indexed THEN {i \in Item : Stored(i) \/ index[i] # 0} ELSE {}
    /\ turn' = IF copy = "bundle" THEN [step |-> "clear_staging", for |-> {}] ELSE turn
    /\ UNCHANGED <<truth, event, copy, queue, index, outbox, dir>>

Init ==
    /\ copy \in Copies
    /\ row = [i \in Item |-> [status |-> "absent", subject |-> None, prior |-> None,
                              log |-> <<>>]]
    /\ tombstone = {}
    /\ event = [e \in Event |-> NewEvent]
    /\ queue = [i \in Item |-> [status |-> "none", gen |-> 0, attempts |-> 0]]
    /\ index = [i \in Item |-> 0]
    /\ batch = <<>> /\ todo = {} /\ outbox = <<>>
    /\ turn = Rest
    /\ dir = [live |-> NoDir, backup |-> NoDir, staging |-> NoDir]
    /\ restarts = 0

Next == Command \/ IndexStep \/ ProjectStep \/ Restart

Spec == Init /\ [][Next]_vars

-----------------------------------------------------------------------------
(* Properties. *)

\* Rows, queues and directories have the shape of their tables and files, and
\* nothing of a forgotten claim is kept.
TypeOK ==
    /\ copy \in Copies /\ tombstone \subseteq Subject
    /\ \A i \in Item :
         /\ row[i].status \in (IF i \in Claim THEN {"absent", "verified", "disputed", "superseded", "archived", "gone"}
                                              ELSE {"absent", "active", "archived"})
         /\ Stored(i) <=> row[i].log # <<>>
         /\ i \in Claim /\ Stored(i) => row[i].subject \in Subject
    /\ \A e \in Event :
         /\ event[e].step \in {"idle", "found", "receipted"}
         /\ event[e].step = "receipted" => event[e].receipt = event[e].target
    /\ \A i \in Item : queue[i].status \in {"none", "pending", "processing", "done", "failed"}
    /\ \A k \in DOMAIN outbox :
         outbox[k].status \in {"pending", "delayed", "processing", "done", "failed", "deleted"}
    /\ DOMAIN dir = {"live", "backup", "staging"}

\* The command a source names once its receipt is committed.
Commanded(i, entry) ==
    LET named == event[entry.source].receipt
        op == event[entry.source].text.op IN
    CASE entry.op = "supersede" -> op = "correct" /\ named = i
      [] entry.op \notin {"create", "supersede"} -> op = entry.op /\ named = i
      [] entry.op = "create" ->
           IF i \in Pref THEN op = "prefer" /\ named = i
           ELSE IF row[i].prior = None THEN op = "remember" /\ named = row[i].subject
           ELSE op = "correct" /\ named = row[i].prior

\* However commands interleave, fail and are delivered again, every revision
\* was made by the command its source committed a receipt for and by each
\* source once; a claim is replaced by one correction; and nothing is stored
\* under a subject that was forgotten.
TakesEffectOnce ==
    /\ \A i \in Item : \A m, n \in DOMAIN row[i].log :
         /\ Commanded(i, row[i].log[n])
         /\ row[i].log[m].source = row[i].log[n].source => m = n
    /\ \A c, d \in Claim :
         Stored(c) /\ Stored(d) /\ row[c].log[1].source = row[d].log[1].source => c = d
    /\ \A c \in Claim :
         Cardinality({d \in Claim : row[d].prior = c}) =
           IF row[c].status = "superseded" THEN 1 ELSE 0
    /\ \A s \in tombstone : Holding(s) = {}

IndexTellsTruth ==
    \A i \in Item : queue[i].status = "done" => index[i] = Indexable(i)

BundleTellsTruth ==
    \A k \in DOMAIN outbox : k = Len(outbox) /\ outbox[k].status = "done" =>
        \A d \in DOMAIN dir : dir[d] \in {NoDir, Snapshot}

BundleSurvives ==
    \A k \in DOMAIN outbox : outbox[k].status = "done" =>
        dir.live # NoDir \/ dir.backup # NoDir

\* An item whose queue row is done is indexed at its current revision, or not
\* at all when it is archived, superseded or forgotten: no change that came
\* while a worker held an older read is lost.  Once the last trigger is done
\* the bundle shows exactly the rows and no residue keeps anything else; and a
\* bundle, once there, is never lost to a failed or interrupted promotion.
CopiesTellTruth == IndexTellsTruth /\ BundleTellsTruth /\ BundleSurvives

=============================================================================

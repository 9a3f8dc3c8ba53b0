---------------------------- MODULE Migrations ----------------------------
(***************************************************************************)
(* What the schema migrations v33 .. v47 do to the data they find.         *)
(*                                                                         *)
(* The content of a database is what a migration reads or rewrites: the    *)
(* shape of its tables, the journal's records and the actions its check    *)
(* admits, the external-agent jobs with their binding to the one task, the *)
(* knowledge items with their queue and index copies, the documents, and   *)
(* the references to stored results.  A migration that adds empty tables   *)
(* or columns changes the shape only.                                      *)
(***************************************************************************)
EXTENDS Integers, FiniteSets

CONSTANTS
    Jobs,    \* jobs of the ledger, numbered in the order of created_at
    Facts,   \* knowledge claims and preferences
    Docs,    \* knowledge documents
    Refs     \* references to recoverable results

ASSUME JobsAssumption == Jobs \subseteq Nat \ {0} /\ IsFiniteSet(Jobs)
ASSUME ItemsAssumption == Facts \cap Docs = {}

TargetVersion    == 47
MinSourceVersion == 33
NoJob            == 0

\* bound says which execution of the task a job's binding columns name: no
\* task, the one the task has now, or an earlier one.
Bindings == {"none", "current", "earlier"}
Policies == {"delivery_only", "workstream_only", "automatic_root"}
\* Documents whose result can no longer be verified keep their status apart.
Documents == {"none", "imported", "active", "archived", "stale", "stale_archived"}
Parts == {"jobs", "memory", "workstreams", "results", "epochs", "bindings", "knowledge",
          "retrieval", "analyses", "result_refs", "transcripts", "error_classes", "policies",
          "task_jobs"}
Actions == {"create_workstream", "link_completed_result", "start_task", "queue_task", "settle_task"}

Contents ==
    [shape    : SUBSET Parts,
     admits   : SUBSET Actions,          \* journal actions the check constraint admits
     journal  : SUBSET Actions,          \* actions of the journal's records
     bound    : [Jobs -> Bindings],
     detached : SUBSET Jobs,
     policy   : [Jobs -> Policies],
     wakes    : SUBSET Jobs,             \* notices with root_activation_required
     owner    : Jobs \cup {NoJob},       \* the task's job_id
     facts    : SUBSET Facts,
     docs     : [Docs -> Documents],
     queued   : SUBSET (Facts \cup Docs),
     indexed  : SUBSET (Facts \cup Docs),
     held     : SUBSET Docs,             \* documents with a live result reference
     project  : BOOLEAN,                 \* a pending row of the projection outbox
     named    : SUBSET Refs,             \* named by events and capsules
     refs     : SUBSET Refs]             \* rows of recoverable_result_refs

EmptyContent ==
    [shape |-> {}, admits |-> {}, journal |-> {}, bound |-> [j \in Jobs |-> "none"],
     detached |-> {}, policy |-> [j \in Jobs |-> "delivery_only"], wakes |-> {}, owner |-> NoJob,
     facts |-> {}, docs |-> [d \in Docs |-> "none"], queued |-> {}, indexed |-> {}, held |-> {},
     project |-> FALSE, named |-> {}, refs |-> {}]

Present(c) == {d \in Docs : c.docs[d] # "none"}

-----------------------------------------------------------------------------

\* Everything before workstreams, as an empty file passes through it.
V32(c) == [c EXCEPT !.shape = @ \cup {"jobs", "memory"}]
V33(c) == [c EXCEPT !.shape = @ \cup {"workstreams"}, !.admits = @ \cup {"create_workstream"}]
V34(c) == [c EXCEPT !.shape = @ \cup {"results"}]
\* The journal is rebuilt under a wider check; its rows are copied.
V35(c) == [c EXCEPT !.admits = @ \cup {"link_completed_result"}]
V36(c) == [c EXCEPT !.shape = @ \cup {"epochs"}]
\* Historical jobs remain unbound.
V37(c) == [c EXCEPT !.shape = @ \cup {"bindings"}, !.admits = @ \cup {"start_task"},
                    !.bound = [j \in Jobs |-> "none"]]
V38(c) == [c EXCEPT !.shape = @ \cup {"knowledge"}]
\* The queues are seeded with every item there is.
V39(c) == [c EXCEPT !.shape = @ \cup {"retrieval"}, !.queued = c.facts \cup Present(c)]
V40(c) == [c EXCEPT !.shape = @ \cup {"analyses"}]
V41(c) == [c EXCEPT !.shape = @ \cup {"result_refs"}, !.refs = c.named]

\* Variant: without the references that keep a document's result.
V42Unheld(c) ==
    [c EXCEPT !.shape = @ \ {"memory"},
              !.docs = [d \in Docs |-> IF @[d] \in {"active", "archived"} THEN @[d] ELSE "none"]]

\* Imported documents go with their queue rows.  Of the curated ones those
\* whose result does not verify go too, and leave the queue row their
\* deletion makes; the active ones that remain come to hold their result.
V42(c) ==
    LET imported == {d \in Docs : c.docs[d] = "imported"}
        stale    == {d \in Docs : c.docs[d] \in {"stale", "stale_archived"}}
    IN  [c EXCEPT !.shape   = @ \ {"memory"},
                  !.docs    = [d \in Docs |-> IF d \in imported \cup stale THEN "none" ELSE @[d]],
                  !.queued  = (@ \ (Docs \ (Present(c) \ imported))) \cup stale,
                  !.indexed = @ \ (imported \cup stale),
                  !.held    = @ \cup {d \in Docs : c.docs[d] = "active"},
                  !.project = @ \/ imported \cup stale # {}]

V43(c) == [c EXCEPT !.shape = @ \cup {"transcripts"}]
V44(c) == [c EXCEPT !.shape = @ \cup {"error_classes"}]
V45(c) == [c EXCEPT !.shape = @ \cup {"policies"},
                    !.policy = [j \in Jobs |-> IF j \in c.detached /\ c.bound[j] # "none"
                                               THEN "workstream_only" ELSE "delivery_only"]]
V46(c) == [c EXCEPT !.shape = @ \cup {"task_jobs"}, !.owner = NoJob]

\* The task takes over the association: the oldest job bound to its current
\* execution becomes its job, unless it has one; a job that reported to its
\* workstream only no longer wakes the root; the binding columns are dropped.
V47(c) ==
    LET heirs  == {j \in Jobs : c.bound[j] = "current"}
        silent == {j \in Jobs : c.policy[j] = "workstream_only"}
    IN  [c EXCEPT !.wakes  = @ \ silent,
                  !.owner  = IF @ = NoJob /\ heirs # {}
                             THEN CHOOSE j \in heirs : \A k \in heirs : j <= k ELSE @,
                  !.policy = [j \in Jobs |-> IF j \in silent THEN "delivery_only" ELSE @[j]],
                  !.bound  = [j \in Jobs |-> "none"],
                  !.shape  = @ \ {"bindings"},
                  !.admits = @ \cup {"queue_task", "settle_task"}]

Migration(v, c) ==
    CASE v = 32 -> V32(c) [] v = 33 -> V33(c) [] v = 34 -> V34(c) [] v = 35 -> V35(c)
      [] v = 36 -> V36(c) [] v = 37 -> V37(c) [] v = 38 -> V38(c) [] v = 39 -> V39(c)
      [] v = 40 -> V40(c) [] v = 41 -> V41(c) [] v = 42 -> V42(c) [] v = 43 -> V43(c)
      [] v = 44 -> V44(c) [] v = 45 -> V45(c) [] v = 46 -> V46(c) [] v = 47 -> V47(c)
      [] OTHER -> c

\* Migration k runs on a database of version v that goes to version n.
Step(v, n, k, c) == IF v < k /\ k <= n THEN Migration(k, c) ELSE c

\* The migrations after version v up to version n, in their order.
To35(v, n, c) == Step(v, n, 35, Step(v, n, 34, Step(v, n, 33, Step(v, n, 32, c))))
To39(v, n, c) == Step(v, n, 39, Step(v, n, 38, Step(v, n, 37, Step(v, n, 36, c))))
To43(v, n, c) == Step(v, n, 43, Step(v, n, 42, Step(v, n, 41, Step(v, n, 40, c))))
To47(v, n, c) == Step(v, n, 47, Step(v, n, 46, Step(v, n, 45, Step(v, n, 44, c))))
Upto(v, n, c) == To47(v, n, To43(v, n, To39(v, n, To35(v, n, c))))

\* All of them, in one transaction.
Migrated(v, c) == Upto(v, TargetVersion, c)

FreshContent == Migrated(0, EmptyContent)
FreshShape   == FreshContent.shape

\* Data a database of version v can hold: the tables are those its migrations
\* made, what came with a later one is not there yet, and the constraints and
\* the writers of that version keep references, index and policies in order.
Fits(v, c) ==
    /\ c.shape = Upto(0, v, EmptyContent).shape
    /\ c.admits = Upto(0, v, EmptyContent).admits
    /\ v < 37 \/ v >= 47 => \A j \in Jobs : c.bound[j] = "none"
    /\ v < 46 => c.owner = NoJob
    /\ v >= 47 => \A j \in Jobs : c.policy[j] # "workstream_only"
    /\ v >= 41 => c.named \subseteq c.refs
    /\ v >= 42 => \A d \in Docs : c.docs[d] = "active" => d \in c.held
    /\ c.indexed \subseteq c.facts \cup Present(c) \cup (IF v >= 42 THEN c.queued ELSE {})

-----------------------------------------------------------------------------

\* What an upgraded database keeps of the one it came from: nothing but
\* imported and unverifiable documents is gone, the derived rows cover what
\* they are derived from, and the task knows the job that works for it.
KeepsData(v, old, new) ==
    /\ new.shape = FreshShape /\ new.admits = Actions /\ new.journal = old.journal
    /\ new.facts = old.facts
    /\ \A d \in Docs : new.docs[d] = (IF old.docs[d] \in {"active", "archived"}
                                       \/ v >= 42 THEN old.docs[d] ELSE "none")
    /\ \A d \in Docs : new.docs[d] = "active" => d \in new.held
    /\ new.indexed \subseteq new.facts \cup Present(new) \cup new.queued
    /\ (old.queued \cup (IF v < 39 THEN old.facts \cup Present(old) ELSE {}))
            \cap (new.facts \cup Present(new)) \subseteq new.queued
    /\ Present(old) # Present(new) => new.project
    /\ new.named = old.named /\ new.named \subseteq new.refs
    /\ \A j \in Jobs : new.policy[j] # "workstream_only"
    /\ \A j \in Jobs : old.policy[j] = "automatic_root" /\ v >= 45
                         => new.policy[j] = "automatic_root" /\ (j \in old.wakes => j \in new.wakes)
    /\ \A j \in Jobs : j \in old.detached /\ old.bound[j] # "none" /\ v < 45 => j \notin new.wakes
    /\ (old.owner # NoJob => new.owner = old.owner)
    /\ old.owner = NoJob /\ (\E j \in Jobs : old.bound[j] = "current")
         => new.owner # NoJob /\ old.bound[new.owner] = "current"

=============================================================================

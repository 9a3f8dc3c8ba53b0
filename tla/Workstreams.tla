------------------------------ MODULE Workstreams ------------------------------
(***************************************************************************)
(* The workstreams of one conversation: the rows and the journal of        *)
(* internal/adapter/sqlite/workstream_store.go, the policy of              *)
(* internal/domain/workstream.go, the calls of the owner and of the root   *)
(* agent, and the durable jobs that execute tasks                          *)
(* (internal/adapter/sqlite/external_agent_job_store.go).                  *)
(*                                                                         *)
(* A call is composed from what its author saw and is committed later: the *)
(* confirmation of a root proposal is pending while other turns, commands  *)
(* and job workers commit.  One commit is one transaction.  Texts, limits  *)
(* on their length and on collections, and the binding to owner and        *)
(* project are left out; a constraint, like a new phase of the plan, only  *)
(* advances the revision.                                                  *)
(***************************************************************************)
EXTENDS Integers

CONSTANTS
    Workstream,   \* workstream identities proposed in the conversation
    Task,         \* task identities, used in every workstream
    Job,          \* durable jobs; a completed job's result is named by it
    Decision, Question,
    Call,         \* proposals of the root agent that await the owner at once
    Nothing,      \* an empty identity column
    MaxRecords    \* bound: records in the journals of the conversation

ASSUME IdentityAssumption == Nothing \notin Job \cup Call
ASSUME BoundAssumption == MaxRecords \in Nat

VARIABLES
    row,       \* current state of each workstream, as its tables hold it
    recorded,  \* the state in the last record of its journal
    call,      \* the root agent's calls whose confirmation is pending or used
    job,       \* status of each durable job and the task it was found for
    records,   \* how many records the journals have
    blocking   \* has the workstream an analysis that is unfinished, failed or stale?

vars == <<row, recorded, records, call, job, blocking>>

-----------------------------------------------------------------------------
(* Transition tables of the domain. *)

WorkstreamStatus == {"absent", "proposed", "active", "paused", "blocked",
                     "completed", "cancelled"}

Live(s) == s.status \in {"proposed", "active", "paused", "blocked"}

MayMove(from, to) ==
    <<from, to>> \in
      {<<"proposed", "active">>}
      \cup {"active"} \X {"paused", "blocked", "completed", "cancelled"}
      \cup {"paused", "blocked"} \X {"active", "cancelled"}

\* activate stands for activate, resume and unblock, which are one transition.
Target == [activate |-> "active", pause |-> "paused", block |-> "blocked",
           cancel |-> "cancelled", complete |-> "completed"]

TaskStatus == {"absent", "proposed", "queued", "running", "rejected",
               "completed", "failed", "cancelled", "completion_unknown"}

TaskTerminal(s) ==
    s \in {"rejected", "completed", "failed", "cancelled", "completion_unknown"}

\* The rows of the table that some transition of the journal can use.
MayTurn(from, to) ==
    <<from, to>> \in
      {"proposed"} \X {"queued", "rejected"}
      \cup {"queued"} \X {"running", "cancelled", "failed", "completion_unknown"}
      \cup {"running"} \X {"completed", "failed", "completion_unknown"}

-----------------------------------------------------------------------------
(* Transitions: what is asked of a workstream, and the state it leads to. *)

MoveOp   == DOMAIN Target
TaskOp   == {"propose_task", "reject_task", "queue_task", "start_task", "settle_task"}
DecisionOp == {"propose_decision", "approve_decision", "reject_decision"}
QuestionOp == {"request_human_decision", "resolve_question"}

\* op, the item it names, and for a task its dependencies and inputs, its job
\* and the status its job settles it with.
Transition(op, item) ==
    [op |-> op, item |-> item, deps |-> {}, needs |-> {}, job |-> Nothing,
     to |-> "absent"]

ProposeTask(t, ds, ns) ==
    [Transition("propose_task", t) EXCEPT !.deps = ds, !.needs = ns]
QueueTask(t, j)     == [Transition("queue_task", t) EXCEPT !.job = j]
StartTask(t, j)     == [Transition("start_task", t) EXCEPT !.job = j]
SettleTask(t, j, s) == [Transition("settle_task", t) EXCEPT !.job = j, !.to = s]

NewTask == [status |-> "absent", job |-> Nothing, exec |-> Nothing,
            result |-> Nothing, deps |-> {}, needs |-> {}]

Available(s) == s.links \cup {s.tasks[t].result : t \in Task}

\* Mutation: a dependency that ended counts as completed.
ReadyWhenEnded(s, t) ==
    /\ \A d \in s.tasks[t].deps : TaskTerminal(s.tasks[d].status)
    /\ s.tasks[t].needs \subseteq Available(s)

\* Dependencies are completed and required inputs are available.
Ready(s, t) ==
    /\ \A d \in s.tasks[t].deps : s.tasks[d].status = "completed"
    /\ s.tasks[t].needs \subseteq Available(s)

\* Mutation: a workstream completes when nothing is running.
MovableWhileQueued(s, op) ==
    /\ MayMove(s.status, Target[op])
    /\ op = "complete" => \A t \in Task : s.tasks[t].status # "running"

Movable(s, op) ==
    /\ MayMove(s.status, Target[op])
    /\ op = "complete" =>
         \A t \in Task : s.tasks[t].status = "absent" \/ TaskTerminal(s.tasks[t].status)

\* validateTransitionPayload and the preconditions of each action.
Allowed(s, x) ==
    \/ x.op = "revise_plan"
    \/ x.op \in MoveOp /\ Movable(s, x.op)
    \/ /\ x.op = "propose_task" /\ s.tasks[x.item].status = "absent"
       /\ \A d \in x.deps : s.tasks[d].status # "absent"
    \/ x.op = "reject_task" /\ MayTurn(s.tasks[x.item].status, "rejected")
    \/ x.op = "queue_task" /\ s.tasks[x.item].status = "proposed" /\ Ready(s, x.item)
    \/ /\ x.op = "start_task" /\ s.tasks[x.item].status = "queued"
       /\ s.tasks[x.item].job = x.job
    \/ /\ x.op = "settle_task" /\ s.tasks[x.item].job = x.job
       /\ MayTurn(s.tasks[x.item].status, x.to)
       /\ ~TaskTerminal(s.tasks[x.item].status)
    \/ x.op = "link_result" /\ x.item \notin s.links
    \/ x.op = "propose_decision" /\ s.decisions[x.item] = "none"
    \/ x.op \in {"approve_decision", "reject_decision"} /\ s.decisions[x.item] = "proposed"
    \/ x.op = "request_human_decision" /\ s.questions[x.item] = "none"
    \/ x.op = "resolve_question" /\ s.questions[x.item] = "open"

Accepts(s, x) == Live(s) /\ Allowed(s, x)

TaskAfter(task, x) ==
    CASE x.op = "propose_task" -> [task EXCEPT !.status = "proposed", !.deps = x.deps,
                                               !.needs = x.needs]
      [] x.op = "reject_task"  -> [task EXCEPT !.status = "rejected"]
      [] x.op = "queue_task"   -> [task EXCEPT !.status = "queued", !.job = x.job]
      [] x.op = "start_task"   -> [task EXCEPT !.status = "running", !.exec = x.job]
      [] x.op = "settle_task"  -> [task EXCEPT !.status = x.to,
                                     !.result = IF x.to = "completed" THEN x.job ELSE Nothing]

\* Mutation: a resolved question takes the status of a decision.
MatterAfterAlike == [propose_decision |-> "proposed", approve_decision |-> "approved",
                     reject_decision |-> "rejected", request_human_decision |-> "open",
                     resolve_question |-> "approved"]

MatterAfter == [propose_decision |-> "proposed", approve_decision |-> "approved",
                reject_decision |-> "rejected", request_human_decision |-> "open",
                resolve_question |-> "resolved"]

\* ApplyTransitionWithLimits on an accepted transition.
After(s, x) ==
    [s EXCEPT
       !.rev = @ + 1,
       !.status = IF x.op \in MoveOp THEN Target[x.op] ELSE @,
       !.tasks = [t \in Task |-> IF x.op \in TaskOp /\ t = x.item
                                   THEN TaskAfter(@[t], x) ELSE @[t]],
       !.decisions = [d \in Decision |-> IF x.op \in DecisionOp /\ d = x.item
                                           THEN MatterAfter[x.op] ELSE @[d]],
       !.questions = [q \in Question |-> IF x.op \in QuestionOp /\ q = x.item
                                           THEN MatterAfter[x.op] ELSE @[q]],
       !.links = @ \cup (IF x.op = "link_result" THEN {x.item} ELSE {})]

-----------------------------------------------------------------------------
(* Persistence: the row keeps what the statements of the action write. *)

\* Mutation: the settlement does not write the result.
ColumnsWithoutResult(op) ==
    CASE op = "propose_task" -> {"status", "job", "exec", "result", "deps", "needs"}
      [] op = "reject_task"  -> {"status", "exec", "result"}
      [] op = "queue_task"   -> {"status", "job"}
      [] op \in {"start_task", "settle_task"} -> {"status", "job", "exec"}

\* The columns of workstream_tasks an action writes.
Columns(op) ==
    CASE op = "propose_task" -> {"status", "job", "exec", "result", "deps", "needs"}
      [] op = "reject_task"  -> {"status", "exec", "result"}
      [] op = "queue_task"   -> {"status", "job"}
      [] op = "start_task"   -> {"status", "job", "exec"}
      [] op = "settle_task"  -> {"status", "job", "exec", "result"}

Written(s, n, x) ==
    [n EXCEPT !.tasks =
       [t \in Task |->
          IF x.op \in TaskOp /\ t = x.item
            THEN [f \in DOMAIN NewTask |->
                    IF f \in Columns(x.op) THEN n.tasks[t][f] ELSE s.tasks[t][f]]
            ELSE s.tasks[t]]]

OtherLive(w) == \E v \in Workstream \ {w} : Live(row[v])

Idle == [phase |-> "idle", ws |-> Nothing, saw |-> 0,
         x |-> Transition("none", Nothing), stale |-> FALSE]

\* History: the proposal by is applied; those of the others for w were made of
\* a state that is now past.
Overtaken(w, by) ==
    [c \in Call |->
       IF c = by THEN [Idle EXCEPT !.phase = "applied", !.stale = call[c].stale]
       ELSE IF call[c].phase = "asked" /\ call[c].ws = w
              THEN [call[c] EXCEPT !.stale = TRUE] ELSE call[c]]

\* Mutation: the revision the caller expected is not compared.
CommitUncompared(w, rev, x) ==
    /\ records < MaxRecords
    /\ Accepts(row[w], x)
    /\ ~OtherLive(w)
    /\ row' = [row EXCEPT ![w] = Written(@, After(@, x), x)]
    /\ recorded' = [recorded EXCEPT ![w] = After(row[w], x)]
    /\ records' = records + 1

\* One transaction: compare the revision, update the rows, append the record.
Commit(w, rev, x) ==
    /\ records < MaxRecords
    /\ rev = row[w].rev
    /\ Accepts(row[w], x)
    /\ ~OtherLive(w)
    /\ row' = [row EXCEPT ![w] = Written(@, After(@, x), x)]
    /\ recorded' = [recorded EXCEPT ![w] = After(row[w], x)]
    /\ records' = records + 1

-----------------------------------------------------------------------------
NewWorkstream == [status |-> "absent", rev |-> 0, tasks |-> [t \in Task |-> NewTask],
                  decisions |-> [d \in Decision |-> "none"],
                  questions |-> [q \in Question |-> "none"], links |-> {}]

Init ==
    /\ row = [w \in Workstream |-> NewWorkstream]
    /\ recorded = row
    /\ records = 0
    /\ call = [c \in Call |-> Idle]
    /\ job = [j \in Job |-> [status |-> "none", ws |-> Nothing, task |-> Nothing, saw |-> 0]]
    /\ blocking = [w \in Workstream |-> FALSE]

-----------------------------------------------------------------------------
(* The owner's commands and the root agent's tool calls. *)

Transitions ==
    {Transition(op, Nothing) : op \in MoveOp \cup {"revise_plan"}}
    \cup {ProposeTask(t, ds, ns) :
            t \in Task, ds \in SUBSET Task, ns \in {{}} \cup {{j} : j \in Job}}
    \cup {Transition("reject_task", t) : t \in Task}
    \cup {Transition("link_result", j) : j \in Job}
    \cup {Transition(op, d) : op \in DecisionOp, d \in Decision}
    \cup {Transition(op, q) : op \in QuestionOp, q \in Question}

\* What the root agent may propose to the owner.  Only the owner blocks; a new
\* task, a new phase and a question need no confirmation (then the call is a
\* Command); a constraint, which is revise_plan here too, does.
Confirmable(op) == op \notin {"block", "propose_task", "request_human_decision"}

\* Results are named once they exist.
Known(x) ==
    /\ \A j \in x.needs : job[j].status = "completed"
    /\ x.op = "link_result" => job[x.item].status = "completed"

\* A command of the owner, or a call of the root that needs no confirmation,
\* written for the current revision; any other is refused.
Command(w, x) ==
    /\ x.op # "link_result" /\ Known(x)
    /\ Commit(w, row[w].rev, x)
    /\ call' = Overtaken(w, Nothing)
    /\ UNCHANGED <<job, blocking>>

\* ValidateProposal lets through only what would be accepted now.
Ask(c, w, x) ==
    /\ call[c].phase # "asked"
    /\ Confirmable(x.op) /\ Known(x)
    /\ Accepts(row[w], x)
    /\ call' = [call EXCEPT ![c] = [phase |-> "asked", ws |-> w, saw |-> row[w].rev,
                                    x |-> x, stale |-> FALSE]]
    /\ UNCHANGED <<row, recorded, records, job, blocking>>

\* The owner approved.  A link reads the result again in its transaction; it is
\* the one confirmed transition that passes no gate.
Perform(c) ==
    LET w == call[c].ws
        x == call[c].x IN
    /\ call[c].phase = "asked" /\ x.op # "create"
    /\ IF x.op = "link_result" THEN job[x.item].status = "completed" ELSE ~blocking[w]
    /\ Commit(w, call[c].saw, x)
    /\ call' = Overtaken(w, c)
    /\ UNCHANGED <<job, blocking>>

\* Declined, expired, refused by the store, or lost in a restart.
Drop(c) ==
    /\ call[c].phase = "asked"
    /\ call' = [call EXCEPT ![c] = Idle]
    /\ UNCHANGED <<row, recorded, records, job, blocking>>

\* ValidateCreate: no other workstream of the conversation is live now.
AskCreate(c, w) ==
    /\ call[c].phase # "asked"
    /\ row[w].status = "absent" /\ ~OtherLive(w)
    /\ call' = [call EXCEPT ![c] = [Idle EXCEPT !.phase = "asked", !.ws = w,
                                    !.x = Transition("create", Nothing)]]
    /\ UNCHANGED <<row, recorded, records, job, blocking>>

Inserted(w) ==
    LET n == [NewWorkstream EXCEPT !.status = "proposed"] IN
    /\ row[w].status = "absent" /\ records < MaxRecords
    /\ ~OtherLive(w)
    /\ row' = [row EXCEPT ![w] = n]
    /\ recorded' = [recorded EXCEPT ![w] = n]
    /\ records' = records + 1

CreateApproved(c) ==
    /\ call[c].phase = "asked" /\ call[c].x.op = "create"
    /\ Inserted(call[c].ws)
    /\ call' = Overtaken(call[c].ws, c)
    /\ UNCHANGED <<job, blocking>>

CreateHuman(w) ==
    /\ Inserted(w)
    /\ call' = Overtaken(w, Nothing)
    /\ UNCHANGED <<job, blocking>>

-----------------------------------------------------------------------------
(* Durable jobs. *)

\* CompletionBindingForTask: the tool finds the task before the job is stored.
FindTask(j, w, t) ==
    /\ job[j].status = "none"
    /\ row[w].status = "active"
    /\ row[w].tasks[t].status = "proposed" /\ row[w].tasks[t].job = Nothing
    /\ job' = [job EXCEPT ![j] = [status |-> "found", ws |-> w, task |-> t,
                                  saw |-> row[w].rev]]
    /\ UNCHANGED <<row, recorded, records, call, blocking>>

Admit(j) ==
    LET w == job[j].ws IN
    /\ job[j].status = "found"
    /\ row[w].status = "active"
    /\ Commit(w, job[j].saw, QueueTask(job[j].task, j))
    /\ job' = [job EXCEPT ![j].status = "queued"]
    /\ call' = Overtaken(w, Nothing)
    /\ UNCHANGED blocking

AdmissionFails(j) ==
    /\ job[j].status = "found"
    /\ job' = [job EXCEPT ![j].status = "none"]
    /\ UNCHANGED <<row, recorded, records, call, blocking>>

Bound(j, w, t) == row[w].tasks[t].job = j

\* A worker claims the job; the transaction starts the task.
StartJob(j, w, t) ==
    /\ job[j].status = "queued" /\ Bound(j, w, t)
    /\ job' = [job EXCEPT ![j].status = "running"]
    /\ UNCHANGED blocking
    /\ IF ~Live(row[w]) \/ row[w].tasks[t].status = "running"
         THEN UNCHANGED <<row, recorded, records, call>>
         ELSE /\ row[w].status = "active"
              /\ Commit(w, row[w].rev, StartTask(t, j))
              /\ call' = Overtaken(w, Nothing)

\* A run ended before it could have effects: the job is queued again, the task not.
Requeue(j) ==
    /\ job[j].status = "running"
    /\ job' = [job EXCEPT ![j].status = "queued"]
    /\ UNCHANGED <<row, recorded, records, call, blocking>>

Outcomes(s) ==
    CASE s = "queued"  -> {"cancelled"}
      [] s = "running" -> {"completed", "failed", "cancelled", "completion_unknown"}
      [] s = "completion_unknown" -> {"completed", "failed", "abandoned"}
      [] OTHER -> {}

TaskStatusFor(s) == IF s = "abandoned" THEN "completion_unknown" ELSE s

SettleSkipped(w, t, s) ==
    \/ ~Live(row[w])
    \/ /\ TaskTerminal(row[w].tasks[t].status)
       /\ \/ row[w].tasks[t].status # "completion_unknown"
          \/ TaskStatusFor(s) = "completion_unknown"

\* The job's outcome is stored and its task settled, or neither.
EndJob(j, w, t, s) ==
    /\ s \in Outcomes(job[j].status) /\ Bound(j, w, t)
    /\ job' = [job EXCEPT ![j].status = s]
    /\ UNCHANGED blocking
    /\ IF SettleSkipped(w, t, s)
         THEN UNCHANGED <<row, recorded, records, call>>
         ELSE /\ Commit(w, row[w].rev, SettleTask(t, j, TaskStatusFor(s)))
              /\ call' = Overtaken(w, Nothing)

-----------------------------------------------------------------------------
\* A dependent analysis is started, or the source of a completed one changes.
StartAnalysis(w) ==
    /\ Live(row[w]) /\ ~blocking[w]
    /\ blocking' = [blocking EXCEPT ![w] = TRUE]
    /\ UNCHANGED <<row, recorded, records, call, job>>

EndAnalysis(w) ==
    /\ blocking[w]
    /\ blocking' = [blocking EXCEPT ![w] = FALSE]
    /\ UNCHANGED <<row, recorded, records, call, job>>

-----------------------------------------------------------------------------
Next ==
    \/ \E w \in Workstream, x \in Transitions : Command(w, x) \/ (\E c \in Call : Ask(c, w, x))
    \/ \E c \in Call : CreateApproved(c) \/ Perform(c) \/ Drop(c)
    \/ \E w \in Workstream : CreateHuman(w) \/ (\E c \in Call : AskCreate(c, w))
    \/ \E j \in Job, w \in Workstream, t \in Task : FindTask(j, w, t) \/ StartJob(j, w, t)
    \/ \E j \in Job : Admit(j) \/ AdmissionFails(j) \/ Requeue(j)
    \/ \E j \in Job, w \in Workstream, t \in Task :
         \E s \in Outcomes(job[j].status) : EndJob(j, w, t, s)
    \/ \E w \in Workstream : StartAnalysis(w) \/ EndAnalysis(w)

Spec == Init /\ [][Next]_vars

-----------------------------------------------------------------------------
(* Properties. *)

TaskRecord ==
    [status : TaskStatus, job : Job \cup {Nothing}, exec : Job \cup {Nothing},
     result : Job \cup {Nothing}, deps : SUBSET Task, needs : SUBSET Job]

State ==
    [status : WorkstreamStatus, rev : 0..MaxRecords, tasks : [Task -> TaskRecord],
     decisions : [Decision -> {"none", "proposed", "approved", "rejected"}],
     questions : [Question -> {"none", "open", "resolved"}], links : SUBSET Job]

\* The rows, the journal, the calls and the jobs have the shape of their tables.
TypeOK ==
    /\ row \in [Workstream -> State]
    /\ recorded \in [Workstream -> State]
    /\ \A c \in Call :
         /\ call[c].phase \in {"idle", "asked", "applied"}
         /\ call[c].phase = "asked" =>
              /\ call[c].ws \in Workstream /\ call[c].saw \in 0..MaxRecords
              /\ call[c].x \in Transitions \cup {Transition("create", Nothing)}
    /\ \A j \in Job :
         /\ job[j].status \in {"none", "found", "queued", "running", "completed", "failed",
                               "cancelled", "completion_unknown", "abandoned"}
         /\ job[j].status # "none" => job[j].ws \in Workstream /\ job[j].task \in Task
    /\ records \in 0..MaxRecords
    /\ blocking \in [Workstream -> BOOLEAN]

\* The last record of the journal holds exactly the state the tables hold,
\* although each action writes only some of the tables and columns.
JournalTellsState == row = recorded

\* A transition applies to exactly the state its author saw: no plan change,
\* command or job step came between the proposal the owner approved and its
\* commit, however long the confirmation was pending.
AppliedAsSeen == \A c \in Call : call[c].phase = "applied" => ~call[c].stale

\* A task that got a job keeps its dependencies completed and its inputs
\* available, whatever was proposed, rejected, settled or linked since.
DependenciesHold ==
    \A w \in Workstream, t \in Task :
       row[w].tasks[t].job # Nothing =>
         /\ \A d \in row[w].tasks[t].deps : row[w].tasks[d].status = "completed"
         /\ row[w].tasks[t].needs \subseteq Available(row[w])

\* A job and its task tell the same story until the workstream ends, and a
\* completed workstream leaves no job behind that is queued or running.
TaskFollowsJob ==
    /\ \A j \in Job, v, w \in Workstream, t, u \in Task :
         Bound(j, v, t) /\ Bound(j, w, u) => v = w /\ t = u
    /\ \A j \in Job, w \in Workstream, t \in Task :
         LET task == row[w].tasks[t].status
             result == row[w].tasks[t].result IN
         /\ Bound(j, w, t) /\ row[w].status = "completed" =>
              job[j].status \notin {"queued", "running"}
         /\ Bound(j, w, t) /\ Live(row[w]) =>
              CASE job[j].status = "queued"    -> task \in {"queued", "running"}
                [] job[j].status = "running"   -> task = "running"
                [] job[j].status = "completed" -> task = "completed" /\ result = j
                [] OTHER                       -> task = TaskStatusFor(job[j].status)

=============================================================================

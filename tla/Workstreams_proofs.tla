------------------------- MODULE Workstreams_proofs -------------------------
(***************************************************************************)
(* Proofs about Workstreams: the tables hold what the journal records, a   *)
(* confirmed call applies to the state its author saw, a task that got a   *)
(* job keeps its dependencies, and a job and its task agree, for any       *)
(* number of workstreams, tasks, jobs, calls and records.                  *)
(***************************************************************************)
EXTENDS Workstreams, TLAPS

\* What each operation names.
Named(x) ==
  /\ x.op \in TaskOp => x.item \in Task
  /\ x.op = "propose_task" => x.deps \in SUBSET Task /\ x.needs \in SUBSET Job
  /\ x.op \in {"queue_task", "start_task", "settle_task"} => x.job \in Job
  /\ x.op = "settle_task" => x.to \in {"completed", "failed", "cancelled", "completion_unknown"}
  /\ x.op = "link_result" => x.item \in Job
  /\ x.op \in DecisionOp => x.item \in Decision
  /\ x.op \in QuestionOp => x.item \in Question

\* A task has a job exactly from queued on, its result is its job's once it
\* completed, and with a job it has what it depends on and needs.
TaskWhole(s, t) ==
  LET k == s.tasks[t] IN
    /\ k.job = Nothing <=> k.status \in {"absent", "proposed", "rejected"}
    /\ k.result = (IF k.status = "completed" THEN k.job ELSE Nothing)
    /\ k.job # Nothing => /\ \A d \in k.deps : s.tasks[d].status = "completed"
                          /\ k.needs \subseteq Available(s)

Whole(s) ==
  /\ s.status = "absent" => s.rev = 0 /\ \A t \in Task : s.tasks[t].job = Nothing
  /\ \A t \in Task : TaskWhole(s, t)

Rows ==
  /\ row \in [Workstream -> State] /\ recorded = row
  /\ records \in 0..MaxRecords /\ blocking \in [Workstream -> BOOLEAN]
  /\ \A w \in Workstream : row[w].rev <= records /\ Whole(row[w])

\* A call that is asked saw a revision of a workstream that exists, or an
\* absent workstream, and is out of date only when that has moved on.
CallRow ==
  [phase : {"idle", "asked", "applied"}, ws : Workstream \cup {Nothing}, saw : 0..MaxRecords,
   x : Transitions \cup {Transition("create", Nothing), Transition("none", Nothing)},
   stale : BOOLEAN]

Current(c) ==
  LET k == call[c]
      w == k.ws IN
    /\ k.phase = "asked" =>
         /\ w \in Workstream /\ k.x.op # "none"
         /\ k.saw <= row[w].rev
         /\ k.x.op # "create" => row[w].status # "absent"
         /\ k.stale => IF k.x.op = "create" THEN row[w].status # "absent" ELSE k.saw < row[w].rev
    /\ k.phase = "applied" => ~k.stale

Calls == call \in [Call -> CallRow] /\ \A c \in Call : Current(c)

\* What a job and the task bound to it say of each other.
JobStatus == {"none", "found", "queued", "running", "completed", "failed", "cancelled",
              "completion_unknown", "abandoned"}

JobRow ==
  [status : JobStatus, ws : Workstream \cup {Nothing}, task : Task \cup {Nothing}, saw : 0..MaxRecords]

Tells(j, s, t) ==
  LET task == s.tasks[t].status IN
    /\ job[j].status \notin {"none", "found"}
    /\ s.status = "completed" => job[j].status \notin {"queued", "running"}
    /\ Live(s) =>
         CASE job[j].status = "queued"  -> task \in {"queued", "running"}
           [] job[j].status = "running" -> task = "running"
           [] OTHER                     -> task = TaskStatusFor(job[j].status)

Jobs ==
  /\ job \in [Job -> JobRow]
  /\ \A j \in Job : job[j].status # "none" => job[j].ws \in Workstream /\ job[j].task \in Task
  /\ \A j \in Job, v, w \in Workstream, t, u \in Task :
       Bound(j, v, t) /\ Bound(j, w, u) => v = w /\ t = u
  /\ \A j \in Job, w \in Workstream, t \in Task : Bound(j, w, t) => Tells(j, row[w], t)

WorkstreamsInv == Rows /\ Calls /\ Jobs

-----------------------------------------------------------------------------
(* What a transition makes of a state.                                     *)

LEMMA OperationSets ==
  /\ MoveOp = {"activate", "pause", "block", "cancel", "complete"}
  /\ TaskOp = {"propose_task", "reject_task", "queue_task", "start_task", "settle_task"}
  /\ DecisionOp = {"propose_decision", "approve_decision", "reject_decision"}
  /\ QuestionOp = {"request_human_decision", "resolve_question"}
BY DEF MoveOp, Target, TaskOp, DecisionOp, QuestionOp

LEMMA TransitionFields ==
  ASSUME NEW op, NEW item
  PROVE  LET x == Transition(op, item) IN
           x.op = op /\ x.item = item /\ x.deps = {} /\ x.needs = {}
BY DEF Transition

LEMMA TransitionsNamed ==
  ASSUME NEW x \in Transitions
  PROVE  Named(x) /\ x.op \notin {"queue_task", "start_task", "settle_task", "create", "none"}
<1> USE OperationSets
<1> DEFINE proposals == {ProposeTask(t, ds, ns) :
                            t \in Task, ds \in SUBSET Task, ns \in {{}} \cup {{j} : j \in Job}}
<1>1. CASE x \in {Transition(op, Nothing) : op \in MoveOp \cup {"revise_plan"}}
  BY <1>1 DEF Transition, Named
<1>2. CASE x \in proposals
  <2>1. PICK t \in Task, ds \in SUBSET Task, ns \in {{}} \cup {{j} : j \in Job} :
          x = ProposeTask(t, ds, ns)
    BY <1>2
  <2>2. x.op = "propose_task" /\ x.item = t /\ x.deps = ds /\ x.needs = ns
    BY <2>1 DEF ProposeTask, Transition
  <2>3. ns \in SUBSET Job
    OBVIOUS
  <2>4. QED
    BY <2>2, <2>3 DEF Named
<1>3. CASE \/ x \in {Transition("reject_task", t) : t \in Task}
           \/ x \in {Transition("link_result", j) : j \in Job}
  BY <1>3 DEF Transition, Named
<1>4. CASE \/ x \in {Transition(op, d) : op \in DecisionOp, d \in Decision}
           \/ x \in {Transition(op, q) : op \in QuestionOp, q \in Question}
  BY <1>4 DEF Transition, Named
<1> HIDE DEF proposals
<1>5. x \in {Transition(op, Nothing) : op \in MoveOp \cup {"revise_plan"}} \/ x \in proposals
      \/ x \in {Transition("reject_task", t) : t \in Task}
      \/ x \in {Transition("link_result", j) : j \in Job}
      \/ x \in {Transition(op, d) : op \in DecisionOp, d \in Decision}
      \/ x \in {Transition(op, q) : op \in QuestionOp, q \in Question}
  BY DEF Transitions, proposals
<1>6. QED
  BY <1>1, <1>2, <1>3, <1>4, <1>5

LEMMA JobTransitions ==
  ASSUME NEW t \in Task, NEW j \in Job,
         NEW s \in {"completed", "failed", "cancelled", "completion_unknown"}
  PROVE  /\ Named(QueueTask(t, j)) /\ QueueTask(t, j).op = "queue_task"
         /\ QueueTask(t, j).item = t /\ QueueTask(t, j).job = j
         /\ Named(StartTask(t, j)) /\ StartTask(t, j).op = "start_task"
         /\ StartTask(t, j).item = t /\ StartTask(t, j).job = j
         /\ Named(SettleTask(t, j, s)) /\ SettleTask(t, j, s).op = "settle_task"
         /\ SettleTask(t, j, s).item = t /\ SettleTask(t, j, s).job = j /\ SettleTask(t, j, s).to = s
<1> USE OperationSets
<1>1. QueueTask(t, j).op = "queue_task" /\ QueueTask(t, j).item = t /\ QueueTask(t, j).job = j
  BY DEF QueueTask, Transition
<1>2. StartTask(t, j).op = "start_task" /\ StartTask(t, j).item = t /\ StartTask(t, j).job = j
  BY DEF StartTask, Transition
<1>3. /\ SettleTask(t, j, s).op = "settle_task" /\ SettleTask(t, j, s).item = t
      /\ SettleTask(t, j, s).job = j /\ SettleTask(t, j, s).to = s
  BY DEF SettleTask, Transition
<1>4. QED
  BY <1>1, <1>2, <1>3 DEF Named

\* A task after an operation on it, column by column.
LEMMA TaskAfterTyped ==
  ASSUME NEW k \in TaskRecord, NEW x, Named(x), x.op \in TaskOp
  PROVE  LET n == TaskAfter(k, x) IN
         /\ n \in TaskRecord
         /\ n.status = (CASE x.op = "propose_task" -> "proposed" [] x.op = "reject_task" -> "rejected"
                          [] x.op = "queue_task" -> "queued" [] x.op = "start_task" -> "running"
                          [] OTHER -> x.to)
         /\ n.job = (IF x.op = "queue_task" THEN x.job ELSE k.job)
         /\ n.exec = (IF x.op = "start_task" THEN x.job ELSE k.exec)
         /\ n.result = (IF x.op = "settle_task"
                          THEN IF x.to = "completed" THEN x.job ELSE Nothing ELSE k.result)
         /\ n.deps = (IF x.op = "propose_task" THEN x.deps ELSE k.deps)
         /\ n.needs = (IF x.op = "propose_task" THEN x.needs ELSE k.needs)
<1> USE OperationSets
<1>1. CASE x.op = "propose_task"
  <2>1. x.deps \in SUBSET Task /\ x.needs \in SUBSET Job
    BY <1>1 DEF Named
  <2>2. TaskAfter(k, x) = [k EXCEPT !.status = "proposed", !.deps = x.deps, !.needs = x.needs]
    BY <1>1 DEF TaskAfter
  <2>3. QED
    BY <1>1, <2>1, <2>2 DEF TaskRecord, TaskStatus
<1>2. CASE x.op = "reject_task"
  <2>1. TaskAfter(k, x) = [k EXCEPT !.status = "rejected"]
    BY <1>2 DEF TaskAfter
  <2>2. QED
    BY <1>2, <2>1 DEF TaskRecord, TaskStatus
<1>3. CASE x.op = "queue_task"
  <2>1. TaskAfter(k, x) = [k EXCEPT !.status = "queued", !.job = x.job] /\ x.job \in Job
    BY <1>3 DEF TaskAfter, Named
  <2>2. QED
    BY <1>3, <2>1 DEF TaskRecord, TaskStatus
<1>4. CASE x.op = "start_task"
  <2>1. TaskAfter(k, x) = [k EXCEPT !.status = "running", !.exec = x.job] /\ x.job \in Job
    BY <1>4 DEF TaskAfter, Named
  <2>2. QED
    BY <1>4, <2>1 DEF TaskRecord, TaskStatus
<1>5. CASE x.op = "settle_task"
  <2>1. /\ TaskAfter(k, x) = [k EXCEPT !.status = x.to,
                                !.result = IF x.to = "completed" THEN x.job ELSE Nothing]
        /\ x.job \in Job /\ x.to \in TaskStatus
    BY <1>5 DEF TaskAfter, Named, TaskStatus
  <2>2. QED
    BY <1>5, <2>1 DEF TaskRecord
<1>6. QED
  BY <1>1, <1>2, <1>3, <1>4, <1>5

\* A state after an accepted transition, table by table.
LEMMA AfterTyped ==
  ASSUME NEW s \in State, NEW x, Named(x), s.rev + 1 \in 0..MaxRecords
  PROVE  LET n == After(s, x) IN
         /\ n \in State /\ n.rev = s.rev + 1
         /\ n.status = (IF x.op \in MoveOp THEN Target[x.op] ELSE s.status)
         /\ \A t \in Task : n.tasks[t] = (IF x.op \in TaskOp /\ t = x.item
                                            THEN TaskAfter(s.tasks[t], x) ELSE s.tasks[t])
         /\ n.links = s.links \cup (IF x.op = "link_result" THEN {x.item} ELSE {})
<1> USE OperationSets
<1> DEFINE st == IF x.op \in MoveOp THEN Target[x.op] ELSE s.status
           ts == [t \in Task |-> IF x.op \in TaskOp /\ t = x.item THEN TaskAfter(s.tasks[t], x) ELSE s.tasks[t]]
           ds == [d \in Decision |-> IF x.op \in DecisionOp /\ d = x.item THEN MatterAfter[x.op] ELSE s.decisions[d]]
           qs == [q \in Question |-> IF x.op \in QuestionOp /\ q = x.item THEN MatterAfter[x.op] ELSE s.questions[q]]
           ls == s.links \cup (IF x.op = "link_result" THEN {x.item} ELSE {})
<1>1. st \in WorkstreamStatus
  BY DEF Target, WorkstreamStatus, State
<1>2. ts \in [Task -> TaskRecord]
  BY TaskAfterTyped DEF State
<1>3. ds \in [Decision -> {"none", "proposed", "approved", "rejected"}]
  <2>1. ASSUME NEW d \in Decision PROVE ds[d] \in {"none", "proposed", "approved", "rejected"}
    BY DEF State, MatterAfter
  <2>2. QED
    BY <2>1
<1>4. qs \in [Question -> {"none", "open", "resolved"}]
  BY DEF State, MatterAfter, Named
<1>5. ls \in SUBSET Job
  BY DEF State, Named
<1>6. After(s, x) = [s EXCEPT !.rev = s.rev + 1, !.status = st, !.tasks = ts, !.decisions = ds,
                              !.questions = qs, !.links = ls]
  BY DEF After
<1>7. \A t \in Task : ts[t] = (IF x.op \in TaskOp /\ t = x.item THEN TaskAfter(s.tasks[t], x) ELSE s.tasks[t])
  OBVIOUS
<1> DEFINE n0 == After(s, x)
<1> HIDE DEF ts, ds, qs, n0
<1>8. QED
  <2>1. n0 \in State
    BY <1>1, <1>2, <1>3, <1>4, <1>5, <1>6 DEF State, n0
  <2>2. n0.rev = s.rev + 1 /\ n0.status = st /\ n0.tasks = ts /\ n0.links = ls
    BY <1>6 DEF State, n0
  <2>3. QED
    BY <2>1, <2>2, <1>7 DEF n0

\* The columns an operation writes are the ones it changes.
LEMMA ColumnsWritten ==
  ASSUME NEW k \in TaskRecord, NEW x, Named(x), x.op \in TaskOp
  PROVE  [f \in DOMAIN NewTask |-> IF f \in Columns(x.op) THEN TaskAfter(k, x)[f] ELSE k[f]]
           = TaskAfter(k, x)
<1> USE OperationSets
<1> DEFINE n == TaskAfter(k, x)
<1>1. n \in TaskRecord
  BY TaskAfterTyped
<1>2. DOMAIN NewTask = {"status", "job", "exec", "result", "deps", "needs"}
  BY DEF NewTask
<1>3. ASSUME NEW f \in {"status", "job", "exec", "result", "deps", "needs"}, f \notin Columns(x.op)
      PROVE  n[f] = k[f]
  <2>1. /\ f = "job" => x.op \notin {"propose_task", "queue_task", "start_task", "settle_task"}
        /\ f = "status" => FALSE
        /\ f = "exec" => x.op = "queue_task"
        /\ f = "result" => x.op \in {"queue_task", "start_task"}
        /\ f \in {"deps", "needs"} => x.op # "propose_task"
    BY <1>3 DEF Columns
  <2>2. n.job = k.job \/ f # "job"
    BY <2>1, TaskAfterTyped
  <2>3. n.exec = k.exec \/ f # "exec"
    BY <2>1, TaskAfterTyped
  <2>4. n.result = k.result \/ f # "result"
    BY <2>1, TaskAfterTyped
  <2>5. (n.deps = k.deps /\ n.needs = k.needs) \/ f \notin {"deps", "needs"}
    BY <2>1, TaskAfterTyped
  <2>6. QED
    BY <2>1, <2>2, <2>3, <2>4, <2>5
<1>4. n = [f \in {"status", "job", "exec", "result", "deps", "needs"} |-> n[f]]
  BY <1>1 DEF TaskRecord
<1> HIDE DEF n
<1>5. [f \in DOMAIN NewTask |-> IF f \in Columns(x.op) THEN n[f] ELSE k[f]] = n
  BY <1>2, <1>3, <1>4
<1>6. QED
  BY <1>5 DEF n

LEMMA WrittenIsAfter ==
  ASSUME NEW s \in State, NEW x, Named(x), s.rev + 1 \in 0..MaxRecords
  PROVE  Written(s, After(s, x), x) = After(s, x)
<1> DEFINE n == After(s, x)
           ts == [t \in Task |->
                    IF x.op \in TaskOp /\ t = x.item
                      THEN [f \in DOMAIN NewTask |->
                              IF f \in Columns(x.op) THEN n.tasks[t][f] ELSE s.tasks[t][f]]
                      ELSE s.tasks[t]]
<1>1. n \in State /\ \A t \in Task : n.tasks[t] = (IF x.op \in TaskOp /\ t = x.item
                                                   THEN TaskAfter(s.tasks[t], x) ELSE s.tasks[t])
  BY AfterTyped
<1>2. \A t \in Task : s.tasks[t] \in TaskRecord
  BY DEF State
<1>3. Written(s, n, x) = [n EXCEPT !.tasks = ts]
  BY DEF Written
<1> HIDE DEF n
<1>4. ASSUME NEW t \in Task PROVE ts[t] = n.tasks[t]
  <2>1. CASE x.op \in TaskOp /\ t = x.item
    BY <1>1, <1>2, <2>1, ColumnsWritten
  <2>2. CASE ~(x.op \in TaskOp /\ t = x.item)
    BY <1>1, <2>2
  <2>3. QED
    BY <2>1, <2>2
<1>5. n.tasks = [t \in Task |-> n.tasks[t]] /\ ts = [t \in Task |-> ts[t]]
  BY <1>1 DEF State
<1> HIDE DEF ts
<1>6. ts = n.tasks
  BY <1>4, <1>5
<1>7. [n EXCEPT !.tasks = n.tasks] = n
  BY <1>1 DEF State
<1>8. QED
  BY <1>3, <1>6, <1>7 DEF n

\* An accepted transition keeps a state whole.
LEMMA WholeAfter ==
  ASSUME NEW s \in State, NEW x, Named(x), s.rev + 1 \in 0..MaxRecords, Whole(s), Accepts(s, x)
  PROVE  Whole(After(s, x))
<1> USE OperationSets, IdentityAssumption
<1> DEFINE n == After(s, x)
<1>1. /\ n \in State /\ n.rev = s.rev + 1
      /\ n.status = (IF x.op \in MoveOp THEN Target[x.op] ELSE s.status)
      /\ \A t \in Task : n.tasks[t] = (IF x.op \in TaskOp /\ t = x.item
                                          THEN TaskAfter(s.tasks[t], x) ELSE s.tasks[t])
      /\ n.links = s.links \cup (IF x.op = "link_result" THEN {x.item} ELSE {})
  BY AfterTyped
<1> HIDE DEF n
<1>2. n.status # "absent"
  BY <1>1 DEF Accepts, Live, Target
<1>3. \A t \in Task : s.tasks[t] \in TaskRecord /\ n.tasks[t] \in TaskRecord /\ TaskWhole(s, t)
  BY <1>1 DEF State, Whole
<1>4. ASSUME NEW t \in Task, ~(x.op \in TaskOp /\ t = x.item) PROVE n.tasks[t] = s.tasks[t]
  BY <1>1, <1>4
<1>5. ASSUME x.op \in TaskOp
      PROVE  LET k == s.tasks[x.item]
                 m == n.tasks[x.item] IN
        /\ x.item \in Task /\ m = TaskAfter(k, x)
        /\ k.status # "completed" /\ k.result = Nothing
        /\ m.job = Nothing <=> m.status \in {"absent", "proposed", "rejected"}
        /\ m.result = (IF m.status = "completed" THEN m.job ELSE Nothing)
        /\ m.job # Nothing => m.deps = k.deps /\ m.needs = k.needs
        /\ m.job # Nothing => x.op = "queue_task" \/ k.job # Nothing
  <2>1. x.item \in Task /\ n.tasks[x.item] = TaskAfter(s.tasks[x.item], x)
    BY <1>1, <1>5 DEF Named
  <2> DEFINE k == s.tasks[x.item]
             m == n.tasks[x.item]
  <2>2. Allowed(s, x) /\ k \in TaskRecord /\ TaskWhole(s, x.item)
    BY <1>3, <2>1 DEF Accepts
  <2>3. /\ m.status = (CASE x.op = "propose_task" -> "proposed" [] x.op = "reject_task" -> "rejected"
                          [] x.op = "queue_task" -> "queued" [] x.op = "start_task" -> "running"
                          [] OTHER -> x.to)
        /\ m.job = (IF x.op = "queue_task" THEN x.job ELSE k.job)
        /\ m.result = (IF x.op = "settle_task"
                          THEN IF x.to = "completed" THEN x.job ELSE Nothing ELSE k.result)
        /\ m.deps = (IF x.op = "propose_task" THEN x.deps ELSE k.deps)
        /\ m.needs = (IF x.op = "propose_task" THEN x.needs ELSE k.needs)
    BY <1>5, <2>1, <2>2, TaskAfterTyped
  <2> HIDE DEF k, m
  <2>4. k.job = Nothing <=> k.status \in {"absent", "proposed", "rejected"}
    BY <2>2 DEF k, TaskWhole
  <2>5. k.result = (IF k.status = "completed" THEN k.job ELSE Nothing)
    BY <2>2 DEF k, TaskWhole
  <2>6. /\ x.op = "propose_task" => k.status = "absent"
        /\ x.op = "reject_task" => k.status = "proposed"
        /\ x.op = "queue_task" => k.status = "proposed" /\ x.job \in Job
        /\ x.op = "start_task" => k.status = "queued" /\ k.job = x.job /\ x.job \in Job
        /\ x.op = "settle_task" => /\ k.status \in {"queued", "running"} /\ k.job = x.job /\ x.job \in Job
                                   /\ x.to \in {"completed", "failed", "cancelled", "completion_unknown"}
    <3>1. CASE x.op = "settle_task"
      BY <2>2, <3>1 DEF k, Allowed, MayTurn, TaskTerminal, Named
    <3>2. CASE x.op \in {"propose_task", "reject_task"}
      BY <2>2, <3>2 DEF k, Allowed, MayTurn
    <3>3. CASE x.op \in {"queue_task", "start_task"}
      BY <2>2, <3>3 DEF k, Allowed, Named
    <3>4. QED
      BY <1>5, <3>1, <3>2, <3>3
  <2>7. QED
    BY <1>5, <2>1, <2>3, <2>4, <2>5, <2>6 DEF k, m
<1>6. \A d \in Task : s.tasks[d].status = "completed" => n.tasks[d].status = "completed"
  BY <1>4, <1>5
<1>7. ASSUME NEW j \in Job, j \in Available(s) PROVE j \in Available(n)
  <2>1. CASE j \in s.links
    BY <1>1, <2>1 DEF Available
  <2>2. CASE j \notin s.links
    <3>1. PICK t \in Task : s.tasks[t].result = j
      BY <1>7, <2>2 DEF Available
    <3>2. n.tasks[t] = s.tasks[t]
      BY <1>4, <1>5, <3>1
    <3>3. QED
      BY <3>1, <3>2 DEF Available
  <2>3. QED
    BY <2>1, <2>2
<1>8. ASSUME NEW t \in Task, n.tasks[t].job # Nothing
      PROVE  /\ \A d \in n.tasks[t].deps : s.tasks[d].status = "completed"
             /\ n.tasks[t].needs \subseteq Available(s)
             /\ n.tasks[t].deps \subseteq Task /\ n.tasks[t].needs \subseteq Job
  <2>1. /\ n.tasks[t].deps = s.tasks[t].deps /\ n.tasks[t].needs = s.tasks[t].needs
        /\ s.tasks[t].job # Nothing \/ (x.op = "queue_task" /\ x.item = t)
    <3>1. CASE x.op \in TaskOp /\ t = x.item
      BY <1>5, <1>8, <3>1
    <3>2. CASE ~(x.op \in TaskOp /\ t = x.item)
      BY <1>4, <1>8, <3>2
    <3>3. QED
      BY <3>1, <3>2
  <2>3. s.tasks[t].deps \subseteq Task /\ s.tasks[t].needs \subseteq Job
    BY <1>3 DEF TaskRecord
  <2>4. CASE s.tasks[t].job # Nothing
    BY <1>3, <2>1, <2>3, <2>4 DEF TaskWhole
  <2>5. CASE x.op = "queue_task" /\ x.item = t
    <3>1. Ready(s, t)
      BY <2>5 DEF Accepts, Allowed
    <3>2. QED
      BY <2>1, <2>3, <3>1 DEF Ready
  <2>6. QED
    BY <2>1, <2>4, <2>5
<1>9. ASSUME NEW t \in Task PROVE TaskWhole(n, t)
  <2>1. /\ n.tasks[t].job = Nothing <=> n.tasks[t].status \in {"absent", "proposed", "rejected"}
        /\ n.tasks[t].result = (IF n.tasks[t].status = "completed" THEN n.tasks[t].job ELSE Nothing)
    <3>1. CASE x.op \in TaskOp /\ t = x.item
      BY <1>5, <3>1
    <3>2. CASE ~(x.op \in TaskOp /\ t = x.item)
      BY <1>3, <1>4, <3>2 DEF TaskWhole
    <3>3. QED
      BY <3>1, <3>2
  <2>2. n.tasks[t].job # Nothing => /\ \A d \in n.tasks[t].deps : n.tasks[d].status = "completed"
                                    /\ n.tasks[t].needs \subseteq Available(n)
    BY <1>6, <1>7, <1>8
  <2>3. QED
    BY <2>1, <2>2 DEF TaskWhole
<1>10. QED
  BY <1>2, <1>9 DEF Whole, n

-----------------------------------------------------------------------------
(* The rows: what one transaction makes of them.                           *)

LEMMA CommitRows ==
  ASSUME Rows, NEW w \in Workstream, NEW rev, NEW x, Named(x), Commit(w, rev, x), UNCHANGED blocking
  PROVE  /\ Rows'
         /\ row' = [row EXCEPT ![w] = After(row[w], x)]
         /\ row'[w] = After(row[w], x) /\ row[w] \in State /\ row[w].rev + 1 \in 0..MaxRecords
         /\ rev = row[w].rev /\ Whole(row[w]) /\ Accepts(row[w], x)
         /\ row'[w].rev = row[w].rev + 1 /\ row[w].status # "absent" /\ row'[w].status # "absent"
<1> USE BoundAssumption
<1>1. /\ row \in [Workstream -> State] /\ row[w] \in State /\ Whole(row[w]) /\ recorded = row
      /\ records \in 0..MaxRecords /\ row[w].rev <= records /\ row[w].rev \in 0..MaxRecords
  BY DEF Rows, State
<1>2. /\ records < MaxRecords /\ rev = row[w].rev /\ Accepts(row[w], x) /\ records' = records + 1
      /\ row' = [row EXCEPT ![w] = Written(row[w], After(row[w], x), x)]
      /\ recorded' = [recorded EXCEPT ![w] = After(row[w], x)]
  BY DEF Commit
<1>3. row[w].rev + 1 \in 0..MaxRecords
  BY <1>1, <1>2
<1>4. Written(row[w], After(row[w], x), x) = After(row[w], x)
  BY <1>1, <1>3, WrittenIsAfter
<1>5. After(row[w], x) \in State /\ After(row[w], x).rev = row[w].rev + 1
  BY <1>1, <1>3, AfterTyped
<1>6. Whole(After(row[w], x))
  BY <1>1, <1>2, <1>3, WholeAfter
<1>7. row' = [row EXCEPT ![w] = After(row[w], x)] /\ recorded' = row'
  BY <1>1, <1>2, <1>4
<1>8. row'[w] = After(row[w], x) /\ \A v \in Workstream : v # w => row'[v] = row[v]
  BY <1>1, <1>7
<1>9. row' \in [Workstream -> State]
  BY <1>1, <1>5, <1>7
<1>10. \A v \in Workstream : row'[v].rev <= records' /\ Whole(row'[v])
  <2>1. ASSUME NEW v \in Workstream, v # w PROVE row'[v].rev <= records' /\ Whole(row'[v])
    <3>1. row[v].rev \in 0..MaxRecords /\ row[v].rev <= records /\ Whole(row[v])
      BY DEF Rows, State
    <3>2. QED
      BY <1>1, <1>2, <1>8, <2>1, <3>1
  <2>2. row'[w].rev <= records' /\ Whole(row'[w])
    BY <1>1, <1>2, <1>5, <1>6, <1>8
  <2>3. QED
    BY <2>1, <2>2
<1>11. Rows'
  <2>1. records' \in 0..MaxRecords /\ blocking' \in [Workstream -> BOOLEAN]
    BY <1>1, <1>2 DEF Rows
  <2>2. QED
    BY <1>7, <1>9, <1>10, <2>1 DEF Rows, Whole, TaskWhole, Available
<1>12. row[w].status # "absent" /\ row'[w].status # "absent"
  <2>1. Live(row[w])
    BY <1>2 DEF Accepts
  <2>2. row'[w].status = (IF x.op \in MoveOp THEN Target[x.op] ELSE row[w].status)
    BY <1>1, <1>3, <1>8, AfterTyped
  <2>3. QED
    BY <2>1, <2>2, OperationSets DEF Live, Target
<1>13. QED
  BY <1>1, <1>2, <1>3, <1>5, <1>7, <1>8, <1>11, <1>12

LEMMA NewWorkstreamTyped ==
  /\ [NewWorkstream EXCEPT !.status = "proposed"] \in State /\ NewWorkstream \in State
  /\ Whole([NewWorkstream EXCEPT !.status = "proposed"]) /\ Whole(NewWorkstream)
  /\ [NewWorkstream EXCEPT !.status = "proposed"].status = "proposed"
  /\ [NewWorkstream EXCEPT !.status = "proposed"].rev = 0
  /\ NewWorkstream.status = "absent" /\ NewWorkstream.rev = 0
  /\ \A t \in Task : [NewWorkstream EXCEPT !.status = "proposed"].tasks[t].job = Nothing
<1> USE BoundAssumption
<1> DEFINE n == [NewWorkstream EXCEPT !.status = "proposed"]
<1>1. NewTask \in TaskRecord /\ NewTask.job = Nothing /\ NewTask.status = "absent" /\ NewTask.result = Nothing
  BY DEF NewTask, TaskRecord, TaskStatus
<1>2. NewWorkstream \in State
  BY <1>1 DEF NewWorkstream, State, WorkstreamStatus
<1>3. /\ n.status = "proposed" /\ n.rev = 0 /\ NewWorkstream.status = "absent" /\ NewWorkstream.rev = 0
      /\ n.tasks = [t \in Task |-> NewTask] /\ NewWorkstream.tasks = [t \in Task |-> NewTask]
  BY DEF NewWorkstream
<1>4. n \in State
  BY <1>2 DEF State, WorkstreamStatus
<1> HIDE DEF n
<1>5. Whole(n) /\ Whole(NewWorkstream)
  BY <1>1, <1>3 DEF Whole, TaskWhole
<1>6. QED
  BY <1>1, <1>2, <1>3, <1>4, <1>5 DEF n

LEMMA InsertedRows ==
  ASSUME Rows, NEW w \in Workstream, Inserted(w), UNCHANGED blocking
  PROVE  /\ Rows' /\ row' = [row EXCEPT ![w] = [NewWorkstream EXCEPT !.status = "proposed"]]
         /\ row[w].status = "absent" /\ row'[w].status = "proposed" /\ row'[w].rev = 0 /\ row[w].rev = 0
         /\ \A t \in Task : row'[w].tasks[t].job = Nothing
<1> USE BoundAssumption
<1> DEFINE n == [NewWorkstream EXCEPT !.status = "proposed"]
<1>1. row \in [Workstream -> State] /\ recorded = row /\ records \in 0..MaxRecords
  BY DEF Rows
<1>2. /\ row[w].status = "absent" /\ records < MaxRecords /\ records' = records + 1
      /\ row' = [row EXCEPT ![w] = n] /\ recorded' = [recorded EXCEPT ![w] = n]
  BY DEF Inserted
<1>3. /\ n \in State /\ n.rev = 0 /\ n.status = "proposed" /\ Whole(n)
      /\ \A t \in Task : n.tasks[t].job = Nothing
  BY NewWorkstreamTyped
<1> HIDE DEF n
<1>4. row' \in [Workstream -> State] /\ recorded' = row' /\ row'[w] = n
      /\ \A v \in Workstream : v # w => row'[v] = row[v]
  BY <1>1, <1>2, <1>3
<1>5. \A v \in Workstream : row'[v].rev <= records' /\ Whole(row'[v])
  <2>1. ASSUME NEW v \in Workstream, v # w PROVE row'[v].rev <= records' /\ Whole(row'[v])
    <3>1. row[v].rev \in 0..MaxRecords /\ row[v].rev <= records /\ Whole(row[v])
      BY DEF Rows, State
    <3>2. QED
      BY <1>1, <1>2, <1>4, <2>1, <3>1
  <2>2. row'[w].rev <= records' /\ Whole(row'[w])
    BY <1>1, <1>2, <1>3, <1>4
  <2>3. QED
    BY <2>1, <2>2
<1>6. records' \in 0..MaxRecords /\ blocking' \in [Workstream -> BOOLEAN]
  BY <1>1, <1>2 DEF Rows
<1>7. Rows'
  BY <1>4, <1>5, <1>6 DEF Rows, Whole, TaskWhole, Available
<1>8. row[w].rev = 0
  BY <1>2 DEF Rows, Whole
<1>9. QED
  BY <1>2, <1>3, <1>4, <1>7, <1>8 DEF n

-----------------------------------------------------------------------------
(* The calls: what a transaction makes past.                               *)

LEMMA OvertakenCalls ==
  ASSUME Rows, Rows', Calls, NEW w \in Workstream, NEW by, call' = Overtaken(w, by),
         \A v \in Workstream : v # w => row'[v] = row[v],
         row'[w].status # "absent", row[w].rev <= row'[w].rev,
         row[w].status # "absent" => row[w].rev < row'[w].rev,
         by \in Call => ~call[by].stale
  PROVE  Calls'
<1>1. call \in [Call -> CallRow]
  BY DEF Calls
<1>2. ASSUME NEW c \in Call PROVE call'[c] \in CallRow /\ Current(c)'
  <2> DEFINE done == [Idle EXCEPT !.phase = "applied", !.stale = call[c].stale]
             past == [call[c] EXCEPT !.stale = TRUE]
  <2>1. Idle \in CallRow
    <3>1. Transition("none", Nothing) \in Transitions \cup {Transition("create", Nothing), Transition("none", Nothing)}
      OBVIOUS
    <3>2. QED
      BY <3>1, BoundAssumption DEF Idle, CallRow
  <2>2. call[c] \in CallRow /\ Current(c)
    BY <1>1 DEF Calls
  <2>3. done \in CallRow /\ done.phase = "applied" /\ done.stale = call[c].stale
    <3>1. call[c].stale \in BOOLEAN
      BY <2>2 DEF CallRow
    <3>2. QED
      BY <2>1, <3>1 DEF CallRow
  <2>4. /\ past \in CallRow /\ past.phase = call[c].phase /\ past.stale = TRUE /\ past.ws = call[c].ws
        /\ past.saw = call[c].saw /\ past.x = call[c].x
    BY <2>2 DEF CallRow
  <2>5. call'[c] = (IF c = by THEN done
                    ELSE IF call[c].phase = "asked" /\ call[c].ws = w THEN past ELSE call[c])
    BY DEF Overtaken
  <2> HIDE DEF done, past
  <2>6. CASE c = by
    BY <2>3, <2>5, <2>6 DEF Current
  <2>7. CASE c # by /\ call[c].phase = "asked" /\ call[c].ws = w
    <3>1. call'[c] = past
      BY <2>5, <2>7
    <3>2. row[w].rev \in Nat /\ row'[w].rev \in Nat /\ call[c].saw \in Nat
      BY <2>2, BoundAssumption DEF Rows, State, CallRow
    <3>3. call[c].x.op # "none" /\ call[c].saw <= row[w].rev
          /\ (call[c].x.op # "create" => row[w].status # "absent")
      BY <2>2, <2>7 DEF Current
    <3>4. QED
      BY <2>4, <2>7, <3>1, <3>2, <3>3 DEF Current
  <2>8. CASE c # by /\ ~(call[c].phase = "asked" /\ call[c].ws = w)
    <3>1. call'[c] = call[c]
      BY <2>5, <2>8
    <3>2. call[c].phase = "asked" => call[c].ws \in Workstream /\ row'[call[c].ws] = row[call[c].ws]
      BY <2>2, <2>8 DEF Current
    <3>3. QED
      BY <2>2, <3>1, <3>2 DEF Current
  <2>9. QED
    BY <2>6, <2>7, <2>8
<1>3. call' = [c \in Call |-> call'[c]]
  BY DEF Overtaken
<1>4. QED
  BY <1>2, <1>3 DEF Calls

\* Steps that touch no row leave the calls what they are.
LEMMA CallsStay ==
  ASSUME Calls, UNCHANGED <<row, call>>
  PROVE  Calls'
BY DEF Calls, Current

\* A call of its own: asked now, or forgotten.
LEMMA CallReplaced ==
  ASSUME Calls, UNCHANGED row, NEW c \in Call, NEW k \in CallRow, call' = [call EXCEPT ![c] = k],
         k.phase = "asked" =>
           /\ k.ws \in Workstream /\ k.x.op # "none" /\ k.saw <= row[k.ws].rev /\ ~k.stale
           /\ k.x.op # "create" => row[k.ws].status # "absent",
         k.phase # "applied"
  PROVE  Calls'
<1>1. call' \in [Call -> CallRow] /\ call'[c] = k /\ \A d \in Call : d # c => call'[d] = call[d]
  BY DEF Calls
<1>2. ASSUME NEW d \in Call, d # c PROVE Current(d)'
  BY <1>1, <1>2 DEF Calls, Current
<1>3. Current(c)'
  BY <1>1 DEF Current
<1>4. QED
  BY <1>1, <1>2, <1>3 DEF Calls

-----------------------------------------------------------------------------
(* The jobs: what binds them to tasks.                                     *)

\* A step that concerns at most the job j, and leaves every other bound task
\* and the workstream it is in where they were.
LEMMA JobMoves ==
  ASSUME Jobs, NEW j, job' \in [Job -> JobRow],
         \A i \in Job : i # j => job'[i] = job[i],
         \A i \in Job, v \in Workstream, t \in Task : i # j /\ Bound(i, v, t)' =>
            /\ Bound(i, v, t)
            /\ row'[v].tasks[t].status = row[v].tasks[t].status
            /\ Live(row'[v]) => Live(row[v])
            /\ row'[v].status = "completed" =>
                 row[v].status = "completed" \/ job[i].status \notin {"queued", "running"},
         j \in Job => /\ job'[j].status # "none" => job'[j].ws \in Workstream /\ job'[j].task \in Task
                      /\ \A v, w \in Workstream, t, u \in Task :
                           Bound(j, v, t)' /\ Bound(j, w, u)' => v = w /\ t = u
                      /\ \A v \in Workstream, t \in Task : Bound(j, v, t)' => Tells(j, row[v], t)'
  PROVE  Jobs'
<1>1. \A i \in Job : job'[i].status # "none" => job'[i].ws \in Workstream /\ job'[i].task \in Task
  BY DEF Jobs
<1>2. \A i \in Job, v, w \in Workstream, t, u \in Task :
        Bound(i, v, t)' /\ Bound(i, w, u)' => v = w /\ t = u
  BY DEF Jobs
<1>3. ASSUME NEW i \in Job, NEW v \in Workstream, NEW t \in Task, Bound(i, v, t)' PROVE Tells(i, row[v], t)'
  <2>1. CASE i = j
    BY <1>3, <2>1
  <2>2. CASE i # j
    <3>1. Tells(i, row[v], t) /\ job'[i] = job[i]
      BY <1>3, <2>2 DEF Jobs
    <3>2. /\ row'[v].tasks[t].status = row[v].tasks[t].status
          /\ Live(row'[v]) => Live(row[v])
          /\ row'[v].status = "completed" =>
                 row[v].status = "completed" \/ job[i].status \notin {"queued", "running"}
      BY <1>3, <2>2
    <3> HIDE DEF Live
    <3>3. QED
      BY <3>1, <3>2 DEF Tells, TaskStatusFor
  <2>3. QED
    BY <2>1, <2>2
<1>4. QED
  BY <1>1, <1>2, <1>3 DEF Jobs

\* Steps that touch neither rows nor jobs.
LEMMA JobsStay ==
  ASSUME Jobs, UNCHANGED <<row, job>>
  PROVE  Jobs'
BY DEF Jobs, Tells, Bound

\* An accepted transition, seen from a task that has a job and is not the one
\* it operates on.
LEMMA CommitAside ==
  ASSUME Rows, Jobs, NEW w \in Workstream, NEW rev, NEW x, Named(x), Commit(w, rev, x), UNCHANGED blocking,
         NEW i \in Job, NEW v \in Workstream, NEW t \in Task, row'[v].tasks[t].job = i,
         x.op \in {"queue_task", "start_task", "settle_task"} => v # w \/ t # x.item
  PROVE  /\ Bound(i, v, t) /\ row'[v].tasks[t].status = row[v].tasks[t].status
         /\ Live(row'[v]) => Live(row[v])
         /\ row'[v].status = "completed" =>
              row[v].status = "completed" \/ job[i].status \notin {"queued", "running"}
<1> USE OperationSets, IdentityAssumption
<1>1. /\ row' = [row EXCEPT ![w] = After(row[w], x)] /\ row'[w] = After(row[w], x)
      /\ row[w] \in State /\ row[w].rev + 1 \in 0..MaxRecords /\ Whole(row[w]) /\ Accepts(row[w], x)
  BY CommitRows
<1>2. CASE v # w
  <2>1. row'[v] = row[v]
    BY <1>1, <1>2 DEF Rows
  <2>2. QED
    BY <2>1 DEF Bound
<1>3. CASE v = w
  <2>1. /\ row'[w].status = (IF x.op \in MoveOp THEN Target[x.op] ELSE row[w].status)
        /\ row'[w].tasks[t] = (IF x.op \in TaskOp /\ t = x.item
                                 THEN TaskAfter(row[w].tasks[t], x) ELSE row[w].tasks[t])
    BY <1>1, AfterTyped
  <2>2. row[w].tasks[t] \in TaskRecord /\ TaskWhole(row[w], t)
    BY <1>1 DEF State, Whole
  <2>3. row'[w].tasks[t] = row[w].tasks[t]
    <3>1. CASE x.op \in TaskOp /\ t = x.item
      <4>1. x.op \in {"propose_task", "reject_task"}
        BY <1>3, <3>1
      <4>2. row[w].tasks[t].status \in {"absent", "proposed"}
        BY <1>1, <3>1, <4>1 DEF Accepts, Allowed, MayTurn
      <4>3. row[w].tasks[t].job = Nothing
        BY <2>2, <4>2 DEF TaskWhole
      <4>4. TaskAfter(row[w].tasks[t], x).job = row[w].tasks[t].job
        BY <2>2, <3>1, <4>1, TaskAfterTyped
      <4>5. QED
        BY <1>3, <2>1, <3>1, <4>3, <4>4
    <3>2. QED
      BY <2>1, <3>1
  <2>4. Live(row[w]) /\ Bound(i, w, t)
    BY <1>1, <1>3, <2>3 DEF Accepts, Bound
  <2>5. ASSUME row'[w].status = "completed" PROVE job[i].status \notin {"queued", "running"}
    <3>1. x.op = "complete"
      BY <2>1, <2>4, <2>5 DEF Live, Target
    <3>2. row[w].tasks[t].status = "absent" \/ TaskTerminal(row[w].tasks[t].status)
      BY <1>1, <3>1 DEF Accepts, Allowed, Movable
    <3>3. Tells(i, row[w], t)
      BY <2>4 DEF Jobs
    <3>4. QED
      BY <2>4, <3>2, <3>3 DEF Tells, TaskTerminal
  <2>6. QED
    BY <1>3, <2>3, <2>4, <2>5
<1>4. QED
  BY <1>2, <1>3

\* The plan's transitions leave the jobs where they are.
LEMMA PlanJobs ==
  ASSUME Rows, Jobs, NEW w \in Workstream, NEW rev, NEW x, Named(x), Commit(w, rev, x),
         UNCHANGED <<job, blocking>>, x.op \notin {"queue_task", "start_task", "settle_task"}
  PROVE  Jobs'
<1>1. Nothing \notin Job
  BY IdentityAssumption
<1>2. ASSUME NEW i \in Job, NEW v \in Workstream, NEW t \in Task, Bound(i, v, t)'
      PROVE  /\ Bound(i, v, t) /\ row'[v].tasks[t].status = row[v].tasks[t].status
             /\ Live(row'[v]) => Live(row[v])
             /\ row'[v].status = "completed" =>
                  row[v].status = "completed" \/ job[i].status \notin {"queued", "running"}
  BY <1>2, CommitAside DEF Bound
<1>3. job' \in [Job -> JobRow] /\ \A i \in Job : job'[i] = job[i]
  BY DEF Jobs
<1>4. QED
  BY <1>1, <1>2, <1>3, JobMoves

\* A transition of a task by its job.
LEMMA TaskStepJobs ==
  ASSUME Rows, Jobs, NEW w \in Workstream, NEW rev, NEW x, Named(x), Commit(w, rev, x), UNCHANGED blocking,
         x.op \in {"queue_task", "start_task", "settle_task"}, NEW j \in Job, x.job = j,
         job' \in [Job -> JobRow], \A i \in Job : i # j => job'[i] = job[i],
         job'[j].status \notin {"none", "found"}, job'[j].ws \in Workstream /\ job'[j].task \in Task,
         x.op = "queue_task" => \A v \in Workstream, t \in Task : ~Bound(j, v, t),
         LET task == TaskAfter(row[w].tasks[x.item], x).status IN
           CASE job'[j].status = "queued"  -> task \in {"queued", "running"}
             [] job'[j].status = "running" -> task = "running"
             [] OTHER                      -> task = TaskStatusFor(job'[j].status)
  PROVE  Jobs'
<1> USE OperationSets, IdentityAssumption
<1>1. /\ row' = [row EXCEPT ![w] = After(row[w], x)] /\ row'[w] = After(row[w], x)
      /\ row[w] \in State /\ row[w].rev + 1 \in 0..MaxRecords /\ Whole(row[w]) /\ Accepts(row[w], x)
  BY CommitRows
<1>2. x.item \in Task
  BY DEF Named
<1>3. /\ row'[w].status = row[w].status
      /\ row'[w].tasks[x.item] = TaskAfter(row[w].tasks[x.item], x)
      /\ \A t \in Task : t # x.item => row'[w].tasks[t] = row[w].tasks[t]
      /\ \A v \in Workstream : v # w => row'[v] = row[v]
  BY <1>1, <1>2, AfterTyped DEF Rows
<1>4. row[w].tasks[x.item] \in TaskRecord /\ Allowed(row[w], x) /\ Live(row[w])
  BY <1>1, <1>2 DEF State, Accepts
<1>5. /\ row'[w].tasks[x.item].job = j
      /\ x.op # "queue_task" => Bound(j, w, x.item)
  <2>1. x.op # "queue_task" => row[w].tasks[x.item].job = j
    BY <1>4 DEF Allowed
  <2>2. row'[w].tasks[x.item].job = (IF x.op = "queue_task" THEN x.job ELSE row[w].tasks[x.item].job)
    BY <1>3, <1>4, TaskAfterTyped
  <2>3. QED
    BY <2>1, <2>2 DEF Bound
<1>6. ASSUME NEW v \in Workstream, NEW t \in Task, Bound(j, v, t)' PROVE v = w /\ t = x.item
  <2>1. CASE v = w /\ t = x.item
    BY <2>1
  <2>2. CASE ~(v = w /\ t = x.item)
    <3>1. row'[v].tasks[t] = row[v].tasks[t]
      BY <1>3, <2>2
    <3>2. Bound(j, v, t)
      BY <1>6, <3>1 DEF Bound
    <3>3. QED
      BY <1>2, <1>5, <3>2 DEF Jobs
  <2>3. QED
    BY <2>1, <2>2
<1>7. Tells(j, row[w], x.item)'
  <2>1. row'[w].status # "completed"
    BY <1>3, <1>4 DEF Live
  <2>2. QED
    BY <1>3, <2>1 DEF Tells
<1>8. ASSUME NEW i \in Job, i # j, NEW v \in Workstream, NEW t \in Task, Bound(i, v, t)'
      PROVE  /\ Bound(i, v, t) /\ row'[v].tasks[t].status = row[v].tasks[t].status
             /\ Live(row'[v]) => Live(row[v])
             /\ row'[v].status = "completed" =>
                  row[v].status = "completed" \/ job[i].status \notin {"queued", "running"}
  <2>1. v # w \/ t # x.item
    BY <1>5, <1>8 DEF Bound
  <2>2. QED
    BY <1>8, <2>1, CommitAside DEF Bound
<1>9. \A v, u \in Workstream, t, r \in Task : Bound(j, v, t)' /\ Bound(j, u, r)' => v = u /\ t = r
  BY <1>6
<1>10. \A v \in Workstream, t \in Task : Bound(j, v, t)' => Tells(j, row[v], t)'
  BY <1>6, <1>7
<1>11. QED
  BY <1>8, <1>9, <1>10, JobMoves

-----------------------------------------------------------------------------
(* The steps.                                                              *)

\* A commit of an accepted transition, whoever asked for it.
LEMMA CommitCalls ==
  ASSUME Rows, Calls, NEW w \in Workstream, NEW rev, NEW x, Named(x), Commit(w, rev, x), UNCHANGED blocking,
         NEW by, call' = Overtaken(w, by), by \in Call => ~call[by].stale
  PROVE  Calls'
<1>1. /\ Rows' /\ row' = [row EXCEPT ![w] = After(row[w], x)] /\ row[w] \in State
      /\ row'[w].rev = row[w].rev + 1 /\ row[w].status # "absent" /\ row'[w].status # "absent"
  BY CommitRows
<1>2. \A v \in Workstream : v # w => row'[v] = row[v]
  BY <1>1 DEF Rows
<1>3. row[w].rev < row'[w].rev /\ row[w].rev <= row'[w].rev
  BY <1>1, BoundAssumption DEF State
<1>4. QED
  BY <1>1, <1>2, <1>3, OvertakenCalls

LEMMA InsertedSteps ==
  ASSUME WorkstreamsInv, NEW w \in Workstream, Inserted(w), UNCHANGED <<job, blocking>>,
         NEW by, call' = Overtaken(w, by), by \in Call => ~call[by].stale
  PROVE  WorkstreamsInv'
<1>1. Rows /\ Calls /\ Jobs
  BY DEF WorkstreamsInv
<1>2. /\ Rows' /\ row' = [row EXCEPT ![w] = [NewWorkstream EXCEPT !.status = "proposed"]]
      /\ row[w].status = "absent" /\ row'[w].status = "proposed" /\ row'[w].rev = 0 /\ row[w].rev = 0
      /\ \A t \in Task : row'[w].tasks[t].job = Nothing
  BY <1>1, InsertedRows
<1>3. \A v \in Workstream : v # w => row'[v] = row[v]
  BY <1>1, <1>2 DEF Rows
<1>4. Calls'
  BY <1>1, <1>2, <1>3, OvertakenCalls
<1>5. ASSUME NEW i \in Job, NEW v \in Workstream, NEW t \in Task, Bound(i, v, t)'
      PROVE  row'[v] = row[v] /\ Bound(i, v, t)
  BY <1>2, <1>3, <1>5, IdentityAssumption DEF Bound
<1>6. job' \in [Job -> JobRow] /\ \A i \in Job : job'[i] = job[i]
  BY <1>1 DEF Jobs
<1>7. Jobs'
  BY <1>1, <1>5, <1>6, IdentityAssumption, JobMoves
<1>8. QED
  BY <1>2, <1>4, <1>7 DEF WorkstreamsInv

LEMMA CommandSteps ==
  ASSUME WorkstreamsInv, NEW w \in Workstream, NEW x \in Transitions, Command(w, x)
  PROVE  WorkstreamsInv'
<1>1. Rows /\ Calls /\ Jobs
  BY DEF WorkstreamsInv
<1>2. Named(x) /\ x.op \notin {"queue_task", "start_task", "settle_task"}
  BY TransitionsNamed
<1>3. /\ Commit(w, row[w].rev, x) /\ call' = Overtaken(w, Nothing) /\ UNCHANGED <<job, blocking>>
      /\ Nothing \notin Call
  BY IdentityAssumption DEF Command
<1>4. Rows'
  BY <1>1, <1>2, <1>3, CommitRows
<1>5. Calls'
  BY <1>1, <1>2, <1>3, CommitCalls
<1>6. Jobs'
  BY <1>1, <1>2, <1>3, PlanJobs
<1>7. QED
  BY <1>4, <1>5, <1>6 DEF WorkstreamsInv

LEMMA PerformSteps ==
  ASSUME WorkstreamsInv, NEW c \in Call, Perform(c)
  PROVE  WorkstreamsInv'
<1>1. Rows /\ Calls /\ Jobs
  BY DEF WorkstreamsInv
<1>2. PICK w, x, rev : w = call[c].ws /\ x = call[c].x /\ rev = call[c].saw
  OBVIOUS
<1>3. /\ call[c].phase = "asked" /\ x.op # "create" /\ Commit(w, rev, x) /\ call' = Overtaken(w, c)
      /\ UNCHANGED <<job, blocking>>
  BY <1>2 DEF Perform
<1>4. Current(c) /\ call[c] \in CallRow
  BY <1>1 DEF Calls
<1>5. w \in Workstream /\ x \in Transitions
  <2>1. x.op # "none" /\ w \in Workstream
    BY <1>2, <1>3, <1>4 DEF Current
  <2>2. x \in Transitions \cup {Transition("create", Nothing), Transition("none", Nothing)}
    BY <1>2, <1>4 DEF CallRow
  <2>3. QED
    BY <1>3, <2>1, <2>2, TransitionFields
<1>6. Named(x) /\ x.op \notin {"queue_task", "start_task", "settle_task"}
  BY <1>5, TransitionsNamed
<1>7. Rows' /\ rev = row[w].rev /\ row[w] \in State
  BY <1>1, <1>3, <1>5, <1>6, CommitRows
<1>8. ~call[c].stale
  BY <1>2, <1>3, <1>4, <1>7, BoundAssumption DEF Current, State
<1>9. Calls'
  BY <1>1, <1>3, <1>5, <1>6, <1>8, CommitCalls
<1>10. Jobs'
  BY <1>1, <1>3, <1>5, <1>6, PlanJobs
<1>11. QED
  BY <1>7, <1>9, <1>10 DEF WorkstreamsInv

LEMMA CreateApprovedSteps ==
  ASSUME WorkstreamsInv, NEW c \in Call, CreateApproved(c)
  PROVE  WorkstreamsInv'
<1>1. PICK w : w = call[c].ws
  OBVIOUS
<1>2. /\ call[c].phase = "asked" /\ call[c].x.op = "create" /\ Inserted(w) /\ call' = Overtaken(w, c)
      /\ UNCHANGED <<job, blocking>> /\ row[w].status = "absent"
  BY <1>1 DEF CreateApproved, Inserted
<1>3. w \in Workstream /\ ~call[c].stale
  BY <1>1, <1>2 DEF WorkstreamsInv, Calls, Current
<1>4. QED
  BY <1>2, <1>3, InsertedSteps

LEMMA CallSteps ==
  ASSUME WorkstreamsInv, NEW c \in Call, NEW w \in Workstream,
         \/ \E x \in Transitions : Ask(c, w, x)
         \/ AskCreate(c, w) \/ Drop(c)
  PROVE  WorkstreamsInv'
<1>1. Rows /\ Calls /\ Jobs
  BY DEF WorkstreamsInv
<1>2. UNCHANGED <<row, recorded, records, job, blocking>>
  BY DEF Ask, AskCreate, Drop
<1>3. Rows' /\ Jobs'
  <2>1. Rows'
    BY <1>1, <1>2 DEF Rows, Whole, TaskWhole, Available
  <2>2. QED
    BY <1>1, <1>2, <2>1, JobsStay
<1>4. Idle \in CallRow /\ Idle.phase = "idle"
  <2>1. Transition("none", Nothing) \in Transitions \cup {Transition("create", Nothing), Transition("none", Nothing)}
    OBVIOUS
  <2>2. QED
    BY <2>1, BoundAssumption DEF Idle, CallRow
<1>5. row[w] \in State /\ row[w].rev \in 0..MaxRecords
  BY <1>1 DEF Rows, State
<1>6. CASE \E x \in Transitions : Ask(c, w, x)
  <2>1. PICK x \in Transitions : Ask(c, w, x)
    BY <1>6
  <2> DEFINE k == [phase |-> "asked", ws |-> w, saw |-> row[w].rev, x |-> x, stale |-> FALSE]
  <2>2. k \in CallRow
    BY <1>5 DEF CallRow
  <2>3. k.phase = "asked" /\ k.ws = w /\ k.saw = row[w].rev /\ k.x = x /\ ~k.stale
    OBVIOUS
  <2>4. call' = [call EXCEPT ![c] = k] /\ row[w].status # "absent" /\ UNCHANGED row
    BY <2>1 DEF Ask, Accepts, Live
  <2> HIDE DEF k
  <2>5. x.op # "none" /\ row[w].rev <= row[w].rev
    BY <1>5, TransitionsNamed, BoundAssumption
  <2>6. Calls'
    BY <1>1, <2>2, <2>3, <2>4, <2>5, CallReplaced
  <2>7. QED
    BY <1>3, <2>6 DEF WorkstreamsInv
<1>7. CASE AskCreate(c, w)
  <2> DEFINE k == [Idle EXCEPT !.phase = "asked", !.ws = w, !.x = Transition("create", Nothing)]
  <2>1. k.phase = "asked" /\ k.ws = w /\ k.saw = 0 /\ k.x = Transition("create", Nothing) /\ ~k.stale
    BY DEF Idle
  <2>2. Transition("create", Nothing) \in Transitions \cup {Transition("create", Nothing), Transition("none", Nothing)}
    OBVIOUS
  <2>3. k \in CallRow
    BY <1>4, <2>2 DEF CallRow
  <2>4. call' = [call EXCEPT ![c] = k] /\ UNCHANGED row
    BY <1>7 DEF AskCreate
  <2> HIDE DEF k
  <2>5. k.x.op = "create" /\ 0 <= row[w].rev
    BY <1>5, <2>1, TransitionFields, BoundAssumption
  <2>6. Calls'
    BY <1>1, <2>1, <2>3, <2>4, <2>5, CallReplaced
  <2>7. QED
    BY <1>3, <2>6 DEF WorkstreamsInv
<1>8. CASE Drop(c)
  <2>1. call' = [call EXCEPT ![c] = Idle] /\ UNCHANGED row
    BY <1>8 DEF Drop
  <2>2. Calls'
    BY <1>1, <1>4, <2>1, CallReplaced
  <2>3. QED
    BY <1>3, <2>2 DEF WorkstreamsInv
<1>9. QED
  BY <1>6, <1>7, <1>8

\* Steps of a job that touch no row.
LEMMA JobAloneSteps ==
  ASSUME WorkstreamsInv, UNCHANGED <<row, recorded, records, call, blocking>>, Jobs'
  PROVE  WorkstreamsInv'
<1>1. Rows'
  BY DEF WorkstreamsInv, Rows, Whole, TaskWhole, Available
<1>2. Calls'
  BY CallsStay DEF WorkstreamsInv
<1>3. QED
  BY <1>1, <1>2 DEF WorkstreamsInv

\* A job that changes alone says the same of its task, or has none.
LEMMA JobAlone ==
  ASSUME Jobs, UNCHANGED row, NEW j \in Job, NEW k \in JobRow, job' = [job EXCEPT ![j] = k],
         k.status # "none" => k.ws \in Workstream /\ k.task \in Task,
         \A v \in Workstream, t \in Task : Bound(j, v, t) => Tells(j, row[v], t)'
  PROVE  Jobs'
<1>1. job' \in [Job -> JobRow] /\ job'[j] = k /\ \A i \in Job : i # j => job'[i] = job[i]
  BY DEF Jobs
<1>2. \A i \in Job, v \in Workstream, t \in Task : Bound(i, v, t)' <=> Bound(i, v, t)
  BY DEF Bound
<1>3. \A v, w \in Workstream, t, u \in Task : Bound(j, v, t)' /\ Bound(j, w, u)' => v = w /\ t = u
  BY <1>2 DEF Jobs
<1>4. QED
  BY <1>1, <1>2, <1>3, JobMoves

\* A new status of a job and nothing else of it.
LEMMA StatusRow ==
  ASSUME Jobs, NEW j \in Job,
         NEW s \in JobStatus, job' = [job EXCEPT ![j].status = s]
  PROVE  LET k == [job[j] EXCEPT !.status = s] IN
         /\ k \in JobRow /\ k.status = s /\ k.ws = job[j].ws /\ k.task = job[j].task
         /\ job' = [job EXCEPT ![j] = k] /\ job' \in [Job -> JobRow] /\ job'[j] = k
         /\ \A i \in Job : i # j => job'[i] = job[i]
<1> DEFINE k == [job[j] EXCEPT !.status = s]
<1>1. job \in [Job -> JobRow]
  BY DEF Jobs
<1>2. PICK r \in JobRow : r = job[j]
  BY <1>1
<1>3. [r EXCEPT !.status = s] \in JobRow
  BY DEF JobRow
<1>4. k \in JobRow /\ k.status = s /\ k.ws = job[j].ws /\ k.task = job[j].task
  BY <1>2, <1>3 DEF JobRow
<1>5. job' = [job EXCEPT ![j] = k]
  BY <1>1
<1> HIDE DEF k
<1>6. QED
  BY <1>1, <1>4, <1>5 DEF k

\* Names of statuses, for the steps that set one.
LEMMA Statuses ==
  /\ {"none", "found", "queued", "running"} \subseteq JobStatus
  /\ {"completed", "failed", "cancelled", "completion_unknown", "abandoned"} \subseteq JobStatus
BY DEF JobStatus

LEMMA StatusAlone ==
  ASSUME Jobs, UNCHANGED row, NEW j \in Job, NEW s \in JobStatus, job' = [job EXCEPT ![j].status = s],
         job[j].status # "none",
         \A v \in Workstream, t \in Task : Bound(j, v, t) => Tells(j, row[v], t)'
  PROVE  Jobs'
<1> DEFINE k == [job[j] EXCEPT !.status = s]
<1>1. /\ k \in JobRow /\ k.ws = job[j].ws /\ k.task = job[j].task
      /\ job' = [job EXCEPT ![j] = k]
  BY StatusRow
<1> HIDE DEF k
<1>2. k.ws \in Workstream /\ k.task \in Task
  BY <1>1 DEF Jobs
<1>3. QED
  BY <1>1, <1>2, JobAlone

LEMMA FindSteps ==
  ASSUME WorkstreamsInv, NEW j \in Job, NEW w \in Workstream, NEW t \in Task, FindTask(j, w, t)
  PROVE  WorkstreamsInv'
<1>1. Rows /\ Jobs
  BY DEF WorkstreamsInv
<1> DEFINE k == [status |-> "found", ws |-> w, task |-> t, saw |-> row[w].rev]
<1>2. k \in JobRow
  <2>1. row[w].rev \in 0..MaxRecords
    BY <1>1 DEF Rows, State
  <2>2. QED
    BY <2>1, Statuses DEF JobRow
<1>3. job' = [job EXCEPT ![j] = k] /\ job[j].status = "none"
      /\ UNCHANGED <<row, recorded, records, call, blocking>>
  BY DEF FindTask
<1>4. \A v \in Workstream, u \in Task : ~Bound(j, v, u)
  BY <1>1, <1>3 DEF Jobs, Tells
<1>5. k.ws \in Workstream /\ k.task \in Task
  OBVIOUS
<1> HIDE DEF k
<1>6. Jobs'
  BY <1>1, <1>2, <1>3, <1>4, <1>5, JobAlone
<1>7. QED
  BY <1>3, <1>6, JobAloneSteps

LEMMA FailSteps ==
  ASSUME WorkstreamsInv, NEW j \in Job, AdmissionFails(j) \/ Requeue(j)
  PROVE  WorkstreamsInv'
<1>1. Rows /\ Jobs /\ UNCHANGED <<row, recorded, records, call, blocking>>
  BY DEF WorkstreamsInv, AdmissionFails, Requeue
<1>2. CASE AdmissionFails(j)
  <2>1. job' = [job EXCEPT ![j].status = "none"] /\ job[j].status = "found"
    BY <1>2 DEF AdmissionFails
  <2>2. \A v \in Workstream, u \in Task : ~Bound(j, v, u)
    BY <1>1, <2>1 DEF Jobs, Tells
  <2>3. Jobs'
    BY <1>1, <2>1, <2>2, Statuses, StatusAlone
  <2>4. QED
    BY <1>1, <2>3, JobAloneSteps
<1>3. CASE Requeue(j)
  <2>1. job' = [job EXCEPT ![j].status = "queued"] /\ job[j].status = "running"
    BY <1>3 DEF Requeue
  <2>2. job'[j].status = "queued"
    BY <1>1, <2>1, Statuses, StatusRow
  <2>3. ASSUME NEW v \in Workstream, NEW u \in Task, Bound(j, v, u) PROVE Tells(j, row[v], u)'
    <3>1. Tells(j, row[v], u)
      BY <1>1, <2>3 DEF Jobs
    <3>2. QED
      BY <1>1, <2>1, <2>2, <3>1 DEF Tells, Live
  <2>4. job[j].ws \in Workstream /\ job[j].task \in Task
    BY <1>1, <2>1 DEF Jobs
  <2>5. Jobs'
    BY <1>1, <2>1, <2>3, <2>4, Statuses, StatusAlone
  <2>6. QED
    BY <1>1, <2>5, JobAloneSteps
<1>4. QED
  BY <1>2, <1>3

LEMMA AdmitSteps ==
  ASSUME WorkstreamsInv, NEW j \in Job, Admit(j)
  PROVE  WorkstreamsInv'
<1>1. Rows /\ Calls /\ Jobs
  BY DEF WorkstreamsInv
<1>2. PICK w, t, rev : w = job[j].ws /\ t = job[j].task /\ rev = job[j].saw
  OBVIOUS
<1>3. /\ job[j].status = "found" /\ Commit(w, rev, QueueTask(t, j))
      /\ job' = [job EXCEPT ![j].status = "queued"] /\ call' = Overtaken(w, Nothing)
      /\ UNCHANGED blocking /\ Nothing \notin Call
  BY <1>2, IdentityAssumption DEF Admit
<1>4. w \in Workstream /\ t \in Task
  BY <1>1, <1>2, <1>3 DEF Jobs
<1>5. PICK x : x = QueueTask(t, j)
  OBVIOUS
<1>6. Named(x) /\ x.op = "queue_task" /\ x.item = t /\ x.job = j
  BY <1>4, <1>5, JobTransitions
<1>7. Commit(w, rev, x)
  BY <1>3, <1>5
<1>8. Rows'
  BY <1>1, <1>3, <1>4, <1>6, <1>7, CommitRows
<1>9. Calls'
  BY <1>1, <1>3, <1>4, <1>6, <1>7, CommitCalls
<1>10. /\ job' \in [Job -> JobRow] /\ job'[j].status = "queued"
       /\ job'[j].ws \in Workstream /\ job'[j].task \in Task
       /\ \A i \in Job : i # j => job'[i] = job[i]
  BY <1>1, <1>2, <1>3, <1>4, Statuses, StatusRow
<1>11. \A v \in Workstream, u \in Task : ~Bound(j, v, u)
  BY <1>1, <1>3 DEF Jobs, Tells
<1>12. TaskAfter(row[w].tasks[x.item], x).status = "queued"
  BY <1>1, <1>4, <1>6, TaskAfterTyped, OperationSets DEF Rows, State
<1>13. Jobs'
  <2>1. job'[j].status \notin {"none", "found"}
    BY <1>10
  <2>2. LET task == TaskAfter(row[w].tasks[x.item], x).status IN
           CASE job'[j].status = "queued"  -> task \in {"queued", "running"}
             [] job'[j].status = "running" -> task = "running"
             [] OTHER                      -> task = TaskStatusFor(job'[j].status)
    BY <1>10, <1>12
  <2>3. QED
    BY <1>1, <1>3, <1>4, <1>6, <1>7, <1>10, <1>11, <2>1, <2>2, TaskStepJobs
<1>14. QED
  BY <1>8, <1>9, <1>13 DEF WorkstreamsInv

\* A commit in which a job moves its task along, whatever the job's step is.
LEMMA JobCommitSteps ==
  ASSUME WorkstreamsInv, NEW j \in Job, NEW w \in Workstream, NEW t \in Task, Bound(j, w, t),
         NEW x, Named(x), x.op \in {"start_task", "settle_task"}, x.item = t, x.job = j,
         Commit(w, row[w].rev, x), call' = Overtaken(w, Nothing), UNCHANGED blocking,
         NEW s \in JobStatus, s \notin {"none", "found", "queued", "abandoned"},
         job' \in [Job -> JobRow], job'[j].status = s,
         job'[j].ws = job[j].ws, job'[j].task = job[j].task,
         \A i \in Job : i # j => job'[i] = job[i],
         x.op = "start_task" => s = "running",
         x.op = "settle_task" => s # "running" /\ x.to = s
  PROVE  WorkstreamsInv'
<1>1. Rows /\ Calls /\ Jobs /\ Nothing \notin Call
  BY IdentityAssumption DEF WorkstreamsInv
<1>2. Rows'
  BY <1>1, CommitRows
<1>3. Calls'
  BY <1>1, CommitCalls
<1>4. job[j].status \notin {"none", "found"} /\ job[j].ws \in Workstream /\ job[j].task \in Task
  BY <1>1 DEF Jobs, Tells
<1>5. TaskAfter(row[w].tasks[t], x).status = (IF x.op = "start_task" THEN "running" ELSE x.to)
  BY <1>1, TaskAfterTyped, OperationSets DEF Rows, State
<1>6. LET task == TaskAfter(row[w].tasks[x.item], x).status IN
           CASE job'[j].status = "queued"  -> task \in {"queued", "running"}
             [] job'[j].status = "running" -> task = "running"
             [] OTHER                      -> task = TaskStatusFor(job'[j].status)
  BY <1>5 DEF TaskStatusFor, JobStatus
<1>7. Jobs'
  BY <1>1, <1>4, <1>6, TaskStepJobs
<1>8. QED
  BY <1>2, <1>3, <1>7 DEF WorkstreamsInv

LEMMA StartSteps ==
  ASSUME WorkstreamsInv, NEW j \in Job, NEW w \in Workstream, NEW t \in Task, StartJob(j, w, t)
  PROVE  WorkstreamsInv'
<1>1. Rows /\ Calls /\ Jobs
  BY DEF WorkstreamsInv
<1>2. job[j].status = "queued" /\ Bound(j, w, t) /\ job' = [job EXCEPT ![j].status = "running"]
      /\ UNCHANGED blocking
  BY DEF StartJob
<1>3. /\ "running" \in JobStatus /\ job' \in [Job -> JobRow] /\ job'[j].status = "running"
      /\ job'[j].ws = job[j].ws /\ job'[j].task = job[j].task
      /\ \A i \in Job : i # j => job'[i] = job[i]
  BY <1>1, <1>2, Statuses, StatusRow
<1>4. CASE ~Live(row[w]) \/ row[w].tasks[t].status = "running"
  <2>1. UNCHANGED <<row, recorded, records, call, blocking>>
    BY <1>4 DEF StartJob
  <2>2. job'[j].status = "running" /\ job[j].ws \in Workstream /\ job[j].task \in Task
    BY <1>1, <1>2, Statuses, StatusRow DEF Jobs
  <2>3. ASSUME NEW v \in Workstream, NEW u \in Task, Bound(j, v, u) PROVE Tells(j, row[v], u)'
    <3>1. v = w /\ u = t /\ Tells(j, row[w], t)
      BY <1>1, <1>2, <2>3 DEF Jobs
    <3>2. row[w].status # "completed"
      BY <1>2, <3>1 DEF Tells
    <3> HIDE DEF Live
    <3>3. QED
      BY <1>4, <2>1, <2>2, <3>1, <3>2 DEF Tells
  <2>4. Jobs'
    BY <1>1, <1>2, <2>1, <2>2, <2>3, Statuses, StatusAlone
  <2>5. QED
    BY <2>1, <2>4, JobAloneSteps
<1>5. CASE ~(~Live(row[w]) \/ row[w].tasks[t].status = "running")
  <2>1. Commit(w, row[w].rev, StartTask(t, j)) /\ call' = Overtaken(w, Nothing)
    BY <1>5 DEF StartJob
  <2>2. PICK x : x = StartTask(t, j)
    OBVIOUS
  <2>3. Named(x) /\ x.op = "start_task" /\ x.item = t /\ x.job = j
    BY <2>2, JobTransitions
  <2>4. Commit(w, row[w].rev, x)
    BY <2>1, <2>2
  <2>5. QED
    BY <1>1, <1>2, <1>3, <2>1, <2>3, <2>4, JobCommitSteps
<1>6. QED
  BY <1>4, <1>5

LEMMA EndSteps ==
  ASSUME WorkstreamsInv, NEW j \in Job, NEW w \in Workstream, NEW t \in Task,
         NEW s \in Outcomes(job[j].status), EndJob(j, w, t, s)
  PROVE  WorkstreamsInv'
<1>1. Rows /\ Calls /\ Jobs
  BY DEF WorkstreamsInv
<1>2. Bound(j, w, t) /\ job' = [job EXCEPT ![j].status = s] /\ UNCHANGED blocking
  BY DEF EndJob
<1>3. /\ s \in {"completed", "failed", "cancelled", "completion_unknown", "abandoned"}
      /\ job[j].status \in {"queued", "running", "completion_unknown"}
      /\ s = "abandoned" => job[j].status = "completion_unknown"
      /\ job[j].status = "completion_unknown" => s \in {"completed", "failed", "abandoned"}
  BY DEF Outcomes
<1>4. Tells(j, row[w], t) /\ row[w].tasks[t] \in TaskRecord
  BY <1>1, <1>2 DEF Jobs, Rows, State
<1>5. /\ job' \in [Job -> JobRow] /\ job'[j].status = s
      /\ job'[j].ws = job[j].ws /\ job'[j].task = job[j].task
      /\ \A i \in Job : i # j => job'[i] = job[i]
      /\ job[j].ws \in Workstream /\ job[j].task \in Task /\ s \in JobStatus
      /\ job[j].status # "none"
  <2>1. s \in JobStatus
    BY <1>3 DEF JobStatus
  <2>2. job[j].status # "none"
    BY <1>3
  <2>3. QED
    BY <1>1, <1>2, <2>1, <2>2, StatusRow DEF Jobs
<1>6. CASE SettleSkipped(w, t, s)
  <2>1. UNCHANGED <<row, recorded, records, call, blocking>>
    BY <1>6 DEF EndJob
  <2>2. Live(row[w]) => s = "abandoned" /\ row[w].tasks[t].status = "completion_unknown"
    <3>1. ASSUME Live(row[w]) PROVE s = "abandoned" /\ row[w].tasks[t].status = "completion_unknown"
      <4>1. /\ TaskTerminal(row[w].tasks[t].status)
            /\ \/ row[w].tasks[t].status # "completion_unknown"
               \/ TaskStatusFor(s) = "completion_unknown"
        BY <1>6, <3>1 DEF SettleSkipped
      <4>2. row[w].tasks[t].status \in (IF job[j].status = "completion_unknown" THEN {"completion_unknown"}
                                        ELSE {"queued", "running"})
        BY <1>3, <1>4, <3>1 DEF Tells, TaskStatusFor
      <4>3. QED
        BY <1>3, <4>1, <4>2 DEF TaskTerminal, TaskStatusFor
    <3>2. QED
      BY <3>1
  <2>3. ASSUME NEW v \in Workstream, NEW u \in Task, Bound(j, v, u) PROVE Tells(j, row[v], u)'
    <3>1. v = w /\ u = t
      BY <1>1, <1>2, <2>3 DEF Jobs
    <3> HIDE DEF Live
    <3>2. QED
      BY <1>3, <1>5, <2>1, <2>2, <3>1 DEF Tells, TaskStatusFor
  <2>4. Jobs'
    BY <1>1, <1>2, <1>5, <2>1, <2>3, Statuses, StatusAlone
  <2>5. QED
    BY <2>1, <2>4, JobAloneSteps
<1>7. CASE ~SettleSkipped(w, t, s)
  <2>1. Commit(w, row[w].rev, SettleTask(t, j, TaskStatusFor(s))) /\ call' = Overtaken(w, Nothing)
    BY <1>7 DEF EndJob
  <2>2. s # "abandoned"
    <3>1. SUFFICES ASSUME s = "abandoned" PROVE FALSE
      OBVIOUS
    <3>2. Live(row[w]) /\ job[j].status = "completion_unknown"
      BY <1>3, <1>7, <3>1 DEF SettleSkipped
    <3>3. row[w].tasks[t].status = "completion_unknown"
      BY <1>4, <3>2 DEF Tells, TaskStatusFor
    <3>4. QED
      BY <1>7, <3>1, <3>3 DEF SettleSkipped, TaskTerminal, TaskStatusFor
  <2>3. PICK x : x = SettleTask(t, j, s)
    OBVIOUS
  <2>4. Named(x) /\ x.op = "settle_task" /\ x.item = t /\ x.job = j /\ x.to = s
    BY <1>3, <2>2, <2>3, JobTransitions
  <2>5. Commit(w, row[w].rev, x)
    BY <2>1, <2>2, <2>3 DEF TaskStatusFor
  <2>6. QED
    <3>1. s \in JobStatus /\ s \notin {"none", "found", "queued", "abandoned"} /\ s # "running"
      BY <1>3, <1>5, <2>2
    <3>2. QED
      BY <1>2, <1>5, <2>1, <2>4, <2>5, <3>1, JobCommitSteps
<1>8. QED
  BY <1>6, <1>7

LEMMA AnalysisSteps ==
  ASSUME WorkstreamsInv, NEW w \in Workstream, StartAnalysis(w) \/ EndAnalysis(w)
  PROVE  WorkstreamsInv'
<1>1. UNCHANGED <<row, recorded, records, call, job>>
  BY DEF StartAnalysis, EndAnalysis
<1>2. blocking' \in [Workstream -> BOOLEAN]
  BY DEF StartAnalysis, EndAnalysis, WorkstreamsInv, Rows
<1>3. Rows'
  BY <1>1, <1>2 DEF WorkstreamsInv, Rows, Whole, TaskWhole, Available
<1>4. Calls' /\ Jobs'
  BY <1>1, CallsStay, JobsStay DEF WorkstreamsInv
<1>5. QED
  BY <1>3, <1>4 DEF WorkstreamsInv

-----------------------------------------------------------------------------
(* The invariant and what follows from it.                                 *)

LEMMA WorkstreamsInit == Init => WorkstreamsInv
<1> SUFFICES ASSUME Init PROVE WorkstreamsInv
  OBVIOUS
<1> USE BoundAssumption, IdentityAssumption
<1>1. Rows
  <2>1. row = [w \in Workstream |-> NewWorkstream] /\ recorded = row /\ records = 0
        /\ blocking = [w \in Workstream |-> FALSE]
    BY DEF Init
  <2>2. QED
    BY <2>1, NewWorkstreamTyped DEF Rows
<1>2. Calls
  <2>1. Idle \in CallRow /\ Idle.phase = "idle"
    <3>1. Transition("none", Nothing) \in Transitions \cup {Transition("create", Nothing), Transition("none", Nothing)}
      OBVIOUS
    <3>2. QED
      BY <3>1 DEF Idle, CallRow
  <2>2. QED
    BY <2>1 DEF Init, Calls, Current
<1>3. Jobs
  <2> DEFINE k == [status |-> "none", ws |-> Nothing, task |-> Nothing, saw |-> 0]
  <2>1. k \in JobRow /\ k.status = "none"
    BY Statuses DEF JobRow
  <2>2. job = [j \in Job |-> k]
    BY DEF Init
  <2> HIDE DEF k
  <2>3. \A w \in Workstream, t \in Task : row[w].tasks[t].job = Nothing
    BY DEF Init, NewWorkstream, NewTask
  <2>4. \A j \in Job, w \in Workstream, t \in Task : ~Bound(j, w, t)
    BY <2>3 DEF Bound
  <2>5. QED
    BY <2>1, <2>2, <2>4 DEF Jobs
<1>4. QED
  BY <1>1, <1>2, <1>3 DEF WorkstreamsInv

LEMMA WorkstreamsNext ==
  ASSUME WorkstreamsInv, [Next]_vars
  PROVE  WorkstreamsInv'
<1>1. ASSUME UNCHANGED vars PROVE WorkstreamsInv'
  <2>1. UNCHANGED <<row, recorded, records, call, job, blocking>>
    BY <1>1 DEF vars
  <2>2. Jobs'
    BY <2>1, JobsStay DEF WorkstreamsInv
  <2>3. QED
    BY <2>1, <2>2, JobAloneSteps
<1>2. ASSUME NEW w \in Workstream, NEW x \in Transitions, Command(w, x) PROVE WorkstreamsInv'
  BY <1>2, CommandSteps
<1>3. ASSUME NEW c \in Call, NEW w \in Workstream, NEW x \in Transitions, Ask(c, w, x) PROVE WorkstreamsInv'
  BY <1>3, CallSteps
<1>4. ASSUME NEW c \in Call, CreateApproved(c) \/ Perform(c) PROVE WorkstreamsInv'
  BY <1>4, CreateApprovedSteps, PerformSteps
<1>5. ASSUME NEW c \in Call, Drop(c) PROVE WorkstreamsInv'
  <2>1. call[c].ws \in Workstream
    BY <1>5 DEF Drop, WorkstreamsInv, Calls, Current
  <2>2. QED
    BY <1>5, <2>1, CallSteps
<1>6. ASSUME NEW w \in Workstream, CreateHuman(w) PROVE WorkstreamsInv'
  BY <1>6, InsertedSteps, IdentityAssumption DEF CreateHuman
<1>7. ASSUME NEW w \in Workstream, NEW c \in Call, AskCreate(c, w) PROVE WorkstreamsInv'
  BY <1>7, CallSteps
<1>8. ASSUME NEW j \in Job, NEW w \in Workstream, NEW t \in Task, FindTask(j, w, t) \/ StartJob(j, w, t)
      PROVE  WorkstreamsInv'
  BY <1>8, FindSteps, StartSteps
<1>9. ASSUME NEW j \in Job, Admit(j) \/ AdmissionFails(j) \/ Requeue(j) PROVE WorkstreamsInv'
  BY <1>9, AdmitSteps, FailSteps
<1>10. ASSUME NEW j \in Job, NEW w \in Workstream, NEW t \in Task,
              NEW s \in Outcomes(job[j].status), EndJob(j, w, t, s)
       PROVE  WorkstreamsInv'
  BY <1>10, EndSteps
<1>11. ASSUME NEW w \in Workstream, StartAnalysis(w) \/ EndAnalysis(w) PROVE WorkstreamsInv'
  BY <1>11, AnalysisSteps
<1>12. QED
  BY <1>1, <1>2, <1>3, <1>4, <1>5, <1>6, <1>7, <1>8, <1>9, <1>10, <1>11 DEF Next

\* In every reachable state the rows are whole and are the journal's, each call
\* knows whether the workstream has moved on, and each bound task tells the
\* story of its job.
THEOREM Invariant == Spec => []WorkstreamsInv
<1>1. WorkstreamsInv /\ [Next]_vars => WorkstreamsInv'
  BY WorkstreamsNext
<1>2. QED
  BY <1>1, WorkstreamsInit, PTL DEF Spec

\* Rows, journals, calls and jobs keep the shape of their tables, whatever
\* transitions ApplyTransitionWithLimits accepts.
THEOREM TypeCorrect == Spec => []TypeOK
<1>1. ASSUME WorkstreamsInv PROVE TypeOK
  <2>1. row \in [Workstream -> State] /\ recorded \in [Workstream -> State] /\ records \in 0..MaxRecords
        /\ blocking \in [Workstream -> BOOLEAN]
    BY <1>1 DEF WorkstreamsInv, Rows
  <2>2. ASSUME NEW c \in Call
        PROVE  /\ call[c].phase \in {"idle", "asked", "applied"}
               /\ call[c].phase = "asked" =>
                    /\ call[c].ws \in Workstream /\ call[c].saw \in 0..MaxRecords
                    /\ call[c].x \in Transitions \cup {Transition("create", Nothing)}
    <3>1. call[c] \in CallRow /\ Current(c)
      BY <1>1 DEF WorkstreamsInv, Calls
    <3>2. call[c].x \in Transitions \cup {Transition("create", Nothing), Transition("none", Nothing)}
          /\ call[c].phase \in {"idle", "asked", "applied"} /\ call[c].saw \in 0..MaxRecords
      BY <3>1 DEF CallRow
    <3>3. call[c].phase = "asked" => call[c].x.op # "none" /\ call[c].ws \in Workstream
      BY <3>1 DEF Current
    <3>4. QED
      BY <3>2, <3>3, TransitionFields
  <2>3. ASSUME NEW j \in Job
        PROVE  /\ job[j].status \in {"none", "found", "queued", "running", "completed", "failed",
                               "cancelled", "completion_unknown", "abandoned"}
               /\ job[j].status # "none" => job[j].ws \in Workstream /\ job[j].task \in Task
    BY <1>1 DEF WorkstreamsInv, Jobs, JobRow, JobStatus
  <2>4. QED
    BY <2>1, <2>2, <2>3 DEF TypeOK
<1>2. QED
  BY <1>1, Invariant, PTL

\* Each action writes only some of the tables and columns, and still they hold
\* what its journal record says (workstream_store.go).
THEOREM JournalIsFaithful == Spec => []JournalTellsState
<1>1. WorkstreamsInv => JournalTellsState
  BY DEF WorkstreamsInv, Rows, JournalTellsState
<1>2. QED
  BY <1>1, Invariant, PTL

\* A confirmed call that applied was never overtaken by another record of its
\* workstream: the compared revision covers commands, plan changes and jobs.
THEOREM AppliesAsSeen == Spec => []AppliedAsSeen
<1>1. WorkstreamsInv => AppliedAsSeen
  BY DEF WorkstreamsInv, Calls, Current, AppliedAsSeen
<1>2. QED
  BY <1>1, Invariant, PTL

\* A task that was given a job keeps its dependencies completed and its inputs
\* available for good.
THEOREM DependenciesStay == Spec => []DependenciesHold
<1>1. WorkstreamsInv => DependenciesHold
  BY DEF WorkstreamsInv, Rows, Whole, TaskWhole, DependenciesHold
<1>2. QED
  BY <1>1, Invariant, PTL

\* A job belongs to one task, which has the status and the result the job has
\* while the workstream lives; and a workstream only completes without queued
\* or running jobs.
THEOREM TaskAndJobAgree == Spec => []TaskFollowsJob
<1>1. ASSUME WorkstreamsInv PROVE TaskFollowsJob
  <2>1. \A j \in Job, v, w \in Workstream, t, u \in Task :
          Bound(j, v, t) /\ Bound(j, w, u) => v = w /\ t = u
    BY <1>1 DEF WorkstreamsInv, Jobs
  <2>2. ASSUME NEW j \in Job, NEW w \in Workstream, NEW t \in Task, Bound(j, w, t)
        PROVE  Tells(j, row[w], t) /\ (row[w].tasks[t].status = "completed" => row[w].tasks[t].result = j)
    <3>1. Tells(j, row[w], t)
      BY <1>1, <2>2 DEF WorkstreamsInv, Jobs
    <3>2. TaskWhole(row[w], t)
      BY <1>1 DEF WorkstreamsInv, Rows, Whole
    <3>3. QED
      BY <2>2, <3>1, <3>2 DEF TaskWhole, Bound
  <2>3. ASSUME NEW j \in Job, NEW w \in Workstream, NEW t \in Task
        PROVE  LET task == row[w].tasks[t].status
                   result == row[w].tasks[t].result IN
               /\ Bound(j, w, t) /\ row[w].status = "completed" =>
                    job[j].status \notin {"queued", "running"}
               /\ Bound(j, w, t) /\ Live(row[w]) =>
                    CASE job[j].status = "queued"    -> task \in {"queued", "running"}
                      [] job[j].status = "running"   -> task = "running"
                      [] job[j].status = "completed" -> task = "completed" /\ result = j
                      [] OTHER                       -> task = TaskStatusFor(job[j].status)
    <3> HIDE DEF Live, Bound
    <3>1. CASE Bound(j, w, t)
      BY <2>2, <3>1 DEF Tells, TaskStatusFor
    <3>2. QED
      BY <3>1
  <2>4. QED
    BY <2>1, <2>3 DEF TaskFollowsJob
<1>2. QED
  BY <1>1, Invariant, PTL

-----------------------------------------------------------------------------
(* What a step may never do.                                               *)

\* One conversation has one live workstream at most.
OneLive == \A v, w \in Workstream : Live(row[v]) /\ Live(row[w]) => v = w

TaskMoves(k, n) ==
  /\ n.status = k.status \/ <<k.status, n.status>> = <<"absent", "proposed">> \/ MayTurn(k.status, n.status)
  /\ k.job # Nothing => n.job = k.job
  /\ k.result # Nothing => n.result = k.result
  /\ k.status # "absent" => n.deps = k.deps /\ n.needs = k.needs

\* A workstream is created empty, or a live one gets its next revision.
RowMoves(w) ==
  /\ ~OtherLive(w)
  /\ \A v \in Workstream : v # w => row'[v] = row[v]
  /\ \/ /\ row[w].status = "absent"
        /\ row'[w] = [NewWorkstream EXCEPT !.status = "proposed"]
     \/ /\ Live(row[w]) /\ row'[w].rev = row[w].rev + 1
        /\ row'[w].status = row[w].status \/ MayMove(row[w].status, row'[w].status)
        /\ \A t \in Task : TaskMoves(row[w].tasks[t], row'[w].tasks[t])
        /\ row[w].links \subseteq row'[w].links

\* A step changes one workstream, while no other of the conversation is live,
\* and by one revision; an ended one stays as it is, whatever its jobs still
\* report; a workstream and its tasks move along the tables of the domain only,
\* and a task keeps its job, its result and, from its proposal on, its
\* dependencies.
PlanOnlyAdvances == [][row' = row \/ \E w \in Workstream : RowMoves(w)]_vars

LEMMA TaskOnlyAdvances ==
  ASSUME NEW s \in State, NEW x, Named(x), Accepts(s, x), NEW t \in Task, TaskWhole(s, t),
         x.op \in TaskOp, t = x.item
  PROVE  TaskMoves(s.tasks[t], TaskAfter(s.tasks[t], x))
<1> USE OperationSets
<1> DEFINE k == s.tasks[t]
           n == TaskAfter(k, x)
<1>1. k \in TaskRecord /\ Allowed(s, x)
  BY DEF State, Accepts
<1>2. /\ n.status = (CASE x.op = "propose_task" -> "proposed" [] x.op = "reject_task" -> "rejected"
                       [] x.op = "queue_task" -> "queued" [] x.op = "start_task" -> "running"
                       [] OTHER -> x.to)
      /\ n.job = (IF x.op = "queue_task" THEN x.job ELSE k.job)
      /\ n.result = (IF x.op = "settle_task"
                       THEN IF x.to = "completed" THEN x.job ELSE Nothing ELSE k.result)
      /\ n.deps = (IF x.op = "propose_task" THEN x.deps ELSE k.deps)
      /\ n.needs = (IF x.op = "propose_task" THEN x.needs ELSE k.needs)
  BY <1>1, TaskAfterTyped
<1>3. /\ k.job = Nothing <=> k.status \in {"absent", "proposed", "rejected"}
      /\ k.result = (IF k.status = "completed" THEN k.job ELSE Nothing)
  BY DEF TaskWhole
<1>4. /\ x.op = "propose_task" => k.status = "absent"
      /\ x.op = "reject_task" => MayTurn(k.status, "rejected")
      /\ x.op = "queue_task" => k.status = "proposed"
      /\ x.op = "start_task" => k.status = "queued"
      /\ x.op = "settle_task" => MayTurn(k.status, x.to)
  BY <1>1 DEF Allowed
<1> HIDE DEF k, n
<1>5. n.status = k.status \/ <<k.status, n.status>> = <<"absent", "proposed">> \/ MayTurn(k.status, n.status)
  <2>1. CASE x.op \in {"propose_task", "reject_task", "settle_task"}
    BY <1>2, <1>4, <2>1
  <2>2. CASE x.op \in {"queue_task", "start_task"}
    BY <1>2, <1>4, <2>2 DEF MayTurn
  <2>3. QED
    BY <2>1, <2>2
<1>6. k.job # Nothing => n.job = k.job
  BY <1>2, <1>3, <1>4
<1>7. k.result # Nothing => n.result = k.result
  <2>1. k.result # Nothing => x.op # "settle_task"
    BY <1>3, <1>4 DEF MayTurn
  <2>2. QED
    BY <1>2, <2>1
<1>8. k.status # "absent" => n.deps = k.deps /\ n.needs = k.needs
  BY <1>2, <1>4
<1>9. QED
  BY <1>5, <1>6, <1>7, <1>8 DEF TaskMoves, k, n

LEMMA CommitMoves ==
  ASSUME Rows, NEW w \in Workstream, NEW rev, NEW x, Named(x), Commit(w, rev, x), UNCHANGED blocking
  PROVE  RowMoves(w)
<1> USE OperationSets
<1>1. /\ row' = [row EXCEPT ![w] = After(row[w], x)] /\ row'[w] = After(row[w], x)
      /\ row[w] \in State /\ row[w].rev + 1 \in 0..MaxRecords /\ Whole(row[w]) /\ Accepts(row[w], x)
  BY CommitRows
<1>2. PICK s, n : s = row[w] /\ n = After(s, x)
  OBVIOUS
<1>3. /\ n.rev = s.rev + 1
      /\ n.status = (IF x.op \in MoveOp THEN Target[x.op] ELSE s.status)
      /\ \A t \in Task : n.tasks[t] = (IF x.op \in TaskOp /\ t = x.item
                                         THEN TaskAfter(s.tasks[t], x) ELSE s.tasks[t])
      /\ n.links = s.links \cup (IF x.op = "link_result" THEN {x.item} ELSE {})
  BY <1>1, <1>2, AfterTyped
<1>4. Live(s) /\ Allowed(s, x)
  BY <1>1, <1>2 DEF Accepts
<1>5. n.status = s.status \/ MayMove(s.status, n.status)
  <2>1. x.op \in MoveOp => MayMove(s.status, Target[x.op])
    BY <1>4 DEF Allowed, Movable
  <2>2. QED
    BY <1>3, <2>1
<1>6. ASSUME NEW t \in Task PROVE TaskMoves(s.tasks[t], n.tasks[t])
  <2>1. CASE x.op \in TaskOp /\ t = x.item
    BY <1>1, <1>2, <1>3, <2>1, TaskOnlyAdvances DEF Whole
  <2>2. CASE ~(x.op \in TaskOp /\ t = x.item)
    BY <1>3, <2>2 DEF TaskMoves
  <2>3. QED
    BY <2>1, <2>2
<1>7. row \in [Workstream -> State] /\ ~OtherLive(w)
  BY DEF Rows, Commit
<1>8. \A v \in Workstream : v # w => row'[v] = row[v]
  BY <1>1, <1>7
<1>9. row'[w] = n /\ row[w] = s /\ s.links \subseteq n.links
  BY <1>1, <1>2, <1>3
<1>10. QED
  BY <1>3, <1>4, <1>5, <1>6, <1>7, <1>8, <1>9 DEF RowMoves

LEMMA InsertedMoves ==
  ASSUME Rows, NEW w \in Workstream, Inserted(w)
  PROVE  RowMoves(w)
<1>1. /\ row \in [Workstream -> State] /\ ~OtherLive(w) /\ row[w].status = "absent"
      /\ row' = [row EXCEPT ![w] = [NewWorkstream EXCEPT !.status = "proposed"]]
  BY DEF Rows, Inserted
<1>2. QED
  BY <1>1 DEF RowMoves

\* Whoever commits, a row moves only so.
LEMMA RowSteps ==
  ASSUME WorkstreamsInv, [Next]_vars
  PROVE  row' = row \/ \E w \in Workstream : RowMoves(w)
<1> DEFINE Moved == row' = row \/ \E w \in Workstream : RowMoves(w)
<1>1. Rows /\ Calls /\ Jobs
  BY DEF WorkstreamsInv
<1>2. ASSUME NEW w \in Workstream, NEW x \in Transitions, Command(w, x) PROVE Moved
  <2>1. Commit(w, row[w].rev, x) /\ UNCHANGED blocking /\ Named(x)
    BY <1>2, TransitionsNamed DEF Command
  <2>2. QED
    BY <1>1, <2>1, CommitMoves
<1>3. ASSUME NEW c \in Call, Perform(c) PROVE Moved
  <2>1. PICK w, x, rev : w = call[c].ws /\ x = call[c].x /\ rev = call[c].saw
    OBVIOUS
  <2>2. /\ call[c].phase = "asked" /\ x.op # "create" /\ Commit(w, rev, x) /\ UNCHANGED blocking
    BY <1>3, <2>1 DEF Perform
  <2>3. w \in Workstream /\ x.op # "none" /\ call[c] \in CallRow
    BY <1>1, <2>1, <2>2 DEF Calls, Current
  <2>4. x \in Transitions \cup {Transition("create", Nothing), Transition("none", Nothing)}
    BY <2>1, <2>3 DEF CallRow
  <2>5. Named(x)
    BY <2>2, <2>3, <2>4, TransitionFields, TransitionsNamed
  <2>6. QED
    BY <1>1, <2>2, <2>3, <2>5, CommitMoves
<1>4. ASSUME NEW c \in Call, CreateApproved(c) PROVE Moved
  <2>1. PICK w : w = call[c].ws
    OBVIOUS
  <2>2. call[c].phase = "asked" /\ Inserted(w)
    BY <1>4, <2>1 DEF CreateApproved
  <2>3. w \in Workstream
    BY <1>1, <2>1, <2>2 DEF Calls, Current
  <2>4. QED
    BY <1>1, <2>2, <2>3, InsertedMoves
<1>5. ASSUME NEW w \in Workstream, CreateHuman(w) PROVE Moved
  BY <1>1, <1>5, InsertedMoves DEF CreateHuman
<1>6. ASSUME NEW j \in Job, Admit(j) PROVE Moved
  <2>1. PICK w, t, rev : w = job[j].ws /\ t = job[j].task /\ rev = job[j].saw
    OBVIOUS
  <2>2. job[j].status = "found" /\ Commit(w, rev, QueueTask(t, j)) /\ UNCHANGED blocking
    BY <1>6, <2>1 DEF Admit
  <2>3. w \in Workstream /\ t \in Task
    BY <1>1, <2>1, <2>2 DEF Jobs
  <2>4. Named(QueueTask(t, j))
    BY <2>3, JobTransitions
  <2>5. QED
    BY <1>1, <2>2, <2>3, <2>4, CommitMoves
<1>7. ASSUME NEW j \in Job, NEW w \in Workstream, NEW t \in Task, StartJob(j, w, t) PROVE Moved
  <2>1. row' = row \/ (Commit(w, row[w].rev, StartTask(t, j)) /\ UNCHANGED blocking)
    BY <1>7 DEF StartJob
  <2>2. Named(StartTask(t, j))
    BY JobTransitions
  <2>3. QED
    BY <1>1, <2>1, <2>2, CommitMoves
<1>8. ASSUME NEW j \in Job, NEW w \in Workstream, NEW t \in Task,
             NEW s \in Outcomes(job[j].status), EndJob(j, w, t, s)
      PROVE  Moved
  <2>1. PICK to : to = TaskStatusFor(s)
    OBVIOUS
  <2>2. row' = row \/ (Commit(w, row[w].rev, SettleTask(t, j, to)) /\ UNCHANGED blocking)
    BY <1>8, <2>1 DEF EndJob
  <2>3. to \in {"completed", "failed", "cancelled", "completion_unknown"}
    BY <2>1 DEF Outcomes, TaskStatusFor
  <2>4. Named(SettleTask(t, j, to))
    BY <2>3, JobTransitions
  <2>5. QED
    BY <1>1, <2>2, <2>4, CommitMoves
<1>9. ASSUME NEW w \in Workstream, NEW c \in Call, AskCreate(c, w) \/ \E x \in Transitions : Ask(c, w, x)
      PROVE  Moved
  BY <1>9 DEF AskCreate, Ask
<1>10. ASSUME NEW c \in Call, Drop(c) PROVE Moved
  BY <1>10 DEF Drop
<1>11. ASSUME NEW j \in Job, NEW w \in Workstream, NEW t \in Task, FindTask(j, w, t) PROVE Moved
  BY <1>11 DEF FindTask
<1>12. ASSUME NEW j \in Job, AdmissionFails(j) \/ Requeue(j) PROVE Moved
  BY <1>12 DEF AdmissionFails, Requeue
<1>13. ASSUME NEW w \in Workstream, StartAnalysis(w) \/ EndAnalysis(w) PROVE Moved
  BY <1>13 DEF StartAnalysis, EndAnalysis
<1>14. ASSUME UNCHANGED vars PROVE Moved
  BY <1>14 DEF vars
<1> HIDE DEF Moved
<1>15. Moved
  BY <1>2, <1>3, <1>4, <1>5, <1>6, <1>7, <1>8, <1>9, <1>10, <1>11, <1>12, <1>13, <1>14 DEF Next
<1>16. QED
  BY <1>15 DEF Moved

\* A plan only advances: one live workstream changes, one revision at a time,
\* along the transition tables of the domain, and nothing changes an ended one.
THEOREM PlanAdvances == Spec => PlanOnlyAdvances
<1>1. WorkstreamsInv /\ [Next]_vars => [row' = row \/ \E w \in Workstream : RowMoves(w)]_vars
  BY RowSteps
<1>2. QED
  BY <1>1, Invariant, PTL DEF Spec, PlanOnlyAdvances

\* A conversation has one live workstream at most: creation and every
\* transition refuse while another is live.
THEOREM OneLiveWorkstream == Spec => []OneLive
<1>1. Init => OneLive
  BY NewWorkstreamTyped DEF Init, OneLive, Live
<1>2. WorkstreamsInv /\ OneLive /\ [Next]_vars => OneLive'
  <2> SUFFICES ASSUME WorkstreamsInv, OneLive, [Next]_vars PROVE OneLive'
    OBVIOUS
  <2>1. CASE row' = row
    BY <2>1 DEF OneLive, Live
  <2>2. ASSUME NEW w \in Workstream, RowMoves(w) PROVE OneLive'
    BY <2>2 DEF RowMoves, OtherLive, OneLive, Live
  <2>3. QED
    BY <2>1, <2>2, RowSteps
<1>3. QED
  BY <1>1, <1>2, Invariant, PTL DEF Spec
=============================================================================

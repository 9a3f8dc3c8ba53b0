--------------------------- MODULE ExternalAgentJobs ---------------------------
(***************************************************************************)
(* Durable external-agent jobs: the SQLite rows of                         *)
(* internal/adapter/sqlite/external_agent_job_store.go and the goroutines  *)
(* of internal/usecase/externalagent/service.go that claim, run, renew,    *)
(* recover, reconcile, cancel and close them.                              *)
(*                                                                         *)
(* One action is one transaction of the store (they are serialised by      *)
(* _txlock=immediate) or one step of a goroutine between two of them.      *)
(* Wall-clock time is abstracted: a lease is "live" until LeaseExpires,    *)
(* and a `now` a goroutine captured earlier is remembered as a Boolean     *)
(* (was the lease live then).  Provider, task text, actor checks and wakes *)
(* of the schedulers are left out; a wake only shortens a poll.            *)
(***************************************************************************)
EXTENDS Integers, FiniteSets

CONSTANTS
    Jobs,           \* jobs, numbered in the order of created_at
    Linked,         \* the jobs admitted for a workstream task
    Workers,        \* goroutines that may run or resume a job at once
    NoWorker,       \* lease_owner = ''
    MaxAttempts,    \* Config.MaxAttempts
    MaxReconciles,  \* bound: reconciliations one job may go through
    MaxFaults,      \* bound: restarts and failed store calls together
    LateWrites      \* may a write commit after the lease it checked lapsed?

ASSUME JobsAssumption == Jobs \subseteq Nat /\ Linked \subseteq Jobs
ASSUME WorkersAssumption == NoWorker \notin Workers
ASSUME BoundsAssumption ==
    /\ MaxAttempts \in Nat \ {0}
    /\ MaxReconciles \in Nat
    /\ MaxFaults \in Nat
    /\ LateWrites \in BOOLEAN

VARIABLES
    job,          \* the external_agent_jobs row of each job
    task,         \* status of the workstream task bound to the job
    ws,           \* status of that task's workstream
    overdue,      \* timeout_at has passed
    run,          \* the goroutine in each worker slot
    scan,         \* rows ListExpiredRunning returned and not yet handled
    resume,       \* background reconciliations waiting for a slot
    phase,        \* "up", "draining" (StopAdmission), "cancelled" (ctx done)
    faults,       \* restarts and store failures so far
    available,    \* native results materialised and neither bound nor quarantined
    bound,        \* revision of the native result bound to the job, 0 if none
    launches,     \* history: how often a CLI was started for the job
    cancelAsked,  \* history: a running job accepted a cancellation
    autoResumes   \* history: reconciliations started without an operator

rows    == <<job, task>>
world   == <<ws, overdue>>
process == <<phase, faults>>
results == <<available, bound>>
history == <<launches, cancelAsked, autoResumes>>
vars    == <<job, task, ws, overdue, run, scan, resume, phase, faults,
             available, bound, launches, cancelAsked, autoResumes>>

-----------------------------------------------------------------------------
(* Statuses and their transition tables. *)

JobStatus == {"absent", "queued", "running", "cancel_requested",
              "interrupted_safe", "completion_unknown", "reconciling",
              "completed", "failed", "cancelled", "abandoned"}

LeaseHolding == {"running", "cancel_requested", "reconciling"}
FinalStatus  == {"completed", "failed", "cancelled", "abandoned"}

ValidJobTransition(from, to) ==
    <<from, to>> \in
      {<<"queued", "running">>, <<"queued", "cancelled">>}
      \cup {"running"} \X {"completed", "failed", "cancel_requested",
                           "interrupted_safe", "completion_unknown"}
      \cup {"cancel_requested"} \X {"cancelled", "completion_unknown"}
      \cup {"interrupted_safe"} \X {"queued", "cancelled"}
      \cup {"completion_unknown"} \X {"reconciling", "abandoned"}
      \cup {"reconciling"} \X {"completed", "failed", "completion_unknown",
                               "cancel_requested"}

TaskStatus == {"none", "queued", "running", "completed", "failed",
               "cancelled", "completion_unknown"}

TaskTerminal(s) == s \in {"completed", "failed", "cancelled", "completion_unknown"}

\* The rows of the table whose source a job-bound task can be in.
ValidTaskTransition(from, to) ==
    <<from, to>> \in
      {"queued"} \X {"running", "cancelled", "failed", "completion_unknown"}
      \cup {"running"} \X {"completed", "failed", "completion_unknown"}
      \cup {"completion_unknown"} \X {"completed", "failed", "cancelled"}

-----------------------------------------------------------------------------
(* The bound workstream task, settled in the transaction that moves the job. *)

TaskStatusFor(s) == IF s = "abandoned" THEN "completion_unknown" ELSE s

\* Mutation: an uncertain outcome is not reported to the task.
SettlesFinalOnly(s) == s \in FinalStatus

SettlesTask(s) == s \in FinalStatus \cup {"completion_unknown"}

SettleSkipped(j, s) ==
    \/ task[j] = "none"
    \/ ws[j] = "ended"
    \/ ~SettlesTask(s)
    \/ /\ TaskTerminal(task[j])
       /\ task[j] = "completion_unknown" => TaskStatusFor(s) = "completion_unknown"

\* ApplyTransition refuses to settle a task that is already terminal, and a
\* refusal rolls the whole transaction back.
SettleAllowed(j, s) ==
    \/ SettleSkipped(j, s)
    \/ ~TaskTerminal(task[j]) /\ ValidTaskTransition(task[j], TaskStatusFor(s))

\* Mutation: the task takes the job's own status.
SettledUnmapped(j, s) == s

Settled(j, s) == IF SettleSkipped(j, s) THEN task[j] ELSE TaskStatusFor(s)

StartSkipped(j) == task[j] \in {"none", "running"} \/ ws[j] = "ended"
StartAllowed(j) == StartSkipped(j) \/ (ws[j] = "active" /\ task[j] = "queued")
Started(j)      == IF StartSkipped(j) THEN task[j] ELSE "running"

-----------------------------------------------------------------------------
(* Goroutines. *)

IdleRun == [pc |-> "idle", kind |-> "run", job |-> 0, attempt |-> 0, rev |-> 0,
            ctx |-> FALSE, hb |-> "off", seen |-> FALSE, timedOut |-> FALSE,
            sess |-> "none", native |-> FALSE, out |-> "none", next |-> "none"]

Busy(t) == run[t].pc # "idle"
Row(t)  == job[run[t].job]

\* lease_owner and attempt of the row are still the ones this goroutine holds.
Held(t) == Row(t).owner = t /\ Row(t).attempt = run[t].attempt
Live(t) == Held(t) /\ Row(t).lease = "live"

\* The context of the run is cancelled, or past its deadline.
CtxDone(t) == run[t].ctx \/ (run[t].kind = "run" /\ overdue[run[t].job])

\* Mutation: the result of the leased revision.
OwnResultOfLease(t) == IF run[t].native THEN {<<run[t].job, run[t].rev>>} ELSE {}

OwnResult(t) == IF run[t].native THEN {<<run[t].job, run[t].rev + 1>>} ELSE {}

\* Mutation: only a session makes an outcome uncertain.
UncertainIfSession(r) == r.session

Uncertain(r) == r.effects \/ r.session

\* terminalOutcome, on the row GetJob returned.  A process that exited or fell
\* idle would be retried too, but it has run only after the mark, where every
\* error leaves the outcome uncertain.
TerminalOutcome(t) ==
    LET r == Row(t)
        u == Uncertain(r)
    IN CASE run[t].timedOut         -> IF u THEN "completion_unknown" ELSE "failed"
         [] ~run[t].timedOut /\ run[t].out = "ok"     -> "completed"
         [] ~run[t].timedOut /\ run[t].out = "result" -> "failed"
         [] OTHER ->
              IF u THEN "completion_unknown"
              ELSE IF r.status = "cancel_requested" THEN "cancelled"
              ELSE IF CtxDone(t) /\ r.attempt < MaxAttempts THEN "interrupted_safe"
              ELSE "failed"

\* Mutations: the mark is not consulted; one attempt too many.
RecoveryOutcomeUnmarked(s) ==
    IF s.session \/ s.status = "reconciling" THEN "completion_unknown"
    ELSE IF s.status = "cancel_requested" THEN "cancelled"
    ELSE IF overdue[s.job] \/ s.attempt >= MaxAttempts THEN "failed"
    ELSE "queued"

RecoveryOutcomeOffByOne(s) ==
    IF s.effects \/ s.session \/ s.status = "reconciling" THEN "completion_unknown"
    ELSE IF s.status = "cancel_requested" THEN "cancelled"
    ELSE IF overdue[s.job] \/ s.attempt > MaxAttempts THEN "failed"
    ELSE "queued"

\* What recoverExpired decides from the row it listed.
RecoveryOutcome(s) ==
    IF s.effects \/ s.session \/ s.status = "reconciling" THEN "completion_unknown"
    ELSE IF s.status = "cancel_requested" THEN "cancelled"
    ELSE IF overdue[s.job] \/ s.attempt >= MaxAttempts THEN "failed"
    ELSE "queued"

-----------------------------------------------------------------------------
NewRow == [status |-> "absent", attempt |-> 0, rev |-> 0, owner |-> NoWorker,
           lease |-> "none", effects |-> FALSE, session |-> FALSE]

Init ==
    /\ job = [j \in Jobs |-> NewRow]
    /\ task = [j \in Jobs |-> "none"]
    /\ ws = [j \in Jobs |-> "active"]
    /\ overdue = [j \in Jobs |-> FALSE]
    /\ run = [t \in Workers |-> IdleRun]
    /\ scan = {}
    /\ resume = {}
    /\ phase = "up"
    /\ faults = 0
    /\ available = {}
    /\ bound = [j \in Jobs |-> 0]
    /\ launches = [j \in Jobs |-> 0]
    /\ cancelAsked = [j \in Jobs |-> FALSE]
    /\ autoResumes = [j \in Jobs |-> 0]

-----------------------------------------------------------------------------
(* Admission, cancellation and closure: called from Slack turns and the CLI. *)

\* Service.Start: CreateIfAbsent, with the task queued in the same transaction
\* when the request names one; a repeated call finds the row and changes nothing.
Start(j) ==
    /\ job[j].status = "absent"
    /\ \A i \in Jobs : i < j => job[i].status # "absent"
    /\ j \in Linked => ws[j] = "active"
    /\ job' = [job EXCEPT ![j].status = "queued"]
    /\ task' = [task EXCEPT ![j] = IF j \in Linked THEN "queued" ELSE "none"]
    /\ UNCHANGED <<world, run, scan, resume, process, results, history>>

RequestCancellation(j) ==
    /\ \/ /\ job[j].status = "queued"
          /\ SettleAllowed(j, "cancelled")
          /\ job' = [job EXCEPT ![j].status = "cancelled", ![j].rev = @ + 1]
          /\ task' = [task EXCEPT ![j] = Settled(j, "cancelled")]
          /\ UNCHANGED cancelAsked
       \/ /\ job[j].status = "running"
          /\ job' = [job EXCEPT ![j].status = "cancel_requested", ![j].rev = @ + 1]
          /\ cancelAsked' = [cancelAsked EXCEPT ![j] = TRUE]
          /\ UNCHANGED task
    /\ UNCHANGED <<world, run, scan, resume, process, results, launches, autoResumes>>

AbandonCompletionUnknown(j) ==
    /\ job[j].status = "completion_unknown"
    /\ SettleAllowed(j, "abandoned")
    /\ job' = [job EXCEPT ![j].status = "abandoned", ![j].rev = @ + 1]
    /\ task' = [task EXCEPT ![j] = Settled(j, "abandoned")]
    /\ UNCHANGED <<world, run, scan, resume, process, results, history>>

-----------------------------------------------------------------------------
(* The claim loop. *)

\* ORDER BY created_at LIMIT 1: only the oldest queued row is considered, and
\* the claim fails as a whole when its task may not start.
Oldest(j) == \A i \in Jobs : job[i].status = "queued" => j <= i

ClaimNext(t, j) ==
    /\ phase = "up" /\ scan = {} /\ ~Busy(t)
    /\ job[j].status = "queued" /\ job[j].lease # "live" /\ Oldest(j)
    /\ StartAllowed(j)
    /\ job' = [job EXCEPT ![j].status = "running", ![j].attempt = @ + 1,
                          ![j].rev = @ + 1, ![j].owner = t, ![j].lease = "live"]
    /\ task' = [task EXCEPT ![j] = Started(j)]
    /\ run' = [run EXCEPT ![t] = [IdleRun EXCEPT
                 !.pc = "claimed", !.job = j,
                 !.attempt = job[j].attempt + 1, !.rev = job[j].rev + 1]]
    /\ UNCHANGED <<world, scan, resume, process, results, history>>

-----------------------------------------------------------------------------
(* execute: run the CLI of a claimed job. *)

Execute(t) ==
    /\ run[t].pc = "claimed"
    /\ run' = [run EXCEPT ![t] =
         IF overdue[run[t].job]
         THEN [@ EXCEPT !.pc = "commit", !.next = "failed", !.seen = Live(t)]
         ELSE [@ EXCEPT !.pc = "preparing", !.hb = "on", !.ctx = phase = "cancelled"]]
    /\ UNCHANGED <<rows, world, scan, resume, process, results, history>>

\* Run has ended: the heartbeat is told to stop and `now` is captured.
\* An execution is read back first, a reconciliation goes on to its Transition.
Returned(t, o) ==
    [run[t] EXCEPT
        !.pc = IF run[t].kind = "resume" THEN "commit" ELSE "returned",
        !.out = o,
        !.hb = IF run[t].kind = "resume" \/ @ = "on" THEN "off" ELSE @,
        !.seen = Live(t),
        !.timedOut = run[t].kind = "run" /\ overdue[run[t].job],
        !.next = IF run[t].kind = "run" THEN @
                 ELSE IF o = "ok" THEN "completed" ELSE "completion_unknown"]

\* The configuration no longer matches the job, or its context ended first.
PrepareFails(t) ==
    /\ run[t].pc = "preparing"
    /\ run' = [run EXCEPT ![t] = Returned(t, "error")]
    /\ UNCHANGED <<rows, world, scan, resume, process, results, history>>

\* MarkSideEffectsPossible reads the clock, then writes.
BeginMark(t) ==
    /\ run[t].pc = "preparing" /\ ~CtxDone(t)
    /\ run' = [run EXCEPT ![t] = [@ EXCEPT !.pc = "marking", !.seen = Live(t)]]
    /\ UNCHANGED <<rows, world, scan, resume, process, results, history>>

MarkSucceeds(t) ==
    /\ Held(t) /\ Row(t).status = "running"
    /\ Row(t).lease = "live" \/ (LateWrites /\ run[t].seen)

\* The CLI process is started right after the mark is committed.
MarkSideEffectsPossible(t) ==
    /\ run[t].pc = "marking"
    /\ \/ /\ MarkSucceeds(t)
          /\ job' = [job EXCEPT ![run[t].job].effects = TRUE]
          /\ launches' = [launches EXCEPT ![run[t].job] = @ + 1]
          /\ run' = [run EXCEPT ![t] = [@ EXCEPT !.pc = "cli", !.seen = FALSE]]
       \/ /\ ~MarkSucceeds(t) \/ CtxDone(t)
          /\ run' = [run EXCEPT ![t] = Returned(t, "error")]
          /\ UNCHANGED <<job, launches>>
    /\ UNCHANGED <<task, world, scan, resume, process, results, cancelAsked, autoResumes>>

AssignExternalAgentSession(t) ==
    /\ run[t].pc = "cli" /\ run[t].sess = "none"
    /\ IF Live(t) /\ Row(t).status = "running" /\ ~Row(t).session
       THEN /\ job' = [job EXCEPT ![run[t].job].session = TRUE]
            /\ run' = [run EXCEPT ![t].sess = "assigned"]
       ELSE /\ run' = [run EXCEPT ![t].sess = "refused"]
            /\ UNCHANGED job
    /\ UNCHANGED <<task, world, scan, resume, process, results, history>>

\* The sanitized result is stored before the job may become terminal; its
\* producer revision is one past the revision of the leased snapshot.
MaterializeNativeResult(t) ==
    /\ \/ run[t].pc = "cli" /\ run[t].sess # "refused"
       \/ run[t].pc = "resuming" /\ Row(t).session
    /\ ~CtxDone(t)
    /\ run' = [run EXCEPT ![t] = [@ EXCEPT !.pc = "rendered", !.native = TRUE]]
    /\ available' = available \cup {<<run[t].job, run[t].rev + 1>>}
    /\ UNCHANGED <<rows, world, scan, resume, process, bound, history>>

RunReturns(t) ==
    /\ run[t].pc \in {"cli", "rendered", "resuming"}
    /\ \E o \in {"ok", "error", "result"} :
         /\ o = "ok" => run[t].pc = "rendered"
         /\ o = "result" => run[t].sess # "refused"
         /\ run' = [run EXCEPT ![t] = Returned(t, o)]
    /\ UNCHANGED <<rows, world, scan, resume, process, results, history>>

\* GetJob after the run, and terminalOutcome on what it returned.
ReadBack(t) ==
    /\ run[t].pc = "returned"
    /\ run' = [run EXCEPT ![t] = [@ EXCEPT !.pc = "commit", !.next = TerminalOutcome(t)]]
    /\ UNCHANGED <<rows, world, scan, resume, process, results, history>>

\* Transition.  A lost lease, an illegal transition or a result of another
\* revision quarantines the result and changes nothing else; a task that cannot
\* be settled rolls everything back.
TransitionAccepted(t) ==
    /\ Held(t) /\ (run[t].seen \/ Row(t).lease = "live")
    /\ ValidJobTransition(Row(t).status, run[t].next)
    /\ run[t].next = "completed" => run[t].native /\ run[t].rev = Row(t).rev

Transition(t) ==
    LET j == run[t].job
        s == run[t].next
    IN /\ run[t].pc = "commit"
       /\ \/ /\ TransitionAccepted(t) /\ SettleAllowed(j, s)
             /\ job' = [job EXCEPT ![j].status = s, ![j].rev = @ + 1]
             /\ task' = [task EXCEPT ![j] = Settled(j, s)]
             /\ bound' = [bound EXCEPT ![j] =
                            IF s = "completed" THEN run[t].rev + 1 ELSE @]
             /\ available' = available \ OwnResult(t)
             /\ run' = [run EXCEPT ![t] =
                          IF s = "interrupted_safe"
                          THEN [@ EXCEPT !.pc = "requeue", !.hb = "off"] ELSE IdleRun]
          \/ /\ TransitionAccepted(t) /\ ~SettleAllowed(j, s)
             /\ run' = [run EXCEPT ![t] = IdleRun]
             /\ UNCHANGED <<rows, results>>
          \/ /\ ~TransitionAccepted(t)
             /\ available' = available \ OwnResult(t)
             /\ run' = [run EXCEPT ![t] = IdleRun]
             /\ UNCHANGED <<rows, bound>>
       /\ UNCHANGED <<world, scan, resume, process, history>>

\* The second Transition of a safe retry, to queued; it releases the lease.
Requeue(t) ==
    LET j == run[t].job
    IN /\ run[t].pc = "requeue"
       /\ job' = IF Held(t) /\ (run[t].seen \/ Row(t).lease = "live")
                    /\ ValidJobTransition(Row(t).status, "queued")
                 THEN [job EXCEPT ![j].status = "queued", ![j].rev = @ + 1,
                                  ![j].owner = NoWorker, ![j].lease = "none"]
                 ELSE job
       /\ run' = [run EXCEPT ![t] = IdleRun]
       /\ UNCHANGED <<task, world, scan, resume, process, results, history>>

-----------------------------------------------------------------------------
(* heartbeat: every third of the lease, read the job, then renew the lease.  *)
(* A renewal still in flight when the attempt ends is dropped: it could only *)
(* put off the expiry that LeaseExpires leaves open anyway.                  *)

HeartbeatRead(t) ==
    /\ run[t].hb = "on"
    /\ run' = [run EXCEPT ![t] =
         IF Row(t).status = "cancel_requested" THEN [@ EXCEPT !.ctx = TRUE]
         ELSE [@ EXCEPT !.hb = IF Live(t) THEN "live" ELSE "stale"]]
    /\ UNCHANGED <<rows, world, scan, resume, process, results, history>>

RenewLease(t) ==
    LET ok == /\ Held(t) /\ Row(t).status \in LeaseHolding
              /\ Row(t).lease = "live" \/ (LateWrites /\ run[t].hb = "live")
    IN /\ run[t].hb \in {"live", "stale"}
       /\ job' = IF ok THEN [job EXCEPT ![run[t].job].lease = "live"] ELSE job
       /\ run' = [run EXCEPT ![t] =
            IF ~ok THEN [@ EXCEPT !.ctx = TRUE, !.hb = "off"]
            ELSE [@ EXCEPT !.hb = IF run[t].pc \in {"returned", "commit"}
                                  THEN "off" ELSE "on"]]
       /\ UNCHANGED <<task, world, scan, resume, process, results, history>>

HeartbeatStops(t) ==
    /\ run[t].hb = "on" /\ CtxDone(t)
    /\ run' = [run EXCEPT ![t].hb = "off"]
    /\ UNCHANGED <<rows, world, scan, resume, process, results, history>>

-----------------------------------------------------------------------------
(* recoverExpired: list the rows whose lease lapsed, then move each of them *)
(* with a compare-and-set on the attempt and revision that were listed.     *)

Snapshot(j) == [job |-> j, status |-> job[j].status, attempt |-> job[j].attempt,
                rev |-> job[j].rev, effects |-> job[j].effects,
                session |-> job[j].session]

\* Mutation: only running rows are looked for.
ExpiredRunningJobs == {j \in Jobs : job[j].status = "running" /\ job[j].lease = "expired"}

ExpiredJobs == {j \in Jobs : job[j].status \in LeaseHolding /\ job[j].lease = "expired"}

ListExpiredRunning ==
    /\ phase = "up" /\ scan = {} /\ ExpiredJobs # {}
    /\ scan' = {Snapshot(j) : j \in ExpiredJobs}
    /\ UNCHANGED <<rows, world, run, resume, process, results, history>>

\* Mutation: the compare-and-set forgets the revision.
RecoveryMatchesByStatus(s, next) ==
    LET r == job[s.job]
    IN /\ r.attempt = s.attempt
       /\ r.status \in LeaseHolding /\ r.lease = "expired"

RecoveryMatches(s, next) ==
    LET r == job[s.job]
    IN /\ r.attempt = s.attempt /\ r.rev = s.rev
       /\ r.status \in LeaseHolding /\ r.lease = "expired"
       /\ next = "queued" => ~overdue[s.job]

\* Mutation: a session is enough to be resumed.
ResumableWithSession(s, next) == next = "completion_unknown" /\ s.session

\* Only a job that was running and holds a session is resumed on its own.
ResumableAfterExpiry(s, next) ==
    next = "completion_unknown" /\ s.status = "running" /\ s.session

RecoverExpired(s) ==
    LET j    == s.job
        next == RecoveryOutcome(s)
    IN /\ s \in scan
       /\ scan' = scan \ {s}
       /\ IF RecoveryMatches(s, next) /\ SettleAllowed(j, next)
          THEN /\ job' = [job EXCEPT ![j].status = next, ![j].rev = @ + 1,
                                     ![j].owner = NoWorker, ![j].lease = "none"]
               /\ task' = [task EXCEPT ![j] = Settled(j, next)]
               /\ available' = {a \in available : a[1] # j}
               /\ resume' = IF ResumableAfterExpiry(s, next) THEN resume \cup {j} ELSE resume
          ELSE UNCHANGED <<rows, available, resume>>
       /\ UNCHANGED <<world, run, process, bound, history>>

-----------------------------------------------------------------------------
(* Reconciliation of a completion-unknown job: resume its CLI session. *)

BeginReconciliation(t, j) ==
    /\ job[j].status = "completion_unknown"
    /\ ~Busy(t)
    /\ job[j].attempt < MaxAttempts + MaxReconciles
    /\ job' = [job EXCEPT ![j].status = "reconciling", ![j].attempt = @ + 1,
                          ![j].rev = @ + 1, ![j].owner = t, ![j].lease = "live"]
    /\ run' = [run EXCEPT ![t] = [IdleRun EXCEPT
                 !.pc = "resuming", !.kind = "resume", !.job = j, !.hb = "on",
                 !.attempt = job[j].attempt + 1, !.rev = job[j].rev + 1]]
    /\ UNCHANGED <<task, world, scan, process, results, launches, cancelAsked>>

\* The operator names the revision it saw; a stale one changes nothing.
OperatorReconcile(t, j) ==
    /\ BeginReconciliation(t, j)
    /\ UNCHANGED <<resume, autoResumes>>

BackgroundReconcile(t, j) ==
    /\ j \in resume /\ phase # "cancelled"
    /\ resume' = resume \ {j}
    /\ BeginReconciliation(t, j)
    /\ autoResumes' = [autoResumes EXCEPT ![j] = @ + 1]

\* Reconcile finds the job in another status, or the context has ended.
BackgroundReconcileDropped(j) ==
    /\ j \in resume
    /\ job[j].status # "completion_unknown" \/ phase = "cancelled"
    /\ resume' = resume \ {j}
    /\ UNCHANGED <<rows, world, run, scan, process, results, history>>

-----------------------------------------------------------------------------
(* The surroundings: clock, workstream commands, shutdown, failure. *)

LeaseExpires(j) ==
    /\ job[j].lease = "live"
    /\ job' = [job EXCEPT ![j].lease = "expired"]
    /\ UNCHANGED <<task, world, run, scan, resume, process, results, history>>

TimeoutPasses(j) ==
    /\ job[j].status # "absent" /\ ~overdue[j]
    /\ overdue' = [overdue EXCEPT ![j] = TRUE]
    /\ UNCHANGED <<rows, ws, run, scan, resume, process, results, history>>

\* pause_workstream or block_workstream, resume or unblock, cancel or complete.
WorkstreamMoves(j) ==
    /\ j \in Linked
    /\ \/ ws[j] = "active" /\ ws' = [ws EXCEPT ![j] = "paused"]
       \/ ws[j] = "paused" /\ ws' = [ws EXCEPT ![j] = "active"]
       \/ ws[j] # "ended" /\ job[j].status # "absent" /\ ws' = [ws EXCEPT ![j] = "ended"]
    /\ UNCHANGED <<rows, overdue, run, scan, resume, process, results, history>>

StopAdmission ==
    /\ phase = "up" /\ faults < MaxFaults
    /\ phase' = "draining"
    /\ UNCHANGED <<rows, world, run, scan, resume, faults, results, history>>

CancelContexts ==
    /\ phase = "draining"
    /\ phase' = "cancelled"
    /\ run' = [t \in Workers |-> IF Busy(t) THEN [run[t] EXCEPT !.ctx = TRUE] ELSE run[t]]
    /\ UNCHANGED <<rows, world, scan, resume, faults, results, history>>

\* The process ends, at any point, and starts again: only rows survive.
Restart ==
    /\ faults < MaxFaults
    /\ faults' = faults + 1
    /\ phase' = "up"
    /\ run' = [t \in Workers |-> IdleRun]
    /\ scan' = {}
    /\ resume' = {}
    /\ UNCHANGED <<rows, world, results, history>>

\* A store call of a finishing goroutine fails; its error is dropped.
StoreFails(t) ==
    /\ phase = "up" /\ faults < MaxFaults
    /\ run[t].pc \in {"returned", "commit", "requeue"}
    /\ faults' = faults + 1
    /\ run' = [run EXCEPT ![t] = IdleRun]
    /\ UNCHANGED <<rows, world, scan, resume, phase, results, history>>

-----------------------------------------------------------------------------
Next ==
    \/ \E j \in Jobs :
         \/ Start(j) \/ RequestCancellation(j) \/ AbandonCompletionUnknown(j)
         \/ LeaseExpires(j) \/ TimeoutPasses(j) \/ WorkstreamMoves(j)
         \/ BackgroundReconcileDropped(j)
         \/ \E t \in Workers :
              ClaimNext(t, j) \/ OperatorReconcile(t, j) \/ BackgroundReconcile(t, j)
    \/ \E t \in Workers :
         \/ Execute(t) \/ PrepareFails(t) \/ BeginMark(t) \/ MarkSideEffectsPossible(t)
         \/ AssignExternalAgentSession(t) \/ MaterializeNativeResult(t) \/ RunReturns(t)
         \/ ReadBack(t) \/ Transition(t) \/ Requeue(t)
         \/ HeartbeatRead(t) \/ RenewLease(t) \/ HeartbeatStops(t) \/ StoreFails(t)
    \/ ListExpiredRunning \/ (\E s \in scan : RecoverExpired(s))
    \/ StopAdmission \/ CancelContexts \/ Restart

Spec == Init /\ [][Next]_vars
-----------------------------------------------------------------------------
(* Fairness.  The poll loop keeps polling, goroutines keep running, a CLI    *)
(* whose context ended is killed, deadlines arrive, a lease nobody renews    *)
(* lapses.  People are not fair: no cancellation, reconciliation, closure or *)
(* workstream command is assumed, nor that a CLI ends before its deadline.   *)

Attended(j) == \E t \in Workers : run[t].job = j /\ Held(t) /\ run[t].hb # "off"

LeaseLapses(j) == LeaseExpires(j) /\ ~Attended(j)
CLIStops(t)    == RunReturns(t) /\ (CtxDone(t) \/ run[t].pc # "cli")
ProcessEnds    == phase = "cancelled" /\ Restart

Fairness ==
    /\ \A t \in Workers :
         /\ WF_vars(Execute(t)) /\ WF_vars(PrepareFails(t) \/ BeginMark(t))
         /\ WF_vars(MarkSideEffectsPossible(t)) /\ WF_vars(CLIStops(t))
         /\ WF_vars(ReadBack(t)) /\ WF_vars(Transition(t)) /\ WF_vars(Requeue(t))
         /\ WF_vars(HeartbeatRead(t)) /\ WF_vars(RenewLease(t))
         /\ WF_vars(HeartbeatStops(t))
    /\ \A j \in Jobs :
         /\ WF_vars(LeaseLapses(j)) /\ WF_vars(TimeoutPasses(j))
         /\ WF_vars(BackgroundReconcileDropped(j))
         /\ SF_vars(\E t \in Workers : ClaimNext(t, j))
         /\ SF_vars(\E t \in Workers : BackgroundReconcile(t, j))
    /\ WF_vars(ListExpiredRunning) /\ WF_vars(\E s \in scan : RecoverExpired(s))
    /\ WF_vars(CancelContexts) /\ WF_vars(ProcessEnds)

FairSpec == Spec /\ Fairness

-----------------------------------------------------------------------------
(* Properties. *)

RowType == [status : JobStatus, attempt : Nat, rev : Nat,
            owner : Workers \cup {NoWorker}, lease : {"none", "live", "expired"},
            effects : BOOLEAN, session : BOOLEAN]

RunType == [pc : {"idle", "claimed", "preparing", "marking", "cli", "rendered",
                  "resuming", "returned", "commit", "requeue"},
            kind : {"run", "resume"}, job : Nat, attempt : Nat, rev : Nat,
            ctx : BOOLEAN, hb : {"off", "on", "live", "stale"}, seen : BOOLEAN,
            timedOut : BOOLEAN, sess : {"none", "assigned", "refused"},
            native : BOOLEAN, out : {"none", "ok", "error", "result"},
            next : JobStatus \cup {"none"}]

SnapshotType == [job : Jobs, status : LeaseHolding, attempt : Nat, rev : Nat,
                 effects : BOOLEAN, session : BOOLEAN]

\* Every variable has its type: rows, goroutines and listed snapshots.
TypeOK ==
    /\ job \in [Jobs -> RowType]
    /\ task \in [Jobs -> TaskStatus]
    /\ ws \in [Jobs -> {"active", "paused", "ended"}]
    /\ overdue \in [Jobs -> BOOLEAN]
    /\ run \in [Workers -> RunType]
    /\ \A t \in Workers : Busy(t) \/ run[t].hb # "off" => run[t].job \in Jobs
    /\ scan \subseteq SnapshotType
    /\ resume \subseteq Jobs
    /\ phase \in {"up", "draining", "cancelled"}
    /\ faults \in Nat
    /\ available \subseteq Jobs \X Nat
    /\ bound \in [Jobs -> Nat]
    /\ launches \in [Jobs -> Nat]
    /\ cancelAsked \in [Jobs -> BOOLEAN]
    /\ autoResumes \in [Jobs -> Nat]

\* No sequence of lost leases, retries, restarts and recoveries starts the CLI
\* of a job a second time.
AtMostOneLaunch == \A j \in Jobs : launches[j] <= 1

\* A job that waits to be run, or that its user is told was cancelled, never
\* started its CLI; one reported as uncertain really passed the mark.
StatusTellsEffects ==
    \A j \in Jobs :
      /\ job[j].status \in {"absent", "queued", "interrupted_safe", "cancelled"}
           => launches[j] = 0
      /\ job[j].status \in {"completion_unknown", "reconciling", "completed", "abandoned"}
           => job[j].effects

\* Retries stop at MaxAttempts, whichever of the three paths requeued the job.
RetryBudget ==
    \A j \in Jobs :
      /\ job[j].status = "queued" => job[j].attempt < MaxAttempts
      /\ job[j].status = "running" => job[j].attempt <= MaxAttempts

\* A completed job owns exactly the result produced for its final revision, and
\* no other job keeps a bound result.
ResultBinding ==
    \A j \in Jobs :
      IF job[j].status = "completed"
      THEN bound[j] = job[j].rev /\ <<j, bound[j]>> \notin available
      ELSE bound[j] = 0

\* While its workstream is open, a linked task shows the outcome of its job.
TaskAgreesWithJob ==
    \A j \in Jobs :
      task[j] # "none" /\ ws[j] # "ended" =>
        /\ job[j].status \in FinalStatus \cup {"completion_unknown"} => task[j] = TaskStatusFor(job[j].status)
        /\ task[j] \in {"completed", "failed", "cancelled"} => task[j] = job[j].status

\* The transaction that ends a job, whoever runs it, files its result and
\* settles its task: no crash, late writer or refused result leaves one without
\* the other.
OutcomeIsFiled == ResultBinding /\ TaskAgreesWithJob

\* A job is resumed without an operator at most once, and never after one of
\* its runs accepted a cancellation.
AutoResumeOnlyOnce ==
    \A j \in Jobs :
      /\ autoResumes[j] <= 1
      /\ j \in resume => autoResumes[j] = 0
      /\ j \in resume \/ autoResumes[j] = 1 => ~cancelAsked[j]

\* A final row is never written again by a late worker, recovery or operator.
FinalSticks ==
    [][\A j \in Jobs : job[j].status \in FinalStatus =>
         job'[j].status = job[j].status /\ job'[j].rev = job[j].rev]_vars

\* Once a running job accepted a cancellation it only ends as cancelled or as
\* uncertain: no stale decision completes it, fails it or puts it back.
CancelIsRespected ==
    [][\A j \in Jobs : job[j].status = "cancel_requested" =>
         job'[j].status \in {"cancel_requested", "cancelled", "completion_unknown"}]_vars

\* What a row says for good stays said, whatever an old goroutine or an old
\* snapshot still wants to write.
NoStaleWrite == FinalSticks /\ CancelIsRespected

\* Every admitted job comes to rest, through restarts and failed writes.
Resting == FinalStatus \cup {"completion_unknown", "interrupted_safe"}
EventuallyRests ==
    \A j \in Jobs :
      job[j].status \in LeaseHolding \cup {"queued"} ~> job[j].status \in Resting

-----------------------------------------------------------------------------
(* Refinement: leases, retries, recovery and reconciliation implement a job *)
(* that acts on the outside world at most once.                             *)

StageOf(s) ==
    CASE s \in {"queued", "interrupted_safe"}        -> "waiting"
      [] s \in {"running", "cancel_requested"}       -> "active"
      [] s \in {"completion_unknown", "reconciling"} -> "uncertain"
      [] OTHER                                       -> s

OneShot == INSTANCE OneShotJob WITH
    stage <- [j \in Jobs |-> StageOf(job[j].status)],
    ran   <- [j \in Jobs |-> job[j].effects]

\* Every step of the store and its goroutines is a step of a one-shot job, or
\* changes nothing its user can see.
ImplementsOneShot == OneShot!Spec


-----------------------------------------------------------------------------
(* Statements of the repository that the code does not keep. *)

\* "A completion-unknown job holds none [no lease]", the comment on
\* AbandonCompletionUnknown; Transition keeps owner and expiry of the row.
UnknownHoldsNoLease ==
    \A j \in Jobs : job[j].status = "completion_unknown" =>
      job[j].owner = NoWorker /\ job[j].lease = "none"

\* "recoverExpired returns every job whose lease expired to a resting status":
\* a worker that dies between the two Transitions of a safe retry leaves its
\* lease to expire on a row that neither the recovery nor the claim looks for.
InterruptedIsRetried ==
    \A j \in Jobs :
      job[j].status = "interrupted_safe" ~> job[j].status # "interrupted_safe"

\* The same comment, for a cancelled job with a running workstream task: no
\* table entry leads from running to cancelled, so every attempt to settle the
\* task rolls the cancellation back.
CancellationRests ==
    \A j \in Jobs : job[j].status = "cancel_requested" ~> job[j].status \in Resting

\* "a job left completion_unknown after a crash is resumable instead of stuck"
\* (release notes): a reconciliation that still holds its lease and brings a
\* result back completes the job.
ResumedResultIsKept ==
    [][\A t \in Workers :
         run[t].pc = "commit" /\ run[t].kind = "resume" /\ run[t].out = "ok"
           /\ Live(t) /\ run'[t].pc = "idle" /\ faults' = faults
         => job'[run[t].job].status = "completed"]_vars

\* "interrupted after external actions may have occurred. It was not retried",
\* the text of the completion_unknown notification.
UncertainWasNotRetried ==
    \A j \in Jobs : job[j].status = "completion_unknown" => launches[j] <= 1
=============================================================================

------------------------------ MODULE Summaries ------------------------------
(***************************************************************************)
(* One durable ADK session and the summaries made of it in the background. *)
(*                                                                         *)
(* A driver (one at a time: OneDriver of module Turns) appends the events  *)
(* of human turns, of tool calls and of confirmations, and asks for a      *)
(* summary after every turn it answered.  The worker of contextsummary     *)
(* claims a job of the durable queue, reads the events, groups them into   *)
(* turns and folds the closed ones that left the recent window into the    *)
(* one summary of the session.  The driver goes on meanwhile, and the      *)
(* process may stop between any two steps.                                 *)
(***************************************************************************)
EXTENDS Integers, Sequences, FiniteSets, FiniteSetsExt

CONSTANTS
  ToolCall,      \* identities of the function calls of the session
  RecentTurns,   \* closed turns that stay out of a summary
  MaxSourceTurns,\* turns one summary request carries at most
  MaxAttempts,   \* claims of one job (maxSummaryAttempts)
  MaxEvents,     \* bound: events of the session
  Floor,         \* SummaryDiscoveryTargetFloor: above every ordinal
  MaxFaults,     \* bound: failures of the model, the summarizer, a write
  MaxRestarts    \* bound: restarts of the process

ASSUME SummariesAssumption ==
  /\ {RecentTurns, MaxSourceTurns, MaxAttempts} \subseteq Nat \ {0}
  /\ {MaxEvents, Floor, MaxFaults, MaxRestarts} \subseteq Nat
  /\ Floor > MaxEvents

VARIABLES
  events,   \* adk_events of the session, in the order of their ordinals
  epoch,    \* head of context_epochs: its number and the ordinal it covers
  capsule,  \* continuity_capsules: revision and the ordinal it covers
  driver,   \* what the turn in progress does next, and the call it is at
  summary,  \* adk_context_summaries: the ordinal covered and what was read
  jobs,     \* adk_context_summary_jobs: target -> status and attempts
  worker,   \* the claimed job and what the worker has read
  requested,\* events there were when the last accepted request was made
  seen,     \* events there were when a discovery last read the session
  owed,     \* the turn the last accepted request was made for
  faults, restarts

ledger == <<events, epoch, capsule>>
queue  == <<summary, jobs, worker, seen>>
summariesVars == <<ledger, driver, queue, requested, owed, faults, restarts>>

Kinds == {"user", "call", "placeholder", "ask", "answer", "result", "text"}
NoId == "none"
Event(kind, id) == [kind |-> kind, id |-> id]

(***************************************************************************)
(* Turns: what the events of a session mean.                               *)
(***************************************************************************)
Has(ev, kind, id) == \E i \in DOMAIN ev : ev[i] = Event(kind, id)
Made(ev) == {id \in ToolCall : Has(ev, "call", id)}

\* Responses to the call itself: a placeholder, a result, or one of each.
Responses(ev, id) ==
  Cardinality({i \in DOMAIN ev : ev[i].id = id /\ ev[i].kind \in {"placeholder", "result"}})

\* A call stays open until its result; one that waits for a confirmation
\* until both the decision and the result are there.
CallOpen(ev, id) ==
  \/ Has(ev, "ask", id) /\ ~Has(ev, "answer", id)
  \/ Has(ev, "ask", id) /\ Responses(ev, id) < 2
  \/ ~Has(ev, "ask", id) /\ (\/ Responses(ev, id) = 0
                             \/ Responses(ev, id) = 1 /\ Has(ev, "placeholder", id))

\* The rules of the protocol scan for an event that follows others.
Legal(before, e) ==
  CASE e.kind \in {"user", "text"} -> TRUE
    [] e.kind = "call" -> ~Has(before, "call", e.id)
    [] e.kind = "placeholder" -> Has(before, "call", e.id) /\ Responses(before, e.id) = 0
    [] e.kind = "ask" -> /\ Has(before, "placeholder", e.id)
                         /\ Responses(before, e.id) = 1
                         /\ ~Has(before, "ask", e.id)
    [] e.kind = "answer" -> Has(before, "ask", e.id) /\ ~Has(before, "answer", e.id)
    [] e.kind = "result" -> /\ Has(before, "call", e.id)
                            /\ \/ Responses(before, e.id) = 0
                               \/ Responses(before, e.id) = 1 /\ Has(before, "answer", e.id)

ValidLedger(ev) == \A i \in DOMAIN ev : Legal(SubSeq(ev, 1, i - 1), ev[i])

\* A turn starts at a text of the user.
Starts(ev) == {i \in DOMAIN ev : ev[i].kind = "user"}
Ordinal(ev, i) == Cardinality(Starts(ev) \cap 1..i)
TurnContents(ev, k) == Restrict(ev, {i \in DOMAIN ev : Ordinal(ev, i) = k})
CallTurn(ev, id) == Ordinal(ev, CHOOSE i \in DOMAIN ev : ev[i] = Event("call", id))

\* The active suffix starts with the oldest turn that has an open call.
ActiveTurn(ev) ==
  Min({Cardinality(Starts(ev))} \union {CallTurn(ev, id) : id \in {c \in Made(ev) : CallOpen(ev, c)}})

\* A confirmation asked in turn k without a decision in turn k.
HasOpenConfirmation(ev, k) ==
  \E id \in Made(ev) : /\ CallTurn(ev, id) = k /\ Has(ev, "ask", id)
                       /\ \A i \in DOMAIN ev : ev[i] = Event("answer", id) => Ordinal(ev, i) # k

FinalText(ev) == ev # <<>> /\ ev[Len(ev)].kind = "text"

ClosedTurn(ev, k) ==
  IF k = Cardinality(Starts(ev))
  THEN FinalText(ev) /\ ~HasOpenConfirmation(ev, k)
  ELSE k # ActiveTurn(ev)

\* The ordinals of the turns a summary may read, in their order.
ClosedTurns(ev, after, through) ==
  {k \in 1..Cardinality(Starts(ev)) : /\ ClosedTurn(ev, k) /\ ~HasOpenConfirmation(ev, k)
                                      /\ after < k /\ k <= through}

Nth(turns, n) == CHOOSE k \in turns : Cardinality({t \in turns : t <= k}) = n

\* The newest closed turn but RecentTurns, or what is covered already.
DiscoveryTarget(ev, covered) ==
  LET turns == ClosedTurns(ev, covered, Floor)
  IN  IF Cardinality(turns) <= RecentTurns THEN covered
      ELSE Nth(turns, Cardinality(turns) - RecentTurns)

\* Variant: the turns need not follow what is covered.
ContiguousOrNot(turns, covered, target) == turns # {}
Contiguous(turns, covered, target) == target > covered /\ turns = covered + 1 .. target

(***************************************************************************)
(* The durable queue of summary jobs.                                      *)
(***************************************************************************)
Row(status, attempts) == [status |-> status, attempts |-> attempts]
WaitingRows == {t \in DOMAIN jobs : jobs[t].status \in {"pending", "failed"}}
Live    == {t \in WaitingRows : jobs[t].attempts < MaxAttempts}
IsDiscovery(t) == t >= Floor
With(rows, t, row) == [x \in DOMAIN rows \union {t} |-> IF x = t THEN row ELSE rows[x]]
Without(rows, gone) == [x \in DOMAIN rows \ gone |-> rows[x]]

Coalesced(target) == Live # {} /\ Max(Live) >= target

\* Variant: a marker that is in use makes the request vanish.
ScheduledUnlessUsed(target) ==
  LET kept == Without(jobs, WaitingRows)
  IN  IF target \notin DOMAIN kept THEN With(kept, target, Row("pending", 0)) ELSE jobs

\* The row of a new request: the marker itself, or the next one above every
\* target of the session when a running or finished discovery holds it.
Scheduled(target) ==
  LET kept == Without(jobs, WaitingRows)
  IN  IF target \notin DOMAIN kept THEN With(kept, target, Row("pending", 0))
      ELSE IF IsDiscovery(target)
           THEN With(kept, Max(DOMAIN kept) + 1, Row("pending", 0))
           ELSE jobs

ScheduleSummaryJob(target) == jobs' = IF Coalesced(target) THEN jobs ELSE Scheduled(target)

(***************************************************************************)
(* The driver of the session.                                              *)
(***************************************************************************)
NoDriver == [at |-> "idle", id |-> NoId]
Driver(at, id) == driver' = [at |-> at, id |-> id]
Room == Len(events) < MaxEvents
AppendEvent(kind, id) == events' = Append(events, Event(kind, id))
Fault == faults < MaxFaults /\ faults' = faults + 1

\* Ordinals of events start at zero; -1 is the head of an empty session.
LatestEventOrdinal(ev) == Len(ev) - 1

\* An epoch follows the head its writer read, and never covers less.
AppendEpoch(expected, covered) ==
  /\ expected = epoch.number /\ covered >= epoch.covered
  /\ covered <= LatestEventOrdinal(events)
  /\ epoch' = [number |-> expected + 1, covered |-> covered]

\* Every complete answer of the model records an epoch up to the event head.
RecordEpoch == AppendEpoch(epoch.number, LatestEventOrdinal(events))

\* The next revision of the capsule, about events that are stored.
CommitCapsule(expected, covered) ==
  /\ expected = capsule.revision /\ covered <= LatestEventOrdinal(events')
  /\ capsule' = [revision |-> expected + 1, covered |-> covered]

\* A turn that ended without a confirmation rewrites the capsule; a failure
\* is counted and the turn goes on.
UpdateContinuity == CommitCapsule(capsule.revision, LatestEventOrdinal(events'))

\* A message of a person: the session is created with its first event.
Run ==
  /\ driver.at = "idle" /\ Room
  /\ AppendEvent("user", NoId) /\ Driver("model", NoId)
  /\ UNCHANGED <<epoch, capsule, queue, requested, owed, faults, restarts>>

\* The decision about a confirmation, which nobody gives twice (DecidedOnce
\* of module Turns); turns may have come in between.
ResumeRun(id) ==
  /\ driver.at = "idle" /\ Room
  /\ Has(events, "ask", id) /\ ~Has(events, "answer", id)
  /\ AppendEvent("answer", id) /\ Driver("result", id)
  /\ UNCHANGED <<epoch, capsule, queue, requested, owed, faults, restarts>>

ModelAnswers ==
  /\ driver.at = "model" /\ Room
  /\ AppendEvent("text", NoId) /\ RecordEpoch
  /\ \/ UpdateContinuity /\ UNCHANGED faults
     \/ Fault /\ UNCHANGED capsule
  /\ Driver("schedule", NoId)
  /\ UNCHANGED <<queue, requested, owed, restarts>>

ModelCalls(id) ==
  /\ driver.at = "model" /\ Room
  /\ id \notin Made(events)
  /\ AppendEvent("call", id) /\ RecordEpoch /\ Driver("tool", id)
  /\ UNCHANGED <<capsule, queue, requested, owed, faults, restarts>>

\* The model or the record of the epoch fails: the turn ends unanswered.
ModelFails ==
  /\ driver.at = "model" /\ Fault
  /\ driver' = NoDriver
  /\ UNCHANGED <<ledger, queue, requested, owed, restarts>>

\* A tool returns, or says that it needs a confirmation, which is asked next.
ToolReturns ==
  /\ driver.at \in {"tool", "result"} /\ Room
  /\ AppendEvent("result", driver.id) /\ Driver("model", NoId)
  /\ UNCHANGED <<epoch, capsule, queue, requested, owed, faults, restarts>>

ToolNeedsConfirmation ==
  /\ driver.at = "tool" /\ Room
  /\ AppendEvent("placeholder", driver.id) /\ Driver("ask", driver.id)
  /\ UNCHANGED <<epoch, capsule, queue, requested, owed, faults, restarts>>

Ask ==
  /\ driver.at = "ask" /\ Room
  /\ AppendEvent("ask", driver.id) /\ driver' = NoDriver
  /\ UNCHANGED <<epoch, capsule, queue, requested, owed, faults, restarts>>

\* The answer was delivered: ask for a summary, or lose the request to an
\* error that is only logged.
ScheduleConversation ==
  /\ driver.at = "schedule"
  /\ driver' = NoDriver
  /\ \/ /\ ScheduleSummaryJob(Floor)
        /\ requested' = Len(events)
        /\ owed' = Max({0, Cardinality(Starts(events)) - RecentTurns})
        /\ UNCHANGED faults
     \/ Fault /\ UNCHANGED <<jobs, requested, owed>>
  /\ UNCHANGED <<ledger, summary, worker, seen, restarts>>

(***************************************************************************)
(* The worker.                                                             *)
(***************************************************************************)
Resting == [at |-> "idle", job |-> 0, attempts |-> 0, target |-> 0, upto |-> 0, read |-> <<>>]
Worker(at) == worker' = [worker EXCEPT !.at = at]

\* Variant: one claim too many.
ClaimableOnceMore(t) == jobs[t].status # "done" /\ jobs[t].attempts <= MaxAttempts
\* Any row whose time has come; a running one is what a dead claim left.
Claimable(t) == jobs[t].status # "done" /\ jobs[t].attempts < MaxAttempts

ClaimSummaryJob(t) ==
  /\ worker.at = "idle" /\ t \in DOMAIN jobs /\ Claimable(t)
  /\ jobs' = [jobs EXCEPT ![t] = Row("running", @.attempts + 1)]
  /\ worker' = [Resting EXCEPT !.at = IF IsDiscovery(t) THEN "discover" ELSE "read",
                               !.job = t, !.target = t, !.attempts = jobs[t].attempts + 1]
  /\ UNCHANGED <<ledger, driver, summary, seen, requested, owed, faults, restarts>>

\* First read of the session: how far a summary may go now.
ResolveDiscoveryTarget ==
  /\ worker.at = "discover"
  /\ seen' = Len(events)
  /\ LET target == DiscoveryTarget(events, summary.covered)
     IN  IF ~ValidLedger(events) THEN Worker("retry")
         ELSE IF target <= summary.covered THEN Worker("complete")
         ELSE worker' = [worker EXCEPT !.at = "read", !.target = target]
  /\ UNCHANGED <<ledger, driver, summary, jobs, requested, owed, faults, restarts>>

\* Second read: the turns themselves.  The batch is the beginning that the
\* limits on turns and on the size of the prompt admit; as the turns follow
\* each other, the i-th of them is i beyond what is covered.
ReadTurns ==
  /\ worker.at = "read"
  /\ LET turns == ClosedTurns(events, summary.covered, worker.target)
     IN  IF ~ValidLedger(events) \/ ~Contiguous(turns, summary.covered, worker.target)
         THEN Worker("retry")
         ELSE \E n \in 1..Min({Cardinality(turns), MaxSourceTurns}) :
                worker' = [worker EXCEPT
                  !.at = "commit", !.upto = Nth(turns, n),
                  !.read = [i \in 1..n |-> TurnContents(events, summary.covered + i)]]
  /\ UNCHANGED <<ledger, driver, summary, jobs, seen, requested, owed, faults, restarts>>

\* A read, the summarizer or a check of its text fails.
WorkFails ==
  /\ worker.at \in {"discover", "read", "commit"} /\ Fault
  /\ Worker("retry")
  /\ UNCHANGED <<ledger, driver, summary, jobs, seen, requested, owed, restarts>>

\* The summarizer answered; its text replaces the summary it was given.
CommitSummary ==
  /\ worker.at = "commit"
  /\ summary' = [covered |-> worker.upto, source |-> summary.source \o worker.read]
  /\ Worker("complete")
  /\ UNCHANGED <<ledger, driver, jobs, seen, requested, owed, faults, restarts>>

SettleRow(status) ==
  jobs' = IF jobs[worker.job] = Row("running", worker.attempts)
          THEN [jobs EXCEPT ![worker.job].status = status] ELSE jobs

Rest == worker.upto > 0 /\ worker.upto < worker.target

\* Variant: what the batch left is forgotten.
CompleteSummaryJobOnly ==
  /\ worker.at = "complete"
  /\ SettleRow("done")
  /\ worker' = Resting
  /\ UNCHANGED <<ledger, driver, summary, seen, requested, owed, faults, restarts>>

\* The row is done; what the batch left is asked for in a further step.
CompleteSummaryJob ==
  /\ worker.at = "complete"
  /\ SettleRow("done")
  /\ worker' = IF Rest THEN [worker EXCEPT !.at = "rest"] ELSE Resting
  /\ UNCHANGED <<ledger, driver, summary, seen, requested, owed, faults, restarts>>

\* A row of the same target that is done already refuses the new one.
ScheduleRest ==
  /\ worker.at = "rest"
  /\ ScheduleSummaryJob(worker.target)
  /\ owed' = IF jobs' = jobs /\ ~Coalesced(worker.target) THEN 0 ELSE owed
  /\ worker' = Resting
  /\ UNCHANGED <<ledger, driver, summary, seen, requested, faults, restarts>>

FailSummaryJob ==
  /\ worker.at = "retry"
  /\ SettleRow("failed")
  /\ worker' = Resting
  /\ UNCHANGED <<ledger, driver, summary, seen, requested, owed, faults, restarts>>

\* A write about the job fails: the row stays running until it is stale, or
\* the rest is not asked for.
WriteFails ==
  /\ worker.at \in {"complete", "rest", "retry"} /\ Fault
  /\ owed' = IF worker.at = "rest" THEN 0 ELSE owed
  /\ worker' = Resting
  /\ UNCHANGED <<ledger, driver, summary, jobs, seen, requested, restarts>>

(***************************************************************************)
(* The process stops and starts again.                                     *)
(***************************************************************************)
Restart ==
  /\ restarts < MaxRestarts /\ restarts' = restarts + 1
  /\ driver' = NoDriver /\ worker' = Resting
  /\ owed' = IF worker.at = "rest" \/ (worker.at = "complete" /\ Rest) THEN 0 ELSE owed
  /\ UNCHANGED <<ledger, summary, jobs, seen, requested, faults>>

SummariesInit ==
  /\ events = <<>>
  /\ epoch = [number |-> 0, covered |-> -1]
  /\ capsule = [revision |-> 0, covered |-> -1]
  /\ driver = NoDriver
  /\ summary = [covered |-> 0, source |-> <<>>]
  /\ jobs = <<>>
  /\ worker = Resting
  /\ requested = 0 /\ seen = 0 /\ owed = 0 /\ faults = 0 /\ restarts = 0

DriverStep ==
  \/ Run \/ ModelAnswers \/ ModelFails \/ ToolReturns \/ ToolNeedsConfirmation \/ Ask
  \/ ScheduleConversation
  \/ \E id \in ToolCall : ResumeRun(id) \/ ModelCalls(id)

WorkerStep ==
  \/ \E t \in DOMAIN jobs : ClaimSummaryJob(t)
  \/ ResolveDiscoveryTarget \/ ReadTurns \/ CommitSummary
  \/ CompleteSummaryJob \/ ScheduleRest \/ FailSummaryJob

SummariesNext == DriverStep \/ WorkerStep \/ WorkFails \/ WriteFails \/ Restart

\* The worker's loop goes on as long as the process runs.  Nobody has to
\* write, and a driver may stop anywhere.
SummariesSpec == SummariesInit /\ [][SummariesNext]_summariesVars /\ WF_summariesVars(WorkerStep)

(***************************************************************************)
(* Properties.                                                             *)
(***************************************************************************)
\* The state has its type; no row is claimed more often than allowed, and
\* epoch and capsule cover events of the session.
SummariesTypeOK ==
  /\ events \in Seq([kind : Kinds, id : ToolCall \union {NoId}]) /\ Len(events) <= MaxEvents
  /\ ValidLedger(events)
  /\ epoch.number \in Nat /\ epoch.covered \in -1 .. Len(events) - 1
  /\ capsule.revision \in Nat /\ capsule.covered \in -1 .. Len(events) - 1
  /\ capsule.revision > 0 => events[capsule.covered + 1].kind = "text"
  /\ driver.at \in {"idle", "model", "tool", "ask", "result", "schedule"}
  /\ driver.id \in ToolCall \union {NoId}
  /\ summary.covered \in 0 .. Cardinality(Starts(events))
  /\ \A t \in DOMAIN jobs : /\ t \in Nat \ {0}
                            /\ jobs[t].status \in {"pending", "running", "failed", "done"}
                            /\ jobs[t].attempts \in 0 .. MaxAttempts
  /\ worker.at \in {"idle", "discover", "read", "commit", "complete", "rest", "retry"}
  /\ {requested, seen} \subseteq 0 .. Len(events) /\ owed \in Nat
  /\ faults \in 0 .. MaxFaults /\ restarts \in 0 .. MaxRestarts

\* The summary of a session was made of every turn it says it covers, each
\* read once, in order and complete: no later event ever belongs to a turn
\* that was summarised, and no turn was skipped.
SummaryIsFaithful ==
  /\ Len(summary.source) = summary.covered
  /\ \A k \in 1 .. summary.covered : summary.source[k] = TurnContents(events, k)

Exhausted == \E t \in DOMAIN jobs : jobs[t].attempts = MaxAttempts /\ jobs[t].status # "done"

\* A request that was accepted is never lost: until some discovery has read
\* the session as it was then, a discovery waits, runs or was given up.
RequestIsKept ==
  requested > seen =>
    \/ \E t \in DOMAIN jobs : IsDiscovery(t) /\ Claimable(t)
    \/ worker.at = "discover"
    \/ Exhausted

\* A turn that stays out of summaries keeps every later turn out.
Stuck == \E k \in 1 .. owed : ~ClosedTurn(events, k) \/ HasOpenConfirmation(events, k)

\* The summary reaches the turns it was asked to reach: in the end it covers
\* every turn that was outside the recent window at the last request, in as
\* many batches as it takes, unless a turn is open, an attempt was the last
\* one, or the request for the rest of a batch was lost.
CatchesUp == owed > summary.covered ~> owed <= summary.covered \/ Stuck \/ Exhausted

\* What the test of large sources says: a summary that stops short of its
\* target leaves a job for the remainder.
RemainderIsScheduled ==
  [][worker.at = "rest" /\ faults' = faults /\ restarts' = restarts /\ worker' = Resting
       => \E t \in DOMAIN jobs' : t >= worker.target /\ jobs'[t].status \in {"pending", "failed"}]_summariesVars

\* What the comment of ConversationTurnsFromEvents says: the turns kept out
\* are those with an unresolved confirmation.
IneligibleIsUnresolved ==
  \A k \in 1 .. Cardinality(Starts(events)) :
    HasOpenConfirmation(events, k) =>
      \E id \in Made(events) : /\ CallTurn(events, id) = k
                               /\ Has(events, "ask", id) /\ ~Has(events, "answer", id)
=============================================================================

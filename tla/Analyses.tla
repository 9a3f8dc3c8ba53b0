------------------------------ MODULE Analyses ------------------------------
(***************************************************************************)
(* Result analyses: the durable step queue of sqlite's analysis stores and *)
(* the worker of resultanalysis that drives it.  A source is cut into      *)
(* segments; a leaf step summarises each, reduction steps combine the      *)
(* summaries, and the root's packet completes the analysis.  One worker    *)
(* ticks through the active analyses; the steps of the analysis at hand    *)
(* run in goroutines, each under a lease that a slow model call outlives.  *)
(*                                                                         *)
(* Simplifications: all analyses are of one source with one set of limits  *)
(* and differ in their objective, so their segments are the same.  What a  *)
(* model call returns is named by the claim that made it, and a summary    *)
(* cites one excerpt of its segment or none.  Attempts are left out: the   *)
(* only retry, for want of a model-call permit, consumes none.             *)
(***************************************************************************)
EXTENDS Integers, FiniteSets

CONSTANTS
  Analysis,      \* analysis IDs, one for each objective asked of the source
  Leaves,        \* segments of the source
  Citing,        \* segments whose summaries cite an excerpt
  FanIn,         \* limits.MaxReductionFanIn
  Concurrency,   \* limits.MaxConcurrentLeaves
  None,          \* no analysis
  MaxFaults,     \* bound: failed store and source calls, exhausted permits, late leases
  MaxRestarts    \* bound: process restarts

ASSUME LeavesAssumption == Leaves \in Nat \ {0}
ASSUME CitingAssumption == Citing \subseteq 0..Leaves - 1
ASSUME FanInAssumption == FanIn \in Nat \ {0, 1}
ASSUME BoundsAssumption == /\ Concurrency \in Nat \ {0}
                           /\ MaxFaults \in Nat /\ MaxRestarts \in Nat
ASSUME NoneAssumption == None \notin Analysis

VARIABLES
  analysis,    \* the state of each analysis row
  overdue,     \* analyses whose wall time has passed
  manifest,    \* analyses whose segments are stored
  step,        \* the step rows
  evidence,    \* the analysis that owns the excerpt of each segment
  published,   \* the packet of each analysis' representation; 0 for none
  worker,      \* where the worker's goroutine is
  runs,        \* the goroutines of the steps it claimed
  faults, restarts

rows == <<analysis, manifest, step, evidence, published>>
bounds == <<faults, restarts>>
vars == <<rows, overdue, worker, runs, bounds>>

-----------------------------------------------------------------------------
\* The step tree: the leaves, then groups of FanIn of the level below until
\* one step is left; a single leaf still gets a reduction.

Size[level \in 0..Leaves] ==
  IF level = 0 THEN Leaves ELSE (Size[level - 1] + FanIn - 1) \div FanIn

Depth == CHOOSE d \in 1..Leaves :
           Size[d] = 1 /\ \A e \in 1..Leaves : Size[e] = 1 => d <= e

Step == UNION {{level} \X (0..Size[level] - 1) : level \in 0..Depth}

Leaf == {s \in Step : s[1] = 0}

Cites(s) == s \in Leaf /\ s[2] \in Citing

Root == <<Depth, 0>>

Children == [s \in Step |->
  IF s \in Leaf THEN {} ELSE {c \in Step : c[1] = s[1] - 1 /\ c[2] \div FanIn = s[2]}]

Precedes(s, t) == s[1] < t[1] \/ (s[1] = t[1] /\ s[2] <= t[2])

\* The order in which PrepareSteps inserts the steps; step_id lists them in the
\* same one while a level has at most ten.
IsFirst(s, S) == s \in S /\ \A t \in S : Precedes(s, t)

-----------------------------------------------------------------------------
Active == {"preparing", "running"}

NoPayload == [by |-> 0, of |-> {}]

\* A step row.  "lease" tells its claims apart, as lease_until does: a claim
\* is made only when the earlier one has ended.  "ripe": the time it waits for
\* has passed, the next attempt of a prepared row or the lease of a claimed one.
Row(state, lease, ripe) ==
  [state |-> state, lease |-> lease, ripe |-> ripe, payload |-> NoPayload, digest |-> 0]

Resting == [at |-> "idle", on |-> None, todo |-> {}, left |-> {}]

Init ==
  /\ analysis = [a \in Analysis |-> "none"]
  /\ overdue = {}
  /\ manifest = {}
  /\ step = [a \in Analysis |-> [s \in Step |-> Row("none", 0, FALSE)]]
  /\ evidence = [s \in Leaf |-> None]
  /\ published = [a \in Analysis |-> 0]
  /\ worker = Resting
  /\ runs = {}
  /\ faults = 0
  /\ restarts = 0

\* A call fails; the bound counts it.
Fault == faults < MaxFaults /\ faults' = faults + 1 /\ UNCHANGED restarts

-----------------------------------------------------------------------------
\* RequestAnalysis: the row of the same source and objective is created once.
Request(a) ==
  /\ worker.at # "down"
  /\ analysis[a] = "none"
  /\ analysis' = [analysis EXCEPT ![a] = "preparing"]
  /\ UNCHANGED <<overdue, manifest, step, evidence, published, worker, runs, bounds>>

\* AnalysisStore.Fail: an active row fails; any other answer is only logged.
Failed(a) == IF analysis[a] \in Active THEN [analysis EXCEPT ![a] = "failed"] ELSE analysis

\* The worker's goroutine, on the analysis at hand, goes on with the next part.
Go(at) == worker' = [worker EXCEPT !.at = at, !.left = {}]

\* processAnalysis returns to the loop of the tick.
Return == worker' = [worker EXCEPT !.at = "list", !.on = None, !.left = {}]

\* tick: a page of the active analyses, each processed once.
Tick ==
  /\ worker.at = "idle"
  /\ \E a \in Analysis : analysis[a] \in Active
  /\ worker' = [worker EXCEPT !.at = "list", !.todo = {a \in Analysis : analysis[a] \in Active}]
  /\ UNCHANGED <<rows, overdue, runs, bounds>>

EndTick ==
  /\ worker.at = "list" /\ worker.todo = {}
  /\ worker' = Resting
  /\ UNCHANGED <<rows, overdue, runs, bounds>>

\* Mutation: the wall time is never looked at.
NeverLate(a) == FALSE
Late(a) == a \in overdue

\* processAnalysis: the wall time decides first.
Process(a) ==
  /\ worker.at = "list" /\ a \in worker.todo
  /\ IF Late(a)
     THEN /\ analysis' = Failed(a)
          /\ worker' = [worker EXCEPT !.todo = @ \ {a}]
     ELSE /\ worker' = [worker EXCEPT !.todo = @ \ {a}, !.on = a, !.at = "prepare"]
          /\ UNCHANGED analysis
  /\ UNCHANGED <<overdue, manifest, step, evidence, published, runs, bounds>>

\* ensurePrepared: with segments stored the steps are, too; without, the
\* source is read and cut, and its steps are inserted one transaction each.
Prepare(a) ==
  /\ worker.at = "prepare" /\ worker.on = a
  /\ IF a \in manifest THEN Go("mark")
                       ELSE worker' = [worker EXCEPT !.at = "insert", !.left = Step]
  /\ UNCHANGED <<rows, overdue, runs, bounds>>

\* BuildManifest cannot read the source, or finds another digest: the analysis
\* fails, and the tick goes on with it.
CannotPrepare(a) ==
  /\ worker.at = "prepare" /\ worker.on = a /\ a \notin manifest
  /\ Fault
  /\ analysis' = Failed(a)
  /\ Go("drain")
  /\ UNCHANGED <<overdue, manifest, step, evidence, published, runs>>

\* Steps.Prepare inserts the next step; a reduction needs children.  The
\* insertion of one an earlier tick left behind fails, and the analysis waits
\* for the next tick.
InsertStep(a) ==
  /\ worker.at = "insert" /\ worker.on = a
  /\ \E s \in worker.left :
       /\ IsFirst(s, worker.left)
       /\ IF step[a][s].state = "none" /\ (s \in Leaf \/ Children[s] # {})
          THEN /\ step' = [step EXCEPT ![a][s] = Row("prepared", 0, TRUE)]
               /\ worker' = [worker EXCEPT !.left = @ \ {s}]
          ELSE Return /\ UNCHANGED step
  /\ UNCHANGED <<analysis, overdue, manifest, evidence, published, runs, bounds>>

WriteManifest(a) ==
  /\ worker.at = "insert" /\ worker.on = a /\ worker.left = {}
  /\ manifest' = manifest \union {a}
  /\ Go("mark")
  /\ UNCHANGED <<analysis, overdue, step, evidence, published, runs, bounds>>

\* The database fails while the analysis is being prepared.
PreparationFails(a) ==
  /\ worker.at \in {"prepare", "insert"} /\ worker.on = a
  /\ Fault
  /\ Return
  /\ UNCHANGED <<rows, overdue, runs>>

MarkRunning(a) ==
  /\ worker.at = "mark" /\ worker.on = a
  /\ analysis' = [analysis EXCEPT ![a] = IF @ = "preparing" THEN "running" ELSE @]
  /\ Go("drain")
  /\ UNCHANGED <<overdue, manifest, step, evidence, published, runs, bounds>>

\* A failed mark is only logged.
MarkFails(a) ==
  /\ worker.at = "mark" /\ worker.on = a
  /\ Fault
  /\ Go("drain")
  /\ UNCHANGED <<rows, overdue, runs>>

-----------------------------------------------------------------------------
\* ClaimNext: a prepared row whose next attempt is due, or a claimed row whose
\* lease has ended; a reduction only when all its children are completed.

\* Mutation: a claimed row is taken before its lease has ended.
DueOrClaimed(row) == (row.state = "prepared" /\ row.ripe) \/ row.state = "claimed"
Due(row) == row.state \in {"prepared", "claimed"} /\ row.ripe

Claimable(a) ==
  {s \in Step : /\ Due(step[a][s])
                /\ \A c \in Children[s] : step[a][c].state = "completed"}

Run(s, lease, at) == [s |-> s, lease |-> lease, at |-> at, of |-> {}]

Started == {r \in runs : r.at # "queued"}

\* drainAnalysis claims while there is something to claim; a claim made when
\* all places are taken waits for one, and the loop with it.
Claim(a) ==
  /\ worker.at = "drain" /\ worker.on = a
  /\ Started = runs
  /\ \E s \in Claimable(a) : LET lease == step[a][s].lease + 1 IN
       /\ IsFirst(s, Claimable(a))
       /\ step' = [step EXCEPT ![a][s] = [@ EXCEPT !.state = "claimed", !.lease = lease, !.ripe = FALSE]]
       /\ runs' = runs \union {Run(s, lease, "queued")}
  /\ UNCHANGED <<analysis, overdue, manifest, evidence, published, worker, bounds>>

Launch(r) ==
  /\ r.at = "queued" /\ Cardinality(Started) < Concurrency
  /\ runs' = (runs \ {r}) \union {[r EXCEPT !.at = "start"]}
  /\ UNCHANGED <<rows, overdue, worker, bounds>>

Drained(a) ==
  /\ worker.at = "drain" /\ worker.on = a
  /\ Started = runs
  /\ Claimable(a) = {}
  /\ Go("wait")
  /\ UNCHANGED <<rows, overdue, runs, bounds>>

\* A read before the loop, or a claim, fails.
DrainFails(a) ==
  /\ worker.at = "drain" /\ worker.on = a
  /\ Started = runs
  /\ Fault
  /\ Go("wait")
  /\ UNCHANGED <<rows, overdue, runs>>

\* wg.Wait.
Waited(a) ==
  /\ worker.at = "wait" /\ worker.on = a /\ runs = {}
  /\ Go("check")
  /\ UNCHANGED <<rows, overdue, runs, bounds>>

-----------------------------------------------------------------------------
\* The steps of a goroutine, each one store call of the analysis at hand.

\* Mutation: the claim is found by its step and generation alone.
HoldsStep(a, r) == step[a][r.s].state = "claimed"
Holds(a, r) == step[a][r.s].state = "claimed" /\ step[a][r.s].lease = r.lease

Advance(r, next) == runs' = (runs \ {r}) \union {next}
End(r) == runs' = runs \ {r}

\* Fail and Retry of the step store: nothing without the claim.
FailStep(a, r) ==
  step' = IF Holds(a, r) THEN [step EXCEPT ![a][r.s].state = "failed"] ELSE step

RetryStep(a, r) ==
  step' = IF Holds(a, r) THEN [step EXCEPT ![a][r.s] = [@ EXCEPT !.state = "prepared", !.ripe = FALSE]]
                         ELSE step

\* loadChildSummaries reads what the children stored.
LoadChildren(a, r) ==
  /\ r.at = "start" /\ r.s \notin Leaf
  /\ Advance(r, [r EXCEPT !.at = "model", !.of = {<<c, step[a][c].payload.by>> : c \in Children[r.s]}])
  /\ UNCHANGED <<rows, overdue, worker, bounds>>

\* runLeafStep reads its segment; a half-prepared analysis has none.
ReadSegment(a, r) ==
  /\ r.at = "start" /\ r.s \in Leaf
  /\ IF a \in manifest THEN Advance(r, [r EXCEPT !.at = "model"]) /\ UNCHANGED step
                       ELSE FailStep(a, r) /\ End(r)
  /\ UNCHANGED <<analysis, overdue, manifest, evidence, published, worker, bounds>>

\* AnalyzeLeaf and ResolveEvidence, or Reduce, give an output.
Analyze(r) ==
  /\ r.at = "model"
  /\ Advance(r, [r EXCEPT !.at = IF Cites(r.s) THEN "evidence" ELSE "payload"])
  /\ UNCHANGED <<rows, overdue, worker, bounds>>

\* The segment cannot be read, the output does not validate, or coverage is
\* incomplete: the step fails.  Children that cannot be read leave it claimed.
OutputInvalid(a, r) ==
  /\ r.at = "model" \/ (r.at = "start" /\ r.s \in Leaf)
  /\ Fault
  /\ FailStep(a, r) /\ End(r)
  /\ UNCHANGED <<analysis, overdue, manifest, evidence, published, worker>>

\* No model-call permit: the step waits for its next attempt.
NoPermit(a, r) ==
  /\ r.at = "model"
  /\ Fault
  /\ RetryStep(a, r) /\ End(r)
  /\ UNCHANGED <<analysis, overdue, manifest, evidence, published, worker>>

\* A timeout, or a store call that fails: the claim is left to its lease.
LeaveClaimed(r) ==
  /\ r.at # "queued"
  /\ Fault
  /\ End(r)
  /\ UNCHANGED <<rows, overdue, worker>>

\* AnalysisEvidenceStore.Write: evidence_id is made of the segment's digest and
\* the range, and a row of that id is kept as it is.
WriteEvidence(a, r) ==
  /\ r.at = "evidence"
  /\ evidence' = [evidence EXCEPT ![r.s] = IF @ = None THEN a ELSE @]
  /\ Advance(r, [r EXCEPT !.at = "payload"])
  /\ UNCHANGED <<analysis, overdue, manifest, step, published, worker, bounds>>

\* WritePayload; the step stays claimed.
WritePayload(a, r) ==
  /\ r.at = "payload"
  /\ IF Holds(a, r)
     THEN /\ step' = [step EXCEPT ![a][r.s].payload =
                                    [by |-> r.lease, of |-> r.of]]
          /\ Advance(r, [r EXCEPT !.at = "complete"])
     ELSE End(r) /\ UNCHANGED step
  /\ UNCHANGED <<analysis, overdue, manifest, evidence, published, worker, bounds>>

CompleteStep(a, r) ==
  /\ r.at = "complete"
  /\ step' = IF Holds(a, r) THEN [step EXCEPT ![a][r.s] = [@ EXCEPT !.state = "completed", !.digest = r.lease]]
                            ELSE step
  /\ End(r)
  /\ UNCHANGED <<analysis, overdue, manifest, evidence, published, worker, bounds>>

RunStep(a, r) ==
  \/ Launch(r) \/ LoadChildren(a, r) \/ ReadSegment(a, r) \/ Analyze(r)
  \/ WriteEvidence(a, r) \/ WritePayload(a, r) \/ CompleteStep(a, r)

RunFails(a, r) == OutputInvalid(a, r) \/ NoPermit(a, r) \/ LeaveClaimed(r)

-----------------------------------------------------------------------------
\* maybeComplete: the first step that is not completed decides, or none is
\* left and the root's packet completes the analysis: its row, representation
\* and reference in one transaction.
Unfinished(a) == {s \in Step : step[a][s].state \notin {"none", "completed"}}

Check(a) ==
  /\ worker.at = "check" /\ worker.on = a
  /\ IF Unfinished(a) # {}
     THEN /\ analysis' = IF \E s \in Unfinished(a) : IsFirst(s, Unfinished(a)) /\ step[a][s].state = "failed"
                     THEN Failed(a) ELSE analysis
          /\ UNCHANGED published
     ELSE IF step[a][Root].state = "completed" /\ analysis[a] \in Active \union {"completed"}
     THEN /\ analysis' = [analysis EXCEPT ![a] = "completed"]
          /\ published' = [published EXCEPT ![a] = IF @ = 0 THEN step[a][Root].payload.by ELSE @]
     ELSE UNCHANGED <<analysis, published>>
  /\ Return
  /\ UNCHANGED <<overdue, manifest, step, evidence, runs, bounds>>

\* A read fails; or CompleteAnalysis does, and the analysis with it.
CheckFails(a) ==
  /\ worker.at = "check" /\ worker.on = a
  /\ Fault
  /\ \/ UNCHANGED analysis
     \/ Unfinished(a) = {} /\ step[a][Root].state = "completed" /\ analysis' = Failed(a)
  /\ Return
  /\ UNCHANGED <<overdue, manifest, step, evidence, published, runs>>

-----------------------------------------------------------------------------
\* Time: a next attempt falls due, and the lease of a dead claim ends.
Live(a, s) == worker.on = a /\ \E r \in runs : r.s = s /\ r.lease = step[a][s].lease

Ripen(a, s) ==
  /\ step[a][s].state \in {"prepared", "claimed"} /\ ~step[a][s].ripe
  /\ ~Live(a, s)
  /\ step' = [step EXCEPT ![a][s].ripe = TRUE]
  /\ UNCHANGED <<analysis, overdue, manifest, evidence, published, worker, runs, bounds>>

\* A lease ends under a goroutine that is still at work.
Outlived(a, s) ==
  /\ step[a][s].state = "claimed" /\ ~step[a][s].ripe
  /\ Live(a, s)
  /\ Fault
  /\ step' = [step EXCEPT ![a][s].ripe = TRUE]
  /\ UNCHANGED <<analysis, overdue, manifest, evidence, published, worker, runs>>

WallTime(a) ==
  /\ analysis[a] \in Active /\ a \notin overdue
  /\ overdue' = overdue \union {a}
  /\ UNCHANGED <<rows, worker, runs, bounds>>

\* A shutdown or a crash: claims stay for their leases.
Stop ==
  /\ worker.at # "down" /\ restarts < MaxRestarts
  /\ worker' = [Resting EXCEPT !.at = "down"]
  /\ runs' = {}
  /\ UNCHANGED <<rows, overdue, bounds>>

Start ==
  /\ worker.at = "down"
  /\ worker' = Resting
  /\ restarts' = restarts + 1
  /\ UNCHANGED <<rows, overdue, runs, faults>>

WorkerStep ==
  \/ Tick \/ EndTick
  \/ \E a \in Analysis :
       \/ Process(a) \/ Prepare(a) \/ InsertStep(a) \/ WriteManifest(a) \/ MarkRunning(a)
       \/ Claim(a) \/ Drained(a) \/ Waited(a) \/ Check(a)

WorkerFails ==
  \E a \in Analysis :
    \/ CannotPrepare(a) \/ PreparationFails(a) \/ MarkFails(a) \/ DrainFails(a) \/ CheckFails(a)

Running == \E r \in runs : RunStep(worker.on, r)

Next ==
  \/ \E a \in Analysis : Request(a) \/ WallTime(a)
  \/ WorkerStep \/ WorkerFails
  \/ Running \/ \E r \in runs : RunFails(worker.on, r)
  \/ \E a \in Analysis, s \in Step : Ripen(a, s) \/ Outlived(a, s)
  \/ Stop \/ Start

Spec == Init /\ [][Next]_vars

\* The scheduler polls, a call of the model has a timeout and returns, time
\* passes, and a stopped process is started again.
LiveSpec ==
  /\ Spec
  /\ WF_vars(WorkerStep) /\ WF_vars(Running) /\ WF_vars(Start)
  /\ \A a \in Analysis : WF_vars(WallTime(a))
  /\ \A a \in Analysis, s \in Step : WF_vars(Ripen(a, s))

-----------------------------------------------------------------------------
\* Types; a step is claimed again only after a fault or a restart, so its
\* claims are as few as those.
TypeOK ==
  /\ analysis \in [Analysis -> {"none", "completed", "failed"} \union Active]
  /\ overdue \subseteq Analysis /\ manifest \subseteq Analysis
  /\ \A a \in Analysis : /\ DOMAIN step[a] = Step
                         /\ \A s \in Step : /\ step[a][s].state \in {"none", "prepared", "claimed", "completed", "failed"}
                                            /\ step[a][s].lease \in 0..(1 + MaxFaults + MaxRestarts)
  /\ evidence \in [Leaf -> Analysis \union {None}]
  /\ worker.at \in {"down", "idle", "list", "prepare", "insert", "mark", "drain", "wait", "check"}
  /\ \A r \in runs : r.at \in {"queued", "start", "model", "evidence", "payload", "complete"}
  /\ Cardinality(runs) <= Concurrency + 1

\* A step that is completed has the digest of the very payload it stores, made
\* of what its children store for good, whoever else was working on any of
\* them; a packet is published for a completed analysis only, and is the root's
\* over all the steps.
AnswerIsWhole ==
  \A a \in Analysis :
    /\ \A s \in Step : step[a][s].state = "completed" =>
         /\ step[a][s].digest = step[a][s].payload.by
         /\ step[a][s].payload.of = {<<c, step[a][c].digest>> : c \in Children[s]}
    /\ analysis[a] = "completed" =>
         /\ \A s \in Step : step[a][s].state = "completed"
         /\ published[a] = step[a][Root].payload.by
    /\ analysis[a] # "completed" => published[a] = 0

\* Every analysis that was asked for is completed or failed in the end,
\* whatever was half done when a call failed or the process stopped.
EveryAnalysisEnds ==
  \A a \in Analysis : analysis[a] \in Active ~> analysis[a] \in {"completed", "failed"}

\* The excerpt a completed leaf cites is found among the evidence of that leaf.
EvidenceIsKept ==
  \A a \in Analysis, s \in Leaf :
    step[a][s].state = "completed" /\ Cites(s) => evidence[s] = a
=============================================================================

----------------------- MODULE ExternalAgentJobs_proofs -----------------------
(***************************************************************************)
(* What the job rows promise for every number of jobs, workers, attempts,  *)
(* reconciliations and faults, as long as no lease-checked write commits   *)
(* after its lease lapsed (LateWrites = FALSE).                            *)
(***************************************************************************)
EXTENDS ExternalAgentJobs, TLAPS

-----------------------------------------------------------------------------
(* Typing.  A record updated field by field keeps its type.                 *)

\* A goroutine record stays one when any of its fields takes a value of the
\* field's own type: the form of every step of execute, heartbeat and Reconcile.
LEMMA RunField ==
  ASSUME NEW r \in RunType
  PROVE  /\ \A v \in {"idle", "claimed", "preparing", "marking", "cli", "rendered",
                      "resuming", "returned", "commit", "requeue"} :
              [r EXCEPT !.pc = v] \in RunType
         /\ \A v \in {"run", "resume"} : [r EXCEPT !.kind = v] \in RunType
         /\ \A v \in Nat : [r EXCEPT !.job = v] \in RunType
         /\ \A v \in Nat : [r EXCEPT !.attempt = v] \in RunType
         /\ \A v \in Nat : [r EXCEPT !.rev = v] \in RunType
         /\ \A v \in BOOLEAN : [r EXCEPT !.ctx = v] \in RunType
         /\ \A v \in {"off", "on", "live", "stale"} : [r EXCEPT !.hb = v] \in RunType
         /\ \A v \in BOOLEAN : [r EXCEPT !.seen = v] \in RunType
         /\ \A v \in BOOLEAN : [r EXCEPT !.timedOut = v] \in RunType
         /\ \A v \in {"none", "assigned", "refused"} : [r EXCEPT !.sess = v] \in RunType
         /\ \A v \in BOOLEAN : [r EXCEPT !.native = v] \in RunType
         /\ \A v \in {"none", "ok", "error", "result"} : [r EXCEPT !.out = v] \in RunType
         /\ \A v \in JobStatus \cup {"none"} : [r EXCEPT !.next = v] \in RunType
<1>1. \A v \in {"idle", "claimed", "preparing", "marking", "cli", "rendered",
                  "resuming", "returned", "commit", "requeue"} : [r EXCEPT !.pc = v] \in RunType
  BY DEF RunType
<1>2. \A v \in {"run", "resume"} : [r EXCEPT !.kind = v] \in RunType
  BY DEF RunType
<1>3. \A v \in Nat : [r EXCEPT !.job = v] \in RunType
  BY DEF RunType
<1>4. \A v \in Nat : [r EXCEPT !.attempt = v] \in RunType
  BY DEF RunType
<1>5. \A v \in Nat : [r EXCEPT !.rev = v] \in RunType
  BY DEF RunType
<1>6. \A v \in BOOLEAN : [r EXCEPT !.ctx = v] \in RunType
  BY DEF RunType
<1>7. \A v \in {"off", "on", "live", "stale"} : [r EXCEPT !.hb = v] \in RunType
  BY DEF RunType
<1>8. \A v \in BOOLEAN : [r EXCEPT !.seen = v] \in RunType
  BY DEF RunType
<1>9. \A v \in BOOLEAN : [r EXCEPT !.timedOut = v] \in RunType
  BY DEF RunType
<1>10. \A v \in {"none", "assigned", "refused"} : [r EXCEPT !.sess = v] \in RunType
  BY DEF RunType
<1>11. \A v \in BOOLEAN : [r EXCEPT !.native = v] \in RunType
  BY DEF RunType
<1>12. \A v \in {"none", "ok", "error", "result"} : [r EXCEPT !.out = v] \in RunType
  BY DEF RunType
<1>13. \A v \in JobStatus \cup {"none"} : [r EXCEPT !.next = v] \in RunType
  BY DEF RunType
<1> QED BY <1>1, <1>2, <1>3, <1>4, <1>5, <1>6, <1>7, <1>8, <1>9, <1>10, <1>11, <1>12, <1>13

\* The record of a slot without a goroutine is well typed.
LEMMA IdleRunType == IdleRun \in RunType
BY DEF RunType, IdleRun

\* The record of a goroutine that starts on job j, as ClaimNext and
\* BeginReconciliation build it, is well typed.
LEMMA FreshRunType ==
  ASSUME NEW j \in Nat, NEW a \in Nat, NEW r \in Nat
  PROVE  /\ [IdleRun EXCEPT !.pc = "claimed", !.job = j, !.attempt = a, !.rev = r] \in RunType
         /\ [IdleRun EXCEPT !.pc = "resuming", !.kind = "resume", !.job = j, !.hb = "on",
                            !.attempt = a, !.rev = r] \in RunType
<1> DEFINE c1 == [IdleRun EXCEPT !.pc = "claimed"]
           c2 == [c1 EXCEPT !.job = j]
           c3 == [c2 EXCEPT !.attempt = a]
           b1 == [IdleRun EXCEPT !.pc = "resuming"]
           b2 == [b1 EXCEPT !.kind = "resume"]
           b3 == [b2 EXCEPT !.job = j]
           b4 == [b3 EXCEPT !.hb = "on"]
           b5 == [b4 EXCEPT !.attempt = a]
<1>1. c1 \in RunType /\ b1 \in RunType
  BY IdleRunType, RunField
<1>2. c2 \in RunType /\ b2 \in RunType
  BY <1>1, RunField
<1>3. c3 \in RunType /\ b3 \in RunType
  BY <1>2, RunField
<1>4. b4 \in RunType
  BY <1>3, RunField
<1>5. b5 \in RunType
  BY <1>4, RunField
<1> QED BY <1>3, <1>5, RunField

\* When the CLI returns, the goroutine's record is well typed.
LEMMA ReturnedType ==
  ASSUME TypeOK, NEW t \in Workers, Busy(t), NEW o \in {"ok", "error", "result"}
  PROVE  Returned(t, o) \in RunType
<1> DEFINE r0 == run[t]
           r1 == [r0 EXCEPT !.pc = IF r0.kind = "resume" THEN "commit" ELSE "returned"]
           r2 == [r1 EXCEPT !.out = o]
           r3 == [r2 EXCEPT !.hb = IF r0.kind = "resume" \/ r0.hb = "on" THEN "off" ELSE r0.hb]
           r4 == [r3 EXCEPT !.seen = Live(t)]
           r5 == [r4 EXCEPT !.timedOut = r0.kind = "run" /\ overdue[r0.job]]
           r6 == [r5 EXCEPT !.next = IF r0.kind = "run" THEN r0.next
                                     ELSE IF o = "ok" THEN "completed" ELSE "completion_unknown"]
<1>1. r0 \in RunType BY DEF TypeOK
<1>2. r1 \in RunType BY <1>1, RunField
<1>3. r2 \in RunType BY <1>2, RunField
<1>4. r3 \in RunType
  <2>1. (IF r0.kind = "resume" \/ r0.hb = "on" THEN "off" ELSE r0.hb) \in {"off", "on", "live", "stale"}
     BY <1>1 DEF RunType
  <2> QED BY <1>3, <2>1, RunField
<1>5. r4 \in RunType
  <2>1. Live(t) \in BOOLEAN BY DEF Live, Held
  <2> QED BY <1>4, <2>1, RunField
<1>6. r5 \in RunType
  <2>1. (r0.kind = "run" /\ overdue[r0.job]) \in BOOLEAN BY DEF TypeOK
  <2> QED BY <1>5, <2>1, RunField
<1>7. r6 \in RunType
  <2>1. (IF r0.kind = "run" THEN r0.next
         ELSE IF o = "ok" THEN "completed" ELSE "completion_unknown") \in JobStatus \cup {"none"}
    BY <1>1 DEF RunType, JobStatus
  <2> QED BY <1>6, <2>1, RunField, ZenonT(60)
<1>8. Returned(t, o) = r6
  BY DEF Returned
<1> QED BY <1>7, <1>8

\* Decisions of the service are statuses of the job table.
LEMMA DecisionType ==
  ASSUME NEW t, NEW s
  PROVE  TerminalOutcome(t) \in JobStatus /\ RecoveryOutcome(s) \in JobStatus
BY DEF TerminalOutcome, RecoveryOutcome, JobStatus

\* A settled task has a status of the task table.
LEMMA SettledType ==
  ASSUME NEW j \in Jobs, task[j] \in TaskStatus, NEW s
  PROVE  Settled(j, s) \in TaskStatus
BY DEF Settled, SettleSkipped, SettlesTask, FinalStatus, TaskStatusFor, TaskStatus

\* Setting the mark or the session of a row keeps it a row.
LEMMA RowFlag ==
  ASSUME NEW r \in RowType
  PROVE  [r EXCEPT !.effects = TRUE] \in RowType /\ [r EXCEPT !.session = TRUE] \in RowType
<1>1. [r EXCEPT !.effects = TRUE] \in RowType
  BY DEF RowType
<1>2. [r EXCEPT !.session = TRUE] \in RowType
  BY DEF RowType
<1> QED BY <1>1, <1>2

\* Writing a well-typed record into one slot keeps the slots well typed.
LEMMA RunStepType ==
  ASSUME TypeOK, NEW t \in Workers, NEW r \in RunType,
         r.job \in Jobs \/ (r.pc = "idle" /\ r.hb = "off"),
         run' = [run EXCEPT ![t] = r]
  PROVE  /\ run' \in [Workers -> RunType]
         /\ \A u \in Workers : (Busy(u) \/ run[u].hb # "off" => run[u].job \in Jobs)'
BY DEF TypeOK, Busy

\* Every action of the store and of the goroutines keeps every variable in its
\* type; one step per action, the slot it writes first.
LEMMA TypeStep == TypeOK /\ [Next]_vars => TypeOK'
<1> SUFFICES ASSUME TypeOK, [Next]_vars PROVE TypeOK'
  OBVIOUS
<1> USE JobsAssumption
<1> USE DEF rows, world, process, results, history
<1>1. ASSUME NEW j \in Jobs, Start(j) PROVE TypeOK'
  <2>1. job' \in [Jobs -> RowType]
    BY <1>1, SMTT(60) DEF Start, TypeOK, RowType, JobStatus
  <2> QED BY <1>1, <2>1 DEF Start, TypeOK, TaskStatus, Busy
<1>2. ASSUME NEW j \in Jobs, RequestCancellation(j) PROVE TypeOK'
  <2>1. job' \in [Jobs -> RowType]
    BY <1>2 DEF RequestCancellation, TypeOK, RowType, JobStatus
  <2>2. Settled(j, "cancelled") \in TaskStatus
    BY SettledType DEF TypeOK
  <2>3. task' \in [Jobs -> TaskStatus] /\ cancelAsked' \in [Jobs -> BOOLEAN]
    BY <1>2, <2>2, ZenonT(60) DEF RequestCancellation, TypeOK
  <2> QED BY <1>2, <2>1, <2>3 DEF RequestCancellation, TypeOK, Busy
<1>3. ASSUME NEW j \in Jobs, AbandonCompletionUnknown(j) PROVE TypeOK'
  <2>1. job' \in [Jobs -> RowType]
    BY <1>3 DEF AbandonCompletionUnknown, TypeOK, RowType, JobStatus
  <2>2. task' \in [Jobs -> TaskStatus]
    BY <1>3, SettledType DEF AbandonCompletionUnknown, TypeOK
  <2> QED BY <1>3, <2>1, <2>2 DEF AbandonCompletionUnknown, TypeOK, Busy
<1>4. ASSUME NEW t \in Workers, NEW j \in Jobs, ClaimNext(t, j) PROVE TypeOK'
  <2>1. job' \in [Jobs -> RowType]
    BY <1>4 DEF ClaimNext, TypeOK, RowType, JobStatus
  <2>2. task' \in [Jobs -> TaskStatus]
    BY <1>4 DEF ClaimNext, TypeOK, Started, TaskStatus
  <2> DEFINE a == job[j].attempt + 1
             v == job[j].rev + 1
             r == [IdleRun EXCEPT !.pc = "claimed", !.job = j, !.attempt = a, !.rev = v]
  <2>3. j \in Nat /\ a \in Nat /\ v \in Nat
    BY DEF TypeOK, RowType
  <2>4. r \in RunType
    BY <2>3, FreshRunType
  <2>5. r.job = j
    BY DEF IdleRun
  <2>6. run' = [run EXCEPT ![t] = r]
    BY <1>4 DEF ClaimNext
  <2> HIDE DEF r
  <2>7. /\ run' \in [Workers -> RunType]
        /\ \A u \in Workers : (Busy(u) \/ run[u].hb # "off" => run[u].job \in Jobs)'
    BY <2>4, <2>5, <2>6, RunStepType
  <2> QED BY <1>4, <2>1, <2>2, <2>7 DEF ClaimNext, TypeOK
<1>5. ASSUME NEW t \in Workers, NEW j \in Jobs, BeginReconciliation(t, j)
      PROVE  /\ job' \in [Jobs -> RowType]
             /\ run' \in [Workers -> RunType]
             /\ \A u \in Workers : (Busy(u) \/ run[u].hb # "off" => run[u].job \in Jobs)'
  <2>1. job' \in [Jobs -> RowType]
    BY <1>5 DEF BeginReconciliation, TypeOK, RowType, JobStatus
  <2> DEFINE a == job[j].attempt + 1
             v == job[j].rev + 1
             r == [IdleRun EXCEPT !.pc = "resuming", !.kind = "resume", !.job = j,
                                  !.hb = "on", !.attempt = a, !.rev = v]
  <2>3. j \in Nat /\ a \in Nat /\ v \in Nat
    BY DEF TypeOK, RowType
  <2>4. r \in RunType
    BY <2>3, FreshRunType
  <2>5. r.job = j
    BY DEF IdleRun
  <2>6. run' = [run EXCEPT ![t] = r]
    BY <1>5 DEF BeginReconciliation
  <2> HIDE DEF r
  <2> QED BY <2>1, <2>4, <2>5, <2>6, RunStepType
<1>6. ASSUME NEW t \in Workers, NEW j \in Jobs, OperatorReconcile(t, j) PROVE TypeOK'
  <2>1. BeginReconciliation(t, j)
    BY <1>6 DEF OperatorReconcile
  <2> QED BY <1>5, <1>6, <2>1 DEF OperatorReconcile, BeginReconciliation, TypeOK
<1>7. ASSUME NEW t \in Workers, NEW j \in Jobs, BackgroundReconcile(t, j) PROVE TypeOK'
  <2>1. BeginReconciliation(t, j)
    BY <1>7 DEF BackgroundReconcile
  <2>2. UNCHANGED <<task, ws, overdue, scan, phase, faults, available, bound, launches, cancelAsked>>
    BY <2>1 DEF BeginReconciliation
  <2>3. autoResumes' \in [Jobs -> Nat] /\ resume' \subseteq Jobs
    BY <1>7 DEF BackgroundReconcile, TypeOK
  <2> QED BY <1>5, <2>1, <2>2, <2>3 DEF TypeOK
<1>8. ASSUME NEW j \in Jobs, BackgroundReconcileDropped(j) PROVE TypeOK'
  BY <1>8 DEF BackgroundReconcileDropped, TypeOK, Busy
<1>9. ASSUME NEW j \in Jobs, LeaseExpires(j) PROVE TypeOK'
  <2>1. job' \in [Jobs -> RowType]
    BY <1>9, SMTT(60) DEF LeaseExpires, TypeOK, RowType
  <2> QED BY <1>9, <2>1 DEF LeaseExpires, TypeOK, Busy
<1>10. ASSUME NEW j \in Jobs, TimeoutPasses(j) \/ WorkstreamMoves(j) PROVE TypeOK'
  BY <1>10 DEF TimeoutPasses, WorkstreamMoves, TypeOK, Busy
<1>11. ASSUME StopAdmission PROVE TypeOK'
  BY <1>11 DEF StopAdmission, TypeOK, Busy
<1>12. ASSUME CancelContexts PROVE TypeOK'
  <2>1. ASSUME NEW t \in Workers
        PROVE  run'[t] \in RunType /\ (Busy(t) \/ run[t].hb # "off" => run[t].job \in Jobs)'
    <3>1. run[t] \in RunType /\ [run[t] EXCEPT !.ctx = TRUE] \in RunType
      BY RunField DEF TypeOK
    <3>2. /\ [run[t] EXCEPT !.ctx = TRUE].job = run[t].job
          /\ [run[t] EXCEPT !.ctx = TRUE].pc = run[t].pc
          /\ [run[t] EXCEPT !.ctx = TRUE].hb = run[t].hb
      BY <3>1 DEF RunType
    <3> QED BY <1>12, <3>1, <3>2 DEF CancelContexts, TypeOK, Busy
  <2>2. run' \in [Workers -> RunType]
    BY <1>12, <2>1 DEF CancelContexts
  <2> QED BY <1>12, <2>1, <2>2 DEF CancelContexts, TypeOK
<1>13. ASSUME Restart PROVE TypeOK'
  <2>1. IdleRun.pc = "idle" /\ IdleRun.hb = "off"
    BY DEF IdleRun
  <2> QED BY <1>13, <2>1, IdleRunType DEF Restart, TypeOK, Busy
<1>14. ASSUME NEW t \in Workers, NEW r \in RunType, r.job = run[t].job,
              run[t].pc # "idle" \/ run[t].hb # "off",
              run' = [run EXCEPT ![t] = r]
       PROVE  /\ run' \in [Workers -> RunType]
              /\ \A u \in Workers : (Busy(u) \/ run[u].hb # "off" => run[u].job \in Jobs)'
  <2>1. r.job \in Jobs
    BY <1>14 DEF TypeOK, Busy
  <2> QED BY <1>14, <2>1, RunStepType
<1>15. ASSUME NEW t \in Workers, Execute(t) PROVE TypeOK'
  <2> DEFINE x == Live(t)
             c == phase = "cancelled"
             d1 == [run[t] EXCEPT !.pc = "commit"]
             d2 == [d1 EXCEPT !.next = "failed"]
             d3 == [d2 EXCEPT !.seen = x]
             e1 == [run[t] EXCEPT !.pc = "preparing"]
             e2 == [e1 EXCEPT !.hb = "on"]
             e3 == [e2 EXCEPT !.ctx = c]
             r == IF overdue[run[t].job] THEN d3 ELSE e3
  <2>1. run[t] \in RunType /\ x \in BOOLEAN /\ c \in BOOLEAN
    BY DEF TypeOK, Live, Held
  <2>2. d1 \in RunType /\ e1 \in RunType
    BY <2>1, RunField
  <2>3. d2 \in RunType /\ e2 \in RunType
    BY <2>2, RunField DEF JobStatus
  <2>4. r \in RunType
    BY <2>1, <2>3, RunField
  <2>5. r.job = run[t].job
    BY <2>1 DEF RunType
  <2>6. run' = [run EXCEPT ![t] = r] /\ run[t].pc # "idle"
    BY <1>15 DEF Execute
  <2> HIDE DEF r
  <2> QED BY <1>14, <1>15, <2>4, <2>5, <2>6 DEF Execute, TypeOK
<1>16. ASSUME NEW t \in Workers, NEW o \in {"ok", "error", "result"}, Busy(t)
       PROVE  Returned(t, o) \in RunType /\ Returned(t, o).job = run[t].job
  <2>1. Returned(t, o) \in RunType
    BY <1>16, ReturnedType
  <2>2. Returned(t, o).job = run[t].job
    BY DEF Returned, TypeOK, RunType
  <2> QED BY <2>1, <2>2
<1>17. ASSUME NEW t \in Workers, PrepareFails(t) PROVE TypeOK'
  BY <1>14, <1>16, <1>17 DEF PrepareFails, TypeOK, Busy
<1>18. ASSUME NEW t \in Workers, RunReturns(t) PROVE TypeOK'
  BY <1>14, <1>16, <1>18 DEF RunReturns, TypeOK, Busy
<1>19. ASSUME NEW t \in Workers, NEW p \in {"marking", "cli"}, NEW x \in BOOLEAN
       PROVE  /\ [run[t] EXCEPT !.pc = p, !.seen = x] \in RunType
              /\ [run[t] EXCEPT !.pc = p, !.seen = x].job = run[t].job
  <2>1. run[t] \in RunType /\ [run[t] EXCEPT !.pc = p] \in RunType
    BY RunField DEF TypeOK
  <2>2. [run[t] EXCEPT !.pc = p, !.seen = x] \in RunType
    BY <2>1, RunField
  <2>3. [run[t] EXCEPT !.pc = p, !.seen = x].job = run[t].job
    BY <2>1 DEF RunType
  <2> QED BY <2>2, <2>3
<1>20. ASSUME NEW t \in Workers, BeginMark(t) PROVE TypeOK'
  <2>1. Live(t) \in BOOLEAN
    BY DEF Live, Held
  <2>2. run' = [run EXCEPT ![t] = [run[t] EXCEPT !.pc = "marking", !.seen = Live(t)]]
    BY <1>20 DEF BeginMark
  <2>3. run[t].pc # "idle"
    BY <1>20 DEF BeginMark
  <2>4. /\ run' \in [Workers -> RunType]
        /\ \A u \in Workers : (Busy(u) \/ run[u].hb # "off" => run[u].job \in Jobs)'
    BY <1>14, <1>19, <2>1, <2>2, <2>3
  <2> QED BY <1>20, <2>4 DEF BeginMark, TypeOK
<1>21. ASSUME NEW t \in Workers, MarkSideEffectsPossible(t) PROVE TypeOK'
  <2>1. run[t].pc = "marking" /\ run[t].job \in Jobs
    BY <1>21 DEF MarkSideEffectsPossible, TypeOK, Busy
  <2> DEFINE j == run[t].job
  <2>2. job' \in [Jobs -> RowType] /\ launches' \in [Jobs -> Nat]
    <3>1. CASE job' = [job EXCEPT ![j].effects = TRUE]
               /\ launches' = [launches EXCEPT ![j] = @ + 1]
      <4> HIDE DEF j
      <4>1. j \in Jobs
        BY <2>1 DEF j
      <4>2. [job[j] EXCEPT !.effects = TRUE] \in RowType
        BY <4>1, RowFlag DEF TypeOK
      <4>3. job' = [job EXCEPT ![j] = [job[j] EXCEPT !.effects = TRUE]]
        BY <3>1
      <4>4. job' \in [Jobs -> RowType]
        BY <4>1, <4>2, <4>3 DEF TypeOK
      <4> QED BY <3>1, <4>1, <4>4 DEF TypeOK
    <3>2. CASE UNCHANGED <<job, launches>>
      BY <3>2 DEF TypeOK
    <3> QED BY <1>21, <3>1, <3>2 DEF MarkSideEffectsPossible
  <2>3. \E r \in RunType : r.job = run[t].job /\ run' = [run EXCEPT ![t] = r]
    <3>1. CASE run' = [run EXCEPT ![t] = [run[t] EXCEPT !.pc = "cli", !.seen = FALSE]]
      BY <1>19, <3>1
    <3>2. CASE run' = [run EXCEPT ![t] = Returned(t, "error")]
      BY <1>16, <2>1, <3>2 DEF Busy
    <3> QED BY <1>21, <3>1, <3>2 DEF MarkSideEffectsPossible
  <2> QED BY <1>14, <1>21, <2>1, <2>2, <2>3 DEF MarkSideEffectsPossible, TypeOK
<1>22. ASSUME NEW t \in Workers, AssignExternalAgentSession(t) PROVE TypeOK'
  <2> DEFINE j == run[t].job
  <2>1. run[t] \in RunType /\ j \in Jobs /\ run[t].pc # "idle"
    BY <1>22 DEF AssignExternalAgentSession, TypeOK, Busy
  <2>2. job' \in [Jobs -> RowType]
    <3>1. job' = [job EXCEPT ![j].session = TRUE] \/ job' = job
      BY <1>22 DEF AssignExternalAgentSession
    <3> HIDE DEF j
    <3>2. job[j] \in RowType /\ [job[j] EXCEPT !.session = TRUE] \in RowType
      BY <2>1, RowFlag DEF TypeOK
    <3>3. job' = [job EXCEPT ![j] = [job[j] EXCEPT !.session = TRUE]] \/ job' = job
      BY <3>1
    <3> QED BY <2>1, <3>2, <3>3 DEF TypeOK
  <2>3. \E v \in {"assigned", "refused"} :
          run' = [run EXCEPT ![t] = [run[t] EXCEPT !.sess = v]]
    BY <1>22 DEF AssignExternalAgentSession
  <2>4. PICK v \in {"assigned", "refused"} :
          run' = [run EXCEPT ![t] = [run[t] EXCEPT !.sess = v]]
    BY <2>3
  <2>5. /\ [run[t] EXCEPT !.sess = v] \in RunType
        /\ [run[t] EXCEPT !.sess = v].job = run[t].job
    <3>1. [run[t] EXCEPT !.sess = v] \in RunType
      BY <2>1, RunField
    <3> QED BY <2>1, <3>1 DEF RunType
  <2>6. /\ run' \in [Workers -> RunType]
        /\ \A u \in Workers : (Busy(u) \/ run[u].hb # "off" => run[u].job \in Jobs)'
    BY <1>14, <2>1, <2>4, <2>5
  <2> QED BY <1>22, <2>2, <2>6 DEF AssignExternalAgentSession, TypeOK
<1>23. ASSUME NEW t \in Workers, MaterializeNativeResult(t) PROVE TypeOK'
  <2> DEFINE r1 == [run[t] EXCEPT !.pc = "rendered"]
             r2 == [r1 EXCEPT !.native = TRUE]
  <2>1. run[t] \in RunType /\ run[t].job \in Jobs /\ run[t].pc # "idle"
    BY <1>23 DEF MaterializeNativeResult, TypeOK, Busy
  <2>2. r1 \in RunType
    BY <2>1, RunField
  <2>3. r2 \in RunType /\ r2.job = run[t].job
    <3>1. r2 \in RunType
      BY <2>2, RunField
    <3> QED BY <2>1, <3>1 DEF RunType
  <2>4. run' = [run EXCEPT ![t] = r2]
    BY <1>23 DEF MaterializeNativeResult
  <2>5. available' \subseteq Jobs \X Nat
    <3>1. run[t].rev + 1 \in Nat
      BY <2>1 DEF RunType
    <3> QED BY <1>23, <2>1, <3>1 DEF MaterializeNativeResult, TypeOK
  <2> HIDE DEF r2
  <2>6. /\ run' \in [Workers -> RunType]
        /\ \A u \in Workers : (Busy(u) \/ run[u].hb # "off" => run[u].job \in Jobs)'
    BY <1>14, <2>1, <2>3, <2>4
  <2> QED BY <1>23, <2>5, <2>6 DEF MaterializeNativeResult, TypeOK
<1>24. ASSUME NEW t \in Workers, ReadBack(t) PROVE TypeOK'
  <2> DEFINE n == TerminalOutcome(t)
             r1 == [run[t] EXCEPT !.pc = "commit"]
             r2 == [r1 EXCEPT !.next = n]
  <2>1. run[t] \in RunType /\ run[t].pc # "idle" /\ n \in JobStatus
    BY <1>24, DecisionType DEF ReadBack, TypeOK
  <2>2. run' = [run EXCEPT ![t] = r2]
    BY <1>24 DEF ReadBack
  <2> HIDE DEF n
  <2>3. r1 \in RunType
    BY <2>1, RunField
  <2>4. r2 \in RunType
    BY <2>1, <2>3, RunField
  <2>5. r2.job = run[t].job
    BY <2>1 DEF RunType
  <2> HIDE DEF r2
  <2>6. /\ run' \in [Workers -> RunType]
        /\ \A u \in Workers : (Busy(u) \/ run[u].hb # "off" => run[u].job \in Jobs)'
    BY <1>14, <2>1, <2>2, <2>4, <2>5
  <2> QED BY <1>24, <2>6 DEF ReadBack, TypeOK
<1>25. ASSUME NEW t \in Workers, run' = [run EXCEPT ![t] = IdleRun]
       PROVE  /\ run' \in [Workers -> RunType]
              /\ \A u \in Workers : (Busy(u) \/ run[u].hb # "off" => run[u].job \in Jobs)'
  <2>1. IdleRun.pc = "idle" /\ IdleRun.hb = "off"
    BY DEF IdleRun
  <2> QED BY <1>25, <2>1, IdleRunType, RunStepType
<1>26. ASSUME NEW t \in Workers, Transition(t) PROVE TypeOK'
  <2> DEFINE j == run[t].job
             s == run[t].next
             r1 == [run[t] EXCEPT !.pc = "requeue"]
             r2 == [r1 EXCEPT !.hb = "off"]
  <2>1. run[t] \in RunType /\ j \in Jobs /\ run[t].pc # "idle"
    BY <1>26 DEF Transition, TypeOK, Busy
  <2>2. r2 \in RunType /\ r2.job = run[t].job
    <3>1. r1 \in RunType
      BY <2>1, RunField
    <3>2. r2 \in RunType
      BY <3>1, RunField
    <3> QED BY <2>1, <3>2 DEF RunType
  <2>3. run' = [run EXCEPT ![t] = r2] \/ run' = [run EXCEPT ![t] = IdleRun]
    BY <1>26 DEF Transition
  <2>4. available' \subseteq available /\ UNCHANGED <<ws, overdue, scan, resume, phase, faults,
                                                      launches, cancelAsked, autoResumes>>
    BY <1>26 DEF Transition
  <2>5. \/ /\ TransitionAccepted(t)
           /\ job' = [job EXCEPT ![j].status = s, ![j].rev = @ + 1]
           /\ task' = [task EXCEPT ![j] = Settled(j, s)]
           /\ bound' = [bound EXCEPT ![j] = IF s = "completed" THEN run[t].rev + 1 ELSE @]
        \/ UNCHANGED <<job, task, bound>>
    BY <1>26 DEF Transition
  <2>6. TransitionAccepted(t) => s \in JobStatus
    BY DEF TransitionAccepted, ValidJobTransition, JobStatus
  <2>7. job' \in [Jobs -> RowType] /\ task' \in [Jobs -> TaskStatus] /\ bound' \in [Jobs -> Nat]
    <3>1. run[t].rev + 1 \in Nat
      BY <2>1 DEF RunType
    <3>2. Settled(j, s) \in TaskStatus
      BY <2>1, SettledType DEF TypeOK
    <3> HIDE DEF j, s
    <3>3. job' \in [Jobs -> RowType]
      BY <2>1, <2>5, <2>6 DEF TypeOK, RowType
    <3> QED BY <2>1, <2>5, <3>1, <3>2, <3>3 DEF TypeOK
  <2> HIDE DEF r2
  <2>8. /\ run' \in [Workers -> RunType]
        /\ \A u \in Workers : (Busy(u) \/ run[u].hb # "off" => run[u].job \in Jobs)'
    BY <1>14, <1>25, <2>1, <2>2, <2>3
  <2> QED BY <2>4, <2>7, <2>8 DEF TypeOK
<1>27. ASSUME NEW t \in Workers, Requeue(t) PROVE TypeOK'
  <2> DEFINE j == run[t].job
  <2>1. j \in Jobs
    BY <1>27 DEF Requeue, TypeOK, Busy
  <2>2. job' \in [Jobs -> RowType]
    <3>1. \/ job' = [job EXCEPT ![j].status = "queued", ![j].rev = @ + 1,
                                ![j].owner = NoWorker, ![j].lease = "none"]
          \/ job' = job
      BY <1>27 DEF Requeue
    <3> HIDE DEF j
    <3> QED BY <2>1, <3>1 DEF TypeOK, RowType, JobStatus
  <2>3. run' = [run EXCEPT ![t] = IdleRun]
    BY <1>27 DEF Requeue
  <2> QED BY <1>25, <1>27, <2>2, <2>3 DEF Requeue, TypeOK
<1>28. ASSUME NEW t \in Workers, HeartbeatRead(t) PROVE TypeOK'
  <2> DEFINE h == IF Live(t) THEN "live" ELSE "stale"
  <2>1. run[t] \in RunType /\ run[t].hb # "off" /\ h \in {"live", "stale"}
    BY <1>28 DEF HeartbeatRead, TypeOK
  <2>2. \/ run' = [run EXCEPT ![t] = [run[t] EXCEPT !.ctx = TRUE]]
        \/ run' = [run EXCEPT ![t] = [run[t] EXCEPT !.hb = h]]
    BY <1>28 DEF HeartbeatRead
  <2> HIDE DEF h
  <2>3. /\ [run[t] EXCEPT !.ctx = TRUE] \in RunType /\ [run[t] EXCEPT !.ctx = TRUE].job = run[t].job
        /\ [run[t] EXCEPT !.hb = h] \in RunType /\ [run[t] EXCEPT !.hb = h].job = run[t].job
    <3>1. [run[t] EXCEPT !.ctx = TRUE] \in RunType /\ [run[t] EXCEPT !.hb = h] \in RunType
      BY <2>1, RunField
    <3> QED BY <2>1, <3>1 DEF RunType
  <2>4. /\ run' \in [Workers -> RunType]
        /\ \A u \in Workers : (Busy(u) \/ run[u].hb # "off" => run[u].job \in Jobs)'
    BY <1>14, <2>1, <2>2, <2>3
  <2> QED BY <1>28, <2>4 DEF HeartbeatRead, TypeOK
<1>29. ASSUME NEW t \in Workers, RenewLease(t) PROVE TypeOK'
  <2> DEFINE j == run[t].job
             h == IF run[t].pc \in {"returned", "commit"} THEN "off" ELSE "on"
             r1 == [run[t] EXCEPT !.ctx = TRUE]
             r2 == [r1 EXCEPT !.hb = "off"]
             r3 == [run[t] EXCEPT !.hb = h]
  <2>1. run[t] \in RunType /\ run[t].hb # "off" /\ j \in Jobs /\ h \in {"off", "on"}
    BY <1>29 DEF RenewLease, TypeOK
  <2>2. job' \in [Jobs -> RowType]
    <3>1. job' = [job EXCEPT ![j].lease = "live"] \/ job' = job
      BY <1>29 DEF RenewLease
    <3> HIDE DEF j
    <3> QED BY <2>1, <3>1, SMTT(60) DEF TypeOK, RowType
  <2>3. run' = [run EXCEPT ![t] = r2] \/ run' = [run EXCEPT ![t] = r3]
    BY <1>29 DEF RenewLease
  <2> HIDE DEF h
  <2>4. r2 \in RunType /\ r2.job = run[t].job /\ r3 \in RunType /\ r3.job = run[t].job
    <3>1. r1 \in RunType /\ r3 \in RunType
      BY <2>1, RunField
    <3>2. r2 \in RunType
      BY <3>1, RunField
    <3> QED BY <2>1, <3>1, <3>2 DEF RunType
  <2> HIDE DEF r2, r3
  <2>5. /\ run' \in [Workers -> RunType]
        /\ \A u \in Workers : (Busy(u) \/ run[u].hb # "off" => run[u].job \in Jobs)'
    BY <1>14, <2>1, <2>3, <2>4
  <2> QED BY <1>29, <2>2, <2>5 DEF RenewLease, TypeOK
<1>30. ASSUME NEW t \in Workers, HeartbeatStops(t) PROVE TypeOK'
  <2> DEFINE r == [run[t] EXCEPT !.hb = "off"]
  <2>1. run[t] \in RunType /\ run[t].hb # "off" /\ run' = [run EXCEPT ![t] = r]
    BY <1>30 DEF HeartbeatStops, TypeOK
  <2>2. r \in RunType /\ r.job = run[t].job
    <3>1. r \in RunType
      BY <2>1, RunField
    <3> QED BY <2>1, <3>1 DEF RunType
  <2> HIDE DEF r
  <2>3. /\ run' \in [Workers -> RunType]
        /\ \A u \in Workers : (Busy(u) \/ run[u].hb # "off" => run[u].job \in Jobs)'
    BY <1>14, <2>1, <2>2
  <2> QED BY <1>30, <2>3 DEF HeartbeatStops, TypeOK
<1>31. ASSUME NEW t \in Workers, StoreFails(t) PROVE TypeOK'
  <2>1. run' = [run EXCEPT ![t] = IdleRun]
    BY <1>31 DEF StoreFails
  <2>2. faults' \in Nat
    BY <1>31 DEF StoreFails, TypeOK
  <2> QED BY <1>25, <1>31, <2>1, <2>2 DEF StoreFails, TypeOK
<1>32. ASSUME ListExpiredRunning PROVE TypeOK'
  <2>1. \A j \in ExpiredJobs : Snapshot(j) \in SnapshotType
    BY DEF ExpiredJobs, Snapshot, SnapshotType, TypeOK, RowType
  <2>2. scan' \subseteq SnapshotType
    BY <1>32, <2>1 DEF ListExpiredRunning
  <2> QED BY <1>32, <2>2 DEF ListExpiredRunning, TypeOK, Busy
<1>33. ASSUME NEW s \in scan, RecoverExpired(s) PROVE TypeOK'
  <2> DEFINE j == s.job
             n == RecoveryOutcome(s)
  <2>1. j \in Jobs /\ n \in JobStatus /\ Settled(j, n) \in TaskStatus
    <3>1. j \in Jobs
      BY DEF TypeOK, SnapshotType
    <3> QED BY <3>1, DecisionType, SettledType DEF TypeOK
  <2>2. /\ scan' \subseteq scan /\ available' \subseteq available
        /\ resume' \subseteq resume \cup {j}
        /\ UNCHANGED <<ws, overdue, run, phase, faults, bound, launches, cancelAsked, autoResumes>>
    BY <1>33 DEF RecoverExpired
  <2>3. \/ /\ job' = [job EXCEPT ![j].status = n, ![j].rev = @ + 1,
                                 ![j].owner = NoWorker, ![j].lease = "none"]
           /\ task' = [task EXCEPT ![j] = Settled(j, n)]
        \/ UNCHANGED <<job, task>>
    BY <1>33 DEF RecoverExpired
  <2> HIDE DEF j, n
  <2>4. job' \in [Jobs -> RowType]
    BY <2>1, <2>3 DEF TypeOK, RowType
  <2>5. task' \in [Jobs -> TaskStatus]
    BY <2>1, <2>3 DEF TypeOK
  <2> QED BY <2>1, <2>2, <2>4, <2>5 DEF TypeOK, Busy
<1>34. CASE UNCHANGED vars
  BY <1>34 DEF vars, TypeOK, Busy
<1> QED
  BY <1>1, <1>2, <1>3, <1>4, <1>6, <1>7, <1>8, <1>9, <1>10, <1>11, <1>12, <1>13, <1>15,
     <1>17, <1>18, <1>20, <1>21, <1>22, <1>23, <1>24, <1>26, <1>27, <1>28, <1>29, <1>30,
     <1>31, <1>32, <1>33, <1>34 DEF Next

\* The initial values are well typed.
LEMMA InitType == Init => TypeOK
<1> SUFFICES ASSUME Init PROVE TypeOK
  OBVIOUS
<1>1. NewRow \in RowType
  BY DEF NewRow, RowType, JobStatus
<1>2. IdleRun.pc = "idle" /\ IdleRun.hb = "off"
  BY DEF IdleRun
<1> QED BY <1>1, <1>2, IdleRunType DEF Init, TypeOK, TaskStatus, Busy

\* Every variable keeps its type in every reachable state, for any number of
\* jobs, workers, attempts, reconciliations and faults, late writes included.
THEOREM TypeCorrect == Spec => []TypeOK
BY InitType, TypeStep, PTL DEF Spec

(* The inductive invariant.  The mark only grows, so a goroutine that saw it *)
(* may rely on it for ever; that it is absent is only known while the row is *)
(* still held, because only the holder can set it.                           *)

\* What the status of a row says about the mark and the attempts made.
RowInv(j) ==
    /\ job[j].status \in {"absent", "queued", "interrupted_safe", "cancelled"}
         => ~job[j].effects
    /\ job[j].status \in {"completion_unknown", "reconciling", "completed", "abandoned"}
         => job[j].effects
    /\ job[j].session => job[j].effects
    /\ launches[j] <= (IF job[j].effects THEN 1 ELSE 0)
    /\ job[j].status = "absent" => job[j].attempt = 0
    /\ job[j].status \in {"queued", "interrupted_safe"} => job[j].attempt < MaxAttempts
    /\ job[j].status = "running" => job[j].attempt <= MaxAttempts

\* What a goroutine knows about the row it works on.
RunInv(t) ==
    /\ run[t].pc \in {"claimed", "preparing", "marking"} /\ Held(t) => ~Row(t).effects
    /\ run[t].pc \in {"claimed", "preparing", "marking", "cli", "returned"} => run[t].kind = "run"
    /\ run[t].kind = "run" /\ Held(t) => Row(t).status # "reconciling"
    /\ run[t].pc \in {"cli", "rendered", "resuming"} => Row(t).effects
    /\ run[t].pc = "returned" /\ run[t].out = "ok" => Row(t).effects
    /\ run[t].pc = "commit" =>
         /\ run[t].next \in {"completed", "failed", "cancelled",
                             "completion_unknown", "interrupted_safe"}
         /\ run[t].next \in {"completed", "completion_unknown"} => Row(t).effects
         /\ run[t].next \in {"cancelled", "interrupted_safe"} /\ Held(t) => ~Row(t).effects
         /\ run[t].next = "interrupted_safe" /\ Held(t) => Row(t).attempt < MaxAttempts
         /\ run[t].kind = "resume" => run[t].next \in {"completed", "completion_unknown"}

\* A listed snapshot is either out of date, and its revision shows it, or it is
\* still the row, whose lease nobody can revive.
ScanInv(s) ==
    /\ s.rev <= job[s.job].rev
    /\ s.rev = job[s.job].rev =>
         /\ job[s.job].lease = "expired" /\ s.status = job[s.job].status
         /\ s.effects = job[s.job].effects /\ s.session = job[s.job].session

JobInv ==
    /\ TypeOK
    /\ \A j \in Jobs : RowInv(j)
    /\ \A t \in Workers : Busy(t) => RunInv(t)
    /\ \A s \in scan : ScanInv(s)

\* The invariant holds before any job is admitted.
LEMMA InvInit == Init => JobInv
<1> SUFFICES ASSUME Init PROVE JobInv
  OBVIOUS
<1>1. TypeOK
  BY InitType
<1>2. \A j \in Jobs : RowInv(j)
  BY BoundsAssumption DEF Init, RowInv, NewRow
<1>3. \A t \in Workers : ~Busy(t)
  BY DEF Init, Busy, IdleRun
<1>4. scan = {}
  BY DEF Init
<1> QED BY <1>1, <1>2, <1>3, <1>4 DEF JobInv

-----------------------------------------------------------------------------
(* What a step leaves of the knowledge others act on.                       *)

\* Nothing the invariant says about goroutine t is written.
KeepsRun(t) ==
    /\ run'[t].pc = run[t].pc /\ run'[t].kind = run[t].kind
    /\ run'[t].job = run[t].job /\ run'[t].attempt = run[t].attempt
    /\ run'[t].out = run[t].out /\ run'[t].next = run[t].next

\* Nobody takes a mark back.
KeepsMark(j) == job[j].effects => job'[j].effects

\* Goroutine t holds its row afterwards only if it held it before, and then the
\* step neither marked it, nor counted an attempt, nor began to reconcile it.
KeepsHeld(t) ==
    LET j == run[t].job
    IN job'[j].owner = t /\ job'[j].attempt = run[t].attempt =>
         /\ job[j].owner = t /\ job[j].attempt = run[t].attempt
         /\ job'[j].effects = job[j].effects
         /\ job'[j].status = "reconciling" => job[j].status = "reconciling"

\* A row whose lease lapsed is not written without a new revision.
KeepsListed(j) ==
    /\ job'[j].rev >= job[j].rev
    /\ job'[j].rev = job[j].rev /\ job[j].lease = "expired" /\ job[j].status \in LeaseHolding =>
         /\ job'[j].lease = "expired" /\ job'[j].status = job[j].status
         /\ job'[j].effects = job[j].effects /\ job'[j].session = job[j].session

\* A step that keeps a goroutine, the mark and the holder of its row keeps what
\* the goroutine knows.
LEMMA RunKept ==
  ASSUME NEW t \in Workers, Busy(t) => RunInv(t),
         KeepsRun(t), KeepsMark(run[t].job), KeepsHeld(t)
  PROVE  (Busy(t) => RunInv(t))'
BY DEF RunInv, Busy, Held, Row, KeepsRun, KeepsMark, KeepsHeld

\* A step that writes no lapsed row without a new revision keeps what the
\* recovery knows of the rows it listed.
LEMMA ScanKept ==
  ASSUME TypeOK, TypeOK', NEW s \in scan, ScanInv(s), KeepsListed(s.job)
  PROVE  ScanInv(s)'
<1>1. /\ s.job \in Jobs /\ s.rev \in Nat /\ s.status \in LeaseHolding
      /\ job[s.job].rev \in Nat /\ job'[s.job].rev \in Nat
  BY DEF TypeOK, SnapshotType, RowType
<1> QED BY <1>1 DEF ScanInv, KeepsListed

\* A row whose status, mark, session, attempt and launches are kept keeps its
\* invariant.
LEMMA RowKept ==
  ASSUME NEW j \in Jobs, RowInv(j), launches'[j] = launches[j],
         job'[j].status = job[j].status, job'[j].effects = job[j].effects,
         job'[j].session = job[j].session, job'[j].attempt = job[j].attempt
  PROVE  RowInv(j)'
BY DEF RowInv

\* Every step keeps the invariant: first what the step writes, then one
\* conjunct each for the rows, the goroutines and the listed snapshots.
LEMMA InvStep ==
  ASSUME LateWrites = FALSE, JobInv, [Next]_vars
  PROVE  JobInv'
<1> USE JobsAssumption, WorkersAssumption
<1> USE DEF rows, world, process, results, history
<1>1. TypeOK /\ TypeOK'
  BY TypeStep DEF JobInv
<1>2. /\ \A j \in Jobs : RowInv(j)
      /\ \A t \in Workers : Busy(t) => RunInv(t)
      /\ \A s \in scan : ScanInv(s)
  BY DEF JobInv
\* A row step outside the goroutines: what is left to show.
<1>3. ASSUME \A i \in Jobs : RowInv(i)' /\ KeepsMark(i) /\ KeepsListed(i),
             \A u \in Workers : (Busy(u) => RunInv(u))' \/ (KeepsRun(u) /\ KeepsHeld(u)),
             \A s \in scan' : s \in scan \/ ScanInv(s)'
      PROVE  JobInv'
  <2>1. ASSUME NEW u \in Workers PROVE (Busy(u) => RunInv(u))'
    <3>1. CASE ~Busy(u)'
      BY <3>1 DEF Busy
    <3>2. CASE KeepsRun(u) /\ KeepsHeld(u) /\ Busy(u)'
      <4>1. run[u].job \in Jobs
        BY <1>1, <3>2 DEF TypeOK, Busy, KeepsRun
      <4>2. KeepsMark(run[u].job)
        BY <1>3, <4>1
      <4> QED BY <1>2, <3>2, <4>2, RunKept
    <3> QED BY <1>3, <3>1, <3>2
  <2>2. ASSUME NEW s \in scan' PROVE ScanInv(s)'
    <3>1. CASE s \in scan
      <4>1. KeepsListed(s.job)
        BY <1>1, <1>3, <3>1 DEF TypeOK, SnapshotType
      <4> QED BY <1>1, <1>2, <3>1, <4>1, ScanKept
    <3> QED BY <1>3, <3>1
  <2> QED BY <1>1, <1>3, <2>1, <2>2 DEF JobInv
\* A step that writes only the statuses and revisions of rows, or none.
<1>4. ASSUME NEW j \in Jobs, Start(j) PROVE JobInv'
  <2>1. /\ job'[j].status = "queued" /\ job[j].status = "absent"
        /\ job'[j].effects = job[j].effects /\ job'[j].session = job[j].session
        /\ job'[j].attempt = job[j].attempt /\ job'[j].rev = job[j].rev
        /\ job'[j].owner = job[j].owner /\ job'[j].lease = job[j].lease
        /\ \A i \in Jobs : i # j => job'[i] = job[i]
        /\ launches' = launches /\ run' = run /\ scan' = scan
    BY <1>1, <1>4 DEF Start, TypeOK, RowType
  <2>2. job[j].rev \in Nat /\ \A i \in Jobs : job[i].rev \in Nat
    BY <1>1 DEF TypeOK, RowType
  <2>3. ASSUME NEW i \in Jobs PROVE RowInv(i)'
    <3>1. CASE i = j
      BY <1>2, <2>1, <3>1, BoundsAssumption DEF RowInv
    <3>2. CASE i # j
      BY <1>2, <2>1, <3>2, RowKept
    <3> QED BY <3>1, <3>2
  <2>4. \A i \in Jobs : KeepsMark(i) /\ KeepsListed(i)
    BY <2>1, <2>2 DEF KeepsMark, KeepsListed, LeaseHolding
  <2>5. \A u \in Workers : Busy(u) => KeepsRun(u) /\ KeepsHeld(u)
    BY <1>1, <2>1 DEF KeepsRun, KeepsHeld, TypeOK, Busy
  <2>6. \A u \in Workers : (Busy(u) => RunInv(u))' \/ (KeepsRun(u) /\ KeepsHeld(u))
    BY <2>1, <2>5 DEF Busy
  <2> QED BY <1>3, <2>1, <2>3, <2>4, <2>6
<1>5. ASSUME NEW j \in Jobs, RequestCancellation(j) PROVE JobInv'
  <2>1. /\ \/ job[j].status = "queued" /\ job'[j].status = "cancelled"
           \/ job[j].status = "running" /\ job'[j].status = "cancel_requested"
        /\ job'[j].effects = job[j].effects /\ job'[j].session = job[j].session
        /\ job'[j].attempt = job[j].attempt /\ job'[j].rev = job[j].rev + 1
        /\ job'[j].owner = job[j].owner
        /\ \A i \in Jobs : i # j => job'[i] = job[i]
        /\ launches' = launches /\ run' = run /\ scan' = scan
    BY <1>1, <1>5 DEF RequestCancellation, TypeOK, RowType
  <2>2. \A i \in Jobs : job[i].rev \in Nat
    BY <1>1 DEF TypeOK, RowType
  <2>3. ASSUME NEW i \in Jobs PROVE RowInv(i)'
    <3>1. CASE i = j
      BY <1>2, <2>1, <3>1 DEF RowInv
    <3>2. CASE i # j
      BY <1>2, <2>1, <3>2, RowKept
    <3> QED BY <3>1, <3>2
  <2>4. \A i \in Jobs : KeepsMark(i) /\ KeepsListed(i)
    BY <2>1, <2>2 DEF KeepsMark, KeepsListed
  <2>5. \A u \in Workers : Busy(u) => KeepsRun(u) /\ KeepsHeld(u)
    BY <1>1, <2>1 DEF KeepsRun, KeepsHeld, TypeOK, Busy
  <2>6. \A u \in Workers : (Busy(u) => RunInv(u))' \/ (KeepsRun(u) /\ KeepsHeld(u))
    BY <2>1, <2>5 DEF Busy
  <2> QED BY <1>3, <2>1, <2>3, <2>4, <2>6
<1>6. ASSUME NEW j \in Jobs, AbandonCompletionUnknown(j) PROVE JobInv'
  <2>1. /\ job[j].status = "completion_unknown" /\ job'[j].status = "abandoned"
        /\ job'[j].effects = job[j].effects /\ job'[j].session = job[j].session
        /\ job'[j].attempt = job[j].attempt /\ job'[j].rev = job[j].rev + 1
        /\ job'[j].owner = job[j].owner
        /\ \A i \in Jobs : i # j => job'[i] = job[i]
        /\ launches' = launches /\ run' = run /\ scan' = scan
    BY <1>1, <1>6 DEF AbandonCompletionUnknown, TypeOK, RowType
  <2>2. \A i \in Jobs : job[i].rev \in Nat
    BY <1>1 DEF TypeOK, RowType
  <2>3. ASSUME NEW i \in Jobs PROVE RowInv(i)'
    <3>1. CASE i = j
      BY <1>2, <2>1, <3>1 DEF RowInv
    <3>2. CASE i # j
      BY <1>2, <2>1, <3>2, RowKept
    <3> QED BY <3>1, <3>2
  <2>4. \A i \in Jobs : KeepsMark(i) /\ KeepsListed(i)
    BY <2>1, <2>2 DEF KeepsMark, KeepsListed
  <2>5. \A u \in Workers : Busy(u) => KeepsRun(u) /\ KeepsHeld(u)
    BY <1>1, <2>1 DEF KeepsRun, KeepsHeld, TypeOK, Busy
  <2>6. \A u \in Workers : (Busy(u) => RunInv(u))' \/ (KeepsRun(u) /\ KeepsHeld(u))
    BY <2>1, <2>5 DEF Busy
  <2> QED BY <1>3, <2>1, <2>3, <2>4, <2>6
<1>7. ASSUME NEW j \in Jobs, LeaseExpires(j) PROVE JobInv'
  <2>1. /\ job'[j].status = job[j].status /\ job[j].lease = "live"
        /\ job'[j].effects = job[j].effects /\ job'[j].session = job[j].session
        /\ job'[j].attempt = job[j].attempt /\ job'[j].rev = job[j].rev
        /\ job'[j].owner = job[j].owner
        /\ \A i \in Jobs : i # j => job'[i] = job[i]
        /\ launches' = launches /\ run' = run /\ scan' = scan
    BY <1>1, <1>7 DEF LeaseExpires, TypeOK, RowType
  <2>2. \A i \in Jobs : job[i].rev \in Nat
    BY <1>1 DEF TypeOK, RowType
  <2>3. \A i \in Jobs : RowInv(i)'
    BY <1>2, <2>1, RowKept
  <2>4. \A i \in Jobs : KeepsMark(i) /\ KeepsListed(i)
    BY <2>1, <2>2 DEF KeepsMark, KeepsListed
  <2>5. \A u \in Workers : Busy(u) => KeepsRun(u) /\ KeepsHeld(u)
    BY <1>1, <2>1 DEF KeepsRun, KeepsHeld, TypeOK, Busy
  <2>6. \A u \in Workers : (Busy(u) => RunInv(u))' \/ (KeepsRun(u) /\ KeepsHeld(u))
    BY <2>1, <2>5 DEF Busy
  <2> QED BY <1>3, <2>1, <2>3, <2>4, <2>6
\* A step that writes no row: the rows and their listing are kept.
<1>8. ASSUME job' = job, launches' = launches
      PROVE  /\ \A i \in Jobs : RowInv(i)' /\ KeepsMark(i) /\ KeepsListed(i)
             /\ \A u \in Workers : Busy(u) => KeepsHeld(u)
  <2>1. \A i \in Jobs : job[i].rev \in Nat
    BY <1>1 DEF TypeOK, RowType
  <2>2. \A i \in Jobs : RowInv(i)'
    BY <1>2, <1>8, RowKept
  <2>3. \A u \in Workers : Busy(u) => KeepsHeld(u)
    BY <1>8 DEF KeepsHeld
  <2> QED BY <1>8, <2>1, <2>2, <2>3 DEF KeepsMark, KeepsListed
\* Restart empties the slots; a cancelled context is not part of the invariant.
<1>9. ASSUME Restart PROVE JobInv'
  <2>1. job' = job /\ launches' = launches /\ scan' = {}
        /\ \A u \in Workers : ~Busy(u)'
    BY <1>9 DEF Restart, Busy, IdleRun
  <2> QED BY <1>3, <1>8, <2>1
<1>10. ASSUME job' = job, launches' = launches, scan' = scan,
              \A u \in Workers : KeepsRun(u)
       PROVE  JobInv'
  <2>1. \A u \in Workers : (Busy(u) => RunInv(u))' \/ (KeepsRun(u) /\ KeepsHeld(u))
    BY <1>8, <1>10 DEF Busy, KeepsRun
  <2> QED BY <1>3, <1>8, <1>10, <2>1
<1>11. ASSUME CancelContexts PROVE JobInv'
  <2>1. \A u \in Workers : KeepsRun(u)
    BY <1>1, <1>11 DEF CancelContexts, KeepsRun, TypeOK, RunType
  <2> QED BY <1>10, <1>11, <2>1 DEF CancelContexts
<1>12. ASSUME NEW j \in Jobs, TimeoutPasses(j) \/ WorkstreamMoves(j) \/ BackgroundReconcileDropped(j)
       PROVE  JobInv'
  BY <1>10, <1>12 DEF TimeoutPasses, WorkstreamMoves, BackgroundReconcileDropped, KeepsRun
<1>13. ASSUME StopAdmission PROVE JobInv'
  BY <1>10, <1>13 DEF StopAdmission, KeepsRun
<1>14. ASSUME UNCHANGED vars PROVE JobInv'
  BY <1>10, <1>14 DEF vars, KeepsRun
<1>15. ASSUME NEW t \in Workers, HeartbeatRead(t) \/ HeartbeatStops(t) PROVE JobInv'
  <2>1. \A u \in Workers : KeepsRun(u)
    BY <1>1, <1>15 DEF HeartbeatRead, HeartbeatStops, KeepsRun, TypeOK, RunType
  <2> QED BY <1>10, <1>15, <2>1 DEF HeartbeatRead, HeartbeatStops
\* A goroutine that writes no row, or only its own slot.
<1>16. ASSUME NEW t \in Workers, job' = job, launches' = launches, scan' = scan,
              \A u \in Workers : u # t => run'[u] = run[u],
              (Busy(t) => RunInv(t))'
       PROVE  JobInv'
  <2>1. \A u \in Workers : u # t => (Busy(u) => RunInv(u))' \/ (KeepsRun(u) /\ KeepsHeld(u))
    BY <1>8, <1>16 DEF Busy, KeepsRun
  <2> QED BY <1>3, <1>8, <1>16, <2>1
<1>17. ASSUME NEW t \in Workers, Execute(t) PROVE JobInv'
  <2>1. run[t].pc = "claimed" /\ RunInv(t)
    BY <1>2, <1>17 DEF Execute, Busy
  <2>2. /\ \/ run'[t].pc = "commit" /\ run'[t].next = "failed"
           \/ run'[t].pc = "preparing"
        /\ run'[t].kind = run[t].kind /\ run'[t].job = run[t].job
        /\ run'[t].attempt = run[t].attempt
        /\ \A u \in Workers : u # t => run'[u] = run[u]
        /\ job' = job /\ launches' = launches /\ scan' = scan
    BY <1>1, <1>17 DEF Execute, TypeOK, RunType
  <2>3. RunInv(t)'
    BY <2>1, <2>2 DEF RunInv, Held, Row
  <2> QED BY <1>16, <2>2, <2>3
<1>18. ASSUME NEW t \in Workers, NEW o \in {"error", "ok", "result"}, run[t].kind = "run", RunInv(t),
              run'[t] = Returned(t, o), o = "ok" => Row(t).effects, job' = job
       PROVE  RunInv(t)'
  <2>1. /\ run'[t].pc = "returned" /\ run'[t].out = o
        /\ run'[t].job = run[t].job /\ run'[t].kind = "run"
        /\ run'[t].attempt = run[t].attempt
    BY <1>1, <1>18 DEF Returned, TypeOK, RunType
  <2> QED BY <1>18, <2>1 DEF RunInv, Row, Held
<1>19. ASSUME NEW t \in Workers, PrepareFails(t) PROVE JobInv'
  <2>1. run[t].kind = "run" /\ RunInv(t)
    BY <1>2, <1>19 DEF PrepareFails, Busy, RunInv
  <2>2. /\ run'[t] = Returned(t, "error")
        /\ \A u \in Workers : u # t => run'[u] = run[u]
        /\ job' = job /\ launches' = launches /\ scan' = scan
    BY <1>1, <1>19 DEF PrepareFails, TypeOK
  <2>3. RunInv(t)'
    BY <1>18, <2>1, <2>2
  <2> QED BY <1>16, <2>2, <2>3
<1>20. ASSUME NEW t \in Workers, BeginMark(t) PROVE JobInv'
  <2>1. run[t].pc = "preparing" /\ RunInv(t)
    BY <1>2, <1>20 DEF BeginMark, Busy
  <2>2. /\ run'[t].pc = "marking" /\ run'[t].kind = run[t].kind /\ run'[t].job = run[t].job
        /\ run'[t].attempt = run[t].attempt
        /\ \A u \in Workers : u # t => run'[u] = run[u]
        /\ job' = job /\ launches' = launches /\ scan' = scan
    BY <1>1, <1>20 DEF BeginMark, TypeOK, RunType
  <2>3. RunInv(t)'
    BY <2>1, <2>2 DEF RunInv, Held, Row
  <2> QED BY <1>16, <2>2, <2>3
<1>21. ASSUME NEW t \in Workers, RunReturns(t) PROVE JobInv'
  <2>1. run[t].pc \in {"cli", "rendered", "resuming"} /\ RunInv(t)
    BY <1>2, <1>21 DEF RunReturns, Busy
  <2>2. PICK o \in {"ok", "error", "result"} : run' = [run EXCEPT ![t] = Returned(t, o)]
    BY <1>21 DEF RunReturns
  <2>3. /\ run'[t] = Returned(t, o)
        /\ \A u \in Workers : u # t => run'[u] = run[u]
        /\ job' = job /\ launches' = launches /\ scan' = scan
    BY <1>1, <1>21, <2>2 DEF RunReturns, TypeOK
  <2>4. RunInv(t)'
    <3>1. Row(t).effects
      BY <2>1 DEF RunInv
    <3>2. CASE run[t].kind = "run"
      BY <1>18, <2>1, <2>3, <3>1, <3>2
    <3>3. CASE run[t].kind # "run"
      <4>1. /\ run'[t].pc = "commit" /\ run'[t].next \in {"completed", "completion_unknown"}
            /\ run'[t].job = run[t].job /\ run'[t].kind = run[t].kind
        BY <1>1, <2>3, <3>3 DEF Returned, TypeOK, RunType
      <4> QED BY <2>3, <3>1, <3>3, <4>1 DEF RunInv, Row
    <3> QED BY <3>2, <3>3
  <2> QED BY <1>16, <2>3, <2>4
<1>22. ASSUME NEW t \in Workers, ReadBack(t) PROVE JobInv'
  <2>1. run[t].pc = "returned" /\ RunInv(t) /\ run[t].job \in Jobs
    BY <1>1, <1>2, <1>22 DEF ReadBack, Busy, TypeOK
  <2>2. /\ run'[t].pc = "commit" /\ run'[t].next = TerminalOutcome(t)
        /\ run'[t].job = run[t].job /\ run'[t].attempt = run[t].attempt
        /\ run'[t].kind = run[t].kind
        /\ \A u \in Workers : u # t => run'[u] = run[u]
        /\ job' = job /\ launches' = launches /\ scan' = scan
    BY <1>1, <1>22 DEF ReadBack, TypeOK, RunType
  <2>3. Row(t).session => Row(t).effects
    BY <1>2, <2>1 DEF RowInv, Row
  <2>4. /\ TerminalOutcome(t) \in {"completed", "failed", "cancelled",
                                   "completion_unknown", "interrupted_safe"}
        /\ TerminalOutcome(t) = "completed" => run[t].out = "ok"
        /\ TerminalOutcome(t) = "completion_unknown" => Row(t).effects
        /\ TerminalOutcome(t) \in {"cancelled", "interrupted_safe"} => ~Row(t).effects
        /\ TerminalOutcome(t) = "interrupted_safe" => Row(t).attempt < MaxAttempts
    BY <2>3 DEF TerminalOutcome, Uncertain
  <2>5. RunInv(t)'
    BY <2>1, <2>2, <2>4 DEF RunInv, Held, Row
  <2> QED BY <1>16, <2>2, <2>5
<1>23. ASSUME NEW t \in Workers, MaterializeNativeResult(t) PROVE JobInv'
  <2>1. run[t].pc \in {"cli", "resuming"} /\ RunInv(t)
    BY <1>2, <1>23 DEF MaterializeNativeResult, Busy
  <2>2. /\ run'[t].pc = "rendered" /\ run'[t].job = run[t].job
        /\ run'[t].kind = run[t].kind /\ run'[t].attempt = run[t].attempt
        /\ \A u \in Workers : u # t => run'[u] = run[u]
        /\ job' = job /\ launches' = launches /\ scan' = scan
    BY <1>1, <1>23 DEF MaterializeNativeResult, TypeOK, RunType
  <2>3. RunInv(t)'
    BY <2>1, <2>2 DEF RunInv, Row, Held
  <2> QED BY <1>16, <2>2, <2>3
<1>24. ASSUME NEW t \in Workers, StoreFails(t) PROVE JobInv'
  <2>1. /\ ~Busy(t)' /\ \A u \in Workers : u # t => run'[u] = run[u]
        /\ job' = job /\ launches' = launches /\ scan' = scan
    BY <1>1, <1>24 DEF StoreFails, TypeOK, Busy, IdleRun
  <2> QED BY <1>16, <2>1
<1>25. ASSUME ListExpiredRunning PROVE JobInv'
  <2>1. job' = job /\ launches' = launches /\ run' = run
    BY <1>25 DEF ListExpiredRunning
  <2>2. ASSUME NEW s \in scan' PROVE ScanInv(s)'
    <3>1. PICK j \in ExpiredJobs : s = Snapshot(j)
      BY <1>25 DEF ListExpiredRunning
    <3>2. j \in Jobs /\ job[j].lease = "expired" /\ job[j].rev \in Nat
      BY <1>1 DEF ExpiredJobs, TypeOK, RowType
    <3> QED BY <2>1, <3>1, <3>2 DEF ScanInv, Snapshot
  <2>3. \A u \in Workers : (Busy(u) => RunInv(u))' \/ (KeepsRun(u) /\ KeepsHeld(u))
    BY <1>8, <2>1 DEF Busy, KeepsRun
  <2> QED BY <1>3, <1>8, <2>1, <2>2, <2>3
<1>26. ASSUME NEW t \in Workers, MarkSideEffectsPossible(t) PROVE JobInv'
  <2> DEFINE j == run[t].job
  <2>1. run[t].pc = "marking" /\ RunInv(t) /\ j \in Jobs
    BY <1>1, <1>2, <1>26 DEF MarkSideEffectsPossible, Busy, TypeOK
  <2>2. CASE /\ MarkSucceeds(t)
             /\ job' = [job EXCEPT ![j].effects = TRUE]
             /\ launches' = [launches EXCEPT ![j] = @ + 1]
             /\ run' = [run EXCEPT ![t] = [@ EXCEPT !.pc = "cli", !.seen = FALSE]]
    <3>1. job[j].owner = t /\ job[j].status = "running" /\ job[j].lease = "live" /\ ~job[j].effects
      BY <2>1, <2>2 DEF MarkSucceeds, RunInv, Held, Row
    <3>2. /\ run'[t].pc = "cli" /\ run'[t].kind = run[t].kind /\ run'[t].job = run[t].job
          /\ run'[t].attempt = run[t].attempt
          /\ \A u \in Workers : u # t => run'[u] = run[u]
      BY <1>1, <2>2 DEF TypeOK, RunType
    <3>3. /\ job'[j].effects
          /\ job'[j].status = job[j].status /\ job'[j].session = job[j].session
          /\ job'[j].attempt = job[j].attempt /\ job'[j].rev = job[j].rev
          /\ job'[j].owner = job[j].owner
          /\ launches'[j] = launches[j] + 1
          /\ \A i \in Jobs : i # j => job'[i] = job[i] /\ launches'[i] = launches[i]
          /\ scan' = scan
      BY <1>1, <1>26, <2>1, <2>2 DEF TypeOK, RowType, MarkSideEffectsPossible
    <3>4. \A i \in Jobs : job[i].rev \in Nat /\ launches[i] \in Nat
      BY <1>1 DEF TypeOK, RowType
    <3> HIDE DEF j
    <3>5. ASSUME NEW i \in Jobs PROVE RowInv(i)'
      <4>1. CASE i = j
        <5>1. RowInv(j)
          BY <1>2, <2>1
        <5>2. launches[j] <= 0
          BY <3>1, <5>1 DEF RowInv
        <5>3. launches'[j] <= 1
          BY <2>1, <3>3, <3>4, <5>2
        <5> QED BY <3>1, <3>3, <4>1, <5>1, <5>3 DEF RowInv
      <4>2. CASE i # j
        BY <1>2, <3>3, <4>2, RowKept
      <4> QED BY <4>1, <4>2
    <3>6. \A i \in Jobs : KeepsMark(i) /\ KeepsListed(i)
      BY <3>1, <3>3, <3>4 DEF KeepsMark, KeepsListed
    <3>7. RunInv(t)'
      BY <2>1, <3>1, <3>2, <3>3 DEF RunInv, Row, Held, j
    <3>8. ASSUME NEW u \in Workers, u # t
          PROVE  (Busy(u) => RunInv(u))' \/ (KeepsRun(u) /\ KeepsHeld(u))
      <4>1. CASE ~Busy(u)
        BY <3>2, <3>8, <4>1 DEF Busy
      <4>2. CASE Busy(u)
        <5>1. run[u].job \in Jobs
          BY <1>1, <4>2 DEF TypeOK
        <5> QED BY <3>1, <3>2, <3>3, <3>8, <5>1 DEF KeepsRun, KeepsHeld
      <4> QED BY <4>1, <4>2
    <3> QED BY <1>3, <3>3, <3>5, <3>6, <3>7, <3>8
  <2>3. CASE /\ run' = [run EXCEPT ![t] = Returned(t, "error")]
             /\ UNCHANGED <<job, launches>>
    <3>1. /\ run'[t] = Returned(t, "error") /\ scan' = scan
          /\ \A u \in Workers : u # t => run'[u] = run[u]
      BY <1>1, <1>26, <2>3 DEF TypeOK, MarkSideEffectsPossible
    <3>2. RunInv(t)'
      BY <1>18, <2>1, <2>3, <3>1 DEF RunInv
    <3> QED BY <1>16, <2>3, <3>1, <3>2
  <2> QED BY <1>26, <2>2, <2>3 DEF MarkSideEffectsPossible
<1>27. ASSUME NEW t \in Workers, AssignExternalAgentSession(t) PROVE JobInv'
  <2> DEFINE j == run[t].job
  <2>1. run[t].pc = "cli" /\ RunInv(t) /\ j \in Jobs
    BY <1>1, <1>2, <1>27 DEF AssignExternalAgentSession, Busy, TypeOK
  <2>2. /\ run'[t].pc = run[t].pc /\ run'[t].kind = run[t].kind /\ run'[t].job = j
        /\ run'[t].attempt = run[t].attempt
        /\ \A u \in Workers : u # t => run'[u] = run[u]
        /\ launches' = launches /\ scan' = scan
    BY <1>1, <1>27 DEF AssignExternalAgentSession, TypeOK, RunType
  <2>3. CASE job' = job
    <3>1. RunInv(t)'
      BY <2>1, <2>2, <2>3 DEF RunInv, Row, Held
    <3> QED BY <1>16, <2>2, <2>3, <3>1
  <2>4. CASE job' = [job EXCEPT ![j].session = TRUE] /\ job' # job
    <3>1. Live(t) /\ job[j].status = "running"
      BY <1>27, <2>4 DEF AssignExternalAgentSession, Row
    <3>2. job[j].effects /\ job[j].lease = "live"
      BY <2>1, <3>1 DEF RunInv, Row, Live
    <3>3. \A i \in Jobs : job[i].rev \in Nat
      BY <1>1 DEF TypeOK, RowType
    <3> HIDE DEF j
    <3>4. /\ job'[j].session = TRUE /\ job'[j].effects = job[j].effects
          /\ job'[j].status = job[j].status
          /\ job'[j].attempt = job[j].attempt /\ job'[j].rev = job[j].rev
          /\ job'[j].owner = job[j].owner
          /\ \A i \in Jobs : i # j => job'[i] = job[i]
      BY <1>1, <2>1, <2>4 DEF TypeOK, RowType
    <3>5. ASSUME NEW i \in Jobs PROVE RowInv(i)'
      <4>1. CASE i = j
        BY <1>2, <2>2, <3>2, <3>4, <4>1, ZenonT(60) DEF RowInv
      <4>2. CASE i # j
        BY <1>2, <2>2, <3>4, <4>2, RowKept
      <4> QED BY <4>1, <4>2
    <3>6. ASSUME NEW i \in Jobs PROVE KeepsMark(i) /\ KeepsListed(i)
      <4>1. KeepsMark(i)
        BY <3>4 DEF KeepsMark
      <4>2. KeepsListed(i)
        BY <3>2, <3>3, <3>4 DEF KeepsListed
      <4> QED BY <4>1, <4>2
    <3>7. RunInv(t)'
      BY <2>1, <2>2, <3>1, <3>2, <3>4 DEF RunInv, Row, Held
    <3>8. ASSUME NEW u \in Workers, u # t
          PROVE  (Busy(u) => RunInv(u))' \/ (KeepsRun(u) /\ KeepsHeld(u))
      <4>1. CASE ~Busy(u)
        BY <2>2, <3>8, <4>1 DEF Busy
      <4>2. CASE Busy(u)
        <5>1. run[u].job \in Jobs
          BY <1>1, <4>2 DEF TypeOK
        <5> QED BY <2>2, <3>2, <3>4, <3>8, <5>1, ZenonT(60) DEF KeepsRun, KeepsHeld
      <4> QED BY <4>1, <4>2
    <3> QED BY <1>3, <2>2, <3>5, <3>6, <3>7, <3>8
  <2> QED BY <1>27, <2>3, <2>4 DEF AssignExternalAgentSession
<1>28. ASSUME NEW t \in Workers, RenewLease(t) PROVE JobInv'
  <2> DEFINE j == run[t].job
  <2>1. run[t].hb # "off" /\ j \in Jobs
    BY <1>1, <1>28 DEF RenewLease, TypeOK
  <2>2. /\ \A u \in Workers : KeepsRun(u)
        /\ launches' = launches /\ scan' = scan
    BY <1>1, <1>28 DEF RenewLease, TypeOK, RunType, KeepsRun
  <2>3. CASE job' = job
    BY <1>10, <2>2, <2>3
  <2>4. CASE job' = [job EXCEPT ![j].lease = "live"] /\ job[j].lease = "live"
    <3> HIDE DEF j
    <3>1. /\ job'[j].status = job[j].status /\ job'[j].lease = "live"
          /\ job'[j].effects = job[j].effects /\ job'[j].session = job[j].session
          /\ job'[j].attempt = job[j].attempt /\ job'[j].rev = job[j].rev
          /\ job'[j].owner = job[j].owner
          /\ \A i \in Jobs : i # j => job'[i] = job[i]
      BY <1>1, <2>1, <2>4 DEF TypeOK, RowType
    <3>2. \A i \in Jobs : job[i].rev \in Nat
      BY <1>1 DEF TypeOK, RowType
    <3>3. \A i \in Jobs : RowInv(i)'
      BY <1>2, <2>2, <3>1, RowKept
    <3>4. \A i \in Jobs : KeepsMark(i) /\ KeepsListed(i)
      BY <2>4, <3>1, <3>2 DEF KeepsMark, KeepsListed
    <3>5. \A u \in Workers : Busy(u) => KeepsHeld(u)
      BY <1>1, <3>1 DEF KeepsHeld, TypeOK
    <3>6. \A u \in Workers : (Busy(u) => RunInv(u))' \/ (KeepsRun(u) /\ KeepsHeld(u))
      BY <2>2, <3>5 DEF Busy, KeepsRun
    <3> QED BY <1>3, <2>2, <3>3, <3>4, <3>6
  <2> QED BY <1>28, <2>3, <2>4 DEF RenewLease, Row
\* A slot that takes a row over: everybody else has lost it.
<1>29. ASSUME NEW t \in Workers, NEW j \in Jobs,
              job'[j].owner = t, job'[j].rev = job[j].rev + 1,
              job'[j].effects = job[j].effects, job'[j].session = job[j].session,
              \A i \in Jobs : i # j => job'[i] = job[i],
              launches' = launches, scan' = scan,
              \A u \in Workers : u # t => run'[u] = run[u],
              RowInv(j)', RunInv(t)'
       PROVE  JobInv'
  <2>1. \A i \in Jobs : job[i].rev \in Nat
    BY <1>1 DEF TypeOK, RowType
  <2>2. ASSUME NEW i \in Jobs, i # j PROVE RowInv(i)'
    BY <1>2, <1>29, <2>2, RowKept
  <2>3. \A i \in Jobs : KeepsMark(i) /\ KeepsListed(i)
    BY <1>29, <2>1 DEF KeepsMark, KeepsListed
  <2>4. ASSUME NEW u \in Workers, u # t
        PROVE  (Busy(u) => RunInv(u))' \/ (KeepsRun(u) /\ KeepsHeld(u))
    <3>1. CASE ~Busy(u)
      BY <1>29, <2>4, <3>1 DEF Busy
    <3>2. CASE Busy(u)
      <4>1. run[u].job \in Jobs
        BY <1>1, <3>2 DEF TypeOK
      <4> QED BY <1>29, <2>4, <4>1 DEF KeepsRun, KeepsHeld
    <3> QED BY <3>1, <3>2
  <2> QED BY <1>3, <1>29, <2>2, <2>3, <2>4
<1>30. ASSUME NEW t \in Workers, NEW j \in Jobs, ClaimNext(t, j) PROVE JobInv'
  <2>1. /\ job[j].status = "queued" /\ job'[j].status = "running"
        /\ job'[j].effects = job[j].effects /\ job'[j].session = job[j].session
        /\ job'[j].attempt = job[j].attempt + 1 /\ job'[j].rev = job[j].rev + 1
        /\ job'[j].owner = t
        /\ \A i \in Jobs : i # j => job'[i] = job[i]
        /\ launches' = launches /\ scan' = scan
    BY <1>1, <1>30, SMTT(60) DEF ClaimNext, TypeOK, RowType
  <2>2. /\ run'[t].pc = "claimed" /\ run'[t].kind = "run" /\ run'[t].job = j
        /\ \A u \in Workers : u # t => run'[u] = run[u]
    BY <1>1, <1>30 DEF ClaimNext, TypeOK, IdleRun
  <2>3. RowInv(j) /\ job[j].attempt \in Nat /\ MaxAttempts \in Nat
    BY <1>1, <1>2, BoundsAssumption DEF TypeOK, RowType
  <2>4. RowInv(j)'
    BY <2>1, <2>3 DEF RowInv
  <2>5. ~job'[j].effects
    BY <2>1, <2>3 DEF RowInv
  <2>6. RunInv(t)'
    BY <2>1, <2>2, <2>5 DEF RunInv, Row
  <2> QED BY <1>29, <2>1, <2>2, <2>4, <2>6
<1>31. ASSUME NEW t \in Workers, NEW j \in Jobs, BeginReconciliation(t, j), launches' = launches
       PROVE  JobInv'
  <2>1. /\ job[j].status = "completion_unknown" /\ job'[j].status = "reconciling"
        /\ job'[j].effects = job[j].effects /\ job'[j].session = job[j].session
        /\ job'[j].rev = job[j].rev + 1 /\ job'[j].owner = t
        /\ \A i \in Jobs : i # j => job'[i] = job[i]
        /\ scan' = scan
    BY <1>1, <1>31, SMTT(60) DEF BeginReconciliation, TypeOK, RowType
  <2>2. /\ run'[t].pc = "resuming" /\ run'[t].kind = "resume" /\ run'[t].job = j
        /\ \A u \in Workers : u # t => run'[u] = run[u]
    BY <1>1, <1>31 DEF BeginReconciliation, TypeOK, IdleRun
  <2>3. RowInv(j)
    BY <1>2
  <2>4. RowInv(j)'
    BY <1>31, <2>1, <2>3 DEF RowInv
  <2>5. job'[j].effects
    BY <2>1, <2>3 DEF RowInv
  <2>6. RunInv(t)'
    BY <2>2, <2>5 DEF RunInv, Row
  <2> QED BY <1>29, <1>31, <2>1, <2>2, <2>4, <2>6
<1>32. ASSUME NEW t \in Workers, NEW j \in Jobs, OperatorReconcile(t, j) \/ BackgroundReconcile(t, j)
       PROVE  JobInv'
  BY <1>31, <1>32 DEF OperatorReconcile, BackgroundReconcile, BeginReconciliation
\* A row moved to another status, with a new revision, by a goroutine that ends
\* or by the recovery.
<1>33. ASSUME NEW j \in Jobs,
              job'[j].rev = job[j].rev + 1, job'[j].attempt = job[j].attempt,
              job'[j].effects = job[j].effects, job'[j].session = job[j].session,
              job'[j].owner \in {job[j].owner, NoWorker}, job'[j].status # "reconciling",
              \A i \in Jobs : i # j => job'[i] = job[i],
              launches' = launches, scan' \subseteq scan,
              \A u \in Workers : run'[u] = run[u] \/ (Busy(u) => RunInv(u))',
              RowInv(j)'
       PROVE  JobInv'
  <2>1. \A i \in Jobs : job[i].rev \in Nat
    BY <1>1 DEF TypeOK, RowType
  <2>2. ASSUME NEW i \in Jobs, i # j PROVE RowInv(i)'
    BY <1>2, <1>33, <2>2, RowKept
  <2>3. \A i \in Jobs : KeepsMark(i) /\ KeepsListed(i)
    BY <1>33, <2>1 DEF KeepsMark, KeepsListed
  <2>4. ASSUME NEW u \in Workers
        PROVE  (Busy(u) => RunInv(u))' \/ (KeepsRun(u) /\ KeepsHeld(u))
    <3>1. CASE run'[u] = run[u] /\ ~Busy(u)
      BY <3>1 DEF Busy
    <3>2. CASE run'[u] = run[u] /\ Busy(u)
      <4>1. run[u].job \in Jobs
        BY <1>1, <3>2 DEF TypeOK
      <4> QED BY <1>33, <3>2, <4>1 DEF KeepsRun, KeepsHeld
    <3> QED BY <1>33, <3>1, <3>2
  <2> QED BY <1>3, <1>33, <2>2, <2>3, <2>4
<1>34. ASSUME NEW t \in Workers, Transition(t) PROVE JobInv'
  <2>1. run[t].pc = "commit" /\ RunInv(t) /\ run[t].job \in Jobs
    BY <1>1, <1>2, <1>34 DEF Transition, Busy, TypeOK
  <2> PICK j \in Jobs : j = run[t].job
    BY <2>1
  <2> PICK s : s = run[t].next
    OBVIOUS
  <2>2. /\ (Busy(t) => RunInv(t))'
        /\ \A u \in Workers : u # t => run'[u] = run[u]
        /\ launches' = launches /\ scan' = scan
    <3>1. /\ run'[t].pc \in {"idle", "requeue"}
          /\ run'[t].pc = "requeue" => Row(t)'.status # "reconciling"
      <4>1. CASE /\ s = "interrupted_safe" /\ job' = [job EXCEPT ![j].status = s, ![j].rev = @ + 1]
                 /\ run' = [run EXCEPT ![t] = [@ EXCEPT !.pc = "requeue", !.hb = "off"]]
        <5>1. run'[t].pc = "requeue" /\ run'[t].job = j
          BY <1>1, <4>1 DEF TypeOK, RunType
        <5>2. job'[j].status = "interrupted_safe"
          BY <1>1, <4>1 DEF TypeOK, RowType
        <5> QED BY <5>1, <5>2 DEF Row
      <4>2. CASE run' = [run EXCEPT ![t] = IdleRun]
        BY <1>1, <4>2 DEF TypeOK, IdleRun
      <4> QED BY <1>34, <4>1, <4>2 DEF Transition
    <3>2. /\ \A u \in Workers : u # t => run'[u] = run[u]
          /\ launches' = launches /\ scan' = scan
      BY <1>1, <1>34 DEF Transition, TypeOK
    <3> QED BY <3>1, <3>2 DEF Busy, RunInv, Row
  <2>3. CASE job' = job
    BY <1>16, <2>2, <2>3
  <2>4. CASE TransitionAccepted(t) /\ job' = [job EXCEPT ![j].status = s, ![j].rev = @ + 1]
    <3>1. job[j].owner = t /\ Held(t) /\ ValidJobTransition(job[j].status, s)
      BY <2>4 DEF TransitionAccepted, Held, Row
    <3>2. /\ s \in {"completed", "failed", "cancelled", "completion_unknown", "interrupted_safe"}
          /\ s \in {"completed", "completion_unknown"} => job[j].effects
          /\ s \in {"cancelled", "interrupted_safe"} => ~job[j].effects
          /\ s = "interrupted_safe" => job[j].attempt < MaxAttempts
      BY <2>1, <3>1 DEF RunInv, Row
    <3>3. /\ job'[j].status = s /\ job'[j].rev = job[j].rev + 1
          /\ job'[j].effects = job[j].effects /\ job'[j].session = job[j].session
          /\ job'[j].attempt = job[j].attempt /\ job'[j].owner = job[j].owner
          /\ \A i \in Jobs : i # j => job'[i] = job[i]
      BY <1>1, <2>1, <2>4, SMTT(60) DEF TypeOK, RowType
    <3>4. RowInv(j)'
      <4>1. RowInv(j)
        BY <1>2, <2>1
      <4>2. launches'[j] = launches[j]
        BY <2>2
      <4> QED BY <3>2, <3>3, <4>1, <4>2 DEF RowInv
    <3>5. /\ \A u \in Workers : run'[u] = run[u] \/ (Busy(u) => RunInv(u))'
          /\ launches' = launches /\ scan' \subseteq scan /\ j \in Jobs
          /\ job'[j].status # "reconciling"
      BY <2>1, <2>2, <3>2, <3>3
    <3> QED BY <1>33, <3>3, <3>4, <3>5
  <2> QED BY <1>34, <2>3, <2>4 DEF Transition
<1>35. ASSUME NEW t \in Workers, Requeue(t) PROVE JobInv'
  <2>1. run[t].pc = "requeue" /\ run[t].job \in Jobs
    BY <1>1, <1>35 DEF Requeue, Busy, TypeOK
  <2>0. PICK j \in Jobs : j = run[t].job
    BY <2>1
  <2>2. /\ (Busy(t) => RunInv(t))'
        /\ \A u \in Workers : u # t => run'[u] = run[u]
        /\ launches' = launches /\ scan' = scan
    BY <1>1, <1>35 DEF Requeue, TypeOK, Busy, IdleRun
  <2>3. CASE job' = job
    BY <1>16, <2>2, <2>3
  <2>4. CASE /\ ValidJobTransition(job[j].status, "queued")
             /\ job' = [job EXCEPT ![j].status = "queued", ![j].rev = @ + 1,
                                   ![j].owner = NoWorker, ![j].lease = "none"]
    <3>1. job[j].status = "interrupted_safe"
      BY <2>4 DEF ValidJobTransition
    <3>2. /\ job'[j].status = "queued" /\ job'[j].rev = job[j].rev + 1
          /\ job'[j].effects = job[j].effects /\ job'[j].session = job[j].session
          /\ job'[j].attempt = job[j].attempt /\ job'[j].owner = NoWorker
          /\ \A i \in Jobs : i # j => job'[i] = job[i]
      BY <1>1, <2>4 DEF TypeOK, RowType
    <3>3. RowInv(j)'
      <4>1. RowInv(j)
        BY <1>2, <2>1
      <4>2. launches'[j] = launches[j]
        BY <2>2
      <4> QED BY <3>1, <3>2, <4>1, <4>2 DEF RowInv
    <3>4. /\ \A u \in Workers : run'[u] = run[u] \/ (Busy(u) => RunInv(u))'
          /\ launches' = launches /\ scan' \subseteq scan /\ j \in Jobs
      BY <2>1, <2>2
    <3> QED BY <1>33, <3>2, <3>3, <3>4
  <2> QED BY <1>35, <2>0, <2>3, <2>4 DEF Requeue, Row
<1>36. ASSUME NEW s \in scan, RecoverExpired(s) PROVE JobInv'
  <2> DEFINE j == s.job
             n == RecoveryOutcome(s)
  <2>1. j \in Jobs /\ ScanInv(s) /\ RowInv(j)
    <3>1. j \in Jobs
      BY <1>1 DEF TypeOK, SnapshotType
    <3> QED BY <1>2, <3>1
  <2>2. run' = run /\ launches' = launches /\ scan' \subseteq scan
    BY <1>36 DEF RecoverExpired
  <2>3. CASE job' = job
    <3>1. \A u \in Workers : (Busy(u) => RunInv(u))' \/ (KeepsRun(u) /\ KeepsHeld(u))
      BY <1>8, <2>2, <2>3 DEF Busy, KeepsRun
    <3> QED BY <1>3, <1>8, <2>2, <2>3, <3>1
  <2>4. CASE /\ RecoveryMatches(s, n)
             /\ job' = [job EXCEPT ![j].status = n, ![j].rev = @ + 1,
                                   ![j].owner = NoWorker, ![j].lease = "none"]
    <3>1. /\ s.attempt = job[j].attempt /\ s.status = job[j].status
          /\ s.effects = job[j].effects /\ s.session = job[j].session
      BY <2>1, <2>4 DEF RecoveryMatches, ScanInv
    <3>2. MaxAttempts \in Nat /\ job[j].attempt \in Nat
      BY <1>1, <2>1, BoundsAssumption DEF TypeOK, RowType
    <3>3. \/ n = "completion_unknown" /\ job[j].effects
          \/ n = "cancelled" /\ ~job[j].effects
          \/ n = "failed"
          \/ n = "queued" /\ ~job[j].effects /\ job[j].attempt < MaxAttempts
      BY <2>1, <3>1, <3>2 DEF RecoveryOutcome, RowInv
    <3> HIDE DEF j, n
    <3>4. /\ job'[j].status = n /\ job'[j].rev = job[j].rev + 1
          /\ job'[j].effects = job[j].effects /\ job'[j].session = job[j].session
          /\ job'[j].attempt = job[j].attempt /\ job'[j].owner = NoWorker
          /\ \A i \in Jobs : i # j => job'[i] = job[i]
      BY <1>1, <2>1, <2>4 DEF TypeOK, RowType
    <3>5. RowInv(j)'
      BY <2>1, <2>2, <3>3, <3>4 DEF RowInv
    <3>6. job'[j].status # "reconciling"
      BY <3>3, <3>4
    <3> QED BY <1>33, <2>1, <2>2, <3>4, <3>5, <3>6
  <2> QED BY <1>36, <2>3, <2>4 DEF RecoverExpired
<1> QED
  BY <1>4, <1>5, <1>6, <1>7, <1>9, <1>11, <1>12, <1>13, <1>14, <1>15, <1>17, <1>19, <1>20,
     <1>21, <1>22, <1>23, <1>24, <1>25, <1>26, <1>27, <1>28, <1>30, <1>32, <1>34, <1>35,
     <1>36 DEF Next

\* The inductive invariant holds in every reachable state.
THEOREM JobInvariant == ASSUME LateWrites = FALSE PROVE Spec => []JobInv
<1>1. JobInv /\ [Next]_vars => JobInv'
  BY InvStep
<1> QED BY InvInit, <1>1, PTL DEF Spec

-----------------------------------------------------------------------------
(* The properties.                                                          *)

\* The CLI of a job is started at most once, over any number of retries,
\* restarts, recoveries and reconciliations.
THEOREM OneLaunch == ASSUME LateWrites = FALSE PROVE Spec => []AtMostOneLaunch
<1>1. JobInv => AtMostOneLaunch
  <2> SUFFICES ASSUME JobInv, NEW j \in Jobs PROVE launches[j] <= 1
    BY DEF AtMostOneLaunch
  <2>1. RowInv(j) /\ launches[j] \in Nat
    BY DEF JobInv, TypeOK
  <2> QED BY <2>1 DEF RowInv
<1> QED BY JobInvariant, <1>1, PTL

\* A job that waits or was cancelled never started its CLI, and one reported as
\* uncertain passed the mark.
THEOREM HonestStatus == ASSUME LateWrites = FALSE PROVE Spec => []StatusTellsEffects
<1>1. JobInv => StatusTellsEffects
  <2> SUFFICES ASSUME JobInv, NEW j \in Jobs
               PROVE  /\ job[j].status \in {"absent", "queued", "interrupted_safe", "cancelled"}
                           => launches[j] = 0
                      /\ job[j].status \in {"completion_unknown", "reconciling", "completed", "abandoned"}
                           => job[j].effects
    BY DEF StatusTellsEffects
  <2>1. RowInv(j) /\ launches[j] \in Nat
    BY DEF JobInv, TypeOK
  <2> QED BY <2>1 DEF RowInv
<1> QED BY JobInvariant, <1>1, PTL

\* No job is queued with its attempts used up, or runs beyond them.
THEOREM BoundedRetries == ASSUME LateWrites = FALSE PROVE Spec => []RetryBudget
<1>1. JobInv => RetryBudget
  BY DEF JobInv, RowInv, RetryBudget
<1> QED BY JobInvariant, <1>1, PTL

\* The steps that write a row.
LEMMA RowWriters ==
  ASSUME [Next]_vars, job' # job
  PROVE  \/ \E i \in Jobs :
              \/ Start(i) \/ RequestCancellation(i) \/ AbandonCompletionUnknown(i)
              \/ LeaseExpires(i)
              \/ \E t \in Workers : ClaimNext(t, i) \/ BeginReconciliation(t, i)
         \/ \E t \in Workers :
              \/ MarkSideEffectsPossible(t) \/ AssignExternalAgentSession(t) \/ RenewLease(t)
              \/ Transition(t) \/ Requeue(t)
         \/ \E s \in scan : RecoverExpired(s)
BY DEF Next, vars, rows, TimeoutPasses, WorkstreamMoves, BackgroundReconcileDropped,
       OperatorReconcile, BackgroundReconcile, Execute, PrepareFails, BeginMark,
       MaterializeNativeResult, RunReturns, ReadBack, HeartbeatRead, HeartbeatStops,
       StoreFails, ListExpiredRunning, StopAdmission, CancelContexts, Restart

\* The entries of the table that some step uses: a reconciliation ends as
\* completed or uncertain again, it neither fails nor takes a cancellation.
UsedTransition(from, to) ==
    /\ ValidJobTransition(from, to)
    /\ from = "reconciling" => to \in {"completed", "completion_unknown"}

\* The steps that may move a row, by the status they find it in.
LEMMA StatusMoves ==
  ASSUME JobInv, [Next]_vars, NEW j \in Jobs
  PROVE  \/ job'[j].status = job[j].status /\ job'[j].rev = job[j].rev
         \/ UsedTransition(job[j].status, job'[j].status)
         \/ job[j].status = "absent" /\ job'[j].status = "queued"
         \/ /\ job[j].status = "running"
            /\ job'[j].status \in {"queued", "failed", "completion_unknown"}
         \/ /\ job[j].status = "cancel_requested"
            /\ job'[j].status \in {"cancelled", "completion_unknown"}
         \/ job[j].status = "reconciling" /\ job'[j].status = "completion_unknown"
<1>1. TypeOK /\ job \in [Jobs -> RowType]
  BY DEF JobInv, TypeOK
<1> USE JobsAssumption
<1> USE DEF rows, world, process, results, history
<1>2. CASE job' = job
  BY <1>2
<1>3. ASSUME NEW i \in Jobs, Start(i)
      PROVE  job'[j] = job[j] \/ (job[j].status = "absent" /\ job'[j].status = "queued")
  BY <1>1, <1>3 DEF Start, RowType
<1>4. ASSUME NEW i \in Jobs, RequestCancellation(i)
      PROVE  job'[j] = job[j] \/ UsedTransition(job[j].status, job'[j].status)
  BY <1>1, <1>4 DEF RequestCancellation, UsedTransition, ValidJobTransition, RowType
<1>5. ASSUME NEW i \in Jobs, AbandonCompletionUnknown(i)
      PROVE  job'[j] = job[j] \/ UsedTransition(job[j].status, job'[j].status)
  BY <1>1, <1>5 DEF AbandonCompletionUnknown, UsedTransition, ValidJobTransition, RowType
<1>6. ASSUME NEW t \in Workers, NEW i \in Jobs, ClaimNext(t, i)
      PROVE  job'[j] = job[j] \/ UsedTransition(job[j].status, job'[j].status)
  BY <1>1, <1>6, SMTT(60) DEF ClaimNext, UsedTransition, ValidJobTransition, RowType
<1>7. ASSUME NEW t \in Workers, NEW i \in Jobs, BeginReconciliation(t, i)
      PROVE  job'[j] = job[j] \/ UsedTransition(job[j].status, job'[j].status)
  BY <1>1, <1>7, SMTT(60) DEF BeginReconciliation, UsedTransition, ValidJobTransition, RowType
<1>8. ASSUME NEW i \in Jobs, LeaseExpires(i)
      PROVE  job'[j].status = job[j].status /\ job'[j].rev = job[j].rev
  BY <1>1, <1>8 DEF LeaseExpires, RowType
<1>9. ASSUME NEW t \in Workers,
             \/ MarkSideEffectsPossible(t) \/ AssignExternalAgentSession(t) \/ RenewLease(t)
      PROVE  job'[j].status = job[j].status /\ job'[j].rev = job[j].rev
  <2>1. CASE MarkSideEffectsPossible(t)
    BY <1>1, <2>1 DEF MarkSideEffectsPossible, RowType
  <2>2. CASE AssignExternalAgentSession(t)
    BY <1>1, <2>2 DEF AssignExternalAgentSession, RowType
  <2>3. CASE RenewLease(t)
    BY <1>1, <2>3 DEF RenewLease, RowType
  <2> QED BY <1>9, <2>1, <2>2, <2>3
<1>10. ASSUME NEW t \in Workers, Transition(t)
       PROVE  job'[j] = job[j] \/ UsedTransition(job[j].status, job'[j].status)
  <2>1. CASE job' = job
    BY <2>1
  <2>2. CASE /\ TransitionAccepted(t)
             /\ job' = [job EXCEPT ![run[t].job].status = run[t].next,
                                   ![run[t].job].rev = @ + 1]
    <3>1. UsedTransition(job[run[t].job].status, run[t].next)
      <4>1. RunInv(t) /\ run[t].pc = "commit" /\ run[t].kind \in {"run", "resume"}
        BY <1>1, <1>10 DEF JobInv, Transition, Busy, TypeOK, RunType
      <4> QED BY <2>2, <4>1 DEF UsedTransition, TransitionAccepted, RunInv, Row
    <3>2. CASE j = run[t].job
      <4>1. job'[j].status = run[t].next
        BY <1>1, <2>2, <3>2 DEF RowType
      <4> QED BY <3>1, <3>2, <4>1
    <3>3. CASE j # run[t].job
      BY <1>1, <2>2, <3>3
    <3> QED BY <3>2, <3>3
  <2> QED BY <1>10, <2>1, <2>2 DEF Transition
<1>11. ASSUME NEW t \in Workers, Requeue(t)
       PROVE  job'[j] = job[j] \/ UsedTransition(job[j].status, job'[j].status)
  <2>1. CASE job' = job
    BY <2>1
  <2>2. CASE /\ ValidJobTransition(job[run[t].job].status, "queued")
             /\ job' = [job EXCEPT ![run[t].job].status = "queued", ![run[t].job].rev = @ + 1,
                                   ![run[t].job].owner = NoWorker, ![run[t].job].lease = "none"]
    <3>1. CASE j = run[t].job
      <4>1. job'[j].status = "queued"
        BY <1>1, <2>2, <3>1, SMTT(60) DEF RowType
      <4>2. UsedTransition(job[j].status, "queued")
        BY <2>2, <3>1 DEF UsedTransition, ValidJobTransition
      <4> QED BY <4>1, <4>2
    <3>2. CASE j # run[t].job
      BY <1>1, <2>2, <3>2
    <3> QED BY <3>1, <3>2
  <2> QED BY <1>11, <2>1, <2>2 DEF Requeue, Row
<1>12. ASSUME NEW s \in scan, RecoverExpired(s), job' # job
       PROVE  \/ job'[j] = job[j]
              \/ /\ job[j].status = "running"
                 /\ job'[j].status \in {"queued", "failed", "completion_unknown"}
              \/ /\ job[j].status = "cancel_requested"
                 /\ job'[j].status \in {"cancelled", "completion_unknown"}
              \/ job[j].status = "reconciling" /\ job'[j].status = "completion_unknown"
  <2> DEFINE n == RecoveryOutcome(s)
  <2>1. /\ RecoveryMatches(s, n)
        /\ job' = [job EXCEPT ![s.job].status = n, ![s.job].rev = @ + 1,
                              ![s.job].owner = NoWorker, ![s.job].lease = "none"]
    BY <1>12 DEF RecoverExpired
  <2>2. ScanInv(s) /\ s.job \in Jobs
    BY <1>1 DEF JobInv, TypeOK, SnapshotType
  <2>3. s.status = job[s.job].status /\ s.status \in LeaseHolding
    BY <2>1, <2>2 DEF RecoveryMatches, ScanInv
  <2>4. \/ s.status = "running" /\ n \in {"queued", "failed", "completion_unknown"}
        \/ s.status = "cancel_requested" /\ n \in {"cancelled", "completion_unknown"}
        \/ s.status = "reconciling" /\ n = "completion_unknown"
    BY <2>3 DEF RecoveryOutcome, LeaseHolding
  <2> HIDE DEF n
  <2>5. CASE j = s.job
    <3>1. job'[j].status = n
      BY <1>1, <2>1, <2>5 DEF RowType
    <3> QED BY <2>3, <2>4, <2>5, <3>1
  <2>6. CASE j # s.job
    BY <1>1, <2>1, <2>6
  <2> QED BY <2>5, <2>6
<1> QED BY RowWriters, <1>2, <1>3, <1>4, <1>5, <1>6, <1>7, <1>8, <1>9, <1>10, <1>11, <1>12

\* A final row is never written again, by a late goroutine, the recovery or a
\* person.
THEOREM FinalRows == ASSUME LateWrites = FALSE PROVE Spec => FinalSticks
<1>1. JobInv /\ [Next]_vars =>
        [\A j \in Jobs : job[j].status \in FinalStatus =>
           job'[j].status = job[j].status /\ job'[j].rev = job[j].rev]_vars
  BY StatusMoves DEF FinalStatus, UsedTransition, ValidJobTransition
<1> QED BY JobInvariant, <1>1, PTL DEF Spec, FinalSticks

\* A cancellation accepted by a running job is never overruled.
THEOREM CancelWins == ASSUME LateWrites = FALSE PROVE Spec => CancelIsRespected
<1>1. JobInv /\ [Next]_vars =>
        [\A j \in Jobs : job[j].status = "cancel_requested" =>
           job'[j].status \in {"cancel_requested", "cancelled", "completion_unknown"}]_vars
  BY StatusMoves DEF UsedTransition, ValidJobTransition
<1> QED BY JobInvariant, <1>1, PTL DEF Spec, CancelIsRespected

\* Neither a final row nor an accepted cancellation is overwritten.
THEOREM StaleWritesLose == ASSUME LateWrites = FALSE PROVE Spec => NoStaleWrite
BY FinalRows, CancelWins DEF NoStaleWrite

-----------------------------------------------------------------------------
(* The outcome of a job is filed with it.  Beyond JobInv the argument needs  *)
(* that the runs of one job are told apart by the revision they leased.      *)

\* Once a job is uncertain it is never run again: it is only reconciled,
\* completed or closed.
PastRunning == {"completion_unknown", "reconciling", "completed", "abandoned"}

\* TaskAgreesWithJob for one job.
TaskAgrees(j) ==
    task[j] # "none" /\ ws[j] # "ended" =>
      /\ job[j].status \in FinalStatus \cup {"completion_unknown"}
           => task[j] = TaskStatusFor(job[j].status)
      /\ task[j] \in {"completed", "failed", "cancelled"} => task[j] = job[j].status

\* AutoResumeOnlyOnce for one job, and why: a job that waits to be resumed, or
\* was, never runs again, and neither does one that was cancelled.
ResumedOnce(j) ==
    /\ autoResumes[j] <= 1
    /\ j \in resume => autoResumes[j] = 0
    /\ j \in resume \/ autoResumes[j] = 1 =>
         ~cancelAsked[j] /\ job[j].status \in PastRunning
    /\ cancelAsked[j] => job[j].status \in {"cancel_requested", "cancelled"} \cup PastRunning

\* ResultBinding for one job.
BoundOnce(j) ==
    IF job[j].status = "completed"
    THEN bound[j] = job[j].rev /\ <<j, bound[j]>> \notin available
    ELSE bound[j] = 0

\* No two runs leased the same revision of a job, and none is still able to
\* produce the result of the revision a completed job has.
RevInv(t) ==
    /\ run[t].rev <= Row(t).rev
    /\ Row(t).status = "completed" => run[t].rev + 1 < Row(t).rev
    /\ \A u \in Workers : u # t /\ Busy(u) /\ run[u].job = run[t].job => run[u].rev # run[t].rev

FiledInv ==
    /\ \A j \in Jobs : TaskAgrees(j) /\ ResumedOnce(j) /\ BoundOnce(j)
    /\ \A t \in Workers : Busy(t) => RevInv(t)

\* Nothing is filed yet.
LEMMA FiledInit == Init => FiledInv
<1> SUFFICES ASSUME Init PROVE FiledInv
  OBVIOUS
<1>1. \A t \in Workers : ~Busy(t)
  BY DEF Init, Busy, IdleRun
<1> QED BY <1>1 DEF Init, NewRow, FiledInv, TaskAgrees, ResumedOnce, BoundOnce,
              FinalStatus, PastRunning

\* A step that leaves a task, its job's status and an ended workstream alone
\* keeps their agreement.
LEMMA TaskKept ==
  ASSUME NEW j \in Jobs, TaskAgrees(j), task'[j] = task[j],
         job'[j].status = job[j].status, ws'[j] # "ended" => ws[j] # "ended"
  PROVE  TaskAgrees(j)'
BY DEF TaskAgrees

\* A job that was not final and moves together with SettleTask agrees with its
\* task afterwards, whether the settlement was made or skipped.
LEMMA TaskSettled ==
  ASSUME NEW j \in Jobs, NEW s, TaskAgrees(j), job[j].status \notin FinalStatus,
         job'[j].status = s, task'[j] = Settled(j, s), ws' = ws
  PROVE  TaskAgrees(j)'
<1>1. CASE ws[j] = "ended" \/ task[j] = "none"
  BY <1>1 DEF TaskAgrees, Settled, SettleSkipped
<1>2. CASE ws[j] # "ended" /\ task[j] # "none"
  <2>1. task[j] \notin {"completed", "failed", "cancelled"}
    BY <1>2 DEF TaskAgrees, FinalStatus
  <2>2. CASE SettlesTask(s)
    <3>1. task'[j] = TaskStatusFor(s)
      BY <1>2, <2>1, <2>2 DEF Settled, SettleSkipped, TaskTerminal
    <3> QED BY <3>1 DEF TaskAgrees, TaskStatusFor, FinalStatus
  <2>3. CASE ~SettlesTask(s)
    BY <2>1, <2>3 DEF Settled, SettleSkipped, SettlesTask, TaskAgrees
  <2> QED BY <2>2, <2>3
<1> QED BY <1>1, <1>2

\* An ended workstream stays ended, and only the steps that write both a job
\* and its task write a task.
LEMMA TaskWriters ==
  ASSUME [Next]_vars
  PROVE  /\ ws' = ws \/ (job' = job /\ task' = task)
         /\ TypeOK => \A j \in Jobs : ws'[j] # "ended" => ws[j] # "ended"
         /\ \/ task' = task
            \/ \E i \in Jobs :
                 \/ Start(i) \/ RequestCancellation(i) \/ AbandonCompletionUnknown(i)
                 \/ \E t \in Workers : ClaimNext(t, i)
            \/ \E t \in Workers : Transition(t)
            \/ \E s \in scan : RecoverExpired(s)
<1> USE DEF rows, world, process, results, history
<1>1. CASE \E j \in Jobs : WorkstreamMoves(j)
  BY <1>1 DEF WorkstreamMoves, TypeOK
<1>2. CASE \E j \in Jobs :
             \/ Start(j) \/ RequestCancellation(j) \/ AbandonCompletionUnknown(j)
             \/ LeaseExpires(j) \/ TimeoutPasses(j) \/ BackgroundReconcileDropped(j)
  BY <1>2 DEF Start, RequestCancellation, AbandonCompletionUnknown, LeaseExpires,
              TimeoutPasses, BackgroundReconcileDropped
<1>3. CASE \E j \in Jobs, t \in Workers :
             ClaimNext(t, j) \/ OperatorReconcile(t, j) \/ BackgroundReconcile(t, j)
  <2>1. PICK j \in Jobs, t \in Workers :
               ClaimNext(t, j) \/ OperatorReconcile(t, j) \/ BackgroundReconcile(t, j)
    BY <1>3
  <2>2. CASE ClaimNext(t, j)
    <3>1. ws' = ws
      BY <2>2 DEF ClaimNext
    <3> QED BY <2>2, <3>1
  <2>3. CASE OperatorReconcile(t, j) \/ BackgroundReconcile(t, j)
    <3>1. ws' = ws /\ task' = task
      BY <2>3 DEF OperatorReconcile, BackgroundReconcile, BeginReconciliation
    <3> QED BY <3>1
  <2> QED BY <2>1, <2>2, <2>3
<1>4. CASE \E t \in Workers :
             \/ Execute(t) \/ PrepareFails(t) \/ BeginMark(t) \/ MarkSideEffectsPossible(t)
             \/ AssignExternalAgentSession(t) \/ MaterializeNativeResult(t) \/ RunReturns(t)
             \/ ReadBack(t)
  <2>1. PICK t \in Workers :
             \/ Execute(t) \/ PrepareFails(t) \/ BeginMark(t) \/ MarkSideEffectsPossible(t)
             \/ AssignExternalAgentSession(t) \/ MaterializeNativeResult(t) \/ RunReturns(t)
             \/ ReadBack(t)
    BY <1>4
  <2>2. ws' = ws /\ task' = task
    <3>1. CASE Execute(t) \/ PrepareFails(t) \/ BeginMark(t)
      BY <3>1 DEF Execute, PrepareFails, BeginMark
    <3>2. CASE MarkSideEffectsPossible(t) \/ AssignExternalAgentSession(t)
      BY <3>2 DEF MarkSideEffectsPossible, AssignExternalAgentSession
    <3>3. CASE MaterializeNativeResult(t) \/ RunReturns(t) \/ ReadBack(t)
      BY <3>3 DEF MaterializeNativeResult, RunReturns, ReadBack
    <3> QED BY <2>1, <3>1, <3>2, <3>3
  <2> QED BY <2>2
<1>5. CASE \E t \in Workers :
             \/ Transition(t) \/ Requeue(t) \/ HeartbeatRead(t) \/ RenewLease(t)
             \/ HeartbeatStops(t) \/ StoreFails(t)
  BY <1>5 DEF Transition, Requeue, HeartbeatRead, RenewLease, HeartbeatStops, StoreFails
<1>6. CASE \/ ListExpiredRunning \/ (\E s \in scan : RecoverExpired(s))
           \/ StopAdmission \/ CancelContexts \/ Restart \/ UNCHANGED vars
  BY <1>6 DEF ListExpiredRunning, RecoverExpired, StopAdmission, CancelContexts, Restart, vars
<1> QED BY <1>1, <1>2, <1>3, <1>4, <1>5, <1>6 DEF Next

\* Every step keeps a linked task in agreement with its job.
LEMMA TaskStep ==
  ASSUME JobInv, [Next]_vars, NEW j \in Jobs, TaskAgrees(j)
  PROVE  TaskAgrees(j)'
<1> USE JobsAssumption DEF rows, world, process, results, history
<1>1. TypeOK /\ job \in [Jobs -> RowType] /\ task \in [Jobs -> TaskStatus]
  BY DEF JobInv, TypeOK
<1>2. ws'[j] # "ended" => ws[j] # "ended"
  BY <1>1, TaskWriters
<1>3. ASSUME job'[j].status = job[j].status, task'[j] = task[j] PROVE TaskAgrees(j)'
  BY <1>2, <1>3, TaskKept
<1>4. CASE \E i \in Jobs : Start(i)
  <2>1. PICK i \in Jobs : Start(i)
    BY <1>4
  <2>2. CASE i = j
    <3>1. job'[j].status = "queued" /\ task'[j] \in {"queued", "none"}
      BY <1>1, <2>1, <2>2 DEF Start, RowType
    <3> QED BY <3>1 DEF TaskAgrees, FinalStatus
  <2>3. CASE i # j
    BY <1>1, <1>3, <2>1, <2>3 DEF Start
  <2> QED BY <2>2, <2>3
<1>5. CASE \E i \in Jobs : RequestCancellation(i)
  <2>1. PICK i \in Jobs : RequestCancellation(i)
    BY <1>5
  <2>2. CASE i = j /\ job[j].status = "queued"
    <3>1. /\ job'[j].status = "cancelled" /\ task'[j] = Settled(j, "cancelled") /\ ws' = ws
      BY <1>1, <2>1, <2>2 DEF RequestCancellation, RowType
    <3> QED BY <2>2, <3>1, TaskSettled DEF FinalStatus
  <2>3. CASE i = j /\ job[j].status = "running"
    <3>1. job'[j].status = "cancel_requested" /\ task'[j] = task[j] /\ ws' = ws
      BY <1>1, <2>1, <2>3 DEF RequestCancellation, RowType
    <3> QED BY <2>3, <3>1 DEF TaskAgrees, FinalStatus
  <2>4. CASE i # j
    BY <1>1, <1>3, <2>1, <2>4 DEF RequestCancellation
  <2> QED BY <2>1, <2>2, <2>3, <2>4 DEF RequestCancellation
<1>6. CASE \E i \in Jobs : AbandonCompletionUnknown(i)
  <2>1. PICK i \in Jobs : AbandonCompletionUnknown(i)
    BY <1>6
  <2>2. CASE i = j
    <3>1. /\ job'[j].status = "abandoned" /\ task'[j] = Settled(j, "abandoned") /\ ws' = ws
          /\ job[j].status = "completion_unknown"
      BY <1>1, <2>1, <2>2 DEF AbandonCompletionUnknown, RowType
    <3> QED BY <3>1, TaskSettled DEF FinalStatus
  <2>3. CASE i # j
    BY <1>1, <1>3, <2>1, <2>3 DEF AbandonCompletionUnknown
  <2> QED BY <2>2, <2>3
<1>7. CASE \E i \in Jobs, t \in Workers : ClaimNext(t, i)
  <2>1. PICK i \in Jobs, t \in Workers : ClaimNext(t, i)
    BY <1>7
  <2>2. CASE i = j
    <3>1. /\ job[j].status = "queued" /\ job'[j].status = "running"
          /\ task'[j] = Started(j) /\ ws' = ws
      BY <1>1, <2>1, <2>2 DEF ClaimNext, RowType
    <3> QED BY <3>1 DEF TaskAgrees, FinalStatus, Started, StartSkipped
  <2>3. CASE i # j
    BY <1>1, <1>3, <2>1, <2>3 DEF ClaimNext
  <2> QED BY <2>2, <2>3
<1>8. CASE \E t \in Workers : Transition(t)
  <2>1. PICK t \in Workers : Transition(t)
    BY <1>8
  <2>2. run[t].job \in Jobs
    BY <1>1, <2>1 DEF Transition, Busy, TypeOK
  <2>3. CASE job' = job /\ task' = task
    BY <1>3, <2>3
  <2>4. CASE /\ TransitionAccepted(t)
             /\ job' = [job EXCEPT ![run[t].job].status = run[t].next, ![run[t].job].rev = @ + 1]
             /\ task' = [task EXCEPT ![run[t].job] = Settled(run[t].job, run[t].next)]
    <3>1. CASE run[t].job = j
      <4>1. job[j].status \notin FinalStatus
        BY <2>4, <3>1 DEF TransitionAccepted, ValidJobTransition, FinalStatus, Row
      <4>2. job'[j].status = run[t].next /\ task'[j] = Settled(j, run[t].next) /\ ws' = ws
        BY <1>1, <2>1, <2>4, <3>1 DEF RowType, Transition
      <4> QED BY <4>1, <4>2, TaskSettled
    <3>2. CASE run[t].job # j
      BY <1>1, <1>3, <2>2, <2>4, <3>2
    <3> QED BY <3>1, <3>2
  <2> QED BY <2>1, <2>3, <2>4 DEF Transition
<1>9. CASE \E s \in scan : RecoverExpired(s)
  <2>1. PICK s \in scan : RecoverExpired(s)
    BY <1>9
  <2>2. CASE job' = job /\ task' = task
    BY <1>3, <2>2
  <2> DEFINE i == s.job
             n == RecoveryOutcome(s)
  <2>3. CASE /\ RecoveryMatches(s, n)
             /\ job' = [job EXCEPT ![i].status = n, ![i].rev = @ + 1,
                                   ![i].owner = NoWorker, ![i].lease = "none"]
             /\ task' = [task EXCEPT ![i] = Settled(i, n)]
    <3>1. i \in Jobs /\ job[i].status \notin FinalStatus
      BY <1>1, <2>3 DEF TypeOK, SnapshotType, RecoveryMatches, LeaseHolding, FinalStatus
    <3>2. ws' = ws
      BY <2>1 DEF RecoverExpired
    <3> HIDE DEF n, i
    <3>3. CASE i = j
      <4>1. job'[j].status = n /\ task'[j] = Settled(j, n)
        BY <1>1, <2>3, <3>3 DEF RowType
      <4> QED BY <3>1, <3>2, <3>3, <4>1, TaskSettled
    <3>4. CASE i # j
      BY <1>1, <1>3, <2>3, <3>1, <3>4
    <3> QED BY <3>3, <3>4
  <2> QED BY <2>1, <2>2, <2>3 DEF RecoverExpired
<1>10. ASSUME task' = task, job' # job,
              \/ \E t \in Workers, i \in Jobs : BeginReconciliation(t, i)
              \/ \E i \in Jobs : LeaseExpires(i)
              \/ \E t \in Workers : MarkSideEffectsPossible(t) \/ AssignExternalAgentSession(t)
                                      \/ RenewLease(t) \/ Requeue(t)
       PROVE  TaskAgrees(j)'
  <2>1. \/ job'[j].status = job[j].status
        \/ job[j].status = "completion_unknown" /\ job'[j].status = "reconciling"
        \/ job[j].status = "interrupted_safe" /\ job'[j].status = "queued"
    <3>1. ASSUME NEW t \in Workers, NEW i \in Jobs, BeginReconciliation(t, i)
          PROVE  \/ job'[j].status = job[j].status
                 \/ job[j].status = "completion_unknown" /\ job'[j].status = "reconciling"
      BY <1>1, <3>1 DEF BeginReconciliation, RowType
    <3>2. ASSUME NEW i \in Jobs, LeaseExpires(i) PROVE job'[j].status = job[j].status
      BY <1>1, <3>2 DEF LeaseExpires, RowType
    <3>3. ASSUME NEW t \in Workers, MarkSideEffectsPossible(t) PROVE job'[j].status = job[j].status
      BY <1>1, <3>3 DEF MarkSideEffectsPossible, RowType
    <3>4. ASSUME NEW t \in Workers, AssignExternalAgentSession(t) PROVE job'[j].status = job[j].status
      BY <1>1, <3>4 DEF AssignExternalAgentSession, RowType
    <3>5. ASSUME NEW t \in Workers, RenewLease(t) PROVE job'[j].status = job[j].status
      BY <1>1, <3>5 DEF RenewLease, RowType
    <3>6. ASSUME NEW t \in Workers, Requeue(t)
          PROVE  \/ job'[j].status = job[j].status
                 \/ job[j].status = "interrupted_safe" /\ job'[j].status = "queued"
      <4>1. ASSUME ValidJobTransition(Row(t).status, "queued"),
                   job' = [job EXCEPT ![run[t].job].status = "queued", ![run[t].job].rev = @ + 1,
                                      ![run[t].job].owner = NoWorker, ![run[t].job].lease = "none"]
            PROVE  \/ job'[j].status = job[j].status
                   \/ job[j].status = "interrupted_safe" /\ job'[j].status = "queued"
        <5>1. Row(t).status = "interrupted_safe"
          BY <4>1 DEF ValidJobTransition
        <5>2. run[t].job = j => job'[j].status = "queued"
          BY <1>1, <4>1, SMTT(60) DEF RowType
        <5>3. run[t].job # j => job'[j] = job[j]
          BY <1>1, <4>1
        <5> QED BY <5>1, <5>2, <5>3 DEF Row
      <4> QED BY <3>6, <4>1 DEF Requeue
    <3> QED BY <1>10, <3>1, <3>2, <3>3, <3>4, <3>5, <3>6
  <2> QED BY <1>2, <1>3, <1>10, <2>1 DEF TaskAgrees, FinalStatus
<1>11. CASE job' = job /\ task' = task
  BY <1>3, <1>11
<1> QED BY <1>4, <1>5, <1>6, <1>7, <1>8, <1>9, <1>10, <1>11, RowWriters, TaskWriters

\* The steps that grow the list of jobs to resume, count a resumption or record
\* a cancellation.
LEMMA ResumeWriters ==
  ASSUME [Next]_vars
  PROVE  \/ resume' \subseteq resume /\ autoResumes' = autoResumes /\ cancelAsked' = cancelAsked
         \/ \E i \in Jobs :
              RequestCancellation(i) \/ \E t \in Workers : BackgroundReconcile(t, i)
         \/ \E s \in scan : RecoverExpired(s)
<1> USE DEF rows, world, process, results, history
<1>1. CASE \E j \in Jobs :
             \/ Start(j) \/ RequestCancellation(j) \/ AbandonCompletionUnknown(j)
             \/ LeaseExpires(j) \/ TimeoutPasses(j) \/ WorkstreamMoves(j)
             \/ BackgroundReconcileDropped(j)
  <2>1. PICK j \in Jobs :
             \/ Start(j) \/ RequestCancellation(j) \/ AbandonCompletionUnknown(j)
             \/ LeaseExpires(j) \/ TimeoutPasses(j) \/ WorkstreamMoves(j)
             \/ BackgroundReconcileDropped(j)
    BY <1>1
  <2> QED BY <2>1 DEF Start, AbandonCompletionUnknown, LeaseExpires, TimeoutPasses,
                      WorkstreamMoves, BackgroundReconcileDropped
<1>2. CASE \E j \in Jobs, t \in Workers :
             ClaimNext(t, j) \/ OperatorReconcile(t, j) \/ BackgroundReconcile(t, j)
  <2>1. PICK j \in Jobs, t \in Workers :
             ClaimNext(t, j) \/ OperatorReconcile(t, j) \/ BackgroundReconcile(t, j)
    BY <1>2
  <2>2. CASE ClaimNext(t, j) \/ OperatorReconcile(t, j)
    <3>1. resume' = resume /\ autoResumes' = autoResumes /\ cancelAsked' = cancelAsked
      BY <2>2 DEF ClaimNext, OperatorReconcile, BeginReconciliation
    <3> QED BY <3>1
  <2> QED BY <2>1, <2>2
<1>3. ASSUME NEW t \in Workers,
             \/ Execute(t) \/ PrepareFails(t) \/ BeginMark(t) \/ MarkSideEffectsPossible(t)
             \/ AssignExternalAgentSession(t) \/ MaterializeNativeResult(t) \/ RunReturns(t)
             \/ ReadBack(t) \/ Transition(t) \/ Requeue(t) \/ HeartbeatRead(t)
             \/ RenewLease(t) \/ HeartbeatStops(t) \/ StoreFails(t)
      PROVE  resume' = resume /\ autoResumes' = autoResumes /\ cancelAsked' = cancelAsked
  <2>1. CASE \/ Execute(t) \/ PrepareFails(t) \/ BeginMark(t) \/ MarkSideEffectsPossible(t)
    BY <2>1 DEF Execute, PrepareFails, BeginMark, MarkSideEffectsPossible
  <2>2. CASE \/ AssignExternalAgentSession(t) \/ MaterializeNativeResult(t) \/ RunReturns(t)
             \/ ReadBack(t)
    BY <2>2 DEF AssignExternalAgentSession, MaterializeNativeResult, RunReturns, ReadBack
  <2>3. CASE Transition(t) \/ Requeue(t) \/ HeartbeatRead(t)
    BY <2>3 DEF Transition, Requeue, HeartbeatRead
  <2>4. CASE RenewLease(t) \/ HeartbeatStops(t) \/ StoreFails(t)
    BY <2>4 DEF RenewLease, HeartbeatStops, StoreFails
  <2> QED BY <1>3, <2>1, <2>2, <2>3, <2>4
<1>4. CASE ListExpiredRunning \/ StopAdmission \/ CancelContexts \/ Restart \/ UNCHANGED vars
  BY <1>4 DEF ListExpiredRunning, StopAdmission, CancelContexts, Restart, vars
<1> QED BY <1>1, <1>2, <1>3, <1>4 DEF Next

\* Every step resumes a job at most once on its own, and never a cancelled one.
LEMMA ResumeStep ==
  ASSUME JobInv, TypeOK', [Next]_vars, NEW j \in Jobs, ResumedOnce(j)
  PROVE  ResumedOnce(j)'
<1> USE DEF rows, world, process, results, history
<1>1. /\ TypeOK /\ job \in [Jobs -> RowType] /\ autoResumes[j] \in Nat
      /\ autoResumes \in [Jobs -> Nat] /\ cancelAsked \in [Jobs -> BOOLEAN]
  BY DEF JobInv, TypeOK
<1>2. /\ job[j].status \in PastRunning => job'[j].status \in PastRunning
      /\ job[j].status \in {"cancel_requested", "cancelled"} \cup PastRunning
           => job'[j].status \in {"cancel_requested", "cancelled"} \cup PastRunning
  BY StatusMoves DEF PastRunning, UsedTransition, ValidJobTransition
<1>3. ASSUME j \in resume' => j \in resume, autoResumes'[j] = autoResumes[j],
             cancelAsked'[j] = cancelAsked[j]
      PROVE  ResumedOnce(j)'
  BY <1>2, <1>3 DEF ResumedOnce
<1>4. CASE \E i \in Jobs : RequestCancellation(i)
  <2>1. PICK i \in Jobs : RequestCancellation(i)
    BY <1>4
  <2>2. CASE i = j /\ job[j].status = "running"
    <3>1. /\ job'[j].status = "cancel_requested" /\ resume' = resume /\ autoResumes' = autoResumes
      BY <1>1, <2>1, <2>2 DEF RequestCancellation, RowType
    <3>2. j \notin resume /\ autoResumes[j] # 1
      BY <2>2 DEF ResumedOnce, PastRunning
    <3> QED BY <3>1, <3>2 DEF ResumedOnce
  <2>3. CASE i # j \/ job[j].status # "running"
    <3>1. resume' = resume /\ autoResumes' = autoResumes /\ cancelAsked'[j] = cancelAsked[j]
      BY <1>1, <2>1, <2>3 DEF RequestCancellation
    <3> QED BY <1>3, <3>1
  <2> QED BY <2>2, <2>3
<1>5. CASE \E i \in Jobs, t \in Workers : BackgroundReconcile(t, i)
  <2>1. PICK i \in Jobs, t \in Workers : BackgroundReconcile(t, i)
    BY <1>5
  <2>2. /\ cancelAsked' = cancelAsked /\ resume' = resume \ {i} /\ i \in resume
        /\ autoResumes' = [autoResumes EXCEPT ![i] = @ + 1]
    BY <2>1 DEF BackgroundReconcile, BeginReconciliation
  <2>3. CASE i = j
    <3>1. autoResumes[j] = 0 /\ ~cancelAsked[j] /\ job[j].status \in PastRunning
      BY <2>2, <2>3 DEF ResumedOnce
    <3>2. autoResumes'[j] = 1 /\ j \notin resume'
      BY <1>1, <2>2, <2>3, <3>1
    <3> QED BY <1>2, <2>2, <3>1, <3>2 DEF ResumedOnce
  <2>4. CASE i # j
    <3>1. autoResumes'[j] = autoResumes[j]
      BY <1>1, <2>2, <2>4
    <3> QED BY <1>3, <2>2, <3>1
  <2> QED BY <2>3, <2>4
<1>6. CASE \E s \in scan : RecoverExpired(s)
  <2>1. PICK s \in scan : RecoverExpired(s)
    BY <1>6
  <2>2. autoResumes' = autoResumes /\ cancelAsked' = cancelAsked
    BY <2>1 DEF RecoverExpired
  <2>3. CASE j \in resume' /\ j \notin resume
    <3> DEFINE n == RecoveryOutcome(s)
    <3>1. /\ s.job = j /\ n = "completion_unknown" /\ s.status = "running"
          /\ RecoveryMatches(s, n)
          /\ job' = [job EXCEPT ![s.job].status = n, ![s.job].rev = @ + 1,
                                ![s.job].owner = NoWorker, ![s.job].lease = "none"]
      BY <2>1, <2>3 DEF RecoverExpired, ResumableAfterExpiry
    <3>2. ScanInv(s)
      BY <2>1 DEF JobInv
    <3>3. job[j].status = "running"
      BY <3>1, <3>2 DEF RecoveryMatches, ScanInv
    <3>4. autoResumes[j] = 0 /\ ~cancelAsked[j]
      <4>1. job[j].status \notin PastRunning \cup {"cancel_requested", "cancelled"}
        BY <3>3 DEF PastRunning
      <4>2. autoResumes[j] # 1 /\ ~cancelAsked[j] /\ autoResumes[j] <= 1
        BY <4>1 DEF ResumedOnce
      <4> QED BY <1>1, <4>2
    <3> HIDE DEF n
    <3>5. job'[j].status = "completion_unknown"
      BY <1>1, <3>1 DEF RowType
    <3> QED BY <2>2, <3>4, <3>5 DEF ResumedOnce, PastRunning
  <2>4. CASE j \in resume' => j \in resume
    BY <1>3, <2>2, <2>4
  <2> QED BY <2>3, <2>4
<1>7. CASE resume' \subseteq resume /\ autoResumes' = autoResumes /\ cancelAsked' = cancelAsked
  BY <1>3, <1>7
<1> QED BY <1>4, <1>5, <1>6, <1>7, ResumeWriters

-----------------------------------------------------------------------------
(* The revision a run leased.                                               *)

\* Revisions only grow.
LEMMA RevGrows ==
  ASSUME JobInv, [Next]_vars, NEW j \in Jobs
  PROVE  job'[j].rev >= job[j].rev
<1> USE JobsAssumption DEF rows
<1>1. TypeOK /\ job \in [Jobs -> RowType] /\ job[j].rev \in Nat
  BY DEF JobInv, TypeOK, RowType
<1>3. ASSUME NEW i \in Jobs,
             \/ Start(i) \/ RequestCancellation(i) \/ AbandonCompletionUnknown(i)
             \/ LeaseExpires(i)
      PROVE  job'[j].rev >= job[j].rev
  BY <1>1, <1>3 DEF Start, RequestCancellation, AbandonCompletionUnknown, LeaseExpires, RowType
<1>4. ASSUME NEW i \in Jobs, NEW t \in Workers, ClaimNext(t, i) PROVE job'[j].rev >= job[j].rev
  BY <1>1, <1>4 DEF ClaimNext, RowType
<1>5. ASSUME NEW i \in Jobs, NEW t \in Workers, BeginReconciliation(t, i)
      PROVE  job'[j].rev >= job[j].rev
  BY <1>1, <1>5 DEF BeginReconciliation, RowType
<1>6. ASSUME NEW t \in Workers,
             MarkSideEffectsPossible(t) \/ AssignExternalAgentSession(t) \/ RenewLease(t)
      PROVE  job'[j].rev >= job[j].rev
  <2>1. CASE MarkSideEffectsPossible(t)
    BY <1>1, <2>1 DEF MarkSideEffectsPossible, RowType
  <2>2. CASE AssignExternalAgentSession(t)
    BY <1>1, <2>2 DEF AssignExternalAgentSession, RowType
  <2>3. CASE RenewLease(t)
    BY <1>1, <2>3 DEF RenewLease, RowType
  <2> QED BY <1>6, <2>1, <2>2, <2>3
<1>7. ASSUME NEW t \in Workers, Transition(t) PROVE job'[j].rev >= job[j].rev
  BY <1>1, <1>7 DEF Transition, RowType
<1>8. ASSUME NEW t \in Workers, Requeue(t) PROVE job'[j].rev >= job[j].rev
  BY <1>1, <1>8 DEF Requeue, RowType
<1>9. ASSUME NEW s \in scan, RecoverExpired(s) PROVE job'[j].rev >= job[j].rev
  BY <1>1, <1>9 DEF RecoverExpired, RowType
<1> QED BY <1>1, <1>3, <1>4, <1>5, <1>6, <1>7, <1>8, <1>9, RowWriters

\* A step starts a run on a new revision of its job, or every goroutine goes on
\* with the revision it leased or stops.
LEMMA RunRevs ==
  ASSUME TypeOK, [Next]_vars
  PROVE  \/ \A u \in Workers : Busy(u)' =>
              Busy(u) /\ run'[u].job = run[u].job /\ run'[u].rev = run[u].rev
         \/ \E t \in Workers, j \in Jobs :
              /\ job[j].status # "completed" /\ job'[j].status # "completed"
              /\ job'[j].rev = job[j].rev + 1
              /\ run'[t].job = j /\ run'[t].rev = job[j].rev + 1
              /\ \A u \in Workers : u # t => run'[u] = run[u]
              /\ \A i \in Jobs : i # j => job'[i] = job[i]
<1> USE JobsAssumption DEF rows, world, process, results, history
<1>1. job \in [Jobs -> RowType] /\ run \in [Workers -> RunType]
  BY DEF TypeOK
<1>2. ASSUME run' = run
      PROVE  \A u \in Workers : Busy(u)' =>
               Busy(u) /\ run'[u].job = run[u].job /\ run'[u].rev = run[u].rev
  BY <1>2 DEF Busy
<1>3. CASE \E j \in Jobs :
             \/ Start(j) \/ RequestCancellation(j) \/ AbandonCompletionUnknown(j)
             \/ LeaseExpires(j) \/ TimeoutPasses(j) \/ WorkstreamMoves(j)
             \/ BackgroundReconcileDropped(j)
  <2>1. run' = run
    BY <1>3 DEF Start, RequestCancellation, AbandonCompletionUnknown, LeaseExpires,
                TimeoutPasses, WorkstreamMoves, BackgroundReconcileDropped
  <2> QED BY <1>2, <2>1
<1>4. CASE ListExpiredRunning \/ StopAdmission \/ UNCHANGED vars \/ \E s \in scan : RecoverExpired(s)
  <2>1. run' = run
    BY <1>4 DEF ListExpiredRunning, StopAdmission, RecoverExpired, vars
  <2> QED BY <1>2, <2>1
<1>5. CASE Restart
  BY <1>5 DEF Restart, Busy, IdleRun
<1>6. CASE CancelContexts
  <2>1. ASSUME NEW u \in Workers
        PROVE  run'[u].job = run[u].job /\ run'[u].rev = run[u].rev /\ run'[u].pc = run[u].pc
    BY <1>1, <1>6 DEF CancelContexts, RunType
  <2> QED BY <2>1 DEF Busy
<1>7. CASE \E t \in Workers, j \in Jobs : ClaimNext(t, j)
  <2>1. PICK t \in Workers, j \in Jobs : ClaimNext(t, j)
    BY <1>7
  <2>2. /\ job[j].status = "queued" /\ job'[j].status = "running" /\ job'[j].rev = job[j].rev + 1
        /\ \A i \in Jobs : i # j => job'[i] = job[i]
    BY <1>1, <2>1 DEF ClaimNext, RowType
  <2>3. /\ run'[t].job = j /\ run'[t].rev = job[j].rev + 1
        /\ \A u \in Workers : u # t => run'[u] = run[u]
    BY <1>1, <2>1 DEF ClaimNext, IdleRun
  <2> QED BY <2>2, <2>3
<1>8. CASE \E t \in Workers, j \in Jobs : OperatorReconcile(t, j) \/ BackgroundReconcile(t, j)
  <2>1. PICK t \in Workers, j \in Jobs : BeginReconciliation(t, j)
    BY <1>8 DEF OperatorReconcile, BackgroundReconcile
  <2>2. /\ job[j].status = "completion_unknown" /\ job'[j].status = "reconciling"
        /\ job'[j].rev = job[j].rev + 1
        /\ \A i \in Jobs : i # j => job'[i] = job[i]
    BY <1>1, <2>1 DEF BeginReconciliation, RowType
  <2>3. /\ run'[t].job = j /\ run'[t].rev = job[j].rev + 1
        /\ \A u \in Workers : u # t => run'[u] = run[u]
    BY <1>1, <2>1 DEF BeginReconciliation, IdleRun
  <2> QED BY <2>2, <2>3
<1>9. ASSUME NEW t \in Workers, \A u \in Workers : u # t => run'[u] = run[u],
             Busy(t)' => Busy(t) /\ run'[t].job = run[t].job /\ run'[t].rev = run[t].rev
      PROVE  \A u \in Workers : Busy(u)' =>
               Busy(u) /\ run'[u].job = run[u].job /\ run'[u].rev = run[u].rev
  BY <1>9 DEF Busy
<1>10. ASSUME NEW t \in Workers, Execute(t) \/ BeginMark(t) \/ MaterializeNativeResult(t) \/ ReadBack(t)
       PROVE  \A u \in Workers : Busy(u)' =>
                Busy(u) /\ run'[u].job = run[u].job /\ run'[u].rev = run[u].rev
  <2>1. /\ \A u \in Workers : u # t => run'[u] = run[u]
        /\ Busy(t) /\ run'[t].job = run[t].job /\ run'[t].rev = run[t].rev
    <3>1. CASE Execute(t)
      BY <1>1, <3>1 DEF Execute, Busy, RunType
    <3>2. CASE BeginMark(t)
      BY <1>1, <3>2 DEF BeginMark, Busy, RunType
    <3>3. CASE MaterializeNativeResult(t)
      BY <1>1, <3>3 DEF MaterializeNativeResult, Busy, RunType
    <3>4. CASE ReadBack(t)
      BY <1>1, <3>4 DEF ReadBack, Busy, RunType
    <3> QED BY <1>10, <3>1, <3>2, <3>3, <3>4
  <2> QED BY <1>9, <2>1
<1>11. ASSUME NEW t \in Workers, NEW o, Busy(t), run' = [run EXCEPT ![t] = Returned(t, o)]
       PROVE  \A u \in Workers : Busy(u)' =>
                Busy(u) /\ run'[u].job = run[u].job /\ run'[u].rev = run[u].rev
  <2>1. Returned(t, o).job = run[t].job /\ Returned(t, o).rev = run[t].rev
    BY <1>1 DEF Returned, RunType
  <2> QED BY <1>1, <1>9, <1>11, <2>1
<1>12. ASSUME NEW t \in Workers, PrepareFails(t) \/ RunReturns(t)
       PROVE  \A u \in Workers : Busy(u)' =>
                Busy(u) /\ run'[u].job = run[u].job /\ run'[u].rev = run[u].rev
  BY <1>11, <1>12 DEF PrepareFails, RunReturns, Busy
<1>13. ASSUME NEW t \in Workers, MarkSideEffectsPossible(t)
       PROVE  \A u \in Workers : Busy(u)' =>
                Busy(u) /\ run'[u].job = run[u].job /\ run'[u].rev = run[u].rev
  <2>1. Busy(t)
    BY <1>13 DEF MarkSideEffectsPossible, Busy
  <2>2. CASE run' = [run EXCEPT ![t] = [@ EXCEPT !.pc = "cli", !.seen = FALSE]]
    BY <1>1, <1>9, <2>1, <2>2 DEF RunType
  <2> QED BY <1>11, <1>13, <2>1, <2>2 DEF MarkSideEffectsPossible
<1>14. ASSUME NEW t \in Workers, AssignExternalAgentSession(t)
       PROVE  \A u \in Workers : Busy(u)' =>
                Busy(u) /\ run'[u].job = run[u].job /\ run'[u].rev = run[u].rev
  <2>1. Busy(t)
    BY <1>14 DEF AssignExternalAgentSession, Busy
  <2>2. /\ \A u \in Workers : u # t => run'[u] = run[u]
        /\ run'[t].job = run[t].job /\ run'[t].rev = run[t].rev
    BY <1>1, <1>14 DEF AssignExternalAgentSession, RunType
  <2> QED BY <1>9, <2>1, <2>2
<1>15. ASSUME NEW t \in Workers, Transition(t)
       PROVE  \A u \in Workers : Busy(u)' =>
                Busy(u) /\ run'[u].job = run[u].job /\ run'[u].rev = run[u].rev
  <2>1. Busy(t)
    BY <1>15 DEF Transition, Busy
  <2>2. CASE run' = [run EXCEPT ![t] = [@ EXCEPT !.pc = "requeue", !.hb = "off"]]
    BY <1>1, <1>9, <2>1, <2>2 DEF RunType
  <2>3. CASE run' = [run EXCEPT ![t] = IdleRun]
    BY <1>1, <1>9, <2>3 DEF Busy, IdleRun
  <2> QED BY <1>15, <2>2, <2>3 DEF Transition
<1>16. ASSUME NEW t \in Workers, Requeue(t) \/ StoreFails(t)
       PROVE  \A u \in Workers : Busy(u)' =>
                Busy(u) /\ run'[u].job = run[u].job /\ run'[u].rev = run[u].rev
  <2>1. run' = [run EXCEPT ![t] = IdleRun]
    BY <1>16 DEF Requeue, StoreFails
  <2> QED BY <1>1, <1>9, <2>1 DEF Busy, IdleRun
<1>17. ASSUME NEW t \in Workers, HeartbeatRead(t) \/ RenewLease(t) \/ HeartbeatStops(t)
       PROVE  \A u \in Workers : Busy(u)' =>
                Busy(u) /\ run'[u].job = run[u].job /\ run'[u].rev = run[u].rev
  <2>1. /\ \A u \in Workers : u # t => run'[u] = run[u]
        /\ run'[t].job = run[t].job /\ run'[t].rev = run[t].rev /\ run'[t].pc = run[t].pc
    <3>1. CASE HeartbeatRead(t)
      BY <1>1, <3>1 DEF HeartbeatRead, RunType
    <3>2. CASE RenewLease(t)
      BY <1>1, <3>2 DEF RenewLease, RunType
    <3>3. CASE HeartbeatStops(t)
      BY <1>1, <3>3 DEF HeartbeatStops, RunType
    <3> QED BY <1>17, <3>1, <3>2, <3>3
  <2> QED BY <1>9, <2>1 DEF Busy
<1> QED
  <2>1. CASE \E t \in Workers :
               \/ Execute(t) \/ PrepareFails(t) \/ BeginMark(t) \/ MarkSideEffectsPossible(t)
               \/ AssignExternalAgentSession(t) \/ MaterializeNativeResult(t) \/ RunReturns(t)
               \/ ReadBack(t) \/ Transition(t) \/ Requeue(t) \/ HeartbeatRead(t)
               \/ RenewLease(t) \/ HeartbeatStops(t) \/ StoreFails(t)
    BY <2>1, <1>10, <1>12, <1>13, <1>14, <1>15, <1>16, <1>17
  <2> QED BY <2>1, <1>3, <1>4, <1>5, <1>6, <1>7, <1>8 DEF Next

\* A job is completed, and a result bound to it, by the Transition of a run that
\* still holds the revision it leased.
Completes(t, j) ==
    /\ run[t].job = j /\ run[t].next = "completed" /\ run[t].native
    /\ run[t].rev = job[j].rev /\ Busy(t) /\ run'[t].pc = "idle"
    /\ job[j].status # "completed" /\ job'[j].status = "completed"
    /\ job'[j].rev = job[j].rev + 1
    /\ bound'[j] = run[t].rev + 1 /\ available' = available \ {<<j, run[t].rev + 1>>}

\* The steps that complete a job or bind a result.
LEMMA BoundWriters ==
  ASSUME JobInv, [Next]_vars, NEW j \in Jobs,
         \/ bound'[j] # bound[j]
         \/ job[j].status # "completed" /\ job'[j].status = "completed"
  PROVE  \E t \in Workers : Completes(t, j)
<1> USE JobsAssumption DEF rows, world, process, results, history
<1>1. /\ TypeOK /\ job \in [Jobs -> RowType] /\ run \in [Workers -> RunType]
      /\ bound \in [Jobs -> Nat]
  BY DEF JobInv, TypeOK
<1>2. ASSUME NEW t \in Workers, Transition(t) PROVE Completes(t, j)
  <2>1. run[t].job \in Jobs /\ Busy(t)
    BY <1>1, <1>2 DEF Transition, Busy, TypeOK
  <2>2. /\ TransitionAccepted(t)
        /\ job' = [job EXCEPT ![run[t].job].status = run[t].next, ![run[t].job].rev = @ + 1]
        /\ bound' = [bound EXCEPT ![run[t].job] =
                       IF run[t].next = "completed" THEN run[t].rev + 1 ELSE @]
        /\ available' = available \ OwnResult(t)
        /\ run' = [run EXCEPT ![t] = IF run[t].next = "interrupted_safe"
                                     THEN [@ EXCEPT !.pc = "requeue", !.hb = "off"] ELSE IdleRun]
    BY <1>2 DEF Transition
  <2>3. run[t].job = j
    BY <1>1, <2>1, <2>2
  <2>4. job'[j].status = run[t].next /\ job'[j].rev = job[j].rev + 1
    BY <1>1, <2>2, <2>3 DEF RowType
  <2>5. run[t].next = "completed"
    BY <1>1, <2>2, <2>3, <2>4
  <2>6. run[t].native /\ run[t].rev = job[j].rev /\ job[j].status # "completed"
    BY <2>2, <2>3, <2>5 DEF TransitionAccepted, Row, ValidJobTransition
  <2>7. bound'[j] = run[t].rev + 1 /\ available' = available \ {<<j, run[t].rev + 1>>}
    BY <1>1, <2>2, <2>3, <2>5, <2>6 DEF OwnResult
  <2>8. run'[t].pc = "idle"
    BY <1>1, <2>2, <2>5 DEF IdleRun
  <2> QED BY <2>1, <2>3, <2>4, <2>5, <2>6, <2>7, <2>8 DEF Completes
<1>3. CASE ~\E t \in Workers : Transition(t)
  <2>1. bound' = bound
    <3>1. CASE \E i \in Jobs :
             \/ Start(i) \/ RequestCancellation(i) \/ AbandonCompletionUnknown(i)
             \/ LeaseExpires(i) \/ TimeoutPasses(i) \/ WorkstreamMoves(i)
             \/ BackgroundReconcileDropped(i)
      BY <3>1 DEF Start, RequestCancellation, AbandonCompletionUnknown, LeaseExpires,
                  TimeoutPasses, WorkstreamMoves, BackgroundReconcileDropped
    <3>2. ASSUME NEW i \in Jobs, NEW t \in Workers,
                 ClaimNext(t, i) \/ OperatorReconcile(t, i) \/ BackgroundReconcile(t, i)
          PROVE  bound' = bound
      BY <3>2 DEF ClaimNext, OperatorReconcile, BackgroundReconcile, BeginReconciliation
    <3>3. ASSUME NEW t \in Workers,
                 \/ Execute(t) \/ PrepareFails(t) \/ BeginMark(t) \/ MarkSideEffectsPossible(t)
                 \/ AssignExternalAgentSession(t) \/ MaterializeNativeResult(t) \/ RunReturns(t)
          PROVE  bound' = bound
      <4>1. CASE Execute(t) \/ PrepareFails(t) \/ BeginMark(t)
        BY <4>1 DEF Execute, PrepareFails, BeginMark
      <4>2. CASE MarkSideEffectsPossible(t) \/ AssignExternalAgentSession(t)
        BY <4>2 DEF MarkSideEffectsPossible, AssignExternalAgentSession
      <4>3. CASE MaterializeNativeResult(t) \/ RunReturns(t)
        BY <4>3 DEF MaterializeNativeResult, RunReturns
      <4> QED BY <3>3, <4>1, <4>2, <4>3
    <3>4. ASSUME NEW t \in Workers,
                 \/ ReadBack(t) \/ Requeue(t) \/ HeartbeatRead(t)
                 \/ RenewLease(t) \/ HeartbeatStops(t) \/ StoreFails(t)
          PROVE  bound' = bound
      BY <3>4 DEF ReadBack, Requeue, HeartbeatRead, RenewLease, HeartbeatStops, StoreFails
    <3>5. CASE \/ ListExpiredRunning \/ (\E s \in scan : RecoverExpired(s))
               \/ StopAdmission \/ CancelContexts \/ Restart \/ UNCHANGED vars
      BY <3>5 DEF ListExpiredRunning, RecoverExpired, StopAdmission, CancelContexts, Restart, vars
    <3> QED BY <1>3, <3>1, <3>2, <3>3, <3>4, <3>5 DEF Next
  <2>2. ~(job[j].status # "completed" /\ job'[j].status = "completed")
    <3>1. CASE job' = job
      BY <3>1
    <3>2. ASSUME NEW i \in Jobs,
                 \/ Start(i) \/ RequestCancellation(i) \/ AbandonCompletionUnknown(i)
                 \/ LeaseExpires(i)
          PROVE  job'[j].status # "completed" \/ job'[j].status = job[j].status
      BY <1>1, <3>2 DEF Start, RequestCancellation, AbandonCompletionUnknown, LeaseExpires, RowType
    <3>3. ASSUME NEW i \in Jobs, NEW t \in Workers, ClaimNext(t, i) \/ BeginReconciliation(t, i)
          PROVE  job'[j].status # "completed" \/ job'[j].status = job[j].status
      <4>1. CASE ClaimNext(t, i)
        BY <1>1, <4>1 DEF ClaimNext, RowType
      <4>2. CASE BeginReconciliation(t, i)
        BY <1>1, <4>2 DEF BeginReconciliation, RowType
      <4> QED BY <3>3, <4>1, <4>2
    <3>4. ASSUME NEW t \in Workers,
                 MarkSideEffectsPossible(t) \/ AssignExternalAgentSession(t) \/ RenewLease(t)
          PROVE  job'[j].status = job[j].status
      <4>1. CASE MarkSideEffectsPossible(t)
        BY <1>1, <4>1 DEF MarkSideEffectsPossible, RowType
      <4>2. CASE AssignExternalAgentSession(t)
        BY <1>1, <4>2 DEF AssignExternalAgentSession, RowType
      <4>3. CASE RenewLease(t)
        BY <1>1, <4>3 DEF RenewLease, RowType
      <4> QED BY <3>4, <4>1, <4>2, <4>3
    <3>5. ASSUME NEW t \in Workers, Requeue(t)
          PROVE  job'[j].status # "completed" \/ job'[j].status = job[j].status
      BY <1>1, <3>5 DEF Requeue, RowType
    <3>6. ASSUME NEW s \in scan, RecoverExpired(s)
          PROVE  job'[j].status # "completed" \/ job'[j].status = job[j].status
      <4> DEFINE n == RecoveryOutcome(s)
      <4>1. n # "completed"
        BY DEF RecoveryOutcome
      <4>2. \/ job' = job
            \/ job' = [job EXCEPT ![s.job].status = n, ![s.job].rev = @ + 1,
                                  ![s.job].owner = NoWorker, ![s.job].lease = "none"]
        BY <3>6 DEF RecoverExpired
      <4> HIDE DEF n
      <4> QED BY <1>1, <4>1, <4>2 DEF RowType
    <3> QED BY <1>3, <3>1, <3>2, <3>3, <3>4, <3>5, <3>6, RowWriters
  <2> QED BY <2>1, <2>2
<1> QED BY <1>2, <1>3

\* Only a goroutine that materialises its result adds to the available ones.
LEMMA AvailableGrows ==
  ASSUME [Next]_vars, NEW a \in available', a \notin available
  PROVE  \E t \in Workers : Busy(t) /\ a = <<run[t].job, run[t].rev + 1>>
<1> USE DEF rows, world, process, results, history
<1>1. CASE \E i \in Jobs :
         \/ Start(i) \/ RequestCancellation(i) \/ AbandonCompletionUnknown(i)
         \/ LeaseExpires(i) \/ TimeoutPasses(i) \/ WorkstreamMoves(i)
         \/ BackgroundReconcileDropped(i)
  BY <1>1 DEF Start, RequestCancellation, AbandonCompletionUnknown, LeaseExpires,
              TimeoutPasses, WorkstreamMoves, BackgroundReconcileDropped
<1>2. ASSUME NEW i \in Jobs, NEW t \in Workers,
             ClaimNext(t, i) \/ OperatorReconcile(t, i) \/ BackgroundReconcile(t, i)
      PROVE  available' = available
  BY <1>2 DEF ClaimNext, OperatorReconcile, BackgroundReconcile, BeginReconciliation
<1>3. ASSUME NEW t \in Workers,
             \/ Execute(t) \/ PrepareFails(t) \/ BeginMark(t) \/ MarkSideEffectsPossible(t)
             \/ AssignExternalAgentSession(t) \/ RunReturns(t)
      PROVE  available' = available
  <2>1. CASE Execute(t) \/ PrepareFails(t) \/ BeginMark(t)
    BY <2>1 DEF Execute, PrepareFails, BeginMark
  <2>2. CASE MarkSideEffectsPossible(t) \/ AssignExternalAgentSession(t)
    BY <2>2 DEF MarkSideEffectsPossible, AssignExternalAgentSession
  <2>3. CASE RunReturns(t)
    BY <2>3 DEF RunReturns
  <2> QED BY <1>3, <2>1, <2>2, <2>3
<1>4. ASSUME NEW t \in Workers,
             \/ ReadBack(t) \/ Requeue(t) \/ HeartbeatRead(t)
             \/ RenewLease(t) \/ HeartbeatStops(t) \/ StoreFails(t)
      PROVE  available' = available
  BY <1>4 DEF ReadBack, Requeue, HeartbeatRead, RenewLease, HeartbeatStops, StoreFails
<1>5. CASE ListExpiredRunning \/ StopAdmission \/ CancelContexts \/ Restart \/ UNCHANGED vars
  BY <1>5 DEF ListExpiredRunning, StopAdmission, CancelContexts, Restart, vars
<1>6. CASE (\E s \in scan : RecoverExpired(s)) \/ (\E t \in Workers : Transition(t))
  <2>1. available' \subseteq available
    BY <1>6 DEF RecoverExpired, Transition
  <2> QED BY <2>1
<1>7. ASSUME NEW t \in Workers, MaterializeNativeResult(t)
      PROVE  \E u \in Workers : Busy(u) /\ a = <<run[u].job, run[u].rev + 1>>
  BY <1>7 DEF MaterializeNativeResult, Busy
<1> QED BY <1>1, <1>2, <1>3, <1>4, <1>5, <1>6, <1>7 DEF Next

\* Every step binds at most the one result of a job's final revision.
LEMMA BoundStep ==
  ASSUME JobInv, FiledInv, [Next]_vars, NEW j \in Jobs
  PROVE  BoundOnce(j)'
<1>1. BoundOnce(j) /\ TypeOK
  BY DEF FiledInv, JobInv
<1>2. CASE \E t \in Workers : Completes(t, j)
  <2>1. PICK t \in Workers : Completes(t, j)
    BY <1>2
  <2> QED BY <2>1 DEF Completes, BoundOnce
<1>3. CASE ~\E t \in Workers : Completes(t, j)
  <2>1. bound'[j] = bound[j] /\ (job'[j].status = "completed" => job[j].status = "completed")
    BY <1>3, BoundWriters
  <2>2. CASE job[j].status = "completed"
    <3>1. job'[j].status = job[j].status /\ job'[j].rev = job[j].rev
      BY <2>2, StatusMoves DEF UsedTransition, ValidJobTransition
    <3>2. <<j, bound[j]>> \notin available'
      <4>1. SUFFICES ASSUME <<j, bound[j]>> \in available' PROVE FALSE
        OBVIOUS
      <4>2. <<j, bound[j]>> \notin available /\ bound[j] = job[j].rev
        BY <1>1, <2>2 DEF BoundOnce
      <4>3. PICK t \in Workers : Busy(t) /\ <<j, bound[j]>> = <<run[t].job, run[t].rev + 1>>
        BY <4>1, <4>2, AvailableGrows
      <4>4. run[t].rev + 1 < job[j].rev
        BY <2>2, <4>3 DEF FiledInv, RevInv, Row
      <4>5. run[t].rev \in Nat /\ job[j].rev \in Nat
        BY <1>1 DEF TypeOK, RunType, RowType
      <4> QED BY <4>2, <4>3, <4>4, <4>5
    <3> QED BY <1>1, <2>1, <2>2, <3>1, <3>2 DEF BoundOnce
  <2>3. CASE job[j].status # "completed"
    BY <1>1, <2>1, <2>3 DEF BoundOnce
  <2> QED BY <2>2, <2>3
<1> QED BY <1>2, <1>3

\* Every step keeps the leased revisions apart and behind a completed job.
LEMMA RevStep ==
  ASSUME JobInv, TypeOK', FiledInv, [Next]_vars, NEW t \in Workers, Busy(t)'
  PROVE  RevInv(t)'
<1>1. TypeOK /\ run'[t].job \in Jobs
  BY DEF JobInv, TypeOK, Busy
<1>2. /\ \A u \in Workers : run[u].rev \in Nat /\ run'[u].rev \in Nat
      /\ \A i \in Jobs : job[i].rev \in Nat /\ job'[i].rev \in Nat
  BY <1>1 DEF TypeOK, RunType, RowType
<1>3. CASE \A u \in Workers : Busy(u)' =>
             Busy(u) /\ run'[u].job = run[u].job /\ run'[u].rev = run[u].rev
  <2> DEFINE j == run[t].job
  <2>1. j \in Jobs /\ run'[t].job = j /\ run'[t].rev = run[t].rev /\ RevInv(t)
    BY <1>1, <1>3 DEF FiledInv
  <2>2. run'[t].rev <= job'[j].rev
    <3>1. run[t].rev <= job[j].rev /\ job[j].rev <= job'[j].rev
      BY <2>1, RevGrows DEF RevInv, Row
    <3> HIDE DEF j
    <3> QED BY <1>2, <2>1, <3>1
  <2>3. ASSUME job'[j].status = "completed" PROVE run'[t].rev + 1 < job'[j].rev
    <3>1. CASE job[j].status = "completed"
      <4>1. job'[j].rev = job[j].rev
        BY <2>1, <3>1, StatusMoves DEF UsedTransition, ValidJobTransition
      <4> QED BY <2>1, <3>1, <4>1 DEF RevInv, Row
    <3>2. CASE job[j].status # "completed"
      <4>1. PICK u \in Workers : Completes(u, j)
        BY <2>1, <2>3, <3>2, BoundWriters
      <4>2. u # t
        BY <4>1 DEF Completes, Busy
      <4>3. run[u].rev # run[t].rev /\ run[u].rev = job[j].rev /\ job'[j].rev = job[j].rev + 1
        BY <2>1, <4>1, <4>2 DEF Completes, RevInv
      <4>4. run[t].rev <= job[j].rev
        BY <2>1 DEF RevInv, Row
      <4> HIDE DEF j
      <4> QED BY <1>2, <2>1, <4>3, <4>4
    <3> QED BY <3>1, <3>2
  <2>4. ASSUME NEW u \in Workers, u # t, Busy(u)', run'[u].job = j
        PROVE  run'[u].rev # run'[t].rev
    BY <1>3, <2>1, <2>4 DEF RevInv
  <2> QED BY <2>1, <2>2, <2>3, <2>4 DEF RevInv, Row
<1>4. ASSUME NEW u \in Workers, NEW j \in Jobs,
             job[j].status # "completed", job'[j].status # "completed",
             job'[j].rev = job[j].rev + 1,
             run'[u].job = j, run'[u].rev = job[j].rev + 1,
             \A v \in Workers : v # u => run'[v] = run[v],
             \A i \in Jobs : i # j => job'[i] = job[i]
      PROVE  RevInv(t)'
  <2>1. \A v \in Workers : v # u /\ Busy(v)' => Busy(v) /\ RevInv(v) /\ run[v].job \in Jobs
    BY <1>1, <1>4 DEF Busy, FiledInv, TypeOK
  <2>2. \A v \in Workers : v # u /\ Busy(v)' /\ run[v].job = j => run[v].rev <= job[j].rev
    BY <2>1 DEF RevInv, Row
  <2>3. CASE t = u
    <3>1. \A v \in Workers : v # u /\ Busy(v)' /\ run'[v].job = j => run'[v].rev < run'[u].rev
      BY <1>2, <1>4, <2>2
    <3> QED BY <1>2, <1>4, <2>3, <3>1 DEF RevInv, Row
  <2>4. CASE t # u
    <3>1. RevInv(t) /\ run'[t] = run[t] /\ run[t].job \in Jobs
      BY <1>4, <2>1, <2>4
    <3>2. run[t].rev <= job'[run[t].job].rev
      BY <1>2, <1>4, <2>2, <2>4, <3>1 DEF RevInv, Row
    <3>3. job'[run[t].job].status = "completed" => run[t].rev + 1 < job'[run[t].job].rev
      BY <1>4, <3>1 DEF RevInv, Row
    <3>4. \A v \in Workers : v # t /\ Busy(v)' /\ run'[v].job = run[t].job => run'[v].rev # run[t].rev
      <4>1. ASSUME NEW v \in Workers, v # t, Busy(v)', run'[v].job = run[t].job
            PROVE  run'[v].rev # run[t].rev
        <5>1. CASE v = u
          BY <1>2, <1>4, <2>2, <2>4, <4>1, <5>1
        <5>2. CASE v # u
          BY <1>4, <2>1, <3>1, <4>1, <5>2 DEF RevInv
        <5> QED BY <5>1, <5>2
      <4> QED BY <4>1
    <3> QED BY <3>1, <3>2, <3>3, <3>4 DEF RevInv, Row
  <2> QED BY <2>3, <2>4
<1> QED BY <1>1, <1>3, <1>4, RunRevs

\* The outcome stays filed.
LEMMA FiledStep ==
  ASSUME JobInv, JobInv', FiledInv, [Next]_vars
  PROVE  FiledInv'
<1>1. TypeOK'
  BY DEF JobInv
<1>2. \A j \in Jobs : TaskAgrees(j)' /\ ResumedOnce(j)' /\ BoundOnce(j)'
  BY <1>1, TaskStep, ResumeStep, BoundStep DEF FiledInv
<1>3. \A t \in Workers : (Busy(t) => RevInv(t))'
  BY <1>1, RevStep
<1> QED BY <1>2, <1>3 DEF FiledInv

\* Filing is an invariant, on top of what the rows and goroutines know.
THEOREM FiledInvariant == ASSUME LateWrites = FALSE PROVE Spec => []FiledInv
<1>1. JobInv /\ JobInv' /\ FiledInv /\ [Next]_vars => FiledInv'
  BY FiledStep
<1> QED BY FiledInit, JobInvariant, <1>1, PTL DEF Spec

\* A job is resumed without an operator at most once, and never after one of its
\* runs accepted a cancellation, for any number of jobs and workers.
THEOREM OneAutoResume == ASSUME LateWrites = FALSE PROVE Spec => []AutoResumeOnlyOnce
<1>1. FiledInv => AutoResumeOnlyOnce
  BY DEF FiledInv, ResumedOnce, AutoResumeOnlyOnce
<1> QED BY FiledInvariant, <1>1, PTL

\* A completed job owns exactly the result of its final revision, and a linked
\* task of an open workstream shows its job's outcome: whoever ends the job, a
\* worker, the recovery, a user or an operator, files all of it or nothing.
THEOREM OutcomeFiled == ASSUME LateWrites = FALSE PROVE Spec => []OutcomeIsFiled
<1>1. FiledInv => OutcomeIsFiled
  BY DEF FiledInv, BoundOnce, TaskAgrees, OutcomeIsFiled, ResultBinding, TaskAgreesWithJob
<1> QED BY FiledInvariant, <1>1, PTL

-----------------------------------------------------------------------------
(* Refinement.                                                              *)

\* A step writes at most one row, and the only mark it may set is the one of a
\* running row that had none.
LEMMA OneRow ==
  ASSUME JobInv, [Next]_vars, job' # job
  PROVE  \E j \in Jobs :
           /\ \A i \in Jobs : i # j => job'[i] = job[i]
           /\ \/ job'[j].effects = job[j].effects
              \/ /\ job[j].status = "running" /\ job'[j].status = "running"
                 /\ ~job[j].effects /\ job'[j].effects
<1>1. TypeOK /\ job \in [Jobs -> RowType]
  BY DEF JobInv, TypeOK
<1> USE JobsAssumption
<1> USE DEF rows
<1>2. ASSUME NEW i \in Jobs,
             \/ Start(i) \/ RequestCancellation(i) \/ AbandonCompletionUnknown(i)
             \/ LeaseExpires(i)
             \/ \E t \in Workers : ClaimNext(t, i) \/ BeginReconciliation(t, i)
      PROVE  job'[i].effects = job[i].effects /\ \A k \in Jobs : k # i => job'[k] = job[k]
  <2>1. CASE Start(i) \/ RequestCancellation(i)
    BY <1>1, <2>1 DEF Start, RequestCancellation, RowType
  <2>2. CASE AbandonCompletionUnknown(i) \/ LeaseExpires(i)
    BY <1>1, <2>2 DEF AbandonCompletionUnknown, LeaseExpires, RowType
  <2>3. ASSUME NEW t \in Workers, ClaimNext(t, i)
        PROVE  job'[i].effects = job[i].effects /\ \A k \in Jobs : k # i => job'[k] = job[k]
    BY <1>1, <2>3 DEF ClaimNext, RowType
  <2>4. ASSUME NEW t \in Workers, BeginReconciliation(t, i)
        PROVE  job'[i].effects = job[i].effects /\ \A k \in Jobs : k # i => job'[k] = job[k]
    BY <1>1, <2>4 DEF BeginReconciliation, RowType
  <2> QED BY <1>2, <2>1, <2>2, <2>3, <2>4
<1>3. ASSUME NEW t \in Workers, MarkSideEffectsPossible(t)
      PROVE  /\ run[t].job \in Jobs
             /\ job[run[t].job].status = "running" /\ job'[run[t].job].status = "running"
             /\ ~job[run[t].job].effects /\ job'[run[t].job].effects
             /\ \A k \in Jobs : k # run[t].job => job'[k] = job[k]
  <2> DEFINE j == run[t].job
  <2>1. run[t].pc = "marking" /\ RunInv(t) /\ j \in Jobs
    BY <1>1, <1>3 DEF MarkSideEffectsPossible, Busy, TypeOK, JobInv
  <2>2. MarkSucceeds(t) /\ job' = [job EXCEPT ![j].effects = TRUE]
    BY <1>3 DEF MarkSideEffectsPossible
  <2>3. job[j].status = "running" /\ ~job[j].effects
    BY <2>1, <2>2 DEF MarkSucceeds, RunInv, Row
  <2> HIDE DEF j
  <2>4. job'[j].status = job[j].status /\ job'[j].effects
        /\ \A k \in Jobs : k # j => job'[k] = job[k]
    BY <1>1, <2>1, <2>2 DEF RowType
  <2> QED BY <2>1, <2>3, <2>4 DEF j
<1>4. ASSUME NEW t \in Workers,
             \/ AssignExternalAgentSession(t) \/ RenewLease(t) \/ Transition(t) \/ Requeue(t)
      PROVE  /\ run[t].job \in Jobs
             /\ job'[run[t].job].effects = job[run[t].job].effects
             /\ \A k \in Jobs : k # run[t].job => job'[k] = job[k]
  <2>1. run[t].job \in Jobs
    BY <1>1, <1>4 DEF AssignExternalAgentSession, RenewLease, Transition, Requeue, Busy, TypeOK
  <2>2. CASE AssignExternalAgentSession(t)
    BY <1>1, <2>1, <2>2 DEF AssignExternalAgentSession, RowType
  <2>3. CASE RenewLease(t)
    BY <1>1, <2>1, <2>3 DEF RenewLease, RowType
  <2>4. CASE Transition(t)
    BY <1>1, <2>1, <2>4 DEF Transition, RowType
  <2>5. CASE Requeue(t)
    BY <1>1, <2>1, <2>5, SMTT(60) DEF Requeue, RowType
  <2> QED BY <1>4, <2>1, <2>2, <2>3, <2>4, <2>5
<1>5. ASSUME NEW s \in scan, RecoverExpired(s)
      PROVE  /\ s.job \in Jobs
             /\ job'[s.job].effects = job[s.job].effects
             /\ \A k \in Jobs : k # s.job => job'[k] = job[k]
  <2>1. s.job \in Jobs
    BY <1>1 DEF TypeOK, SnapshotType
  <2> QED BY <1>1, <1>5, <2>1 DEF RecoverExpired, RowType
<1> QED BY RowWriters, <1>2, <1>3, <1>4, <1>5

\* One row that moves as the table allows, and says of its mark what it should,
\* moves as a one-shot job does.
LEMMA RowImplementsStep ==
  ASSUME TypeOK, TypeOK', NEW j \in Jobs,
         \A i \in Jobs : i # j => job'[i] = job[i],
         RowInv(j), RowInv(j)',
         \/ /\ job'[j].effects = job[j].effects
            /\ \/ job'[j].status = job[j].status
               \/ UsedTransition(job[j].status, job'[j].status)
               \/ job[j].status = "absent" /\ job'[j].status = "queued"
               \/ /\ job[j].status = "running"
                  /\ job'[j].status \in {"queued", "failed", "completion_unknown"}
               \/ /\ job[j].status = "cancel_requested"
                  /\ job'[j].status \in {"cancelled", "completion_unknown"}
               \/ job[j].status = "reconciling" /\ job'[j].status = "completion_unknown"
         \/ /\ job[j].status = "running" /\ job'[j].status = "running"
            /\ ~job[j].effects /\ job'[j].effects
  PROVE  [OneShot!Next]_(OneShot!vars)
<1> DEFINE stage(f) == [i \in Jobs |-> StageOf(f[i].status)]
           ran(f)   == [i \in Jobs |-> f[i].effects]
           a == job[j].status
           b == job'[j].status
<1>1. a \in JobStatus /\ b \in JobStatus /\ job[j].effects \in BOOLEAN
  BY DEF TypeOK, RowType
<1>2. stage(job') = [stage(job) EXCEPT ![j] = StageOf(b)]
  OBVIOUS
<1>3. job'[j].effects = job[j].effects => ran(job') = ran(job)
  OBVIOUS
<1>4. stage(job)[j] = StageOf(a) /\ ran(job)[j] = job[j].effects
  OBVIOUS
<1>5. CASE job[j].status = "running" /\ job'[j].status = "running"
           /\ ~job[j].effects /\ job'[j].effects
  <2>1. stage(job') = stage(job)
    BY <1>2, <1>5
  <2>2. ran(job') = [ran(job) EXCEPT ![j] = TRUE]
    <3>1. job'[j].effects = TRUE
      BY <1>5 DEF TypeOK, RowType
    <3> QED BY <3>1
  <2>3. StageOf(a) = "active"
    BY <1>5 DEF StageOf
  <2>4. OneShot!RunCLI(j)
    BY <1>4, <1>5, <2>1, <2>2, <2>3 DEF OneShot!RunCLI
  <2> QED BY <2>4 DEF OneShot!Next, OneShot!Step
<1>6. CASE job'[j].effects = job[j].effects /\ StageOf(b) = StageOf(a)
  BY <1>2, <1>3, <1>6 DEF OneShot!vars
<1>7. ASSUME job'[j].effects = job[j].effects, StageOf(b) # StageOf(a)
      PROVE  \/ a = "absent" /\ b = "queued"
             \/ a = "queued" /\ b = "running" /\ ~job[j].effects
             \/ a \in {"running", "cancel_requested"} /\ b \in {"queued", "interrupted_safe"}
                  /\ ~job[j].effects
             \/ a \in {"running", "cancel_requested"} /\ b = "completion_unknown" /\ job[j].effects
             \/ a \in {"running", "reconciling"} /\ b = "completed" /\ job[j].effects
             \/ a = "running" /\ b = "failed"
             \/ a \in {"queued", "interrupted_safe", "cancel_requested"} /\ b = "cancelled"
                  /\ ~job[j].effects
             \/ a = "completion_unknown" /\ b = "abandoned"
  <2>1. /\ a \in {"queued"} => ~job[j].effects
        /\ b \in {"queued", "interrupted_safe", "cancelled"} => ~job[j].effects
        /\ b \in {"completion_unknown", "completed"} => job[j].effects
    BY <1>7 DEF RowInv
  <2>2. \/ UsedTransition(a, b)
        \/ a = "absent" /\ b = "queued"
        \/ a = "running" /\ b \in {"queued", "failed", "completion_unknown"}
        \/ a = "cancel_requested" /\ b \in {"cancelled", "completion_unknown"}
        \/ a = "reconciling" /\ b = "completion_unknown"
    BY <1>7
  <2>3. /\ ~(a = "running" /\ b = "cancel_requested")
        /\ ~(a = "interrupted_safe" /\ b = "queued")
        /\ ~(a = "completion_unknown" /\ b = "reconciling")
        /\ ~(a = "reconciling" /\ b = "completion_unknown")
    BY <1>7 DEF StageOf
  <2> HIDE DEF a, b
  <2> QED BY <2>1, <2>2, <2>3 DEF UsedTransition, ValidJobTransition
<1>8. ASSUME job'[j].effects = job[j].effects, StageOf(b) # StageOf(a)
      PROVE  OneShot!Step(j)
  <2>1. ran(job') = ran(job) /\ stage(job') = [stage(job) EXCEPT ![j] = StageOf(b)]
    BY <1>2, <1>3, <1>8
  <2>2. OneShot!Goes(j, StageOf(b))
    BY <2>1 DEF OneShot!Goes
  <2>3. CASE a = "absent" /\ b = "queued"
    <3>1. StageOf(a) = "absent" /\ StageOf(b) = "waiting"
      BY <2>3 DEF StageOf
    <3>2. OneShot!Admit(j)
      BY <1>4, <2>2, <2>3, <3>1 DEF OneShot!Admit
    <3> QED BY <3>2 DEF OneShot!Step
  <2>4. CASE a = "queued" /\ b = "running" /\ ~job[j].effects
    <3>1. StageOf(a) = "waiting" /\ StageOf(b) = "active"
      BY <2>4 DEF StageOf
    <3>2. OneShot!Begin(j)
      BY <1>4, <2>2, <2>4, <3>1 DEF OneShot!Begin
    <3> QED BY <3>2 DEF OneShot!Step
  <2>5. CASE a \in {"running", "cancel_requested"} /\ b \in {"queued", "interrupted_safe"}
             /\ ~job[j].effects
    <3>1. StageOf(a) = "active" /\ StageOf(b) = "waiting"
      BY <2>5 DEF StageOf
    <3>2. OneShot!Retry(j)
      BY <1>4, <2>2, <2>5, <3>1 DEF OneShot!Retry
    <3> QED BY <3>2 DEF OneShot!Step
  <2>6. CASE a \in {"running", "cancel_requested"} /\ b = "completion_unknown" /\ job[j].effects
    <3>1. StageOf(a) = "active" /\ StageOf(b) = "uncertain"
      BY <2>6 DEF StageOf
    <3>2. OneShot!Lose(j)
      BY <1>4, <2>2, <2>6, <3>1 DEF OneShot!Lose
    <3> QED BY <3>2 DEF OneShot!Step
  <2>7. CASE a \in {"running", "reconciling"} /\ b = "completed" /\ job[j].effects
    <3>1. StageOf(a) \in {"active", "uncertain"} /\ StageOf(b) = "completed"
      BY <2>7 DEF StageOf
    <3>2. OneShot!Complete(j)
      BY <1>4, <2>2, <2>7, <3>1 DEF OneShot!Complete
    <3> QED BY <3>2 DEF OneShot!Step
  <2>8. CASE a = "running" /\ b = "failed"
    <3>1. StageOf(a) = "active" /\ StageOf(b) = "failed"
      BY <2>8 DEF StageOf
    <3>2. OneShot!Fail(j)
      BY <1>4, <2>2, <2>8, <3>1 DEF OneShot!Fail
    <3> QED BY <3>2 DEF OneShot!Step
  <2>9. CASE a \in {"queued", "interrupted_safe", "cancel_requested"} /\ b = "cancelled"
             /\ ~job[j].effects
    <3>1. StageOf(a) \in {"waiting", "active"} /\ StageOf(b) = "cancelled"
      BY <2>9 DEF StageOf
    <3>2. OneShot!Cancel(j)
      BY <1>4, <2>2, <2>9, <3>1 DEF OneShot!Cancel
    <3> QED BY <3>2 DEF OneShot!Step
  <2>10. CASE a = "completion_unknown" /\ b = "abandoned"
    <3>1. StageOf(a) = "uncertain" /\ StageOf(b) = "abandoned"
      BY <2>10 DEF StageOf
    <3>2. OneShot!Abandon(j)
      BY <1>4, <2>2, <2>10, <3>1 DEF OneShot!Abandon
    <3> QED BY <3>2 DEF OneShot!Step
  <2> QED BY <1>7, <1>8, <2>3, <2>4, <2>5, <2>6, <2>7, <2>8, <2>9, <2>10
<1> QED BY <1>5, <1>6, <1>8 DEF OneShot!Next

\* The durable rows implement a job that acts on the outside world at most
\* once: leases, retries, restarts, recovery and reconciliation are stutters or
\* steps of the abstract job.
THEOREM Refinement == ASSUME LateWrites = FALSE PROVE Spec => ImplementsOneShot
<1>1. Init => OneShot!Init
  BY DEF Init, NewRow, OneShot!Init, StageOf
<1>2. ASSUME JobInv, JobInv', [Next]_vars PROVE [OneShot!Next]_(OneShot!vars)
  <2>1. TypeOK /\ TypeOK' /\ \A j \in Jobs : RowInv(j) /\ RowInv(j)'
    BY <1>2 DEF JobInv
  <2>2. CASE job' = job
    BY <2>2 DEF OneShot!vars
  <2>3. CASE job' # job
    <3>1. PICK j \in Jobs :
            /\ \A i \in Jobs : i # j => job'[i] = job[i]
            /\ \/ job'[j].effects = job[j].effects
               \/ /\ job[j].status = "running" /\ job'[j].status = "running"
                  /\ ~job[j].effects /\ job'[j].effects
      BY <1>2, <2>3, OneRow
    <3>2. \/ job'[j].status = job[j].status
          \/ UsedTransition(job[j].status, job'[j].status)
          \/ job[j].status = "absent" /\ job'[j].status = "queued"
          \/ /\ job[j].status = "running"
             /\ job'[j].status \in {"queued", "failed", "completion_unknown"}
          \/ /\ job[j].status = "cancel_requested"
             /\ job'[j].status \in {"cancelled", "completion_unknown"}
          \/ job[j].status = "reconciling" /\ job'[j].status = "completion_unknown"
      BY <1>2, StatusMoves
    <3> QED BY <2>1, <3>1, <3>2, RowImplementsStep
  <2> QED BY <2>2, <2>3
<1>3. JobInv /\ [Next]_vars => JobInv'
  BY InvStep
<1> QED BY InvInit, <1>1, <1>2, <1>3, PTL DEF Spec, ImplementsOneShot, OneShot!Spec
=============================================================================

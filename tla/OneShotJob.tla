------------------------------ MODULE OneShotJob ------------------------------
(***************************************************************************)
(* What a durable external-agent job promises its user, without leases,    *)
(* workers, restarts or a database: its CLI, which may act on the outside  *)
(* world, is started at most once; the job is retried only while it has    *)
(* not been started; it is called cancelled only if it never was; and when *)
(* it was started but its outcome is not known, it stays uncertain until   *)
(* the outcome is recovered or a person closes it.                         *)
(***************************************************************************)
CONSTANT Jobs

VARIABLES
    stage,  \* where the job stands
    ran     \* its CLI may have acted on the outside world

vars == <<stage, ran>>

Stage == {"absent", "waiting", "active", "uncertain",
          "completed", "failed", "cancelled", "abandoned"}

TypeOK == stage \in [Jobs -> Stage] /\ ran \in [Jobs -> BOOLEAN]

Init ==
    /\ stage = [j \in Jobs |-> "absent"]
    /\ ran = [j \in Jobs |-> FALSE]

Goes(j, to) == stage' = [stage EXCEPT ![j] = to] /\ UNCHANGED ran

Admit(j) == stage[j] = "absent" /\ Goes(j, "waiting")
Begin(j) == stage[j] = "waiting" /\ ~ran[j] /\ Goes(j, "active")
Retry(j) == stage[j] = "active" /\ ~ran[j] /\ Goes(j, "waiting")
Lose(j)  == stage[j] = "active" /\ ran[j] /\ Goes(j, "uncertain")

RunCLI(j) ==
    /\ stage[j] = "active" /\ ~ran[j]
    /\ ran' = [ran EXCEPT ![j] = TRUE]
    /\ UNCHANGED stage

Complete(j) == stage[j] \in {"active", "uncertain"} /\ ran[j] /\ Goes(j, "completed")
Fail(j)     == stage[j] = "active" /\ Goes(j, "failed")
Cancel(j)   == stage[j] \in {"waiting", "active"} /\ ~ran[j] /\ Goes(j, "cancelled")
Abandon(j)  == stage[j] = "uncertain" /\ Goes(j, "abandoned")

Step(j) ==
    \/ Admit(j) \/ Begin(j) \/ Retry(j) \/ Lose(j) \/ RunCLI(j)
    \/ Complete(j) \/ Fail(j) \/ Cancel(j) \/ Abandon(j)

Next == \E j \in Jobs : Step(j)

Spec == Init /\ [][Next]_vars
=============================================================================

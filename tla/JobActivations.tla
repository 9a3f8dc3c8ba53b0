----------------------------- MODULE JobActivations -----------------------------
(***************************************************************************)
(* The root agent's turn about a completed job: the rows of                *)
(* external_agent_job_activations, the worker of                           *)
(* internal/usecase/externalagent/activations.go that claims them, and its *)
(* handler in internal/usecase/bot/job_completion.go, which asks the       *)
(* model, stages the answer as an assistant exchange, posts it and, when   *)
(* there is none, posts a message that says so.                            *)
(*                                                                         *)
(* One action is one store transaction, model turn or Slack call with its  *)
(* answer; the process may die between any two.  There is one worker in    *)
(* one process, so a live lease that the worker does not hold is left over *)
(* from an earlier attempt, and comparing the lease's owner and attempt    *)
(* amounts to asking whether it is still live.  next_attempt_at is not     *)
(* kept: a row that is being retried may be due or not (Delayed).          *)
(*                                                                         *)
(* Slack, the model and people are external.  Of the messages posted for   *)
(* an exchange only what a lookup can tell is kept: nothing, some parts    *)
(* ("partial"), every part once ("exact"), or a part twice ("repeated").   *)
(***************************************************************************)
EXTENDS Naturals, FiniteSets

CONSTANTS
    Activation,    \* naturals, in the order of published_at
    Conversation,  \* the activations of each conversation
    Revocable,     \* activations whose actor may lose access
    LongReply,     \* activations answered by a reply of several messages
    OffPage,       \* activations whose thread exceeds the page a lookup reads
    MaxAttempts,
    NoActivation,
    MaxFaults,     \* bound: failed calls, and leases lost while held
    MaxRestarts,   \* bound: ends of the process
    MaxHumanTurns  \* bound: turns of people in these conversations

ASSUME ActivationsAssumption ==
    /\ Activation \subseteq Nat
    /\ NoActivation \notin Activation
    /\ Conversation \subseteq SUBSET Activation
    /\ \A a \in Activation : \E c \in Conversation : a \in c
    /\ \A c, d \in Conversation : c # d => c \cap d = {}
    /\ Revocable \subseteq Activation
    /\ LongReply \subseteq Activation
    /\ OffPage \subseteq Activation
ASSUME BoundsAssumption ==
    /\ MaxAttempts \in Nat \ {0}
    /\ MaxFaults \in Nat
    /\ MaxRestarts \in Nat
    /\ MaxHumanTurns \in Nat

VARIABLES
    row,      \* the row of each activation
    intent,   \* the durable exchange staged for a message
    kept,     \* copies of a message in the conversation's memory
    session,  \* the final event of the activation's session
    w,        \* the worker goroutine and the handler call it is in
    view,     \* what Slack shows of a message
    late,     \* messages posted without an answer that may still appear
    human,    \* conversations in which a person's turn is running
    revoked,  \* activations whose actor the configuration no longer allows
    closed,   \* the bot was removed from the channels
    proc,     \* "up", "draining" (StopAdmission), "cancelled" (ctx done), "down"
    runs,     \* history: model turns run for an activation
    missed,   \* history: messages a lookup could not recognise
    reposted, \* history: messages posted again though their post was recorded
    faults, restarts, humanTurns

store   == <<row, intent, kept, session>>
slack   == <<view, late, missed, reposted>>
outside == <<human, revoked, closed, proc, restarts, humanTurns>>
vars    == <<row, intent, kept, session, w, view, late, human, revoked, closed,
             proc, runs, missed, reposted, faults, restarts, humanTurns>>

-----------------------------------------------------------------------------
Open     == {"pending", "processing", "model_started", "response_prepared"}
Terminal == {"completed", "failed", "completion_unknown"}

\* "refused": the actor was revoked, or the identity is invalid, or it could
\* not be read; "unusable": there is no usable result, frame or answer;
\* "exhausted": activation_retry_exhausted.
Code == {"refused", "unusable", "exhausted"}

\* The domain's table of moves.  The store does not consult it: each of its
\* transactions names the states it starts from.
ValidActivationTransition(from, to) ==
    \/ from = "pending"    /\ to = "processing"
    \/ from = "processing" /\ to \in {"pending", "model_started", "failed"}
    \/ from = "model_started" /\ to \in {"response_prepared", "completion_unknown"}
    \/ from = "response_prepared" /\ to \in {"response_prepared", "completed", "failed"}

\* Mutation: somebody who was locked out is told, too.
FallbackForEverybody(code) == code \in Code

FallbackRequired(code) == code \in {"unusable", "exhausted"}

Absent == [state |-> "absent", lease |-> "none", attempts |-> 0,
           owed |-> FALSE, told |-> FALSE]

Ended(r, state, code) ==
    [r EXCEPT !.state = state, !.lease = "none", !.owed = FallbackRequired(code)]

\* An exchange carries the reply of an activation or its fallback.
Message == Activation \X {"reply", "fallback"}

Idle == [pc |-> "idle", a |-> NoActivation, phase |-> "before", ctx |-> TRUE,
         fresh |-> FALSE, code |-> "refused"]

At(pc)   == proc # "down" /\ w.pc = pc
Goto(pc) == w' = [w EXCEPT !.pc = pc]
R        == row[w.a]
M        == <<w.a, IF w.phase = "fallback" THEN "fallback" ELSE "reply">>
Held     == R.lease = "live"
ConversationOf(a) == CHOOSE c \in Conversation : a \in c
Free     == ConversationOf(w.a) \notin human

\* The conversation is held from the acquisition to the end of the handler.
Holding == {"mark", "model", "recover", "prepare", "unknown", "find", "post",
            "record", "finalize", "complete", "close"}

\* A failed renewal or the shutdown ends the context of the handler; the
\* reconciliation that follows a first try does not see the shutdown.
CtxLive == w.ctx /\ (proc = "cancelled" => w.phase = "recheck")

Fault     == faults < MaxFaults /\ faults' = faults + 1
Works     == CtxLive /\ UNCHANGED faults
CallFails == IF CtxLive THEN Fault ELSE UNCHANGED faults

\* The handler returns an error: the worker reads the row again, except after
\* a fallback, which only its lease brings back.
Return == w' = IF w.phase = "fallback" THEN Idle ELSE [w EXCEPT !.pc = "settle"]

\* A transaction of the handler: it commits, or it commits without an answer,
\* or it fails or loses its compare-and-set and changes nothing.  The context
\* may end during the call, so one that has ended may still commit.
Transaction(ok, effect, none, next) ==
    \/ ok /\ Works /\ effect /\ next
    \/ ok /\ CallFails /\ effect /\ Return
    \/ (CallFails \/ (~ok /\ Works)) /\ none /\ Return

SetRow(r) == row' = [row EXCEPT ![w.a] = r]

-----------------------------------------------------------------------------
(* A notification was published: its transaction inserts the activation.    *)

Enqueue(a) ==
    /\ proc \in {"up", "draining"}
    /\ row[a].state = "absent"
    /\ \A b \in Activation : b < a => row[b].state # "absent"
    /\ row' = [row EXCEPT ![a].state = "pending"]
    /\ UNCHANGED <<intent, kept, session, w, slack, runs, faults, outside>>

-----------------------------------------------------------------------------
(* Claims.                                                                  *)

OldestOpen(a) ==
    \A b \in Activation :
        b < a /\ (\E c \in Conversation : {a, b} \subseteq c) => row[b].state \notin Open

\* Mutation: a row whose model turn was started is not taken over.
ClaimableBeforeModel(a) ==
    /\ \/ row[a].state = "pending"
       \/ row[a].state = "processing" /\ row[a].lease = "lapsed"
    /\ OldestOpen(a)

Claimable(a) ==
    /\ \/ row[a].state = "pending"
       \/ /\ row[a].state \in {"processing", "model_started", "response_prepared"}
          /\ row[a].lease = "lapsed"
    /\ OldestOpen(a)

\* next_attempt_at of a retried row may be still to come.
Delayed(a) == row[a].state = "pending" /\ row[a].attempts > 0

OwesFallback(a) ==
    /\ row[a].state \in {"failed", "completion_unknown"}
    /\ row[a].owed /\ ~row[a].told
    /\ row[a].lease # "live"

\* Attempts stop counting at MaxAttempts, the only value they are compared with.
Claimed(r) == [r EXCEPT !.state = IF @ = "pending" THEN "processing" ELSE @,
                        !.lease = "live",
                        !.attempts = IF @ < MaxAttempts THEN @ + 1 ELSE @]

Take(a, phase, pc) ==
    /\ row' = [row EXCEPT ![a] = Claimed(@)]
    /\ w' = [Idle EXCEPT !.pc = pc, !.a = a, !.phase = phase]
    /\ UNCHANGED <<intent, kept, session, slack, runs, faults, outside>>

Claim(a) ==
    /\ proc = "up" /\ w.pc = "idle"
    /\ Claimable(a)
    /\ \A b \in Activation : Claimable(b) /\ ~Delayed(b) => a <= b
    /\ \/ row[a].state \in {"pending", "processing"} /\ Take(a, "before", "frame")
       \/ row[a].state \in {"model_started", "response_prepared"}
          /\ Take(a, "after", "reconcile")

\* Fallbacks are claimed when there is nothing else.
ClaimFallback(a) ==
    /\ proc = "up" /\ w.pc = "idle"
    /\ \A b \in Activation : Claimable(b) => Delayed(b)
    /\ OwesFallback(a)
    /\ \A b \in Activation : OwesFallback(b) => a <= b
    /\ Take(a, "fallback", "fallback")

-----------------------------------------------------------------------------
(* HandleJobCompletion, up to the model.                                    *)

\* Access is checked, the conversation and a model slot are taken, and the
\* frame is built from the job and its result.
Frame ==
    /\ At("frame")
    /\ \/ /\ w.a \in revoked
          /\ w' = [w EXCEPT !.pc = "reject", !.code = "refused"]
          /\ UNCHANGED faults
       \/ w.a \notin revoked /\ Free /\ Works /\ Goto("mark")
       \/ /\ w.a \notin revoked /\ Free
          /\ w' = [w EXCEPT !.pc = "reject", !.code = "unusable"]
          /\ UNCHANGED faults
       \* A failed read of the job is taken for an invalid identity.
       \/ /\ CallFails
          /\ w' = [w EXCEPT !.pc = "reject", !.code = "refused"]
       \* The conversation, the limiter or the model pool is busy.
       \/ Return /\ UNCHANGED faults
    /\ UNCHANGED <<store, slack, runs, outside>>

\* FailActivation by the handler.
Reject ==
    /\ At("reject")
    /\ Transaction(R.state \in {"processing", "response_prepared"} /\ Held,
                   SetRow(Ended(R, "failed", w.code)), UNCHANGED row, Return)
    /\ UNCHANGED <<intent, kept, session, slack, runs, outside>>

\* Mutation: the boundary is not written down.
NotStarted(r) == r

Started(r) == [r EXCEPT !.state = "model_started"]

MarkModelStarted ==
    /\ At("mark")
    /\ Transaction(R.state = "processing" /\ Held,
                   SetRow(Started(R)), UNCHANGED row, Goto("model"))
    /\ UNCHANGED <<intent, kept, session, slack, runs, outside>>

\* The turn ends with an answer, with one that is not allowed out, or with an
\* error, before or after its final event was stored in the session.
Model ==
    /\ At("model")
    /\ \/ /\ CtxLive
          /\ \/ session' = [session EXCEPT ![w.a] = "answer"] /\ Goto("prepare")
             \/ /\ session' \in {session, [session EXCEPT ![w.a] = "unusable"]}
                /\ Goto("unknown")
          /\ runs' = [runs EXCEPT ![w.a] = @ + 1]
       \/ /\ session' \in {[session EXCEPT ![w.a] = e] : e \in {session[w.a], "answer", "unusable"}}
          /\ runs' = [runs EXCEPT ![w.a] = @ + 1]
          /\ Return
       \/ /\ UNCHANGED <<session, runs>>
          /\ Return
    /\ UNCHANGED <<row, intent, kept, slack, faults, outside>>

-----------------------------------------------------------------------------
(* ReconcileJobCompletion: the model is not asked again.                    *)

Reconcile ==
    /\ At("reconcile")
    /\ \/ ~Free /\ Return /\ UNCHANGED faults
       \/ CallFails /\ Return
       \/ Free /\ Works /\ R.state = "model_started" /\ Goto("recover")
       \/ Free /\ Works /\ R.state = "response_prepared" /\ Goto("find")
    /\ UNCHANGED <<store, slack, runs, outside>>

\* RecoverActivation reads the final event of the activation's session.
Recover ==
    /\ At("recover")
    /\ \/ CallFails /\ Return
       \/ Works /\ Goto(IF session[w.a] = "answer" THEN "prepare" ELSE "unknown")
    /\ UNCHANGED <<store, slack, runs, outside>>

MarkUnknown ==
    /\ At("unknown")
    /\ Transaction(R.state = "model_started" /\ Held,
                   SetRow(Ended(R, "completion_unknown", "unusable")), UNCHANGED row, Return)
    /\ UNCHANGED <<intent, kept, session, slack, runs, outside>>

\* The answer and the exchange that will carry it are stored together.
PrepareResponse ==
    /\ At("prepare")
    /\ Transaction(R.state = "model_started" /\ Held,
                   /\ SetRow([R EXCEPT !.state = "response_prepared"])
                   /\ intent' = [intent EXCEPT ![M] = "prepared"],
                   UNCHANGED <<row, intent>>, Goto("find"))
    /\ UNCHANGED <<kept, session, slack, runs, outside>>

-----------------------------------------------------------------------------
(* Publishing, for replies and fallbacks.                                   *)

PrepareFallback ==
    /\ At("fallback")
    /\ \/ ~Free /\ Return /\ UNCHANGED <<intent, faults>>
       \/ /\ Free
          /\ Transaction(Held /\ R.owed /\ ~R.told,
                         intent' = [intent EXCEPT ![M] = IF @ = "absent" THEN "prepared" ELSE @],
                         UNCHANGED intent, Goto("find"))
    /\ UNCHANGED <<row, kept, session, slack, runs, outside>>

\* A lookup recognises a message by its correlation id, and only when every
\* part is on the page it reads exactly once.
Recognisable(m) == view[m] = "exact" /\ m[1] \notin OffPage

\* Mutation: what the exchange does not record as published is not looked up.
FoundIfRecorded(m) == Recognisable(m) /\ intent[m] = "published"

Found(m) == Recognisable(m)

Revoked == w.phase # "fallback" /\ w.a \in revoked

FindPublished ==
    /\ At("find")
    /\ \/ /\ Revoked
          /\ w' = [w EXCEPT !.pc = "reject", !.code = "refused"]
          /\ UNCHANGED <<missed, faults>>
       \/ ~Revoked /\ CallFails /\ Return /\ UNCHANGED missed
       \/ ~Revoked /\ closed /\ Works /\ Return /\ UNCHANGED missed
       \/ ~Revoked /\ ~closed /\ Works /\ Found(M) /\ Goto("record") /\ UNCHANGED missed
       \/ /\ ~Revoked /\ ~closed /\ Works /\ ~Found(M)
          /\ Goto("post")
          /\ missed' = IF M \in late \/ (view[M] # "none" /\ ~Recognisable(M))
                       THEN missed \cup {M} ELSE missed
    /\ UNCHANGED <<store, view, late, reposted, runs, outside>>

\* What Slack shows once every part was posted, or only the first ones.
Posted(v)  == IF v = "none" THEN "exact" ELSE "repeated"
Partly(v)  == IF v = "none" THEN "partial" ELSE "repeated"
InParts(m) == m[2] = "reply" /\ m[1] \in LongReply

Recorded(m) == intent[m] = "published" \/ kept[m] > 0

Post ==
    /\ At("post")
    /\ \/ /\ Works /\ ~closed
          /\ view' = [view EXCEPT ![M] = Posted(@)]
          /\ w' = [w EXCEPT !.pc = "record", !.fresh = TRUE]
          /\ UNCHANGED late
       \* No answer, or a refusal.
       \/ /\ CallFails \/ (closed /\ Works)
          /\ \/ UNCHANGED <<view, late>>
             \/ ~closed /\ view' = [view EXCEPT ![M] = Posted(@)] /\ UNCHANGED late
             \/ ~closed /\ InParts(M) /\ view' = [view EXCEPT ![M] = Partly(@)] /\ UNCHANGED late
             \/ ~closed /\ late' = late \cup {M} /\ UNCHANGED view
          /\ Return
    /\ reposted' = IF Recorded(M) THEN reposted \cup {M} ELSE reposted
    /\ UNCHANGED <<store, missed, runs, outside>>

Land(m) ==
    /\ m \in late
    /\ late' = late \ {m}
    /\ view' = [view EXCEPT ![m] = Posted(@)]
    /\ UNCHANGED <<store, w, missed, reposted, runs, faults, outside>>

\* MarkAssistantExchangePublished keeps the timestamp it recorded first: a
\* message posted after that stays "fresh", unknown to the exchange.
RecordPublication ==
    /\ At("record")
    /\ Transaction(TRUE,
                   intent' = [intent EXCEPT ![M] = IF @ = "prepared" THEN "published" ELSE @],
                   UNCHANGED intent,
                   w' = [w EXCEPT !.fresh = @ /\ intent[M] # "prepared",
                                  !.pc = IF M[2] = "reply" THEN "finalize" ELSE "close"])
    /\ UNCHANGED <<row, kept, session, slack, runs, outside>>

\* The message enters the conversation's memory as its exchange is consumed.
Consume(ms) ==
    /\ kept' = [m \in Message |-> IF m \in ms THEN kept[m] + 1 ELSE kept[m]]
    /\ intent' = [m \in Message |-> IF m \in ms THEN "absent" ELSE intent[m]]

\* FinalizeAssistantExchange has nothing to do when there is no exchange.
Finalize ==
    /\ At("finalize")
    /\ Transaction(TRUE, Consume({M} \cap {m \in Message : intent[m] = "published"}),
                   UNCHANGED <<kept, intent>>, Goto("complete"))
    /\ UNCHANGED <<row, session, slack, runs, outside>>

Complete ==
    /\ At("complete")
    /\ Transaction(R.state = "response_prepared" /\ Held,
                   SetRow([R EXCEPT !.state = "completed", !.lease = "none"]),
                   UNCHANGED row, Return)
    /\ UNCHANGED <<intent, kept, session, slack, runs, outside>>

\* CompleteActivationFallback: memory, exchange and row in one transaction,
\* for the timestamp that the exchange recorded.
CloseFallback ==
    /\ At("close")
    /\ Transaction(/\ Held /\ R.owed /\ ~R.told
                   /\ intent[M] = "published" /\ ~w.fresh,
                   /\ SetRow([R EXCEPT !.told = TRUE, !.lease = "none"])
                   /\ Consume({M}),
                   UNCHANGED <<row, kept, intent>>, Return)
    /\ UNCHANGED <<session, slack, runs, outside>>

-----------------------------------------------------------------------------
(* The worker decides from the row.  These calls outlive the context.       *)

Settle ==
    /\ At("settle")
    /\ \/ /\ w.phase = "before"
          /\ R.state \in {"model_started", "response_prepared"}
          /\ w' = [w EXCEPT !.pc = "reconcile", !.phase = "recheck", !.ctx = TRUE]
          /\ UNCHANGED faults
       \/ /\ w.phase = "before" /\ R.state = "processing"
          /\ Goto("resolve")
          /\ UNCHANGED faults
       \* A reconciled row that stays open waits for its lease to lapse.
       \/ /\ w.phase # "before" \/ R.state \in Terminal
          /\ w' = Idle
          /\ UNCHANGED faults
       \/ Fault /\ w' = Idle
    /\ UNCHANGED <<store, slack, runs, outside>>

\* Mutation: a failed attempt keeps its lease.
ResolvedWithLease(r) ==
    IF r.attempts >= MaxAttempts THEN Ended(r, "failed", "exhausted")
    ELSE [r EXCEPT !.state = "pending"]

\* RetryActivation, or FailActivation after the last attempt.
Resolved(r) ==
    IF r.attempts >= MaxAttempts THEN Ended(r, "failed", "exhausted")
    ELSE [r EXCEPT !.state = "pending", !.lease = "none"]

Resolve ==
    /\ At("resolve")
    /\ \/ /\ R.state = "processing" /\ Held
          /\ SetRow(Resolved(R))
          /\ UNCHANGED faults
       \/ /\ Fault \/ (~Held /\ UNCHANGED faults)
          /\ UNCHANGED row
    /\ w' = Idle
    /\ UNCHANGED <<intent, kept, session, slack, runs, outside>>

-----------------------------------------------------------------------------
(* Leases, people, the configuration, the channels and the process.         *)

\* A lease that the worker renews lapses only when the renewals are late.
LeaseLapses(a) ==
    /\ row[a].lease = "live"
    /\ row' = [row EXCEPT ![a].lease = "lapsed"]
    /\ IF w.a = a THEN Fault ELSE UNCHANGED faults
    /\ UNCHANGED <<intent, kept, session, w, slack, runs, outside>>

\* renewLease cancels the handler; the fallback has no renewal.
RenewalFails ==
    /\ w.pc \in {"frame", "reject", "reconcile"} \cup Holding
    /\ w.phase # "fallback" /\ w.ctx
    /\ IF Held THEN Fault ELSE UNCHANGED faults
    /\ w' = [w EXCEPT !.ctx = FALSE]
    /\ UNCHANGED <<store, slack, runs, outside>>

HumanTurnStarts(c) ==
    /\ proc = "up"
    /\ c \notin human
    /\ ~(w.pc \in Holding /\ w.a \in c)
    /\ humanTurns < MaxHumanTurns
    /\ humanTurns' = humanTurns + 1
    /\ human' = human \cup {c}
    /\ UNCHANGED <<store, w, slack, revoked, closed, proc, runs, faults, restarts>>

HumanTurnEnds(c) ==
    /\ c \in human
    /\ human' = human \ {c}
    /\ UNCHANGED <<store, w, slack, revoked, closed, proc, runs, faults, restarts, humanTurns>>

CloseChannel ==
    /\ ~closed
    /\ closed' = TRUE
    /\ UNCHANGED <<store, w, slack, human, revoked, proc, runs, faults, restarts, humanTurns>>

StopAdmission ==
    /\ proc = "up" /\ restarts < MaxRestarts
    /\ proc' = "draining"
    /\ UNCHANGED <<store, w, slack, human, revoked, closed, runs, faults, restarts, humanTurns>>

CancelContext ==
    /\ proc = "draining"
    /\ proc' = "cancelled"
    /\ UNCHANGED <<store, w, slack, human, revoked, closed, runs, faults, restarts, humanTurns>>

ProcessEnds ==
    /\ restarts < MaxRestarts
    /\ restarts' = restarts + 1
    /\ proc' = "down"
    /\ w' = Idle
    /\ human' = {}
    /\ UNCHANGED <<store, slack, revoked, closed, runs, faults, humanTurns>>

Crash == proc # "down" /\ ProcessEnds
Exit  == (proc = "cancelled" \/ (proc = "draining" /\ w.pc = "idle")) /\ ProcessEnds

\* Mutation: exchanges of fallbacks are not left to their own transaction.
StartUpReconcilesAll == Message

\* ReconcileAssistantExchanges, before any worker runs: published exchanges
\* are consumed, prepared ones that Slack shows, too.  It leaves fallbacks to
\* CompleteActivationFallback.
StartUpReconciles == {m \in Message : m[2] = "reply"}

LeftPublished == {m \in StartUpReconciles : intent[m] = "published"}
LeftPrepared  == {m \in StartUpReconciles : intent[m] = "prepared"}
LeftFound     == {m \in LeftPrepared : ~closed /\ Found(m)}

StartUp ==
    /\ proc = "down"
    /\ \/ /\ closed => LeftPrepared = {}
          /\ Consume(LeftPublished \cup LeftFound)
          /\ proc' = "up"
          /\ UNCHANGED faults
       \* A lookup that fails ends the start, after the published ones.
       \/ /\ closed /\ LeftPrepared # {}
          /\ Consume(LeftPublished)
          /\ UNCHANGED <<proc, faults>>
       \* So does a transaction that fails; the exchanges go one by one.
       \/ /\ Fault
          /\ \E ms \in SUBSET (LeftPublished \cup LeftFound) : Consume(ms)
          /\ UNCHANGED proc
    /\ revoked' \in {revoked, Revocable}
    /\ UNCHANGED <<row, session, w, slack, human, closed, runs, restarts, humanTurns>>

-----------------------------------------------------------------------------
Init ==
    /\ row = [a \in Activation |-> Absent]
    /\ intent = [m \in Message |-> "absent"]
    /\ kept = [m \in Message |-> 0]
    /\ session = [a \in Activation |-> "nothing"]
    /\ w = Idle
    /\ view = [m \in Message |-> "none"]
    /\ late = {}
    /\ human = {} /\ revoked = {} /\ closed = FALSE
    /\ proc = "up"
    /\ runs = [a \in Activation |-> 0]
    /\ missed = {} /\ reposted = {}
    /\ faults = 0 /\ restarts = 0 /\ humanTurns = 0

HandleJobCompletion == Frame \/ Reject \/ MarkModelStarted \/ Model
ReconcileJobCompletion == Reconcile \/ Recover \/ MarkUnknown \/ PrepareResponse
Publish == FindPublished \/ Post \/ RecordPublication \/ Finalize \/ Complete
PublishFallback == PrepareFallback \/ CloseFallback

WorkerStep ==
    \/ HandleJobCompletion
    \/ ReconcileJobCompletion
    \/ Publish
    \/ PublishFallback
    \/ Settle
    \/ Resolve

Environment ==
    \/ \E a \in Activation : Enqueue(a) \/ LeaseLapses(a)
    \/ RenewalFails
    \/ \E m \in late : Land(m)
    \/ \E c \in Conversation : HumanTurnStarts(c) \/ HumanTurnEnds(c)
    \/ CloseChannel

ProcessStep == StopAdmission \/ CancelContext \/ Crash \/ Exit \/ StartUp

Next ==
    \/ \E a \in Activation : Claim(a) \/ ClaimFallback(a)
    \/ WorkerStep
    \/ Environment
    \/ ProcessStep

Spec == Init /\ [][Next]_vars

\* The worker polls for ever and takes the oldest row that is due; leases
\* lapse; people finish their turns; a stopped process is started again.
Fairness ==
    /\ WF_vars(WorkerStep)
    /\ \A a \in Activation :
          /\ SF_vars(Claim(a))
          /\ SF_vars(ClaimFallback(a))
          /\ WF_vars(row[a].lease = "live" /\ w.a # a /\ LeaseLapses(a))
    /\ \A c \in Conversation : WF_vars(HumanTurnEnds(c))
    /\ WF_vars(Exit)
    /\ WF_vars(StartUp)

LiveSpec == Spec /\ Fairness

-----------------------------------------------------------------------------
(* Properties.                                                              *)

Row ==
    [state : {"absent"} \cup Open \cup Terminal, lease : {"none", "live", "lapsed"},
     attempts : 0 .. MaxAttempts, owed : BOOLEAN, told : BOOLEAN]

RowOK(r) ==
    /\ r.state \in {"processing", "model_started", "response_prepared"} => r.lease # "none"
    /\ r.state \in {"absent", "pending", "completed"} => r.lease = "none"
    /\ r.owed => r.state \in Terminal \ {"completed"}
    /\ r.told => r.owed /\ r.lease = "none"

Worker ==
    [pc : {"idle", "frame", "reject", "reconcile", "fallback", "settle", "resolve"}
          \cup Holding,
     a : Activation \cup {NoActivation},
     phase : {"before", "recheck", "after", "fallback"},
     ctx : BOOLEAN, fresh : BOOLEAN, code : Code]

\* Every variable has the values its column or Slack allow, and a row's lease
\* and fallback flags fit its state.
TypeOK ==
    /\ row \in [Activation -> Row]
    /\ \A a \in Activation : RowOK(row[a])
    /\ intent \in [Message -> {"absent", "prepared", "published"}]
    /\ kept \in [Message -> Nat]
    /\ session \in [Activation -> {"nothing", "answer", "unusable"}]
    /\ w \in Worker
    /\ w.pc # "idle" => w.a \in Activation
    /\ view \in [Message -> {"none", "partial", "exact", "repeated"}]
    /\ late \subseteq Message /\ missed \subseteq Message /\ reposted \subseteq Message
    /\ human \subseteq Conversation
    /\ revoked \in {{}, Revocable}
    /\ closed \in BOOLEAN
    /\ proc \in {"up", "draining", "cancelled", "down"}
    /\ runs \in [Activation -> Nat]
    /\ faults \in 0 .. MaxFaults
    /\ restarts \in 0 .. MaxRestarts
    /\ humanTurns \in 0 .. MaxHumanTurns

\* Whatever is retried, reconciled or restarted, the root model is not asked
\* twice about one result.
ModelRunsOnce == \A a \in Activation : runs[a] <= 1

\* Nothing is shown twice, unless a lookup met an earlier copy that it could
\* not recognise: still on its way, incomplete, or not on the page.
PostedOnce == \A m \in Message \ missed : view[m] # "repeated"

\* The conversation's memory gets a message once, after Slack had it.
RememberedOnce ==
    \A m \in Message : kept[m] <= 1 /\ (kept[m] = 1 => view[m] # "none")

\* A finished activation has been remembered.
FinishedIsKept ==
    \A a \in Activation :
        /\ row[a].state = "completed" => kept[<<a, "reply">>] = 1
        /\ row[a].told => kept[<<a, "fallback">>] = 1

\* A conversation that was shown an answer is not told that there is none.
NeverBoth ==
    \A a \in Activation :
        view[<<a, "reply">>] = "none" \/ view[<<a, "fallback">>] = "none"

\* Whether the worker, the next start or the fallback's transaction closes it,
\* in any order around a crash or a lost answer: Slack shows an answer or a
\* message that there is none, once, the conversation remembers it once, and no
\* activation ends before both.
AnsweredOnce == NeverBoth /\ PostedOnce /\ RememberedOnce /\ FinishedIsKept

\* The root is asked about the results of a conversation in the order in which
\* they were announced: the next one waits until the last one is settled.
AskedInOrder ==
    \A c \in Conversation : \A a, b \in c :
        a < b /\ row[b].state \notin {"absent", "pending"} => row[a].state \in Terminal

\* The transactions of the worker, taken together, move the rows only as the
\* domain's table allows, which none of them reads: no retry, takeover or late
\* writer reopens a row that ended or takes one back over the model boundary.
FollowsTransitionTable ==
    [][\A a \in Activation :
          \/ row'[a].state = row[a].state
          \/ row[a].state = "absent" /\ row'[a].state = "pending"
          \/ ValidActivationTransition(row[a].state, row'[a].state)]_vars

Settled(a) == row[a].state \in Terminal /\ (row[a].owed => row[a].told)

\* Every activation is answered, told or dropped, as long as the bot may post
\* and the fallback was not lost to a lookup (see RecordedIsNotPostedAgain).
EveryActivationSettles ==
    \A a \in Activation :
        row[a].state # "absent"
            ~> (Settled(a) \/ closed \/ <<a, "fallback">> \in missed)

-----------------------------------------------------------------------------
(* The abstract specification.                                              *)

Stage(r) ==
    CASE r.state \in {"absent", "pending", "processing"} -> "waiting"
      [] r.state = "model_started"     -> "asked"
      [] r.state = "response_prepared" -> "answering"
      [] r.state = "completed"         -> "answered"
      [] r.told                        -> "told"
      [] r.owed /\ ~r.told             -> "owing"
      [] OTHER                         -> "dropped"

Said(a) ==
    IF view[<<a, "reply">>] # "none" THEN "reply"
    ELSE IF view[<<a, "fallback">>] # "none" THEN "fallback" ELSE "nothing"

RT == INSTANCE RootTurn WITH
          stage <- [a \in Activation |-> Stage(row[a])],
          calls <- runs,
          said  <- [a \in Activation |-> Said(a)]

\* Restarts, lapsed leases and lost answers are invisible: rows, Slack and the
\* model together behave like RootTurn.
ImplementsRootTurn == RT!Spec

-----------------------------------------------------------------------------
(* Statements of the repository that this model contradicts.                *)

\* A crash between publish and persist reconciles the already-published
\* message instead of republishing it (PublishActivationFallback).
RecordedIsNotPostedAgain == reposted = {}

\* An activation that ends without an answer is followed by a message, unless
\* the actor lost access (ActivationFallbackRequired).
SilentOnlyWhenRevoked ==
    \A a \in Activation :
        row[a].state = "failed" /\ ~row[a].owed => a \in revoked
=============================================================================

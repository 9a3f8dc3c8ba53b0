------------------------------- MODULE Turns -------------------------------
(***************************************************************************)
(* One process's handling of Slack messages and of the buttons on its      *)
(* confirmation prompts: bot.Service, the conversation limiter, the        *)
(* model-call limiter, the confirmation deliveries and the assistant       *)
(* exchanges.  The listener acknowledges an event and then runs one        *)
(* goroutine for it, so handlers interleave at every store and Slack call. *)
(* What a handler knows dies with the process; what the store and Slack    *)
(* hold does not, and a start reconciles the two before it serves.         *)
(*                                                                         *)
(* Simplifications: a turn's text, attachments, history and knowledge are  *)
(* left out, the model is a choice among an error, a text and a new        *)
(* confirmation, and prompts are the rich ones with buttons (typed         *)
(* decisions are refused for those).  A post whose answer is lost is seen  *)
(* by every later lookup; a lookup that fails ends the start.              *)
(***************************************************************************)
EXTENDS Naturals, Sequences, FiniteSets

CONSTANTS
  Handler,           \* the goroutines the listener may have running at once
  Main,              \* the goroutine that starts the process
  Message,           \* the messages users send
  Call,              \* the wrapper call IDs of confirmations
  User,
  NoMessage, NoCall, NoUser, NoConversation,
  ConversationOf,    \* the conversation each message belongs to
  AuthorOf,          \* the user who wrote it
  MaxConcurrent,     \* runtime.max_concurrent_model_calls: bounds turns and model calls
  MaxStarts          \* bound: process starts

Conversation == {ConversationOf[m] : m \in Message}

ASSUME HandlersAssumption == Main \notin Handler /\ MaxConcurrent \in Nat /\ MaxStarts \in Nat
ASSUME NamesAssumption == /\ NoMessage \notin Message /\ NoCall \notin Call
                          /\ NoUser \notin User /\ NoConversation \notin Conversation
                          /\ AuthorOf \in [Message -> User]

VARIABLES
  phase,       \* where the process is between its start and serving
  todo,        \* what the current phase of the start still has to reconcile
  starts,
  proc,        \* each goroutine: its step and what it works on
  busy,        \* the conversations the limiter holds
  permits,     \* the model-call permits taken
  claimed,     \* messages whose dedupe keys are claimed
  stored,      \* messages whose user turn is in the conversation store
  intent,      \* the assistant exchange of each message's answer
  remembered,  \* messages whose answer is in the conversation store
  delivery,    \* the confirmation deliveries
  asked,       \* calls a turn suspended on, in the conversation's ADK session
  answers,     \* the responses to each call in that session
  ran,         \* how often the guarded tool ran for each call
  posted,      \* answers to each message that Slack shows
  prompts,     \* prompts for each call that Slack shows
  lapsed       \* calls whose expiry has passed

memory  == <<proc, busy, permits>>
startup == <<phase, todo, starts>>
session == <<asked, answers, ran>>
store   == <<claimed, stored, intent, remembered>>
slack   == <<posted, prompts>>
vars == <<startup, memory, store, delivery, session, slack, lapsed>>

Proc == Handler \union {Main}

Idle == [at |-> "idle", msg |-> NoMessage, call |-> NoCall,
         yes |-> FALSE, user |-> NoUser, conv |-> NoConversation]

NoDelivery == [status |-> "none", shown |-> FALSE, actor |-> NoUser, conv |-> NoConversation]

Waiting  == {"intake", "enter", "lapse"}                \* wants the conversation
Driving  == {"resume", "tool", "model", "close", "closing"}  \* writes the ADK session
Spending == {"decide", "resume", "tool", "model"}       \* has a model-call permit
Answering == {"prepare", "publish", "record", "finalize"}
Prompting == {"create", "post", "mark"}
Holding  == Driving \union Spending \union Answering \union Prompting
              \union {"load", "permit", "expire"}

Init ==
  /\ phase = "down" /\ todo = {} /\ starts = 0
  /\ proc = [p \in Proc |-> Idle] /\ busy = {} /\ permits = 0
  /\ claimed = {} /\ stored = {} /\ remembered = {}
  /\ intent = [m \in Message |-> "none"]
  /\ delivery = [w \in Call |-> NoDelivery]
  /\ asked = {} /\ answers = [w \in Call |-> << >>] /\ ran = [w \in Call |-> 0]
  /\ posted = [m \in Message |-> 0] /\ prompts = [w \in Call |-> 0]
  /\ lapsed = {}

Go(p, step) == proc' = [proc EXCEPT ![p].at = step]

\* Mutation: one early return forgets the release.
ReleasedUnlessStoring(p) ==
  IF proc[p].at \in Holding \ {"permit"} THEN busy \ {proc[p].conv} ELSE busy

\* What a deferred release does when a handler returns.
Released(p) == IF proc[p].at \in Holding THEN busy \ {proc[p].conv} ELSE busy

Leave(p) == proc' = [proc EXCEPT ![p] = Idle] /\ busy' = Released(p)

\* The process ends; every goroutine, lock and permit goes with it.
Exit ==
  /\ phase' = "down" /\ todo' = {} /\ proc' = [p \in Proc |-> Idle]
  /\ busy' = {} /\ permits' = 0
  /\ UNCHANGED starts

\* A handler returns; the start goes on with what is left to reconcile.
Done(p) ==
  /\ Leave(p)
  /\ todo' = IF p = Main THEN todo \ {proc[p].call} ELSE todo
  /\ UNCHANGED <<phase, starts, permits>>

\* An error ends a handler, and ends the process when it is still starting.
Fail(p) == IF p = Main THEN Exit ELSE Leave(p) /\ UNCHANGED <<startup, permits>>

-----------------------------------------------------------------------------
(* Taking a message.                                                       *)

\* Mutation: the dedupe record is written but no longer consulted.
UnclaimedOrNot(m) == TRUE

\* ClaimDedupe is one transaction: of two deliveries one is told to go on.
Unclaimed(m) == m \notin claimed

Receive(p, m) ==
  /\ phase = "serving" /\ proc[p].at = "idle"
  /\ Unclaimed(m)
  /\ claimed' = claimed \union {m}
  /\ \/ proc' = [proc EXCEPT ![p] = [Idle EXCEPT !.at = "intake", !.msg = m,
                                       !.user = AuthorOf[m], !.conv = ConversationOf[m]]]
     \/ UNCHANGED proc              \* denied, a command, or onboarding
  /\ UNCHANGED <<startup, busy, permits, stored, intent, remembered, delivery, session, slack, lapsed>>

\* Mutation: the limiter counts turns but no longer keys them.
FreeForAnyone(c) == Cardinality(busy) < MaxConcurrent

\* Limiter.TryAcquire: one turn per conversation and a bound on all of them.
Free(c) == c \notin busy /\ Cardinality(busy) < MaxConcurrent

AfterEntry(p) ==
  CASE proc[p].at = "intake" -> "load"
    [] proc[p].at = "enter"  -> "permit"
    [] proc[p].at = "lapse"  -> "expire"

\* It may be refused whatever this module's goroutines hold: the activation
\* worker takes conversations too, and summaries and attachments take permits.
Acquire(p) ==
  /\ proc[p].at \in Waiting
  /\ \/ /\ Free(proc[p].conv)
        /\ busy' = busy \union {proc[p].conv} /\ Go(p, AfterEntry(p))
        /\ UNCHANGED <<startup, permits>>
     \/ Done(p)                  \* busy: told so, or deferred
  /\ UNCHANGED <<store, delivery, session, slack, lapsed>>

\* AppendMessage of the user's turn; loading history or attachments may fail first.
StoreMessage(p) ==
  /\ proc[p].at = "load"
  /\ \/ /\ stored' = stored \union {proc[p].msg} /\ Go(p, "permit") /\ UNCHANGED busy
     \/ Leave(p) /\ UNCHANGED stored
  /\ UNCHANGED <<startup, permits, claimed, intent, remembered, delivery, session, slack, lapsed>>

TakePermit(p) ==
  /\ proc[p].at = "permit"
  /\ \/ /\ permits < MaxConcurrent /\ permits' = permits + 1
        /\ Go(p, IF proc[p].call = NoCall THEN "model" ELSE "decide")
        /\ UNCHANGED busy
     \/ Leave(p) /\ UNCHANGED permits
  /\ UNCHANGED <<startup, store, delivery, session, slack, lapsed>>

\* The model's run returns and gives its permit back: an error that is told to
\* the user, a text, or a call that waits for the user's confirmation.  The
\* text of a resumed turn is posted but is no assistant exchange.
Model(p) ==
  /\ proc[p].at = "model"
  /\ permits' = permits - 1
  /\ \/ Leave(p) /\ UNCHANGED asked
     \/ proc[p].msg # NoMessage /\ Go(p, "prepare") /\ UNCHANGED <<busy, asked>>
     \/ /\ asked # Call
        /\ LET w == CHOOSE w \in Call : w \notin asked
           IN /\ asked' = asked \union {w}
              /\ proc' = [proc EXCEPT ![p].at = "create", ![p].call = w]
        /\ UNCHANGED busy
  /\ UNCHANGED <<startup, store, delivery, answers, ran, slack, lapsed>>

-----------------------------------------------------------------------------
(* Publishing an answer: finalizeTurn and the exchange it leaves behind.   *)

Prepare(p) ==
  /\ proc[p].at = "prepare"
  /\ \/ intent' = [intent EXCEPT ![proc[p].msg] = "prepared"] /\ Go(p, "publish") /\ UNCHANGED busy
     \/ Leave(p) /\ UNCHANGED intent
  /\ UNCHANGED <<startup, permits, claimed, stored, remembered, delivery, session, slack, lapsed>>

\* Slack takes the post or refuses it; what it answers may be lost.
Publish(p) ==
  /\ proc[p].at = "publish"
  /\ \/ /\ posted' = [posted EXCEPT ![proc[p].msg] = @ + 1]
        /\ \/ Go(p, "record") /\ UNCHANGED busy
           \/ Leave(p)
     \/ Leave(p) /\ UNCHANGED posted
  /\ UNCHANGED <<startup, permits, store, delivery, session, prompts, lapsed>>

MarkExchange(p) ==
  /\ proc[p].at = "record"
  /\ \/ intent' = [intent EXCEPT ![proc[p].msg] = "published"] /\ Go(p, "finalize") /\ UNCHANGED busy
     \/ Leave(p) /\ UNCHANGED intent
  /\ UNCHANGED <<startup, permits, claimed, stored, remembered, delivery, session, slack, lapsed>>

\* One transaction appends the answer and deletes the intent.
Finalized(m) ==
  /\ intent' = [intent EXCEPT ![m] = "none"]
  /\ remembered' = remembered \union {m}

Finalize(p) ==
  /\ proc[p].at = "finalize"
  /\ Finalized(proc[p].msg) \/ UNCHANGED <<intent, remembered>>
  /\ Leave(p)
  /\ UNCHANGED <<startup, permits, claimed, stored, delivery, session, slack, lapsed>>

-----------------------------------------------------------------------------
(* Asking for a confirmation.                                              *)

CreateDelivery(p) ==
  /\ proc[p].at = "create"
  /\ \/ /\ delivery' = [delivery EXCEPT ![proc[p].call] =
                          [status |-> "pending", shown |-> FALSE,
                           actor |-> proc[p].user, conv |-> proc[p].conv]]
        /\ Go(p, "post") /\ UNCHANGED busy
     \/ Leave(p) /\ UNCHANGED delivery
  /\ UNCHANGED <<startup, permits, store, session, slack, lapsed>>

PublishConfirmation(p) ==
  /\ proc[p].at = "post"
  /\ \/ /\ prompts' = [prompts EXCEPT ![proc[p].call] = @ + 1]
        /\ \/ Go(p, "mark") /\ UNCHANGED <<startup, busy, permits>>
           \/ Fail(p)
     \/ Fail(p) /\ UNCHANGED prompts
  /\ UNCHANGED <<store, delivery, session, posted, lapsed>>

\* MarkPublished moves pending to published and records the prompt's timestamp.
MarkPublished(p) ==
  /\ proc[p].at = "mark"
  /\ \/ /\ delivery[proc[p].call].status = "pending"
        /\ delivery' = [delivery EXCEPT ![proc[p].call].status = "published",
                                        ![proc[p].call].shown = TRUE]
        /\ Done(p)
     \/ Fail(p) /\ UNCHANGED delivery
  /\ UNCHANGED <<store, session, slack, lapsed>>

-----------------------------------------------------------------------------
(* Deciding it.                                                            *)

\* Mutation: the update that takes the decision has lost its status condition.
OpenOrNot(w) == delivery[w].status # "none"

Open(w) == delivery[w].status \in {"pending", "published"}

\* Mutation: anyone who sees the prompt may decide.
EntitledAnyone(w, u) == delivery[w].shown

\* handleConfirmationCore up to the limiter.  A click counts once the prompt's
\* timestamp is recorded, when its actor and conversation are the delivery's;
\* what it reads here may be stale by the time it has the conversation.
Entitled(w, u) == delivery[w].shown /\ delivery[w].actor = u

Click(p, w, u, yes) ==
  /\ phase = "serving" /\ proc[p].at = "idle" /\ prompts[w] > 0
  /\ Entitled(w, u)
  /\ w \in lapsed \/ delivery[w].status \in {"pending", "published"}
  /\ proc' = [proc EXCEPT ![p] = [Idle EXCEPT
       !.at = IF w \in lapsed THEN "lapse" ELSE "enter",
       !.call = w, !.yes = yes /\ w \notin lapsed, !.user = u, !.conv = delivery[w].conv]]
  /\ UNCHANGED <<startup, busy, permits, store, delivery, session, slack, lapsed>>

\* MarkConsumed and RejectDelivery: a compare-and-set on the status.
Decide(p) ==
  LET w == proc[p].call IN
  /\ proc[p].at = "decide"
  /\ \/ /\ Open(w)
        /\ delivery' = [delivery EXCEPT ![w].status = IF proc[p].yes THEN "consumed" ELSE "rejected"]
        /\ Go(p, "resume") /\ UNCHANGED <<busy, permits>>
     \/ Leave(p) /\ permits' = permits - 1 /\ UNCHANGED delivery
  /\ UNCHANGED <<startup, store, session, slack, lapsed>>

Answered(w, by, yes) == answers' = [answers EXCEPT ![w] = Append(@, [by |-> by, yes |-> yes])]

\* Resume appends the function response; an error before that loses the decision.
Resume(p) ==
  /\ proc[p].at = "resume"
  /\ \/ /\ Answered(proc[p].call, proc[p].user, proc[p].yes)
        /\ Go(p, IF proc[p].yes THEN "tool" ELSE "model") /\ UNCHANGED <<busy, permits>>
     \/ Leave(p) /\ permits' = permits - 1 /\ UNCHANGED answers
  /\ UNCHANGED <<startup, store, delivery, asked, ran, slack, lapsed>>

RunTool(p) ==
  /\ proc[p].at = "tool"
  /\ \/ ran' = [ran EXCEPT ![proc[p].call] = @ + 1]
     \/ UNCHANGED ran
  /\ Go(p, "model")
  /\ UNCHANGED <<startup, busy, permits, store, delivery, asked, answers, slack, lapsed>>

\* ExpireDelivery: the same compare-and-set, for a delivery past its expiry.
\* Only its winner answers the call, with no permit and a turn nobody reads.
Expire(p) ==
  LET w == proc[p].call IN
  /\ proc[p].at = "expire"
  /\ IF Open(w) /\ w \in lapsed
       THEN /\ delivery' = [delivery EXCEPT ![w].status = "expired"]
            /\ Go(p, "close") /\ UNCHANGED <<startup, busy, permits>>
       ELSE Done(p) /\ UNCHANGED delivery
  /\ UNCHANGED <<store, session, slack, lapsed>>

Close(p) ==
  /\ proc[p].at = "close"
  /\ \/ /\ Answered(proc[p].call, delivery[proc[p].call].actor, FALSE)
        /\ Go(p, "closing") /\ UNCHANGED <<startup, busy, permits>>
     \/ Fail(p) /\ UNCHANGED answers
  /\ UNCHANGED <<store, delivery, asked, ran, slack, lapsed>>

Closed(p) ==
  /\ proc[p].at = "closing"
  /\ Done(p) \/ Fail(p)
  /\ UNCHANGED <<store, delivery, session, slack, lapsed>>

\* The clock passes a call's expiry.
Lapse(w) ==
  /\ delivery[w].status # "none" /\ w \notin lapsed
  /\ lapsed' = lapsed \union {w}
  /\ UNCHANGED <<startup, memory, store, delivery, session, slack>>

-----------------------------------------------------------------------------
(* Starting: reconcile the exchanges, the expired and the pending          *)
(* confirmations, and only then serve.                                     *)

Start ==
  /\ phase = "down" /\ starts < MaxStarts
  /\ phase' = "exchanges" /\ starts' = starts + 1
  /\ UNCHANGED <<todo, memory, store, delivery, session, slack, lapsed>>

Unfinalized == {m \in Message : intent[m] = "published"}

FinalizePublished(m) ==
  /\ phase \in {"exchanges", "matched"} /\ m \in Unfinalized
  /\ Finalized(m)
  /\ UNCHANGED <<startup, memory, claimed, stored, delivery, session, slack, lapsed>>

\* The lookups of every prepared exchange, which precede the first mark.  An
\* exchange Slack does not show stays prepared.
LookUpPrepared ==
  /\ phase = "exchanges" /\ Unfinalized = {}
  /\ phase' = "matched"
  /\ todo' = {m \in Message : intent[m] = "prepared" /\ posted[m] = 1}
  /\ UNCHANGED <<starts, memory, store, delivery, session, slack, lapsed>>

MarkMatched(m) ==
  /\ phase = "matched" /\ m \in todo
  /\ intent' = [intent EXCEPT ![m] = "published"]
  /\ todo' = todo \ {m}
  /\ UNCHANGED <<phase, starts, memory, claimed, stored, remembered, delivery, session, slack, lapsed>>

\* What ReconcileAssistantExchanges leaves to do before it returns.
Unmatched == todo \union Unfinalized

\* Mutation: the reconciliation runs beside the first handlers.
ReconciledSoon == TRUE

\* ReconcileConfirmations has handled every delivery it listed.
Reconciled == todo = {} /\ proc[Main].at = "idle"

ListExpired ==
  /\ phase = "matched" /\ Unmatched = {}
  /\ phase' = "expired" /\ todo' = {w \in lapsed : Open(w)}
  /\ UNCHANGED <<starts, memory, store, delivery, session, slack, lapsed>>

ExpireListed(w) ==
  /\ phase = "expired" /\ w \in todo /\ proc[Main].at = "idle"
  /\ proc' = [proc EXCEPT ![Main] = [Idle EXCEPT !.at = "lapse", !.call = w,
                                       !.user = delivery[w].actor, !.conv = delivery[w].conv]]
  /\ UNCHANGED <<startup, busy, permits, store, delivery, session, slack, lapsed>>

ListPending ==
  /\ phase = "expired" /\ Reconciled
  /\ phase' = "pending"
  /\ todo' = {w \in Call \ lapsed : delivery[w].status = "pending"}
  /\ UNCHANGED <<starts, memory, store, delivery, session, slack, lapsed>>

\* Mutation: every pending prompt is posted again.
ShownNever(w) == FALSE

\* RecoverConfirmation: post the prompt only when Slack does not show it.
Shown(w) == prompts[w] > 0

RecoverPending(w) ==
  /\ phase = "pending" /\ w \in todo /\ proc[Main].at = "idle"
  /\ proc' = [proc EXCEPT ![Main] = [Idle EXCEPT
                !.at = IF Shown(w) THEN "mark" ELSE "post", !.call = w]]
  /\ UNCHANGED <<startup, busy, permits, store, delivery, session, slack, lapsed>>

Serve ==
  /\ phase = "pending" /\ Reconciled
  /\ phase' = "serving"
  /\ UNCHANGED <<todo, starts, memory, store, delivery, session, slack, lapsed>>

\* A crash, a shutdown that outlasts its grace, or an error of the start.
Crash ==
  /\ phase # "down" /\ Exit
  /\ UNCHANGED <<store, delivery, session, slack, lapsed>>

-----------------------------------------------------------------------------

HandlerStep(p) ==
  \/ Acquire(p) \/ StoreMessage(p) \/ TakePermit(p) \/ Model(p)
  \/ Prepare(p) \/ Publish(p) \/ MarkExchange(p) \/ Finalize(p)
  \/ CreateDelivery(p) \/ PublishConfirmation(p) \/ MarkPublished(p)
  \/ Decide(p) \/ Resume(p) \/ RunTool(p)
  \/ Expire(p) \/ Close(p) \/ Closed(p)

StartStep ==
  \/ Start \/ LookUpPrepared \/ ListExpired \/ ListPending \/ Serve
  \/ \E m \in Message : FinalizePublished(m) \/ MarkMatched(m)
  \/ \E w \in Call : ExpireListed(w) \/ RecoverPending(w)

Next ==
  \/ \E p \in Handler, m \in Message : Receive(p, m)
  \/ \E p \in Handler, w \in Call, u \in User, yes \in BOOLEAN : Click(p, w, u, yes)
  \/ \E p \in Proc : HandlerStep(p)
  \/ \E w \in Call : Lapse(w)
  \/ StartStep
  \/ Crash

Spec == Init /\ [][Next]_vars

-----------------------------------------------------------------------------

Steps == Holding \union Waiting \union {"idle"}

\* The type of every variable, with what the types alone do not say: only a
\* process that serves has handlers at work, and only one that starts has
\* its main goroutine at work.
TypeOK ==
  /\ phase \in {"down", "exchanges", "matched", "expired", "pending", "serving"}
  /\ todo \subseteq Message \union Call /\ starts \in 0..MaxStarts
  /\ proc \in [Proc -> [at : Steps, msg : Message \union {NoMessage}, call : Call \union {NoCall},
                        yes : BOOLEAN, user : User \union {NoUser},
                        conv : Conversation \union {NoConversation}]]
  /\ busy \subseteq Conversation /\ permits \in 0..MaxConcurrent
  /\ Cardinality(busy) <= MaxConcurrent
  /\ stored \subseteq claimed /\ claimed \subseteq Message /\ remembered \subseteq stored
  /\ intent \in [Message -> {"none", "prepared", "published"}]
  /\ delivery \in [Call -> [status : {"none", "pending", "published", "consumed", "rejected", "expired"},
                            shown : BOOLEAN, actor : User \union {NoUser},
                            conv : Conversation \union {NoConversation}]]
  /\ asked \subseteq Call /\ lapsed \subseteq asked
  /\ answers \in [Call -> Seq([by : User, yes : BOOLEAN])] /\ ran \in [Call -> Nat]
  /\ posted \in [Message -> Nat] /\ prompts \in [Call -> Nat]
  /\ phase # "serving" => \A p \in Handler : proc[p] = Idle
  /\ phase = "serving" => proc[Main] = Idle

\* A confirmation takes effect at most once and as its requester decided:
\* over clicks that race each other, the expiry, and a restart, the session
\* gets at most one response to a call, it is the requester's, it agrees with
\* the delivery's final status, and the guarded tool runs at most once and
\* only for an approval.
DecidedOnce ==
  \A w \in Call :
    /\ Len(answers[w]) <= 1 /\ ran[w] <= Len(answers[w])
    /\ \A i \in DOMAIN answers[w] :
         /\ answers[w][i].by = delivery[w].actor
         /\ IF answers[w][i].yes THEN delivery[w].status = "consumed"
                                 ELSE delivery[w].status \in {"rejected", "expired"}
    /\ ran[w] > 0 => answers[w][1].yes
    /\ delivery[w].status = "expired" => w \in lapsed

\* At most one goroutine drives a conversation's ADK session, whichever of a
\* message, a click, an expiry or the start it works for; and the limiters
\* hold exactly what live goroutines hold, so that no early return keeps a
\* conversation or a permit.
OneDriver ==
  /\ \A p, q \in Proc : p # q /\ proc[p].at \in Driving /\ proc[q].at \in Driving
                          => proc[p].conv # proc[q].conv
  /\ busy = {proc[p].conv : p \in {q \in Handler \union {Main} : proc[q].at \in Holding}} \ {NoConversation}
  /\ permits = Cardinality({p \in Proc : proc[p].at \in Spending})

\* Slack shows at most one answer to a message and one prompt for a call,
\* over redelivered events, lost answers and restarts, and the store only
\* remembers, marks or accepts clicks on what Slack shows.
PostedOnce ==
  /\ \A m \in Message :
       /\ posted[m] <= 1
       /\ m \in remembered \/ intent[m] = "published" => posted[m] = 1
       /\ m \in remembered => intent[m] = "none"
  /\ \A w \in Call :
       /\ prompts[w] <= 1
       /\ delivery[w].shown => prompts[w] = 1

\* When the process begins to serve, every answer Slack shows in full is in the
\* conversation store, and every confirmation that is still open can be
\* clicked or has lapsed.
RecoveredBeforeServing ==
  [][phase # "serving" /\ phase' = "serving" =>
       /\ \A m \in Message : posted[m] > 0 => m \in remembered
       /\ \A w \in Call : Open(w) => delivery[w].shown \/ w \in lapsed]_vars

=============================================================================

-------------------------- MODULE Sessions_proofs --------------------------
(***************************************************************************)
(* Proofs about one session, from both sides.                              *)
(*                                                                         *)
(* Turns: the types, the limiters that hold exactly what live goroutines   *)
(* hold, one answer and one prompt in Slack, one decision of a             *)
(* confirmation, and what a start has recovered before it serves, for any  *)
(* number of goroutines, messages, calls, users, permits and starts.       *)
(*                                                                         *)
(* Summaries, whose one driver is what the first part establishes: the     *)
(* session stays legal, its summary is made of the turns it covers, and no *)
(* request for one is lost, for any session, limits, faults and restarts.  *)
(***************************************************************************)
EXTENDS Turns, Summaries, TLAPS, FiniteSetTheorems, SequenceTheorems, WellFoundedInduction

(***************************************************************************)
(* Turns.                                                                  *)
(***************************************************************************)

\* What a goroutine works on at each step: the turn of a message or the
\* decision of a call, and the main goroutine only on what it has listed.
Shape(p) ==
  LET l == proc[p] IN
    /\ l.at = "idle" => l = Idle
    /\ l.at \in {"intake", "load"} \union Answering => l.msg # NoMessage /\ l.call = NoCall
    /\ l.at \in {"permit", "model"} => (l.msg = NoMessage <=> l.call # NoCall)
    /\ l.at \in {"enter", "decide", "resume", "tool", "lapse", "expire", "close", "closing"}
         => l.msg = NoMessage /\ l.call # NoCall
    /\ l.at \in Prompting => l.call # NoCall
    /\ p \in Handler /\ l.at # "idle" => l.user \in User /\ l.conv \in Conversation

StartShape ==
  LET l == proc[Main] IN
    /\ l.at \in {"idle", "lapse", "expire", "close", "closing", "post", "mark"}
    /\ l.at \in {"lapse", "expire", "close", "closing"}
         => phase = "expired" /\ l.call \in todo /\ l.conv \in Conversation
    /\ l.at \in {"post", "mark"}
         => phase = "pending" /\ l.call \in todo /\ l.conv = NoConversation
    /\ l.msg = NoMessage
    /\ phase \in {"down", "exchanges", "serving"} => todo = {}
    /\ phase = "matched" => todo \subseteq Message
    /\ phase = "expired" => todo \subseteq lapsed
    /\ phase = "pending" => todo \subseteq Call

Shapes == StartShape /\ \A p \in Proc : Shape(p)

\* The limiters: nobody shares a conversation, and both count what is held.
Holders  == {p \in Proc : proc[p].at \in Holding /\ proc[p].conv # NoConversation}
Spenders == {p \in Proc : proc[p].at \in Spending}

Held ==
  /\ \A p, q \in Holders : proc[p].conv = proc[q].conv => p = q
  /\ busy = {proc[p].conv : p \in Holders} /\ IsFiniteSet(busy)

Spent == IsFiniteSet(Spenders) /\ permits = Cardinality(Spenders)

Limits == Held /\ Spent

\* A message has one goroutine at most, which knows how far its answer is.
Fresh(m) == intent[m] = "none" /\ posted[m] = 0 /\ m \notin remembered

Turn(p) ==
  LET l == proc[p]
      m == l.msg
  IN  m # NoMessage =>
        /\ m \in claimed
        /\ l.at \in {"intake", "load", "permit", "model", "prepare"} => Fresh(m)
        /\ l.at \in {"permit", "model"} \union Answering => m \in stored
        /\ l.at \in {"publish", "record"} => intent[m] = "prepared" /\ m \notin remembered
        /\ l.at = "publish" => posted[m] = 0
        /\ l.at \in {"record", "finalize"} => posted[m] = 1
        /\ l.at = "finalize" => intent[m] = "published"

\* What the store and Slack hold of a message's answer.
Ledger(m) ==
  /\ posted[m] \in {0, 1}
  /\ m \notin claimed => Fresh(m)
  /\ intent[m] # "none" => m \in stored /\ m \notin remembered
  /\ intent[m] = "published" \/ m \in remembered => posted[m] = 1
  /\ posted[m] = 1 => m \in remembered \/ intent[m] # "none"

\* How far a start is with the answers Slack shows.
Reconciling ==
  /\ phase = "matched" => \A m \in todo : posted[m] = 1 /\ intent[m] = "prepared"
  /\ phase = "matched" =>
       \A m \in Message : posted[m] = 1 => m \in remembered \/ m \in todo \/ intent[m] = "published"
  /\ phase \in {"expired", "pending"} => \A m \in Message : posted[m] = 1 => m \in remembered

Messages ==
  /\ \A m \in Message : Ledger(m)
  /\ \A p \in Proc : Turn(p)
  /\ \A p, q \in Proc : proc[p].msg = proc[q].msg /\ proc[p].msg # NoMessage => p = q
  /\ Reconciling

\* A call's delivery and the session's answer to it, and the goroutine that
\* creates, shows or answers it.
Unanswered(w) == answers[w] = << >> /\ ran[w] = 0

RowOf(w) ==
  LET d == delivery[w] IN
    /\ d.status # "none" => w \in asked /\ d.actor \in User /\ d.conv \in Conversation
    /\ d.status = "none" => d = NoDelivery /\ prompts[w] = 0 /\ w \notin lapsed
    /\ d.shown => d.status \notin {"none", "pending"} /\ prompts[w] = 1
    /\ d.status \in {"published", "consumed", "rejected"} => d.shown
    /\ d.status \in {"none", "pending", "published"} => Unanswered(w)
    /\ d.status = "expired" => w \in lapsed
    /\ prompts[w] \in {0, 1}

Asks(p) ==
  LET l == proc[p]
      w == l.call
      d == delivery[w]
  IN  /\ w # NoCall => w \in asked
      /\ l.at = "create" => d.status = "none"
      /\ l.at \in {"post", "mark"} => d.status = "pending"
      /\ l.at = "post" => prompts[w] = 0
      /\ l.at = "mark" => prompts[w] = 1
      /\ l.at \in {"enter", "decide", "resume", "tool"} => d.shown /\ d.actor = l.user
      /\ l.at \in {"permit", "model"} /\ w # NoCall => d.shown /\ d.actor = l.user
      /\ l.at = "resume" => d.status = (IF l.yes THEN "consumed" ELSE "rejected") /\ Unanswered(w)
      /\ l.at = "tool" => /\ d.status = "consumed" /\ ran[w] = 0
                          /\ Len(answers[w]) = 1 /\ answers[w][1].yes
      /\ l.at \in {"lapse", "expire", "close"} => d.status # "none" /\ (p = Main \/ d.shown)
      /\ l.at = "close" => d.status = "expired" /\ Unanswered(w)

Working == Prompting \union {"resume", "tool", "close"}

\* The response to a call, as DecidedOnce has it.
Decided(w) ==
  /\ Len(answers[w]) <= 1 /\ ran[w] <= Len(answers[w])
  /\ \A i \in DOMAIN answers[w] :
       /\ answers[w][i].by = delivery[w].actor
       /\ IF answers[w][i].yes THEN delivery[w].status = "consumed"
                               ELSE delivery[w].status \in {"rejected", "expired"}
  /\ ran[w] > 0 => answers[w][1].yes

\* What the start has listed to show.
Recovering ==
  phase = "pending" =>
    /\ \A w \in Call : delivery[w].status = "pending" => w \in todo \union lapsed
    /\ \A w \in todo : delivery[w].status = "pending"

Calls ==
  /\ \A w \in Call : RowOf(w) /\ Decided(w)
  /\ \A p \in Proc : Asks(p)
  /\ \A p, q \in Proc :
       proc[p].at \in Working /\ proc[q].at \in Working /\ proc[p].call = proc[q].call => p = q
  /\ Recovering

TurnsInv == TypeOK /\ Shapes /\ Limits /\ Messages /\ Calls

-----------------------------------------------------------------------------
(* What the steps write, goroutine by goroutine.                           *)

Line == [at : Steps, msg : Message \union {NoMessage}, call : Call \union {NoCall},
         yes : BOOLEAN, user : User \union {NoUser}, conv : Conversation \union {NoConversation}]

\* A step moves the goroutine that takes it and nobody else.
Moves(p) ==
  /\ proc' \in [Proc -> Line]
  /\ \A q \in Proc : q # p => proc'[q] = proc[q]

LEMMA IdleTyped == Idle \in Line
BY DEF Idle, Line, Steps

LEMMA GoMoves ==
  ASSUME TypeOK, NEW p \in Proc, NEW step \in Steps, Go(p, step)
  PROVE  /\ Moves(p)
         /\ proc'[p] = [proc[p] EXCEPT !.at = step]
         /\ proc'[p].at = step /\ proc'[p].msg = proc[p].msg /\ proc'[p].call = proc[p].call
         /\ proc'[p].yes = proc[p].yes /\ proc'[p].user = proc[p].user /\ proc'[p].conv = proc[p].conv
<1> DEFINE l == [proc[p] EXCEPT !.at = step]
<1>1. proc \in [Proc -> Line]
  BY DEF TypeOK, Line
<1>2. l \in Line /\ l.at = step /\ l.msg = proc[p].msg /\ l.call = proc[p].call
      /\ l.yes = proc[p].yes /\ l.user = proc[p].user /\ l.conv = proc[p].conv
  BY <1>1 DEF Line
<1>3. proc' = [proc EXCEPT ![p] = l]
  BY DEF Go
<1> HIDE DEF l
<1>4. proc'[p] = l /\ Moves(p)
  BY <1>1, <1>2, <1>3 DEF Moves
<1>5. QED
  BY <1>2, <1>4 DEF l

LEMMA LeaveMoves ==
  ASSUME TypeOK, NEW p \in Proc, Leave(p)
  PROVE  Moves(p) /\ proc'[p] = Idle
<1>1. proc \in [Proc -> Line]
  BY DEF TypeOK, Line
<1>2. QED
  BY <1>1, IdleTyped DEF Leave, Moves

-----------------------------------------------------------------------------
(* The limiters.                                                           *)

\* A goroutine that keeps what it holds, or holds nothing before and after.
LEMMA KeepsHeld ==
  ASSUME Held, NEW p \in Proc, Moves(p), busy' = busy,
         \/ p \in Holders /\ p \in Holders' /\ proc'[p].conv = proc[p].conv
         \/ p \notin Holders /\ p \notin Holders'
  PROVE  Held'
<1>1. Holders' = Holders
  BY DEF Holders, Moves
<1>2. \A q \in Holders : proc'[q].conv = proc[q].conv
  BY DEF Holders, Moves
<1>3. {proc'[q].conv : q \in Holders} = {proc[q].conv : q \in Holders}
  BY <1>2
<1>4. QED
  BY <1>1, <1>2, <1>3 DEF Held

LEMMA LeavesHeld ==
  ASSUME TypeOK, Held, NEW p \in Proc, Leave(p)
  PROVE  Held'
<1>1. Moves(p) /\ proc'[p] = Idle /\ busy' = Released(p)
  BY LeaveMoves DEF Leave
<1>2. Holders' = Holders \ {p}
  BY <1>1 DEF Holders, Moves, Idle, Holding, Driving, Spending, Answering, Prompting
<1>3. \A q \in Holders' : proc'[q].conv = proc[q].conv
  BY <1>1, <1>2 DEF Holders, Moves
<1>4. IsFiniteSet(busy')
  <2>1. busy' \in SUBSET busy
    BY <1>1 DEF Released
  <2>2. QED
    BY <2>1, FS_Subset DEF Held
<1>5. busy' = {proc[q].conv : q \in Holders'}
  <2>1. CASE p \in Holders
    <3>1. busy' = busy \ {proc[p].conv}
      BY <1>1, <2>1 DEF Released, Holders
    <3>2. QED
      BY <1>2, <2>1, <3>1 DEF Held
  <2>2. CASE p \notin Holders
    <3>1. busy' = busy
      <4>1. CASE proc[p].at \in Holding
        <5>1. proc[p].conv = NoConversation
          BY <2>2, <4>1 DEF Holders
        <5>2. NoConversation \notin busy
          BY DEF Held, Holders
        <5>3. QED
          BY <1>1, <4>1, <5>1, <5>2 DEF Released
      <4>2. CASE proc[p].at \notin Holding
        BY <1>1, <4>2 DEF Released
      <4>3. QED
        BY <4>1, <4>2
    <3>2. QED
      BY <1>2, <2>2, <3>1 DEF Held
  <2>3. QED
    BY <2>1, <2>2
<1>6. {proc'[q].conv : q \in Holders'} = {proc[q].conv : q \in Holders'}
  BY <1>3
<1>7. \A q, r \in Holders' : proc'[q].conv = proc'[r].conv => q = r
  BY <1>2, <1>3 DEF Held
<1>8. QED
  BY <1>4, <1>5, <1>6, <1>7 DEF Held

LEMMA TakesHeld ==
  ASSUME Held, NEW p \in Proc, Moves(p), p \notin Holders, p \in Holders',
         proc'[p].conv = proc[p].conv, proc[p].conv \notin busy,
         busy' = busy \union {proc[p].conv}
  PROVE  Held'
<1>1. Holders' = Holders \union {p}
  BY DEF Holders, Moves
<1>2. \A q \in Holders' : proc'[q].conv = proc[q].conv
  BY <1>1 DEF Holders, Moves
<1>3. IsFiniteSet(busy')
  BY FS_AddElement DEF Held
<1>4. busy' = {proc[q].conv : q \in Holders'}
  BY <1>1 DEF Held
<1>5. {proc'[q].conv : q \in Holders'} = {proc[q].conv : q \in Holders'}
  BY <1>2
<1>6. \A q \in Holders : proc[q].conv # proc[p].conv
  BY DEF Held
<1>7. \A q, r \in Holders' : proc'[q].conv = proc'[r].conv => q = r
  BY <1>1, <1>2, <1>6 DEF Held
<1>8. QED
  BY <1>3, <1>4, <1>5, <1>7 DEF Held

LEMMA KeepsSpent ==
  ASSUME Spent, NEW p \in Proc, Moves(p), permits' = permits,
         proc'[p].at \in Spending <=> proc[p].at \in Spending
  PROVE  Spent'
<1>1. Spenders' = Spenders
  BY DEF Spenders, Moves
<1>2. QED
  BY <1>1 DEF Spent

LEMMA TakesSpent ==
  ASSUME Spent, NEW p \in Proc, Moves(p), permits' = permits + 1,
         proc[p].at \notin Spending, proc'[p].at \in Spending
  PROVE  Spent'
<1>1. Spenders' = Spenders \union {p} /\ p \notin Spenders
  BY DEF Spenders, Moves
<1>2. QED
  BY <1>1, FS_AddElement DEF Spent

LEMMA GivesSpent ==
  ASSUME Spent, NEW p \in Proc, Moves(p), permits' = permits - 1,
         proc[p].at \in Spending, proc'[p].at \notin Spending
  PROVE  Spent'
<1>1. Spenders' = Spenders \ {p} /\ p \in Spenders
  BY DEF Spenders, Moves
<1>2. QED
  BY <1>1, FS_RemoveElement DEF Spent

LEMMA ExitLimits ==
  ASSUME Exit PROVE Held' /\ Spent'
<1>1. \A p \in Proc : proc'[p].at = "idle"
  BY DEF Exit, Idle
<1>2. Holders' = {} /\ Spenders' = {}
  BY <1>1 DEF Holders, Spenders, Holding, Driving, Spending, Answering, Prompting
<1>3. busy' = {} /\ permits' = 0
  BY DEF Exit
<1>4. QED
  BY <1>2, <1>3, FS_EmptySet DEF Held, Spent

\* A goroutine with a permit is counted.
LEMMA PermitCounted ==
  ASSUME Spent, NEW p \in Proc, proc[p].at \in Spending
  PROVE  permits \in Nat \ {0}
<1>1. Spenders # {}
  BY DEF Spenders
<1>2. QED
  BY <1>1, FS_EmptySet, FS_CardinalityType DEF Spent

LEMMA StepSets ==
  /\ Steps = {"intake", "enter", "lapse", "load", "permit", "expire", "resume", "tool", "model",
              "close", "closing", "decide", "prepare", "publish", "record", "finalize",
              "create", "post", "mark", "idle"}
  /\ Holding = Steps \ {"intake", "enter", "lapse", "idle"}
  /\ Spending = {"decide", "resume", "tool", "model"} /\ Spending \subseteq Holding
BY DEF Steps, Holding, Waiting, Driving, Spending, Answering, Prompting

\* From one step to the next with the conversation in hand.
LEMMA GoLimits ==
  ASSUME TypeOK, Held, Spent, NEW p \in Proc, NEW step \in Holding, Go(p, step),
         proc[p].at \in Holding, busy' = busy, permits' = permits,
         proc[p].at \in Spending <=> step \in Spending
  PROVE  Held' /\ Spent'
<1>1. Moves(p) /\ proc'[p].at = step /\ proc'[p].conv = proc[p].conv
  BY GoMoves, StepSets
<1>2. Held'
  BY <1>1, KeepsHeld DEF Holders
<1>3. Spent'
  BY <1>1, KeepsSpent
<1>4. QED
  BY <1>2, <1>3

\* Every return without a permit.
LEMMA LeaveLimits ==
  ASSUME TypeOK, Held, Spent, NEW p \in Proc, proc[p].at \notin Spending,
         \/ Leave(p) /\ permits' = permits
         \/ Done(p) \/ Fail(p)
  PROVE  Held' /\ Spent'
<1>1. CASE Exit
  BY <1>1, ExitLimits
<1>2. CASE Leave(p) /\ permits' = permits
  <2>1. Moves(p) /\ proc'[p].at \notin Spending
    BY <1>2, LeaveMoves, StepSets DEF Idle
  <2>2. QED
    BY <1>2, <2>1, LeavesHeld, KeepsSpent
<1>3. QED
  BY <1>1, <1>2 DEF Done, Fail, startup

LEMMA ReturnLimits ==
  ASSUME TypeOK, Held, Spent, NEW p \in Proc, proc[p].at \in Spending,
         Leave(p), permits' = permits - 1
  PROVE  Held' /\ Spent'
<1>1. Moves(p) /\ proc'[p].at \notin Spending
  BY LeaveMoves, StepSets DEF Idle
<1>2. QED
  BY <1>1, LeavesHeld, GivesSpent

LEMMA HandlerLimits ==
  ASSUME TurnsInv, NEW p \in Proc, HandlerStep(p)
  PROVE  Held' /\ Spent'
<1> USE StepSets
<1>1. TypeOK /\ Held /\ Spent /\ Shape(p) /\ (p = Main => StartShape)
  BY DEF TurnsInv, Limits, Held, Spent, Shapes
<1>2. CASE Acquire(p)
  <2>1. CASE Done(p)
    BY <1>1, <1>2, <2>1, LeaveLimits DEF Acquire, Waiting
  <2>2. CASE /\ Free(proc[p].conv) /\ busy' = busy \union {proc[p].conv}
             /\ Go(p, AfterEntry(p)) /\ permits' = permits
    <3>1. AfterEntry(p) \in {"load", "permit", "expire"}
      BY <1>2 DEF Acquire, Waiting, AfterEntry
    <3>2. Moves(p) /\ proc'[p].at = AfterEntry(p) /\ proc'[p].conv = proc[p].conv
      BY <1>1, <2>2, <3>1, GoMoves
    <3>3. proc[p].at \notin Holding /\ proc'[p].at \in Holding
          /\ proc[p].at \notin Spending /\ proc'[p].at \notin Spending
      BY <1>2, <3>1, <3>2 DEF Acquire, Waiting
    <3>4. proc[p].conv \in Conversation
      BY <1>1, <1>2 DEF Acquire, Waiting, Shape, StartShape, Proc
    <3>5. p \notin Holders /\ p \in Holders'
      BY <3>2, <3>3, <3>4, NamesAssumption DEF Holders
    <3>6. Held'
      BY <1>1, <2>2, <3>2, <3>5, TakesHeld DEF Free
    <3>7. QED
      BY <1>1, <2>2, <3>2, <3>3, <3>6, KeepsSpent
  <2>3. QED
    BY <1>2, <2>1, <2>2 DEF Acquire
<1>3. CASE StoreMessage(p)
  BY <1>1, <1>3, GoLimits, LeaveLimits DEF StoreMessage
<1>4. CASE TakePermit(p)
  <2>1. CASE Leave(p) /\ permits' = permits
    BY <1>1, <1>4, <2>1, LeaveLimits DEF TakePermit
  <2>2. CASE /\ permits' = permits + 1 /\ busy' = busy
             /\ Go(p, IF proc[p].call = NoCall THEN "model" ELSE "decide")
    <3>1. /\ Moves(p) /\ proc'[p].conv = proc[p].conv
          /\ proc'[p].at \in {"model", "decide"}
      BY <1>1, <2>2, GoMoves
    <3>2. Held'
      BY <1>1, <1>4, <2>2, <3>1, KeepsHeld DEF TakePermit, Holders
    <3>3. QED
      BY <1>1, <1>4, <2>2, <3>1, <3>2, TakesSpent DEF TakePermit
  <2>3. QED
    BY <1>4, <2>1, <2>2 DEF TakePermit
<1>5. CASE Model(p)
  <2>1. CASE Leave(p)
    BY <1>1, <1>5, <2>1, ReturnLimits DEF Model
  <2>2. CASE busy' = busy /\ \E l \in Line : /\ proc' = [proc EXCEPT ![p] = l]
                                             /\ l.at \in {"prepare", "create"} /\ l.conv = proc[p].conv
    <3>1. Moves(p) /\ proc'[p].at \in {"prepare", "create"} /\ proc'[p].conv = proc[p].conv
      BY <1>1, <2>2 DEF TypeOK, Moves, Line
    <3>2. Held'
      BY <1>1, <1>5, <2>2, <3>1, KeepsHeld DEF Model, Holders
    <3>3. QED
      BY <1>1, <1>5, <3>1, <3>2, GivesSpent DEF Model
  <2>3. proc[p] \in Line
    BY <1>1 DEF TypeOK, Line
  <2>4. ASSUME Go(p, "prepare") PROVE \E l \in Line : /\ proc' = [proc EXCEPT ![p] = l]
                                             /\ l.at \in {"prepare", "create"} /\ l.conv = proc[p].conv
    <3> DEFINE l == [proc[p] EXCEPT !.at = "prepare"]
    <3>1. l \in Line /\ l.at = "prepare" /\ l.conv = proc[p].conv /\ proc' = [proc EXCEPT ![p] = l]
      BY <2>3, <2>4 DEF Line, Go
    <3>2. QED
      BY <3>1
  <2>5. ASSUME NEW w \in Call, proc' = [proc EXCEPT ![p].at = "create", ![p].call = w]
        PROVE \E l \in Line : /\ proc' = [proc EXCEPT ![p] = l]
                              /\ l.at \in {"prepare", "create"} /\ l.conv = proc[p].conv
    <3> DEFINE l == [proc[p] EXCEPT !.at = "create", !.call = w]
    <3>1. l \in Line /\ l.at = "create" /\ l.conv = proc[p].conv
      BY <2>3 DEF Line
    <3>2. proc' = [proc EXCEPT ![p] = l]
      BY <1>1, <2>5 DEF TypeOK
    <3>3. QED
      BY <3>1, <3>2
  <2>6. ASSUME asked # Call PROVE (CHOOSE w \in Call : w \notin asked) \in Call
    BY <1>1, <2>6 DEF TypeOK
  <2>7. QED
    BY <1>5, <2>1, <2>2, <2>4, <2>5, <2>6 DEF Model
<1>6. CASE Prepare(p) \/ MarkExchange(p) \/ Finalize(p)
  BY <1>1, <1>6, GoLimits, LeaveLimits DEF Prepare, MarkExchange, Finalize
<1>7. CASE Publish(p) \/ CreateDelivery(p)
  BY <1>1, <1>7, GoLimits, LeaveLimits DEF Publish, CreateDelivery, startup
<1>8. CASE PublishConfirmation(p)
  BY <1>1, <1>8, GoLimits, LeaveLimits DEF PublishConfirmation, startup
<1>9. CASE MarkPublished(p) \/ Closed(p)
  BY <1>1, <1>9, LeaveLimits DEF MarkPublished, Closed
<1>10. CASE Decide(p)
  BY <1>1, <1>10, GoLimits, ReturnLimits DEF Decide
<1>11. CASE Resume(p)
  <2>1. (IF proc[p].yes THEN "tool" ELSE "model") \in {"tool", "model"}
    OBVIOUS
  <2>2. QED
    BY <1>1, <1>11, <2>1, GoLimits, ReturnLimits DEF Resume
<1>12. CASE RunTool(p)
  BY <1>1, <1>12, GoLimits DEF RunTool
<1>13. CASE Expire(p) \/ Close(p)
  BY <1>1, <1>13, GoLimits, LeaveLimits DEF Expire, Close
<1>14. QED
  BY <1>2, <1>3, <1>4, <1>5, <1>6, <1>7, <1>8, <1>9, <1>10, <1>11, <1>12, <1>13 DEF HandlerStep

\* A goroutine that takes something up holds nothing yet.
LEMMA TakeUp ==
  ASSUME TypeOK, Held, Spent, NEW p \in Proc, proc[p].at = "idle", Moves(p),
         proc'[p].at \in Waiting \/ (proc'[p].conv = NoConversation /\ proc'[p].at \notin Spending),
         busy' = busy, permits' = permits
  PROVE  Held' /\ Spent'
<1>1. p \notin Holders /\ p \notin Holders' /\ proc[p].at \notin Spending /\ proc'[p].at \notin Spending
  BY StepSets DEF Holders, Waiting
<1>2. QED
  BY <1>1, KeepsHeld, KeepsSpent

LEMMA LimitsStand ==
  ASSUME Held, Spent, UNCHANGED memory
  PROVE  Held' /\ Spent'
BY DEF Held, Spent, Holders, Spenders, memory

\* What a goroutine takes up, by action.
TakesUp(p, at, m, w, yes, u, c) ==
  /\ Moves(p)
  /\ proc'[p].at = at /\ proc'[p].msg = m /\ proc'[p].call = w
  /\ proc'[p].yes = yes /\ proc'[p].user = u /\ proc'[p].conv = c

LEMMA TakesUpTyped ==
  ASSUME TypeOK, NEW p \in Proc, NEW l \in Line, proc' = [proc EXCEPT ![p] = l]
  PROVE  TakesUp(p, l.at, l.msg, l.call, l.yes, l.user, l.conv)
<1>1. proc \in [Proc -> Line]
  BY DEF TypeOK, Line
<1>2. proc'[p] = l /\ Moves(p)
  BY <1>1 DEF Moves
<1>3. QED
  BY <1>2 DEF TakesUp

LEMMA ReceiveMoves ==
  ASSUME TypeOK, NEW p \in Handler, NEW m \in Message, Receive(p, m), proc' # proc
  PROVE  TakesUp(p, "intake", m, NoCall, FALSE, AuthorOf[m], ConversationOf[m])
<1> DEFINE l == [Idle EXCEPT !.at = "intake", !.msg = m, !.user = AuthorOf[m], !.conv = ConversationOf[m]]
<1>1. "intake" \in Steps /\ AuthorOf[m] \in User /\ ConversationOf[m] \in Conversation /\ p \in Proc
  BY StepSets, NamesAssumption DEF Conversation, Proc
<1>2. l \in Line /\ l.at = "intake" /\ l.msg = m /\ l.call = NoCall /\ l.yes = FALSE
      /\ l.user = AuthorOf[m] /\ l.conv = ConversationOf[m]
  BY <1>1 DEF Idle, Line
<1>3. proc' = [proc EXCEPT ![p] = l]
  BY DEF Receive
<1> HIDE DEF l
<1>4. TakesUp(p, l.at, l.msg, l.call, l.yes, l.user, l.conv)
  BY <1>1, <1>2, <1>3, TakesUpTyped
<1>5. QED
  BY <1>2, <1>4

LEMMA ClickMoves ==
  ASSUME TypeOK, NEW p \in Handler, NEW w \in Call, NEW u \in User, NEW yes \in BOOLEAN, Click(p, w, u, yes)
  PROVE  TakesUp(p, IF w \in lapsed THEN "lapse" ELSE "enter", NoMessage, w, yes /\ w \notin lapsed,
                 u, delivery[w].conv)
<1> DEFINE at == IF w \in lapsed THEN "lapse" ELSE "enter"
           y  == yes /\ w \notin lapsed
           c  == delivery[w].conv
           l  == [Idle EXCEPT !.at = at, !.call = w, !.yes = y, !.user = u, !.conv = c]
<1>1. at \in Steps /\ y \in BOOLEAN /\ c \in Conversation \union {NoConversation} /\ p \in Proc
  BY StepSets DEF TypeOK, Proc
<1>2. proc' = [proc EXCEPT ![p] = l]
  BY DEF Click
<1> HIDE DEF at, y, c
<1>3. l \in Line /\ l.at = at /\ l.msg = NoMessage /\ l.call = w /\ l.yes = y /\ l.user = u /\ l.conv = c
  BY <1>1 DEF Idle, Line
<1> HIDE DEF l
<1>4. TakesUp(p, l.at, l.msg, l.call, l.yes, l.user, l.conv)
  BY <1>1, <1>2, <1>3, TakesUpTyped
<1>5. TakesUp(p, at, NoMessage, w, y, u, c)
  BY <1>3, <1>4
<1>6. QED
  BY <1>5 DEF at, y, c

LEMMA ExpireListedMoves ==
  ASSUME TypeOK, NEW w \in Call, ExpireListed(w)
  PROVE  TakesUp(Main, "lapse", NoMessage, w, FALSE, delivery[w].actor, delivery[w].conv)
<1> DEFINE u == delivery[w].actor
           c == delivery[w].conv
           l == [Idle EXCEPT !.at = "lapse", !.call = w, !.user = u, !.conv = c]
<1>1. "lapse" \in Steps /\ u \in User \union {NoUser} /\ c \in Conversation \union {NoConversation} /\ Main \in Proc
  BY StepSets DEF TypeOK, Proc
<1>2. proc' = [proc EXCEPT ![Main] = l]
  BY DEF ExpireListed
<1> HIDE DEF u, c
<1>3. l \in Line /\ l.at = "lapse" /\ l.msg = NoMessage /\ l.call = w /\ l.yes = FALSE
      /\ l.user = u /\ l.conv = c
  BY <1>1 DEF Idle, Line
<1> HIDE DEF l
<1>4. TakesUp(Main, l.at, l.msg, l.call, l.yes, l.user, l.conv)
  BY <1>1, <1>2, <1>3, TakesUpTyped
<1>5. TakesUp(Main, "lapse", NoMessage, w, FALSE, u, c)
  BY <1>3, <1>4
<1>6. QED
  BY <1>5 DEF u, c

LEMMA RecoverPendingMoves ==
  ASSUME TypeOK, NEW w \in Call, RecoverPending(w)
  PROVE  TakesUp(Main, IF Shown(w) THEN "mark" ELSE "post", NoMessage, w, FALSE, NoUser, NoConversation)
<1> DEFINE at == IF Shown(w) THEN "mark" ELSE "post"
           l  == [Idle EXCEPT !.at = at, !.call = w]
<1>1. at \in Steps /\ Main \in Proc
  BY StepSets DEF Proc
<1>2. proc' = [proc EXCEPT ![Main] = l]
  BY DEF RecoverPending
<1> HIDE DEF at
<1>3. l \in Line /\ l.at = at /\ l.msg = NoMessage /\ l.call = w /\ l.yes = FALSE
      /\ l.user = NoUser /\ l.conv = NoConversation
  BY <1>1 DEF Idle, Line
<1> HIDE DEF l
<1>4. TakesUp(Main, l.at, l.msg, l.call, l.yes, l.user, l.conv)
  BY <1>1, <1>2, <1>3, TakesUpTyped
<1>5. TakesUp(Main, at, NoMessage, w, FALSE, NoUser, NoConversation)
  BY <1>3, <1>4
<1>6. QED
  BY <1>5 DEF at

LEMMA LimitsNext ==
  ASSUME TurnsInv, [Next]_vars
  PROVE  Limits'
<1>1. TypeOK /\ Held /\ Spent
  BY DEF TurnsInv, Limits, Held, Spent
<1>2. ASSUME UNCHANGED memory PROVE Held' /\ Spent'
  BY <1>1, <1>2, LimitsStand
<1>3. ASSUME NEW p \in Handler, NEW m \in Message, Receive(p, m) PROVE Held' /\ Spent'
  <2>1. CASE proc' = proc
    BY <1>2, <1>3, <2>1 DEF Receive, memory
  <2>2. CASE proc' # proc
    <3>1. Moves(p) /\ proc'[p].at = "intake"
      BY <1>1, <1>3, <2>2, ReceiveMoves DEF TakesUp
    <3>2. QED
      BY <1>1, <1>3, <3>1, TakeUp DEF Receive, Waiting, Proc
  <2>3. QED
    BY <2>1, <2>2
<1>4. ASSUME NEW p \in Handler, NEW w \in Call, NEW u \in User, NEW yes \in BOOLEAN, Click(p, w, u, yes)
      PROVE  Held' /\ Spent'
  <2>1. Moves(p) /\ proc'[p].at \in {"lapse", "enter"}
    BY <1>1, <1>4, ClickMoves DEF TakesUp
  <2>2. QED
    BY <1>1, <1>4, <2>1, TakeUp DEF Click, Waiting, Proc
<1>5. ASSUME NEW w \in Call, ExpireListed(w) PROVE Held' /\ Spent'
  <2>1. Moves(Main) /\ proc'[Main].at = "lapse"
    BY <1>1, <1>5, ExpireListedMoves DEF TakesUp
  <2>2. QED
    BY <1>1, <1>5, <2>1, TakeUp DEF ExpireListed, Waiting, Proc
<1>6. ASSUME NEW w \in Call, RecoverPending(w) PROVE Held' /\ Spent'
  <2>1. Moves(Main) /\ proc'[Main].at \notin Spending /\ proc'[Main].conv = NoConversation
    BY <1>1, <1>6, RecoverPendingMoves, StepSets DEF TakesUp
  <2>2. QED
    BY <1>1, <1>6, <2>1, TakeUp DEF RecoverPending, Proc
<1>7. ASSUME Crash PROVE Held' /\ Spent'
  BY <1>7, ExitLimits DEF Crash
<1>8. ASSUME (\E w \in Call : Lapse(w)) \/ UNCHANGED vars PROVE Held' /\ Spent'
  BY <1>2, <1>8 DEF Lapse, vars
<1>9. ASSUME Start \/ LookUpPrepared \/ ListExpired \/ ListPending \/ Serve PROVE Held' /\ Spent'
  BY <1>2, <1>9 DEF Start, LookUpPrepared, ListExpired, ListPending, Serve
<1>10. ASSUME \E m \in Message : FinalizePublished(m) \/ MarkMatched(m) PROVE Held' /\ Spent'
  BY <1>2, <1>10 DEF FinalizePublished, MarkMatched
<1>11. Held' /\ Spent'
  BY <1>3, <1>4, <1>5, <1>6, <1>7, <1>8, <1>9, <1>10, HandlerLimits DEF Next, StartStep
<1>12. QED
  BY <1>11 DEF Limits, Held, Spent

-----------------------------------------------------------------------------
(* The steps of a goroutine.                                               *)

\* The goroutine goes on with what it works on; only a suspended turn takes
\* up another call.
Advances(p, to) ==
  /\ Moves(p) /\ UNCHANGED startup
  /\ proc'[p].at = to /\ proc'[p].msg = proc[p].msg
  /\ proc'[p].yes = proc[p].yes /\ proc'[p].user = proc[p].user /\ proc'[p].conv = proc[p].conv
  /\ IF to = "create" THEN proc'[p].call \in Call \ asked ELSE proc'[p].call = proc[p].call

\* It returns, and the start has one thing less to do.
Returns(p) ==
  /\ Moves(p) /\ proc'[p] = Idle /\ UNCHANGED <<phase, starts>>
  /\ todo' = IF p = Main THEN todo \ {proc[p].call} ELSE todo

Ends(p) == Returns(p) \/ (p = Main /\ Exit)

\* The steps that follow each other.
Follows(p, to) ==
  LET l == proc[p] IN
    \/ l.at = "intake" /\ to = "load"
    \/ l.at = "enter" /\ to = "permit"
    \/ l.at = "lapse" /\ to = "expire"
    \/ l.at = "load" /\ to = "permit"
    \/ l.at = "permit" /\ l.call = NoCall /\ to = "model"
    \/ l.at = "permit" /\ l.call # NoCall /\ to = "decide"
    \/ l.at = "model" /\ l.msg # NoMessage /\ to = "prepare"
    \/ l.at = "model" /\ to = "create"
    \/ l.at = "prepare" /\ to = "publish"
    \/ l.at = "publish" /\ to = "record"
    \/ l.at = "record" /\ to = "finalize"
    \/ l.at = "create" /\ to = "post"
    \/ l.at = "post" /\ to = "mark"
    \/ l.at = "decide" /\ to = "resume"
    \/ l.at = "resume" /\ to = (IF l.yes THEN "tool" ELSE "model")
    \/ l.at = "tool" /\ to = "model"
    \/ l.at = "expire" /\ to = "close"
    \/ l.at = "close" /\ to = "closing"

LEMMA GoAdvances ==
  ASSUME TypeOK, NEW p \in Proc, NEW to \in Steps, to # "create", Go(p, to), UNCHANGED startup
  PROVE  Advances(p, to)
BY GoMoves DEF Advances

LEMMA LeaveReturns ==
  ASSUME TypeOK, NEW p \in Proc, p # Main, Leave(p), UNCHANGED startup
  PROVE  Returns(p)
BY LeaveMoves DEF Returns, startup

LEMMA DoneReturns ==
  ASSUME TypeOK, NEW p \in Proc, Done(p)
  PROVE  Returns(p)
BY LeaveMoves DEF Returns, Done

LEMMA FailEnds ==
  ASSUME TypeOK, NEW p \in Proc, Fail(p)
  PROVE  Ends(p)
BY LeaveReturns DEF Ends, Fail

LEMMA CreateMoves ==
  ASSUME TypeOK, NEW p \in Proc, NEW w \in Call,
         proc' = [proc EXCEPT ![p].at = "create", ![p].call = w]
  PROVE  /\ Moves(p) /\ proc'[p].at = "create" /\ proc'[p].msg = proc[p].msg
         /\ proc'[p].yes = proc[p].yes /\ proc'[p].user = proc[p].user /\ proc'[p].conv = proc[p].conv
         /\ proc'[p].call = w
<1> DEFINE l == [proc[p] EXCEPT !.at = "create", !.call = w]
<1>1. proc \in [Proc -> Line]
  BY DEF TypeOK, Line
<1>2. proc[p] \in Line /\ "create" \in Steps
  BY <1>1, StepSets
<1>3. l \in Line /\ l.at = "create" /\ l.call = w /\ l.msg = proc[p].msg
      /\ l.yes = proc[p].yes /\ l.user = proc[p].user /\ l.conv = proc[p].conv
  BY <1>2 DEF Line
<1>4. proc' = [proc EXCEPT ![p] = l]
  BY <1>1
<1> HIDE DEF l
<1>5. proc'[p] = l /\ Moves(p)
  BY <1>1, <1>3, <1>4 DEF Moves
<1>6. QED
  BY <1>3, <1>5

\* A turn that its model suspends waits for a call nobody asked before.
LEMMA ModelAsks ==
  ASSUME TypeOK, NEW p \in Proc, asked # Call,
         proc' = [proc EXCEPT ![p].at = "create", ![p].call = CHOOSE w \in Call : w \notin asked]
  PROVE  /\ Moves(p) /\ proc'[p].at = "create" /\ proc'[p].msg = proc[p].msg
         /\ proc'[p].yes = proc[p].yes /\ proc'[p].user = proc[p].user /\ proc'[p].conv = proc[p].conv
         /\ proc'[p].call = (CHOOSE w \in Call : w \notin asked) /\ proc'[p].call \in Call \ asked
<1> DEFINE w == CHOOSE x \in Call : x \notin asked
<1>1. w \in Call \ asked
  BY DEF TypeOK
<1>2. proc' = [proc EXCEPT ![p].at = "create", ![p].call = w]
  OBVIOUS
<1> HIDE DEF w
<1>3. QED
  BY <1>1, <1>2, CreateMoves DEF w

LEMMA StepMoves ==
  ASSUME TurnsInv, NEW p \in Proc, HandlerStep(p)
  PROVE  Ends(p) \/ \E to \in Steps : Follows(p, to) /\ Advances(p, to)
<1> USE StepSets
<1>1. TypeOK /\ Shape(p) /\ (p = Main => StartShape)
  BY DEF TurnsInv, Shapes
<1>2. p = Main => proc[p].at \in {"idle", "lapse", "expire", "close", "closing", "post", "mark"}
  BY <1>1 DEF StartShape
<1>3. CASE Acquire(p)
  <2>1. AfterEntry(p) \in Steps /\ AfterEntry(p) # "create" /\ Follows(p, AfterEntry(p))
    BY <1>3 DEF Acquire, AfterEntry, Waiting, Follows
  <2>2. CASE Done(p)
    BY <1>1, <2>2, DoneReturns DEF Ends
  <2>3. CASE ~Done(p)
    BY <1>1, <1>3, <2>1, <2>3, GoAdvances DEF Acquire
  <2>4. QED
    BY <2>2, <2>3
<1>4. CASE StoreMessage(p) \/ TakePermit(p)
  <2>1. p # Main /\ UNCHANGED startup
    BY <1>2, <1>4 DEF StoreMessage, TakePermit
  <2>2. CASE Leave(p)
    BY <1>1, <2>1, <2>2, LeaveReturns DEF Ends
  <2>3. CASE ~Leave(p)
    <3>1. PICK to \in {"permit", "model", "decide"} : Go(p, to) /\ Follows(p, to)
      BY <1>4, <2>3 DEF StoreMessage, TakePermit, Follows
    <3>2. QED
      BY <1>1, <2>1, <3>1, GoAdvances
  <2>4. QED
    BY <2>2, <2>3
<1>5. CASE Model(p)
  <2>1. p # Main /\ UNCHANGED startup
    BY <1>2, <1>5 DEF Model
  <2>2. CASE Leave(p)
    BY <1>1, <2>1, <2>2, LeaveReturns DEF Ends
  <2>3. CASE Go(p, "prepare") /\ proc[p].msg # NoMessage
    BY <1>1, <1>5, <2>1, <2>3, GoAdvances DEF Model, Follows
  <2>4. CASE asked # Call /\ proc' = [proc EXCEPT ![p].at = "create", ![p].call = CHOOSE w \in Call : w \notin asked]
    BY <1>1, <1>5, <2>1, <2>4, ModelAsks DEF Model, Follows, Advances
  <2>5. QED
    BY <1>5, <2>2, <2>3, <2>4 DEF Model
<1>6. CASE Prepare(p) \/ Publish(p) \/ MarkExchange(p) \/ Finalize(p)
  <2>1. p # Main /\ UNCHANGED startup
    BY <1>2, <1>6 DEF Prepare, Publish, MarkExchange, Finalize, Answering
  <2>2. CASE Leave(p)
    BY <1>1, <2>1, <2>2, LeaveReturns DEF Ends
  <2>3. CASE ~Leave(p)
    <3>1. PICK to \in {"publish", "record", "finalize"} : Go(p, to) /\ Follows(p, to)
      BY <1>6, <2>3 DEF Prepare, Publish, MarkExchange, Finalize, Follows
    <3>2. QED
      BY <1>1, <2>1, <3>1, GoAdvances
  <2>4. QED
    BY <2>2, <2>3
<1>7. CASE CreateDelivery(p)
  BY <1>1, <1>2, <1>7, LeaveReturns, GoAdvances DEF CreateDelivery, Ends, Follows
<1>8. CASE PublishConfirmation(p)
  BY <1>1, <1>8, FailEnds, GoAdvances DEF PublishConfirmation, Follows, startup
<1>9. CASE MarkPublished(p) \/ Closed(p)
  BY <1>1, <1>9, DoneReturns, FailEnds DEF MarkPublished, Closed, Ends
<1>10. CASE Decide(p) \/ Resume(p) \/ RunTool(p)
  <2>1. p # Main /\ UNCHANGED startup
    BY <1>2, <1>10 DEF Decide, Resume, RunTool
  <2>2. CASE Leave(p)
    BY <1>1, <2>1, <2>2, LeaveReturns DEF Ends
  <2>3. CASE ~Leave(p)
    <3>1. PICK to \in {"resume", "tool", "model"} : Go(p, to) /\ Follows(p, to)
      BY <1>10, <2>3 DEF Decide, Resume, RunTool, Follows
    <3>2. QED
      BY <1>1, <2>1, <3>1, GoAdvances
  <2>4. QED
    BY <2>2, <2>3
<1>11. CASE Expire(p)
  BY <1>1, <1>11, DoneReturns, GoAdvances DEF Expire, Ends, Follows
<1>12. CASE Close(p)
  BY <1>1, <1>12, FailEnds, GoAdvances DEF Close, Follows
<1>13. QED
  BY <1>3, <1>4, <1>5, <1>6, <1>7, <1>8, <1>9, <1>10, <1>11, <1>12 DEF HandlerStep

LEMMA ExitShapes ==
  ASSUME Exit
  PROVE  Shapes'
<1>1. \A q \in Proc : proc'[q] = Idle
  BY DEF Exit
<1>2. ASSUME NEW q \in Proc PROVE Shape(q)'
  <2>1. proc'[q] = Idle
    BY <1>1
  <2>2. Idle.at = "idle"
    BY DEF Idle
  <2>3. QED
    BY <2>1, <2>2 DEF Shape, Answering, Prompting
<1>3. StartShape'
  BY <1>1 DEF Exit, StartShape, Idle, Proc
<1>4. QED
  BY <1>2, <1>3 DEF Shapes

LEMMA HandlerShapes ==
  ASSUME TurnsInv, NEW p \in Proc, HandlerStep(p)
  PROVE  Shapes'
<1> USE StepSets
<1>1. TypeOK /\ Shapes /\ Shape(p) /\ StartShape /\ proc \in [Proc -> Line]
  BY DEF TurnsInv, Shapes, TypeOK, Line
<1>2. CASE Exit
  BY <1>2, ExitShapes
<1>3. CASE Returns(p)
  <2>1. \A q \in Proc : Shape(q)'
    BY <1>1, <1>3 DEF Shapes, Shape, Returns, Moves, Idle, Answering, Prompting
  <2>2. StartShape'
    <3>1. CASE p = Main
      <4>1. todo' \subseteq todo /\ phase' = phase /\ proc'[Main] = Idle
        BY <1>3, <3>1 DEF Returns
      <4>2. lapsed' = lapsed
        BY DEF HandlerStep, Acquire, StoreMessage, TakePermit, Model, Prepare, Publish, MarkExchange,
          Finalize, CreateDelivery, PublishConfirmation, MarkPublished, Decide, Resume, RunTool,
          Expire, Close, Closed
      <4>3. QED
        BY <1>1, <4>1, <4>2 DEF StartShape, Idle
    <3>2. CASE p # Main
      <4>1. todo' = todo /\ phase' = phase /\ proc'[Main] = proc[Main]
        BY <1>3, <3>2 DEF Returns, Moves, Proc
      <4>2. lapsed' = lapsed
        BY DEF HandlerStep, Acquire, StoreMessage, TakePermit, Model, Prepare, Publish, MarkExchange,
          Finalize, CreateDelivery, PublishConfirmation, MarkPublished, Decide, Resume, RunTool,
          Expire, Close, Closed
      <4>3. QED
        BY <1>1, <4>1, <4>2 DEF StartShape
    <3>3. QED
      BY <3>1, <3>2
  <2>3. QED
    BY <2>1, <2>2 DEF Shapes
<1>4. ASSUME NEW to \in Steps, Follows(p, to), Advances(p, to)
      PROVE  Shapes'
  <2>1. \A q \in Proc : q # p => Shape(q)'
    BY <1>1, <1>4 DEF Shapes, Shape, Advances, Moves
  <2>2. Shape(p)'
    BY <1>1, <1>4, NamesAssumption DEF Shape, Follows, Advances, Answering, Prompting
  <2>3. lapsed' = lapsed
    BY DEF HandlerStep, Acquire, StoreMessage, TakePermit, Model, Prepare, Publish, MarkExchange,
      Finalize, CreateDelivery, PublishConfirmation, MarkPublished, Decide, Resume, RunTool,
      Expire, Close, Closed
  <2>4. StartShape'
    <3>1. phase' = phase /\ todo' = todo
      BY <1>4 DEF Advances, startup
    <3>2. CASE p = Main
      BY <1>1, <1>4, <2>3, <3>1, <3>2 DEF StartShape, Follows, Advances
    <3>3. CASE p # Main
      BY <1>1, <1>4, <2>3, <3>1, <3>3 DEF StartShape, Advances, Moves, Proc
    <3>4. QED
      BY <3>2, <3>3
  <2>5. QED
    BY <2>1, <2>2, <2>4 DEF Shapes
<1>5. QED
  BY <1>2, <1>3, <1>4, StepMoves DEF Ends

LEMMA ShapesNext ==
  ASSUME TurnsInv, [Next]_vars
  PROVE  Shapes'
<1> USE StepSets
<1>1. TypeOK /\ Shapes /\ StartShape /\ proc \in [Proc -> Line] /\ Calls
  BY DEF TurnsInv, Shapes, TypeOK, Line
<1>2. ASSUME NEW p \in Proc, Moves(p), Shape(p)' PROVE \A q \in Proc : Shape(q)'
  BY <1>1, <1>2 DEF Shapes, Shape, Moves
<1>3. ASSUME UNCHANGED proc PROVE \A q \in Proc : Shape(q)'
  BY <1>1, <1>3 DEF Shapes, Shape
<1>4. Main \notin Handler /\ Main \in Proc /\ Handler \subseteq Proc
  BY HandlersAssumption DEF Proc
<1>5. ASSUME NEW p \in Handler, NEW m \in Message, Receive(p, m) PROVE Shapes'
  <2>1. CASE proc' = proc
    BY <1>1, <1>3, <1>5, <2>1 DEF Receive, Shapes, StartShape, startup
  <2>2. CASE proc' # proc
    <3>1. TakesUp(p, "intake", m, NoCall, FALSE, AuthorOf[m], ConversationOf[m])
      BY <1>1, <1>5, <2>2, ReceiveMoves
    <3>2. Shape(p)'
      BY <3>1, <1>4, NamesAssumption DEF TakesUp, Shape, Answering, Prompting, Conversation
    <3>3. StartShape'
      BY <1>1, <1>4, <1>5, <3>1 DEF TakesUp, Moves, Receive, StartShape, startup
    <3>4. QED
      BY <1>2, <1>4, <3>1, <3>2, <3>3 DEF Shapes, TakesUp
  <2>3. QED
    BY <2>1, <2>2
<1>6. ASSUME NEW p \in Handler, NEW w \in Call, NEW u \in User, NEW yes \in BOOLEAN, Click(p, w, u, yes)
      PROVE  Shapes'
  <2>1. TakesUp(p, IF w \in lapsed THEN "lapse" ELSE "enter", NoMessage, w, yes /\ w \notin lapsed,
                u, delivery[w].conv)
    BY <1>1, <1>6, ClickMoves
  <2>2. delivery[w].conv \in Conversation
    BY <1>1, <1>6 DEF Click, Entitled, Calls, RowOf
  <2>3. Shape(p)'
    BY <2>1, <2>2, <1>4, NamesAssumption DEF TakesUp, Shape, Answering, Prompting
  <2>4. StartShape'
    BY <1>1, <1>4, <1>6, <2>1 DEF TakesUp, Moves, Click, StartShape, startup
  <2>5. QED
    BY <1>2, <1>4, <2>1, <2>3, <2>4 DEF Shapes, TakesUp
<1>7. ASSUME NEW w \in Call, ExpireListed(w) PROVE Shapes'
  <2>1. TakesUp(Main, "lapse", NoMessage, w, FALSE, delivery[w].actor, delivery[w].conv)
    BY <1>1, <1>7, ExpireListedMoves
  <2>2. delivery[w].conv \in Conversation
    <3>1. w \in lapsed
      BY <1>1, <1>7 DEF ExpireListed, StartShape
    <3>2. QED
      BY <1>1, <3>1 DEF Calls, RowOf
  <2>3. Shape(Main)'
    BY <2>1, <1>4, NamesAssumption DEF TakesUp, Shape, Answering, Prompting
  <2>4. StartShape'
    BY <1>1, <1>7, <2>1, <2>2 DEF TakesUp, ExpireListed, StartShape, startup
  <2>5. QED
    BY <1>2, <1>4, <2>1, <2>3, <2>4 DEF Shapes, TakesUp
<1>8. ASSUME NEW w \in Call, RecoverPending(w) PROVE Shapes'
  <2>1. TakesUp(Main, IF Shown(w) THEN "mark" ELSE "post", NoMessage, w, FALSE, NoUser, NoConversation)
    BY <1>1, <1>8, RecoverPendingMoves
  <2>2. Shape(Main)'
    BY <2>1, <1>4, NamesAssumption DEF TakesUp, Shape, Answering, Prompting
  <2>3. StartShape'
    BY <1>1, <1>8, <2>1 DEF TakesUp, RecoverPending, StartShape, startup
  <2>4. QED
    BY <1>2, <1>4, <2>1, <2>2, <2>3 DEF Shapes, TakesUp
<1>9. ASSUME Crash PROVE Shapes'
  BY <1>9, ExitShapes DEF Crash
<1>10. ASSUME NEW w \in Call, Lapse(w) PROVE Shapes'
  BY <1>1, <1>3, <1>10 DEF Lapse, Shapes, StartShape, startup, memory
<1>11. ASSUME Start \/ Serve PROVE Shapes'
  <2>1. UNCHANGED proc /\ proc[Main].at = "idle"
    BY <1>1, <1>11 DEF Start, Serve, Reconciled, memory, StartShape
  <2>2. StartShape'
    BY <1>1, <1>11, <2>1 DEF Start, Serve, Reconciled, StartShape
  <2>3. QED
    BY <1>3, <2>1, <2>2 DEF Shapes
<1>12. ASSUME LookUpPrepared \/ ListExpired PROVE Shapes'
  <2>1. UNCHANGED <<proc, lapsed>> /\ proc[Main].at = "idle"
    BY <1>1, <1>12 DEF LookUpPrepared, ListExpired, memory, StartShape
  <2>2. StartShape'
    BY <1>1, <1>12, <2>1 DEF LookUpPrepared, ListExpired, StartShape
  <2>3. QED
    BY <1>3, <2>1, <2>2 DEF Shapes
<1>13. ASSUME ListPending PROVE Shapes'
  <2>1. UNCHANGED <<proc, lapsed>> /\ proc[Main].at = "idle"
    BY <1>1, <1>13 DEF ListPending, Reconciled, memory, StartShape
  <2>2. StartShape'
    BY <1>1, <1>13, <2>1 DEF ListPending, StartShape
  <2>3. QED
    BY <1>3, <2>1, <2>2 DEF Shapes
<1>14. ASSUME NEW m \in Message, FinalizePublished(m) \/ MarkMatched(m) PROVE Shapes'
  <2>1. UNCHANGED <<proc, lapsed, phase>> /\ proc[Main].at = "idle" /\ todo' \subseteq todo
    BY <1>1, <1>14 DEF FinalizePublished, MarkMatched, memory, StartShape, startup
  <2>2. StartShape'
    BY <1>1, <2>1 DEF StartShape
  <2>3. QED
    BY <1>3, <2>1, <2>2 DEF Shapes
<1>15. ASSUME UNCHANGED vars PROVE Shapes'
  BY <1>1, <1>3, <1>15 DEF vars, memory, startup, Shapes, StartShape
<1>16. QED
  BY <1>5, <1>6, <1>7, <1>8, <1>9, <1>10, <1>11, <1>12, <1>13, <1>14, <1>15, HandlerShapes
  DEF Next, StartStep

-----------------------------------------------------------------------------
(* Messages and their answers.                                             *)

answersShown == <<claimed, stored, intent, remembered, posted>>

\* Steps that write nothing of any message.
LEMMA MessagesStill ==
  ASSUME Messages, UNCHANGED answersShown, Reconciling',
         \A q \in Proc : \/ proc'[q].msg = NoMessage
                         \/ proc'[q].msg = proc[q].msg /\ Turn(q)'
  PROVE  Messages'
<1>1. \A m \in Message : Ledger(m)'
  BY DEF Messages, answersShown, Ledger, Fresh
<1>2. \A q \in Proc : Turn(q)'
  BY DEF Turn
<1>3. \A p, q \in Proc : proc'[p].msg = proc'[q].msg /\ proc'[p].msg # NoMessage => p = q
  BY DEF Messages
<1>4. QED
  BY <1>1, <1>2, <1>3 DEF Messages

\* A handler's steps about the message it has.
LEMMA MessagesLocal ==
  ASSUME TurnsInv, NEW p \in Proc, NEW m \in Message, proc[p].msg = m, Moves(p),
         phase' = "serving", proc'[p].msg \in {m, NoMessage}, Turn(p)', Ledger(m)',
         \A x \in Message \ {m} :
            /\ intent'[x] = intent[x] /\ posted'[x] = posted[x]
            /\ x \in claimed' <=> x \in claimed
            /\ x \in stored' <=> x \in stored
            /\ x \in remembered' <=> x \in remembered
  PROVE  Messages'
<1>1. Messages /\ proc \in [Proc -> Line] /\ proc' \in [Proc -> Line]
  BY DEF TurnsInv, TypeOK, Line, Moves
<1>2. ASSUME NEW x \in Message PROVE Ledger(x)'
  <2>1. CASE x = m
    BY <2>1
  <2>2. CASE x # m
    BY <1>1, <2>2 DEF Messages, Ledger, Fresh
  <2>3. QED
    BY <2>1, <2>2
<1>3. ASSUME NEW q \in Proc PROVE Turn(q)'
  <2>1. CASE q = p
    BY <2>1
  <2>2. CASE q # p
    <3>1. proc'[q] = proc[q] /\ proc[q].msg # m /\ Turn(q)
      BY <1>1, <2>2, NamesAssumption DEF Moves, Messages
    <3>2. proc[q].msg \in Message \union {NoMessage}
      BY <1>1 DEF Line
    <3>3. QED
      BY <3>1, <3>2 DEF Turn, Fresh
  <2>3. QED
    BY <2>1, <2>2
<1>4. \A q \in Proc : proc'[q].msg \in {proc[q].msg, NoMessage}
  BY DEF Moves
<1>5. \A q, r \in Proc : proc'[q].msg = proc'[r].msg /\ proc'[q].msg # NoMessage => q = r
  BY <1>1, <1>4 DEF Messages
<1>6. Reconciling'
  BY DEF Reconciling
<1>7. QED
  BY <1>2, <1>3, <1>5, <1>6 DEF Messages

\* The steps that leave every message alone.
LEMMA QuietMessages ==
  ASSUME TurnsInv, NEW p \in Proc, HandlerStep(p), UNCHANGED answersShown,
         proc[p].at \notin {"load", "prepare", "publish", "record", "finalize"}
  PROVE  Messages'
<1>1. TypeOK /\ Shapes /\ Messages /\ Shape(p) /\ StartShape
  BY DEF TurnsInv, Shapes
<1>2. CASE Ends(p)
  <2>1. \A q \in Proc : proc'[q] = Idle \/ proc'[q] = proc[q]
    BY <1>2 DEF Ends, Returns, Moves, Exit
  <2>2. \A q \in Proc : \/ proc'[q].msg = NoMessage
                        \/ proc'[q].msg = proc[q].msg /\ Turn(q)'
    BY <1>1, <2>1 DEF Idle, Messages, Turn, Fresh, answersShown
  <2>3. Reconciling'
    <3>1. CASE Exit
      BY <3>1 DEF Exit, Reconciling
    <3>2. CASE phase' = phase /\ (p = Main \/ todo' = todo)
      <4>1. CASE todo' = todo
        BY <1>1, <3>2, <4>1 DEF Messages, Reconciling, answersShown
      <4>2. CASE p = Main
        <5>1. phase # "matched"
          BY <1>1, <4>2, StepSets DEF StartShape, HandlerStep, Acquire, StoreMessage, TakePermit, Model,
            Prepare, Publish, MarkExchange, Finalize, CreateDelivery, PublishConfirmation, MarkPublished,
            Decide, Resume, RunTool, Expire, Close, Closed, Waiting
        <5>2. QED
          BY <1>1, <3>2, <5>1 DEF Messages, Reconciling, answersShown
      <4>3. QED
        BY <3>2, <4>1, <4>2
    <3>3. QED
      BY <1>2, <3>1, <3>2 DEF Ends, Returns
  <2>4. QED
    BY <1>1, <2>2, <2>3, MessagesStill
<1>3. ASSUME NEW to \in Steps, Follows(p, to), Advances(p, to)
      PROVE  Messages'
  <2>1. Turn(p)'
    <3>1. CASE proc[p].msg = NoMessage
      BY <1>3, <3>1 DEF Advances, Turn
    <3>2. CASE proc[p].msg # NoMessage
      BY <1>1, <1>3, <3>2 DEF Messages, Turn, Fresh, answersShown, Advances, Follows, Shape, Answering
    <3>3. QED
      BY <3>1, <3>2
  <2>2. \A q \in Proc : proc'[q].msg = proc[q].msg /\ Turn(q)'
    BY <1>1, <1>3, <2>1 DEF Messages, Turn, Fresh, answersShown, Advances, Moves
  <2>3. Reconciling'
    BY <1>1, <1>3 DEF Messages, Reconciling, answersShown, Advances, startup
  <2>4. QED
    BY <1>1, <2>2, <2>3, MessagesStill
<1>4. QED
  BY <1>2, <1>3, StepMoves

LEMMA HandlerMessages ==
  ASSUME TurnsInv, NEW p \in Proc, HandlerStep(p)
  PROVE  Messages'
<1>0. PICK m : m = proc[p].msg
  OBVIOUS
<1> USE StepSets, <1>0
<1>1. TypeOK /\ Shapes /\ Messages /\ Shape(p) /\ StartShape /\ proc \in [Proc -> Line] /\ Turn(p)
  BY DEF TurnsInv, Shapes, TypeOK, Line, Messages
<1>2. ASSUME proc[p].at \in {"load", "prepare", "publish", "record", "finalize"}
      PROVE  /\ p \in Handler /\ p # Main /\ phase = "serving" /\ m \in Message /\ Ledger(m)
             /\ proc[p].call = NoCall
  <2>1. p # Main
    BY <1>1, <1>2 DEF StartShape
  <2>2. p \in Handler /\ proc[p].at # "idle"
    BY <1>2, <2>1 DEF Proc
  <2>3. phase = "serving"
    BY <1>1, <2>2 DEF TypeOK, Idle
  <2>4. m \in Message /\ proc[p].call = NoCall
    BY <1>1, <1>2 DEF Shape, Line, Answering
  <2>5. QED
    BY <1>1, <2>1, <2>2, <2>3, <2>4 DEF Messages
<1>3. ASSUME Leave(p) PROVE Moves(p) /\ proc'[p].msg = NoMessage /\ Turn(p)'
  BY <1>1, <1>3, LeaveMoves DEF Idle, Turn
<1>4. CASE proc[p].at \notin {"load", "prepare", "publish", "record", "finalize"}
  <2>1. UNCHANGED answersShown
    BY <1>4 DEF HandlerStep, Acquire, StoreMessage, TakePermit, Model, Prepare, Publish, MarkExchange,
      Finalize, CreateDelivery, PublishConfirmation, MarkPublished, Decide, Resume, RunTool,
      Expire, Close, Closed, store, slack, answersShown
  <2>2. QED
    BY <1>4, <2>1, QuietMessages
<1>5. CASE StoreMessage(p)
  <2>1. /\ phase = "serving" /\ phase' = phase /\ m \in Message /\ Ledger(m)
        /\ UNCHANGED <<claimed, intent, remembered, posted>>
        /\ (stored' = stored \union {m} \/ (Leave(p) /\ stored' = stored))
    BY <1>2, <1>5 DEF StoreMessage, startup, slack
  <2>2. Moves(p) /\ proc'[p].msg \in {m, NoMessage} /\ Turn(p)'
    <3>1. CASE Leave(p)
      BY <1>3, <3>1
    <3>2. CASE Go(p, "permit") /\ stored' = stored \union {m}
      <4>1. Moves(p) /\ proc'[p].at = "permit" /\ proc'[p].msg = m
        BY <1>1, <3>2, GoMoves
      <4>2. QED
        BY <1>1, <1>5, <2>1, <3>2, <4>1 DEF StoreMessage, Turn, Fresh, Answering
    <3>3. QED
      BY <1>5, <3>1, <3>2 DEF StoreMessage
  <2>3. Ledger(m)'
    BY <2>1 DEF Ledger, Fresh
  <2>4. QED
    BY <2>1, <2>2, <2>3, MessagesLocal
<1>6. CASE Prepare(p)
  <2>1. phase = "serving" /\ phase' = phase /\ m \in Message /\ Ledger(m) /\ proc[p].at = "prepare"
        /\ UNCHANGED <<claimed, stored, remembered, posted>>
    BY <1>2, <1>6 DEF Prepare, startup, slack
  <2>2. CASE Leave(p) /\ UNCHANGED intent
    <3>1. Ledger(m)'
      BY <2>1, <2>2 DEF Ledger, Fresh
    <3>2. QED
      BY <1>3, <2>1, <2>2, <3>1, MessagesLocal
  <2>3. CASE intent' = [intent EXCEPT ![m] = "prepared"] /\ Go(p, "publish")
    <3>1. intent'[m] = "prepared" /\ \A x \in Message \ {m} : intent'[x] = intent[x]
      BY <1>1, <2>1, <2>3 DEF TypeOK
    <3>2. Moves(p) /\ proc'[p].at = "publish" /\ proc'[p].msg = m
      BY <1>1, <2>3, GoMoves
    <3>3. m \in stored /\ m \notin remembered /\ posted[m] = 0 /\ m \in claimed
      BY <1>1, <2>1, NamesAssumption DEF Turn, Fresh, Answering
    <3>4. Turn(p)' /\ Ledger(m)'
      BY <2>1, <3>1, <3>2, <3>3 DEF Turn, Ledger, Fresh, Answering
    <3>5. QED
      BY <2>1, <3>1, <3>2, <3>4, MessagesLocal
  <2>4. QED
    BY <1>6, <2>2, <2>3 DEF Prepare
<1>7. CASE Publish(p)
  <2>1. phase = "serving" /\ phase' = phase /\ m \in Message /\ Ledger(m) /\ proc[p].at = "publish"
        /\ UNCHANGED <<claimed, stored, remembered, intent>>
    BY <1>2, <1>7 DEF Publish, startup, store
  <2>2. CASE Leave(p) /\ UNCHANGED posted
    <3>1. Ledger(m)'
      BY <2>1, <2>2 DEF Ledger, Fresh
    <3>2. QED
      BY <1>3, <2>1, <2>2, <3>1, MessagesLocal
  <2>3. CASE posted' = [posted EXCEPT ![m] = @ + 1] /\ (Go(p, "record") \/ Leave(p))
    <3>1. m \in stored /\ m \notin remembered /\ posted[m] = 0 /\ m \in claimed /\ intent[m] = "prepared"
      BY <1>1, <2>1, NamesAssumption DEF Turn, Answering
    <3>2. posted'[m] = 1 /\ \A x \in Message \ {m} : posted'[x] = posted[x]
      BY <1>1, <2>1, <2>3, <3>1 DEF TypeOK
    <3>3. Ledger(m)'
      BY <2>1, <3>1, <3>2 DEF Ledger
    <3>4. Moves(p) /\ proc'[p].msg \in {m, NoMessage} /\ Turn(p)'
      <4>1. CASE Leave(p)
        BY <1>3, <4>1
      <4>2. CASE Go(p, "record")
        <5>1. Moves(p) /\ proc'[p].at = "record" /\ proc'[p].msg = m
          BY <1>1, <4>2, GoMoves
        <5>2. QED
          BY <2>1, <3>1, <3>2, <5>1 DEF Turn, Answering
      <4>3. QED
        BY <2>3, <4>1, <4>2
    <3>5. QED
      BY <2>1, <3>2, <3>3, <3>4, MessagesLocal
  <2>4. QED
    BY <1>7, <2>2, <2>3 DEF Publish
<1>8. CASE MarkExchange(p)
  <2>1. phase = "serving" /\ phase' = phase /\ m \in Message /\ Ledger(m) /\ proc[p].at = "record"
        /\ UNCHANGED <<claimed, stored, remembered, posted>>
    BY <1>2, <1>8 DEF MarkExchange, startup, slack
  <2>2. CASE Leave(p) /\ UNCHANGED intent
    <3>1. Ledger(m)'
      BY <2>1, <2>2 DEF Ledger, Fresh
    <3>2. QED
      BY <1>3, <2>1, <2>2, <3>1, MessagesLocal
  <2>3. CASE intent' = [intent EXCEPT ![m] = "published"] /\ Go(p, "finalize")
    <3>1. intent'[m] = "published" /\ \A x \in Message \ {m} : intent'[x] = intent[x]
      BY <1>1, <2>1, <2>3 DEF TypeOK
    <3>2. Moves(p) /\ proc'[p].at = "finalize" /\ proc'[p].msg = m
      BY <1>1, <2>3, GoMoves
    <3>3. m \in stored /\ m \notin remembered /\ posted[m] = 1 /\ m \in claimed
      BY <1>1, <2>1, NamesAssumption DEF Turn, Answering
    <3>4. Turn(p)' /\ Ledger(m)'
      BY <2>1, <3>1, <3>2, <3>3 DEF Turn, Ledger, Answering
    <3>5. QED
      BY <2>1, <3>1, <3>2, <3>4, MessagesLocal
  <2>4. QED
    BY <1>8, <2>2, <2>3 DEF MarkExchange
<1>9. CASE Finalize(p)
  <2>1. phase = "serving" /\ phase' = phase /\ m \in Message /\ Ledger(m) /\ proc[p].at = "finalize"
        /\ UNCHANGED <<claimed, stored, posted>> /\ Leave(p)
    BY <1>2, <1>9 DEF Finalize, startup, slack
  <2>2. CASE UNCHANGED <<intent, remembered>>
    <3>1. Ledger(m)'
      BY <2>1, <2>2 DEF Ledger, Fresh
    <3>2. QED
      BY <1>3, <2>1, <2>2, <3>1, MessagesLocal
  <2>3. CASE Finalized(m)
    <3>1. /\ intent'[m] = "none" /\ \A x \in Message \ {m} : intent'[x] = intent[x]
          /\ remembered' = remembered \union {m}
      BY <1>1, <2>1, <2>3 DEF TypeOK, Finalized
    <3>2. posted[m] = 1 /\ m \in claimed
      BY <1>1, <2>1, NamesAssumption DEF Turn
    <3>3. Ledger(m)'
      BY <2>1, <3>1, <3>2 DEF Ledger
    <3>4. QED
      BY <1>3, <2>1, <3>1, <3>3, MessagesLocal
  <2>4. QED
    BY <1>9, <2>2, <2>3 DEF Finalize
<1>10. CASE proc[p].at \in {"load", "prepare", "publish", "record", "finalize"}
  BY <1>5, <1>6, <1>7, <1>8, <1>9, <1>10 DEF HandlerStep, Acquire, TakePermit, Model,
    CreateDelivery, PublishConfirmation, MarkPublished, Decide, Resume, RunTool,
    Expire, Close, Closed, Waiting
<1>11. QED
  BY <1>4, <1>10

LEMMA ReceiveMessages ==
  ASSUME TurnsInv, NEW p \in Handler, NEW m \in Message, Receive(p, m)
  PROVE  Messages'
<1>1. TypeOK /\ Messages /\ m \notin claimed /\ Fresh(m)
  BY DEF TurnsInv, Messages, Ledger, Receive, Unclaimed
<1>2. /\ claimed' = claimed \union {m} /\ phase = "serving" /\ phase' = phase
      /\ UNCHANGED <<stored, intent, remembered, posted>>
  BY DEF Receive, startup, slack
<1>3. \A x \in Message : Ledger(x)'
  BY <1>1, <1>2 DEF Messages, Ledger, Fresh
<1>4. Reconciling'
  BY <1>2 DEF Reconciling
<1>5. ASSUME NEW q \in Proc, proc'[q] = proc[q] PROVE Turn(q)'
  BY <1>1, <1>2, <1>5 DEF Messages, Turn, Fresh
<1>6. CASE proc' = proc
  BY <1>1, <1>3, <1>4, <1>5, <1>6 DEF Messages
<1>7. CASE proc' # proc
  <2>1. Moves(p) /\ proc'[p].at = "intake" /\ proc'[p].msg = m /\ p \in Proc
    BY <1>1, <1>7, ReceiveMoves DEF TakesUp, Proc
  <2>2. Turn(p)'
    BY <1>1, <1>2, <2>1 DEF Turn, Fresh, Answering
  <2>3. \A q \in Proc : Turn(q)'
    BY <1>5, <2>1, <2>2 DEF Moves
  <2>4. \A q \in Proc : q # p => proc'[q].msg = proc[q].msg /\ proc'[q].msg # m
    BY <1>1, <2>1, NamesAssumption DEF Moves, Messages, Turn
  <2>5. \A q, r \in Proc : proc'[q].msg = proc'[r].msg /\ proc'[q].msg # NoMessage => q = r
    BY <1>1, <2>1, <2>4 DEF Messages
  <2>6. QED
    BY <1>3, <1>4, <2>3, <2>5 DEF Messages
<1>8. QED
  BY <1>6, <1>7

\* A goroutine that takes up a call has no message.
LEMMA CallTakenUp ==
  ASSUME TurnsInv, NEW p \in Proc, Moves(p), proc'[p].msg = NoMessage,
         UNCHANGED answersShown, UNCHANGED startup
  PROVE  Messages'
<1>1. Messages
  BY DEF TurnsInv
<1>2. \A q \in Proc : \/ proc'[q].msg = NoMessage
                      \/ proc'[q].msg = proc[q].msg /\ Turn(q)'
  BY <1>1 DEF Moves, Messages, Turn, Fresh, answersShown
<1>3. Reconciling'
  BY <1>1 DEF Messages, Reconciling, answersShown, startup
<1>4. QED
  BY <1>1, <1>2, <1>3, MessagesStill

\* While the process starts, nobody works on a message.
LEMMA NobodyAnswers ==
  ASSUME TurnsInv, phase # "serving", NEW p \in Proc
  PROVE  proc[p].msg = NoMessage
BY DEF TurnsInv, TypeOK, Shapes, StartShape, Proc, Idle

LEMMA StartMessages ==
  ASSUME TurnsInv, StartStep
  PROVE  Messages'
<1>1. TypeOK /\ Shapes /\ StartShape /\ Messages
  BY DEF TurnsInv, Shapes
<1>2. ASSUME UNCHANGED answersShown, UNCHANGED proc, Reconciling'
      PROVE  Messages'
  <2>1. \A q \in Proc : proc'[q].msg = proc[q].msg /\ Turn(q)'
    BY <1>1, <1>2 DEF Messages, Turn, Fresh, answersShown
  <2>2. QED
    BY <1>1, <1>2, <2>1, MessagesStill
<1>3. CASE Start \/ Serve
  BY <1>2, <1>3 DEF Start, Serve, memory, store, slack, answersShown, Reconciling
<1>4. CASE LookUpPrepared
  <2>1. UNCHANGED answersShown /\ UNCHANGED proc
    BY <1>4 DEF LookUpPrepared, memory, store, slack, answersShown
  <2>2. Reconciling'
    BY <1>1, <1>4, <2>1 DEF LookUpPrepared, Reconciling, Messages, Ledger, Unfinalized, answersShown, TypeOK
  <2>3. QED
    BY <1>2, <2>1, <2>2
<1>5. CASE ListExpired \/ ListPending
  <2>1. UNCHANGED answersShown /\ UNCHANGED proc
    BY <1>5 DEF ListExpired, ListPending, memory, store, slack, answersShown
  <2>2. Reconciling'
    BY <1>1, <1>5, <2>1 DEF ListExpired, ListPending, Unmatched, Reconciling, Messages, Unfinalized, answersShown
  <2>3. QED
    BY <1>2, <2>1, <2>2
<1>6. ASSUME NEW w \in Call, ExpireListed(w) PROVE Messages'
  <2>1. TakesUp(Main, "lapse", NoMessage, w, FALSE, delivery[w].actor, delivery[w].conv) /\ Main \in Proc
    BY <1>1, <1>6, ExpireListedMoves DEF Proc
  <2>2. UNCHANGED answersShown /\ UNCHANGED startup
    BY <1>6 DEF ExpireListed, store, slack, answersShown
  <2>3. QED
    BY <2>1, <2>2, CallTakenUp DEF TakesUp
<1>7. ASSUME NEW w \in Call, RecoverPending(w) PROVE Messages'
  <2>1. TakesUp(Main, IF Shown(w) THEN "mark" ELSE "post", NoMessage, w, FALSE, NoUser, NoConversation)
        /\ Main \in Proc
    BY <1>1, <1>7, RecoverPendingMoves DEF Proc
  <2>2. UNCHANGED answersShown /\ UNCHANGED startup
    BY <1>7 DEF RecoverPending, store, slack, answersShown
  <2>3. QED
    BY <2>1, <2>2, CallTakenUp DEF TakesUp
<1>8. ASSUME NEW m \in Message, FinalizePublished(m) \/ MarkMatched(m) PROVE Messages'
  <2>1. phase \in {"exchanges", "matched"} /\ phase' = phase /\ Ledger(m) /\ UNCHANGED <<claimed, stored, posted, proc>>
    BY <1>1, <1>8 DEF FinalizePublished, MarkMatched, Messages, startup, memory, slack
  <2>2. /\ intent[m] \in {"published", "prepared"} /\ posted[m] = 1
        /\ \A x \in Message \ {m} : intent'[x] = intent[x] /\ (x \in remembered' <=> x \in remembered)
        /\ \A x \in Message \ {m} : x \in todo' <=> x \in todo
    BY <1>1, <1>8, <2>1 DEF FinalizePublished, MarkMatched, Finalized, Unfinalized, Messages, Reconciling,
      Ledger, startup, TypeOK
  <2>3. m \in claimed
    BY <2>1, <2>2 DEF Ledger, Fresh
  <2>4. Ledger(m)'
    <3>1. CASE FinalizePublished(m)
      <4>1. intent'[m] = "none" /\ remembered' = remembered \union {m}
        BY <1>1, <3>1 DEF FinalizePublished, Finalized, TypeOK
      <4>2. QED
        BY <2>1, <2>2, <2>3, <4>1 DEF Ledger
    <3>2. CASE MarkMatched(m)
      <4>1. intent'[m] = "published" /\ remembered' = remembered
        BY <1>1, <3>2 DEF MarkMatched, TypeOK
      <4>2. QED
        BY <2>1, <2>2, <2>3, <4>1 DEF Ledger
    <3>3. QED
      BY <1>8, <3>1, <3>2
  <2>5. \A x \in Message : Ledger(x)'
    BY <1>1, <2>1, <2>2, <2>4 DEF Messages, Ledger, Fresh
  <2>6. \A q \in Proc : proc'[q].msg = NoMessage
    BY <2>1, NobodyAnswers
  <2>7. Reconciling'
    <3>1. CASE FinalizePublished(m)
      <4>1. m \in remembered' /\ todo' = todo /\ intent[m] = "published"
        BY <1>1, <3>1 DEF FinalizePublished, Finalized, Unfinalized, startup
      <4>2. QED
        BY <1>1, <2>1, <2>2, <4>1 DEF Messages, Reconciling, StartShape
    <3>2. CASE MarkMatched(m)
      <4>1. intent'[m] = "published" /\ todo' = todo \ {m} /\ remembered' = remembered
        BY <1>1, <3>2 DEF MarkMatched, TypeOK
      <4>2. QED
        BY <1>1, <2>1, <2>2, <4>1 DEF Messages, Reconciling, StartShape
    <3>3. QED
      BY <1>8, <3>1, <3>2
  <2>8. QED
    BY <2>5, <2>6, <2>7 DEF Messages, Turn
<1>9. QED
  BY <1>3, <1>4, <1>5, <1>6, <1>7, <1>8 DEF StartStep

LEMMA MessagesNext ==
  ASSUME TurnsInv, [Next]_vars
  PROVE  Messages'
<1>1. TypeOK /\ Messages
  BY DEF TurnsInv
<1>2. ASSUME NEW p \in Handler, NEW w \in Call, NEW u \in User, NEW yes \in BOOLEAN, Click(p, w, u, yes)
      PROVE  Messages'
  <2>1. TakesUp(p, IF w \in lapsed THEN "lapse" ELSE "enter", NoMessage, w, yes /\ w \notin lapsed,
                u, delivery[w].conv) /\ p \in Proc
    BY <1>1, <1>2, ClickMoves DEF Proc
  <2>2. UNCHANGED answersShown /\ UNCHANGED startup
    BY <1>2 DEF Click, store, slack, answersShown
  <2>3. QED
    BY <2>1, <2>2, CallTakenUp DEF TakesUp
<1>3. ASSUME Crash PROVE Messages'
  <2>1. UNCHANGED answersShown /\ \A q \in Proc : proc'[q].msg = NoMessage
    BY <1>3 DEF Crash, Exit, Idle, store, slack, answersShown
  <2>2. Reconciling'
    BY <1>3 DEF Crash, Exit, Reconciling
  <2>3. QED
    BY <1>1, <2>1, <2>2, MessagesStill
<1>4. ASSUME (\E w \in Call : Lapse(w)) \/ UNCHANGED vars PROVE Messages'
  <2>1. UNCHANGED answersShown /\ UNCHANGED startup /\ UNCHANGED proc
    BY <1>4 DEF Lapse, vars, memory, store, slack, answersShown
  <2>2. Reconciling'
    BY <1>1, <2>1 DEF Messages, Reconciling, answersShown, startup
  <2>3. \A q \in Proc : proc'[q].msg = proc[q].msg /\ Turn(q)'
    BY <1>1, <2>1 DEF Messages, Turn, Fresh, answersShown
  <2>4. QED
    BY <1>1, <2>1, <2>2, <2>3, MessagesStill
<1>5. QED
  BY <1>2, <1>3, <1>4, ReceiveMessages, HandlerMessages, StartMessages DEF Next

-----------------------------------------------------------------------------
(* Calls and their decisions.                                              *)

decisions == <<delivery, asked, answers, ran, prompts, lapsed>>

WorkingSteps == {"create", "post", "mark", "resume", "tool", "close"}

LEMMA WorkingIs == Working = WorkingSteps
BY DEF Working, WorkingSteps, Prompting

\* Steps that write nothing of any call.
LEMMA CallsStill ==
  ASSUME Calls, UNCHANGED decisions, Recovering',
         \A q \in Proc : Asks(q)',
         \A q \in Proc : proc'[q].at \in Working =>
            proc[q].at \in Working /\ proc'[q].call = proc[q].call
  PROVE  Calls'
<1>1. \A w \in Call : RowOf(w)' /\ Decided(w)'
  BY DEF Calls, decisions, RowOf, Decided, Unanswered
<1>2. \A p, q \in Proc :
        proc'[p].at \in Working /\ proc'[q].at \in Working /\ proc'[p].call = proc'[q].call => p = q
  BY DEF Calls
<1>3. QED
  BY <1>1, <1>2 DEF Calls, Working, Prompting

\* A goroutine keeps what it knows of a call while nobody writes the call.
LEMMA AsksKept ==
  ASSUME NEW q \in Proc, Asks(q), proc'[q] = proc[q], asked \subseteq asked',
         LET w == proc[q].call IN
           /\ delivery'[w] = delivery[w] /\ answers'[w] = answers[w] /\ ran'[w] = ran[w]
           /\ prompts'[w] = prompts[w]
  PROVE  Asks(q)'
BY DEF Asks, Unanswered

\* Who does not work on it but wants it decided keeps what it knows of it, too.
LEMMA AsksStands ==
  ASSUME NEW q \in Proc, Asks(q), proc'[q] = proc[q], asked \subseteq asked',
         proc[q].at \notin Working,
         LET w == proc[q].call IN
           /\ delivery[w].shown => delivery'[w].shown
           /\ delivery[w].shown \/ delivery[w].status # "none" =>
                delivery'[w].status # "none" /\ delivery'[w].actor = delivery[w].actor
  PROVE  Asks(q)'
BY DEF Asks, Unanswered, Working, Prompting

LEMMA IdleAsks ==
  ASSUME NEW q \in Proc, proc'[q] = Idle
  PROVE  Asks(q)'
<1>1. proc'[q].at = "idle" /\ proc'[q].call = NoCall
  BY DEF Idle
<1>2. QED
  BY <1>1 DEF Asks

\* The steps about one call.
LEMMA CallsLocal ==
  ASSUME TurnsInv, NEW p \in Proc, NEW w \in Call,
         Moves(p), proc'[p].call = w \/ proc'[p] = Idle, Asks(p)', RowOf(w)', Decided(w)', Recovering',
         lapsed' = lapsed, asked \subseteq asked',
         \A x \in Call \ {w} :
            /\ delivery'[x] = delivery[x] /\ answers'[x] = answers[x] /\ ran'[x] = ran[x]
            /\ prompts'[x] = prompts[x],
         \A q \in Proc : q # p /\ proc[q].call = w => proc[q].at \notin Working,
         delivery[w].shown => delivery'[w].shown,
         delivery[w].shown \/ delivery[w].status # "none" =>
            delivery'[w].status # "none" /\ delivery'[w].actor = delivery[w].actor
  PROVE  Calls'
<1>1. Calls /\ proc \in [Proc -> Line] /\ Shapes
  BY DEF TurnsInv, TypeOK, Line
<1>2. ASSUME NEW x \in Call PROVE RowOf(x)' /\ Decided(x)'
  <2>1. CASE x = w
    BY <2>1
  <2>2. CASE x # w
    BY <1>1, <2>2 DEF Calls, RowOf, Decided, Unanswered
  <2>3. QED
    BY <2>1, <2>2
<1>3. ASSUME NEW q \in Proc PROVE Asks(q)'
  <2>1. CASE q = p
    BY <2>1
  <2>2. CASE q # p /\ proc[q].call = w
    BY <1>1, <2>2, AsksStands DEF Calls, Moves
  <2>3. CASE q # p /\ proc[q].call \in Call \ {w}
    BY <1>1, <2>3, AsksKept DEF Calls, Moves
  <2>4. CASE q # p /\ proc[q].call = NoCall
    <3>1. proc'[q] = proc[q] /\ Shape(q)
      BY <1>1, <2>4 DEF Moves, Shapes
    <3>2. proc[q].at \notin {"enter", "decide", "resume", "tool", "lapse", "expire", "close", "closing"}
          /\ proc[q].at \notin Prompting
      BY <2>4, <3>1 DEF Shape
    <3>3. QED
      BY <2>4, <3>1, <3>2 DEF Asks, Prompting
  <2>5. QED
    BY <1>1, <2>1, <2>2, <2>3, <2>4 DEF Line
<1>4. \A q, r \in Proc :
        proc'[q].at \in Working /\ proc'[r].at \in Working /\ proc'[q].call = proc'[r].call => q = r
  <2>1. "idle" \notin Working
    BY WorkingIs DEF WorkingSteps
  <2>2. \A q \in Proc : q # p => proc'[q] = proc[q]
    BY DEF Moves
  <2>3. proc'[p].at \in Working => proc'[p].call = w
    BY <2>1 DEF Idle
  <2>4. QED
    BY <1>1, <2>2, <2>3 DEF Calls
<1>5. QED
  BY <1>2, <1>3, <1>4 DEF Calls, Working, Prompting

\* What the start still has to show, over the steps of a goroutine.
LEMMA RecoveringStep ==
  ASSUME TurnsInv, NEW p \in Proc, HandlerStep(p), UNCHANGED <<delivery, lapsed>>,
         proc[p].at = "mark" => Fail(p)
  PROVE  Recovering'
<1> USE StepSets
<1>1. TypeOK /\ StartShape /\ Recovering
  BY DEF TurnsInv, Shapes, Calls
<1>2. Ends(p) \/ \E to \in Steps : Advances(p, to)
  BY StepMoves
<1>3. proc[p].at # "idle"
  BY DEF HandlerStep, Acquire, StoreMessage, TakePermit, Model, Prepare, Publish, MarkExchange,
    Finalize, CreateDelivery, PublishConfirmation, MarkPublished, Decide, Resume, RunTool,
    Expire, Close, Closed, Waiting
<1>4. CASE Exit
  BY <1>4 DEF Exit, Recovering
<1>5. CASE p \in Handler /\ ~Exit
  <2>1. phase = "serving"
    BY <1>1, <1>3, <1>5 DEF TypeOK, Idle
  <2>2. phase' = phase
    BY <1>2, <1>5 DEF Ends, Returns, Advances, startup
  <2>3. QED
    BY <2>1, <2>2 DEF Recovering
<1>6. CASE p = Main /\ ~Exit
  <2>1. phase' = phase
    BY <1>2, <1>6 DEF Ends, Returns, Advances, startup
  <2>2. CASE proc[p].at \in {"lapse", "expire", "close", "closing"}
    BY <1>1, <1>6, <2>1, <2>2 DEF StartShape, Recovering
  <2>3. CASE proc[p].at \in {"post", "mark"}
    <3>1. ~Fail(p)
      BY <1>6 DEF Fail
    <3>2. UNCHANGED startup
      BY <2>3, <3>1 DEF HandlerStep, Acquire, StoreMessage, TakePermit, Model, Prepare, Publish, MarkExchange,
        Finalize, CreateDelivery, PublishConfirmation, MarkPublished, Decide, Resume, RunTool,
        Expire, Close, Closed, Waiting, startup
    <3>3. QED
      BY <1>1, <3>2 DEF Recovering, startup
  <2>4. QED
    BY <1>1, <1>3, <1>6, <2>2, <2>3 DEF StartShape
<1>7. QED
  BY <1>4, <1>5, <1>6 DEF Proc

\* The steps that leave every call alone.
LEMMA QuietCalls ==
  ASSUME TurnsInv, NEW p \in Proc, HandlerStep(p), UNCHANGED decisions,
         proc[p].at = "mark" => Fail(p),
         Ends(p) \/ \E to \in Steps \ WorkingSteps : Follows(p, to) /\ Advances(p, to)
  PROVE  Calls'
<1>1. TypeOK /\ Calls /\ Shape(p) /\ Asks(p) /\ proc \in [Proc -> Line]
  BY DEF TurnsInv, Shapes, Calls, TypeOK, Line
<1>2. Recovering'
  BY RecoveringStep DEF decisions
<1>3. CASE Ends(p)
  <2>1. \A q \in Proc : proc'[q] = Idle \/ proc'[q] = proc[q]
    BY <1>3 DEF Ends, Returns, Moves, Exit
  <2>2. ASSUME NEW q \in Proc PROVE Asks(q)'
    BY <1>1, <2>1, IdleAsks, AsksKept DEF Calls, decisions
  <2>3. "idle" \notin Working /\ Idle.at = "idle"
    BY WorkingIs DEF WorkingSteps, Idle
  <2>4. \A q \in Proc : proc'[q].at \in Working => proc[q].at \in Working /\ proc'[q].call = proc[q].call
    BY <2>1, <2>3
  <2>5. QED
    BY <1>1, <1>2, <2>2, <2>4, CallsStill
<1>4. ASSUME NEW to \in Steps \ WorkingSteps, Follows(p, to), Advances(p, to)
      PROVE  Calls'
  <2>1. Asks(p)'
    BY <1>1, <1>4, StepSets DEF Asks, Follows, Advances, Shape, WorkingSteps, decisions, Answering, Unanswered
  <2>2. ASSUME NEW q \in Proc, q # p PROVE Asks(q)'
    BY <1>1, <1>4, <2>2, AsksKept DEF Calls, decisions, Advances, Moves
  <2>3. \A q \in Proc : proc'[q].at \in Working => proc[q].at \in Working /\ proc'[q].call = proc[q].call
    BY <1>4, WorkingIs DEF Advances, Moves
  <2>4. QED
    BY <1>1, <1>2, <2>1, <2>2, <2>3, CallsStill
<1>5. QED
  BY <1>3, <1>4

\* The process ends.
LEMMA CallsExit ==
  ASSUME Exit, \A w \in Call : RowOf(w)' /\ Decided(w)'
  PROVE  Calls'
<1>1. \A q \in Proc : proc'[q] = Idle
  BY DEF Exit
<1>2. \A q \in Proc : Asks(q)'
  BY <1>1, IdleAsks
<1>3. \A q \in Proc : proc'[q].at \notin Working
  <2>1. "idle" \notin Working /\ Idle.at = "idle"
    BY WorkingIs DEF WorkingSteps, Idle
  <2>2. QED
    BY <1>1, <2>1
<1>4. Recovering'
  BY DEF Exit, Recovering
<1>5. QED
  BY <1>2, <1>3, <1>4 DEF Calls, Working, Prompting

\* A goroutine about to decide or expire a call is alone with it while it is open.
LEMMA OpenAlone ==
  ASSUME TurnsInv, NEW p \in Proc, NEW w \in Call, w = proc[p].call, Open(w),
         proc[p].at \in {"decide", "expire"}, NEW q \in Proc, q # p, proc[q].call = w
  PROVE  proc[q].at \notin Working
<1>1. TypeOK /\ Calls /\ StartShape /\ Asks(p) /\ Asks(q) /\ RowOf(w)
  BY DEF TurnsInv, Shapes, Calls
<1>2. CASE p = Main
  <2>1. phase # "serving"
    BY <1>1, <1>2 DEF TypeOK, Idle
  <2>2. q \in Handler
    BY <1>2 DEF Proc
  <2>3. proc[q].at = "idle"
    BY <1>1, <2>1, <2>2 DEF TypeOK, Idle
  <2>4. QED
    BY <2>3, WorkingIs DEF WorkingSteps
<1>3. CASE p # Main
  <2>1. delivery[w].shown /\ delivery[w].status = "published"
    BY <1>1, <1>3 DEF Asks, Open, RowOf
  <2>2. QED
    BY <1>1, <2>1, WorkingIs DEF Asks, WorkingSteps
<1>4. QED
  BY <1>2, <1>3

\* What an action on a delivery leaves in its row.
LEMMA RowWritten ==
  ASSUME TypeOK, NEW w \in Call, NEW s \in {"consumed", "rejected", "expired"},
         delivery' = [delivery EXCEPT ![w].status = s]
  PROVE  /\ delivery'[w].status = s /\ delivery'[w].shown = delivery[w].shown
         /\ delivery'[w].actor = delivery[w].actor /\ delivery'[w].conv = delivery[w].conv
         /\ \A x \in Call \ {w} : delivery'[x] = delivery[x]
<1>1. delivery' = [delivery EXCEPT ![w] = [delivery[w] EXCEPT !.status = s]]
  BY DEF TypeOK
<1>2. QED
  BY <1>1 DEF TypeOK

LEMMA AnswersWritten ==
  ASSUME TypeOK, NEW w \in Call, Unanswered(w), NEW by, NEW yes, Answered(w, by, yes)
  PROVE  /\ answers'[w] = << [by |-> by, yes |-> yes] >>
         /\ \A x \in Call \ {w} : answers'[x] = answers[x]
<1>1. answers' = [answers EXCEPT ![w] = Append(answers[w], [by |-> by, yes |-> yes])]
  BY DEF Answered
<1>2. Append(<< >>, [by |-> by, yes |-> yes]) = << [by |-> by, yes |-> yes] >>
  OBVIOUS
<1>3. QED
  BY <1>1, <1>2 DEF TypeOK, Unanswered

LEMMA HandlerCalls ==
  ASSUME TurnsInv, NEW p \in Proc, HandlerStep(p)
  PROVE  Calls'
<1> USE StepSets
<1>1. TypeOK /\ Calls /\ Shape(p) /\ StartShape /\ Asks(p) /\ proc \in [Proc -> Line]
  BY DEF TurnsInv, Shapes, Calls, TypeOK, Line
<1>2. PICK w : w = proc[p].call
  OBVIOUS
<1>3. ASSUME proc[p].at \in WorkingSteps \union {"decide", "expire"}
      PROVE  w \in Call /\ RowOf(w) /\ Decided(w)
  BY <1>1, <1>2, <1>3 DEF Shape, Line, WorkingSteps, Prompting, Calls
<1>4. ASSUME proc[p].at \in WorkingSteps
      PROVE  \A q \in Proc : q # p /\ proc[q].call = w => proc[q].at \notin Working
  BY <1>1, <1>2, <1>4, WorkingIs DEF Calls
<1>5. ASSUME Ends(p), UNCHANGED decisions, proc[p].at = "mark" => Fail(p) PROVE Calls'
  BY <1>5, QuietCalls
<1>6. CASE Acquire(p) \/ StoreMessage(p) \/ TakePermit(p) \/ Prepare(p) \/ Publish(p) \/ MarkExchange(p)
           \/ Finalize(p) \/ Closed(p)
  <2>1. UNCHANGED decisions /\ proc[p].at \notin {"mark", "create", "post", "decide", "resume", "tool",
                                                  "expire", "close", "model"}
    BY <1>6 DEF Acquire, StoreMessage, TakePermit, Prepare, Publish, MarkExchange, Finalize, Closed,
      session, slack, decisions, Waiting
  <2>2. Ends(p) \/ \E to \in Steps \ WorkingSteps : Follows(p, to) /\ Advances(p, to)
    BY <2>1, StepMoves DEF Follows, WorkingSteps
  <2>3. QED
    BY <2>1, <2>2, QuietCalls
<1>7. CASE Model(p)
  <2>1. p # Main /\ UNCHANGED startup /\ UNCHANGED <<delivery, answers, ran, prompts, lapsed>> /\ proc[p].at = "model"
    BY <1>1, <1>7 DEF Model, slack, StartShape
  <2>2. CASE Leave(p) /\ UNCHANGED asked
    BY <1>1, <1>5, <2>1, <2>2, LeaveReturns DEF decisions, Ends
  <2>3. CASE proc[p].msg # NoMessage /\ Go(p, "prepare") /\ UNCHANGED asked
    <3>1. Follows(p, "prepare") /\ Advances(p, "prepare") /\ "prepare" \in Steps \ WorkingSteps
      BY <1>1, <2>1, <2>3, GoAdvances DEF Follows, WorkingSteps
    <3>2. QED
      BY <2>1, <2>3, <3>1, QuietCalls DEF decisions
  <2>4. CASE /\ asked # Call
             /\ asked' = asked \union {CHOOSE x \in Call : x \notin asked}
             /\ proc' = [proc EXCEPT ![p].at = "create", ![p].call = CHOOSE x \in Call : x \notin asked]
    <3>1. PICK v : v = proc'[p].call
      OBVIOUS
    <3>2. Moves(p) /\ proc'[p].at = "create" /\ v \in Call \ asked /\ asked' = asked \union {v}
      BY <1>1, <2>4, <3>1, ModelAsks
    <3>3. RowOf(v) /\ Decided(v) /\ delivery[v].status = "none" /\ ~delivery[v].shown
      BY <1>1, <3>2 DEF Calls, RowOf
    <3>4. \A q \in Proc : proc[q].call # v
      BY <1>1, <3>2, NamesAssumption DEF Calls, Asks
    <3>5. RowOf(v)' /\ Decided(v)'
      BY <2>1, <3>2, <3>3 DEF RowOf, Decided, Unanswered
    <3>6. Asks(p)'
      BY <2>1, <3>1, <3>2, <3>3 DEF Asks
    <3>7. Recovering'
      BY <1>1, <2>1 DEF Calls, Recovering, startup
    <3>8. QED
      BY <2>1, <3>1, <3>2, <3>3, <3>4, <3>5, <3>6, <3>7, CallsLocal
  <2>5. QED
    BY <1>7, <2>2, <2>3, <2>4 DEF Model
<1>8. CASE CreateDelivery(p)
  <2>1. /\ p # Main /\ UNCHANGED startup /\ UNCHANGED <<asked, answers, ran, prompts, lapsed>>
        /\ proc[p].at = "create" /\ w \in Call /\ RowOf(w) /\ Decided(w) /\ w \in asked
    BY <1>1, <1>2, <1>3, <1>8, NamesAssumption DEF CreateDelivery, session, slack, StartShape, WorkingSteps, Asks
  <2>2. CASE Leave(p) /\ UNCHANGED delivery
    BY <1>1, <1>5, <2>1, <2>2, LeaveReturns DEF decisions, Ends
  <2>3. CASE /\ delivery' = [delivery EXCEPT ![w] =
                               [status |-> "pending", shown |-> FALSE,
                                actor |-> proc[p].user, conv |-> proc[p].conv]]
             /\ Go(p, "post")
    <3>1. Moves(p) /\ proc'[p].at = "post" /\ proc'[p].call = w
      BY <1>1, <1>2, <2>3, GoMoves
    <3>2. /\ delivery'[w].status = "pending" /\ delivery'[w].shown = FALSE
          /\ delivery'[w].actor \in User /\ delivery'[w].conv \in Conversation
          /\ \A x \in Call \ {w} : delivery'[x] = delivery[x]
      <4>1. proc[p].user \in User /\ proc[p].conv \in Conversation
        BY <1>1, <2>1 DEF Shape, Proc
      <4>2. QED
        BY <1>1, <2>1, <2>3, <4>1 DEF TypeOK
    <3>3. delivery[w].status = "none" /\ prompts[w] = 0 /\ ~delivery[w].shown
      BY <1>1, <1>2, <2>1 DEF Asks, RowOf
    <3>4. RowOf(w)' /\ Decided(w)'
      <4>1. Unanswered(w) /\ answers'[w] = answers[w] /\ ran'[w] = ran[w] /\ prompts'[w] = 0
        BY <2>1, <3>3 DEF RowOf
      <4>2. DOMAIN answers'[w] = {} /\ Len(answers'[w]) = 0 /\ ran'[w] = 0
        BY <4>1 DEF Unanswered
      <4>3. QED
        BY <2>1, <3>2, <4>1, <4>2 DEF RowOf, Decided, Unanswered
    <3>5. Asks(p)'
      BY <1>2, <2>1, <3>1, <3>2, <3>3 DEF Asks
    <3>6. Recovering'
      <4>1. phase' = "serving"
        BY <1>1, <2>1 DEF TypeOK, Proc, Idle, startup
      <4>2. QED
        BY <4>1 DEF Recovering
    <3>7. QED
      BY <1>4, <2>1, <3>1, <3>2, <3>3, <3>4, <3>5, <3>6, CallsLocal DEF WorkingSteps
  <2>4. QED
    BY <1>2, <1>8, <2>2, <2>3 DEF CreateDelivery
<1>9. CASE PublishConfirmation(p)
  <2>1. /\ UNCHANGED <<delivery, asked, answers, ran, lapsed>>
        /\ proc[p].at = "post" /\ w \in Call /\ RowOf(w) /\ Decided(w) /\ prompts[w] = 0
        /\ delivery[w].status = "pending"
    BY <1>1, <1>2, <1>3, <1>9 DEF PublishConfirmation, session, WorkingSteps, Asks
  <2>2. CASE Fail(p) /\ UNCHANGED prompts
    BY <1>1, <1>5, <2>1, <2>2, FailEnds DEF decisions
  <2>3. CASE /\ prompts' = [prompts EXCEPT ![w] = @ + 1]
             /\ \/ Go(p, "mark") /\ UNCHANGED startup
                \/ Fail(p)
    <3>1. prompts'[w] = 1 /\ \A x \in Call \ {w} : prompts'[x] = prompts[x]
      BY <1>1, <2>1, <2>3 DEF TypeOK
    <3>2. RowOf(w)' /\ Decided(w)'
      BY <2>1, <3>1 DEF RowOf, Decided, Unanswered
    <3>3. CASE Exit
      <4>1. \A x \in Call : RowOf(x)' /\ Decided(x)'
        BY <1>1, <2>1, <3>1, <3>2 DEF Calls, RowOf, Decided, Unanswered
      <4>2. QED
        BY <3>3, <4>1, CallsExit
    <3>4. CASE ~Exit
      <4>1. /\ Moves(p) /\ (proc'[p].call = w \/ proc'[p] = Idle) /\ Asks(p)'
        <5>1. CASE Go(p, "mark")
          <6>1. Moves(p) /\ proc'[p].at = "mark" /\ proc'[p].call = w
            BY <1>1, <1>2, <5>1, GoMoves
          <6>2. QED
            BY <1>1, <1>2, <2>1, <3>1, <6>1 DEF Asks
        <5>2. CASE Leave(p)
          BY <1>1, <5>2, LeaveMoves, IdleAsks
        <5>3. QED
          BY <2>3, <3>4, <5>1, <5>2 DEF Fail
      <4>2. Recovering'
        BY <2>1, RecoveringStep
      <4>3. QED
        BY <1>4, <2>1, <3>1, <3>2, <4>1, <4>2, CallsLocal DEF WorkingSteps
    <3>5. QED
      BY <3>3, <3>4
  <2>4. QED
    BY <1>2, <1>9, <2>2, <2>3 DEF PublishConfirmation
<1>10. CASE MarkPublished(p)
  <2>1. /\ UNCHANGED <<asked, answers, ran, prompts, lapsed>>
        /\ proc[p].at = "mark" /\ w \in Call /\ RowOf(w) /\ Decided(w) /\ prompts[w] = 1
    BY <1>1, <1>2, <1>3, <1>10 DEF MarkPublished, session, slack, WorkingSteps, Asks
  <2>2. CASE Fail(p) /\ UNCHANGED delivery
    BY <1>1, <1>5, <2>1, <2>2, FailEnds DEF decisions
  <2>3. CASE /\ delivery[w].status = "pending" /\ Done(p)
             /\ delivery' = [delivery EXCEPT ![w].status = "published", ![w].shown = TRUE]
    <3>1. Moves(p) /\ proc'[p] = Idle /\ Returns(p)
      BY <1>1, <2>3, DoneReturns DEF Returns
    <3>2. /\ delivery'[w].status = "published" /\ delivery'[w].shown
          /\ delivery'[w].actor = delivery[w].actor /\ delivery'[w].conv = delivery[w].conv
          /\ \A x \in Call \ {w} : delivery'[x] = delivery[x]
      <4>1. delivery' = [delivery EXCEPT ![w] = [delivery[w] EXCEPT !.status = "published", !.shown = TRUE]]
        BY <1>1, <2>3 DEF TypeOK
      <4>2. QED
        BY <1>1, <2>1, <4>1 DEF TypeOK
    <3>3. RowOf(w)' /\ Decided(w)'
      BY <2>1, <2>3, <3>2 DEF RowOf, Decided, Unanswered
    <3>4. Recovering'
      <4>1. CASE p = Main
        <5>1. phase = "pending" /\ todo' = todo \ {w} /\ Recovering /\ todo \subseteq Call
          BY <1>1, <1>2, <2>1, <3>1, <4>1 DEF StartShape, Returns, Calls
        <5>2. QED
          BY <2>1, <3>2, <5>1 DEF Recovering
      <4>2. CASE p # Main
        <5>1. phase' = "serving"
          BY <1>1, <2>1, <3>1, <4>2 DEF TypeOK, Proc, Idle, Returns
        <5>2. QED
          BY <5>1 DEF Recovering
      <4>3. QED
        BY <4>1, <4>2
    <3>5. QED
      BY <1>4, <2>1, <2>3, <3>1, <3>2, <3>3, <3>4, CallsLocal, IdleAsks DEF WorkingSteps
  <2>4. QED
    BY <1>2, <1>10, <2>2, <2>3 DEF MarkPublished
<1>11. CASE Decide(p)
  <2>1. /\ p # Main /\ UNCHANGED startup /\ UNCHANGED <<asked, answers, ran, prompts, lapsed>>
        /\ proc[p].at = "decide" /\ w \in Call /\ RowOf(w) /\ Decided(w)
        /\ delivery[w].shown /\ delivery[w].actor = proc[p].user
    BY <1>1, <1>2, <1>3, <1>11 DEF Decide, session, slack, StartShape, Asks
  <2>2. CASE Leave(p) /\ UNCHANGED delivery
    BY <1>1, <1>5, <2>1, <2>2, LeaveReturns DEF decisions, Ends
  <2>3. CASE /\ Open(w) /\ Go(p, "resume")
             /\ delivery' = [delivery EXCEPT ![w].status = IF proc[p].yes THEN "consumed" ELSE "rejected"]
    <3>1. /\ Moves(p) /\ proc'[p].at = "resume" /\ proc'[p].call = w
          /\ proc'[p].yes = proc[p].yes /\ proc'[p].user = proc[p].user
      BY <1>1, <1>2, <2>3, GoMoves
    <3>2. /\ delivery'[w].status = (IF proc[p].yes THEN "consumed" ELSE "rejected")
          /\ delivery'[w].shown = delivery[w].shown
          /\ delivery'[w].actor = delivery[w].actor /\ delivery'[w].conv = delivery[w].conv
          /\ \A x \in Call \ {w} : delivery'[x] = delivery[x]
      BY <1>1, <2>1, <2>3, RowWritten
    <3>3. Unanswered(w) /\ delivery[w].status # "none"
      BY <2>1, <2>3 DEF Open, RowOf
    <3>4. RowOf(w)' /\ Decided(w)'
      <4>1. answers'[w] = << >> /\ ran'[w] = 0
        BY <2>1, <3>3 DEF Unanswered
      <4>2. Decided(w)'
        BY <4>1 DEF Decided
      <4>3. QED
        BY <2>1, <3>2, <3>3, <4>2 DEF RowOf
    <3>5. Asks(p)'
      <4>1. Unanswered(w)' /\ w \in asked'
        BY <2>1, <3>3 DEF Unanswered, RowOf
      <4>2. QED
        BY <2>1, <3>1, <3>2, <4>1 DEF Asks
    <3>6. Recovering'
      <4>1. phase' = "serving"
        BY <1>1, <2>1 DEF TypeOK, Proc, Idle, startup
      <4>2. QED
        BY <4>1 DEF Recovering
    <3>7. \A q \in Proc : q # p /\ proc[q].call = w => proc[q].at \notin Working
      BY <1>2, <2>1, <2>3, OpenAlone
    <3>8. QED
      BY <2>1, <3>1, <3>2, <3>3, <3>4, <3>5, <3>6, <3>7, CallsLocal
  <2>4. QED
    BY <1>2, <1>11, <2>2, <2>3 DEF Decide
<1>12. CASE Resume(p)
  <2>1. /\ p # Main /\ UNCHANGED startup /\ UNCHANGED <<delivery, asked, ran, prompts, lapsed>>
        /\ proc[p].at = "resume" /\ w \in Call /\ RowOf(w) /\ Decided(w) /\ Unanswered(w)
        /\ delivery[w].shown /\ delivery[w].actor = proc[p].user /\ w \in asked
        /\ delivery[w].status = (IF proc[p].yes THEN "consumed" ELSE "rejected")
    BY <1>1, <1>2, <1>3, <1>12, NamesAssumption DEF Resume, slack, StartShape, Asks, WorkingSteps
  <2>2. CASE Leave(p) /\ UNCHANGED answers
    BY <1>1, <1>5, <2>1, <2>2, LeaveReturns DEF decisions, Ends
  <2>3. CASE Answered(w, proc[p].user, proc[p].yes) /\ Go(p, IF proc[p].yes THEN "tool" ELSE "model")
    <3>1. /\ Moves(p) /\ proc'[p].at = (IF proc[p].yes THEN "tool" ELSE "model") /\ proc'[p].call = w
          /\ proc'[p].yes = proc[p].yes /\ proc'[p].user = proc[p].user
      BY <1>1, <1>2, <2>3, GoMoves
    <3>2. /\ answers'[w] = << [by |-> proc[p].user, yes |-> proc[p].yes] >>
          /\ \A x \in Call \ {w} : answers'[x] = answers[x]
      BY <1>1, <2>1, <2>3, AnswersWritten
    <3>3. /\ Len(answers'[w]) = 1 /\ DOMAIN answers'[w] = {1}
          /\ answers'[w][1].by = proc[p].user /\ answers'[w][1].yes = proc[p].yes /\ ran'[w] = 0
      BY <2>1, <3>2 DEF Unanswered
    <3>4. RowOf(w)' /\ Decided(w)'
      <4>1. Decided(w)'
        BY <2>1, <3>3 DEF Decided
      <4>2. QED
        BY <2>1, <4>1 DEF RowOf
    <3>5. Asks(p)'
      BY <2>1, <3>1, <3>3 DEF Asks
    <3>6. Recovering'
      BY <1>1, <2>1 DEF Calls, Recovering, startup
    <3>7. QED
      BY <1>4, <2>1, <3>1, <3>2, <3>4, <3>5, <3>6, CallsLocal DEF WorkingSteps
  <2>4. QED
    BY <1>2, <1>12, <2>2, <2>3 DEF Resume
<1>13. CASE RunTool(p)
  <2>1. /\ UNCHANGED startup /\ UNCHANGED <<delivery, asked, answers, prompts, lapsed>>
        /\ proc[p].at = "tool" /\ w \in Call /\ RowOf(w) /\ Decided(w) /\ w \in asked
        /\ delivery[w].shown /\ delivery[w].actor = proc[p].user /\ delivery[w].status = "consumed"
        /\ ran[w] = 0 /\ Len(answers[w]) = 1 /\ answers[w][1].yes
    BY <1>1, <1>2, <1>3, <1>13, NamesAssumption DEF RunTool, slack, Asks, WorkingSteps
  <2>2. /\ Moves(p) /\ proc'[p].at = "model" /\ proc'[p].call = w /\ proc'[p].user = proc[p].user
    BY <1>1, <1>2, <1>13, GoMoves DEF RunTool
  <2>3. ran'[w] \in {0, 1} /\ \A x \in Call \ {w} : ran'[x] = ran[x]
    BY <1>1, <1>2, <1>13, <2>1 DEF RunTool, TypeOK
  <2>4. RowOf(w)' /\ Decided(w)'
    BY <2>1, <2>3 DEF RowOf, Decided
  <2>5. Asks(p)'
    BY <2>1, <2>2 DEF Asks
  <2>6. Recovering'
    BY <1>1, <2>1 DEF Calls, Recovering, startup
  <2>7. QED
    BY <1>4, <2>1, <2>2, <2>3, <2>4, <2>5, <2>6, CallsLocal DEF WorkingSteps
<1>14. CASE Expire(p)
  <2>1. /\ UNCHANGED <<asked, answers, ran, prompts, lapsed>>
        /\ proc[p].at = "expire" /\ w \in Call /\ RowOf(w) /\ Decided(w)
        /\ delivery[w].status # "none" /\ (p = Main \/ delivery[w].shown)
    BY <1>1, <1>2, <1>3, <1>14 DEF Expire, session, slack, Asks
  <2>2. CASE Done(p) /\ UNCHANGED delivery
    BY <1>1, <1>5, <2>1, <2>2, DoneReturns DEF decisions, Ends
  <2>3. CASE /\ Open(w) /\ w \in lapsed /\ Go(p, "close") /\ UNCHANGED startup
             /\ delivery' = [delivery EXCEPT ![w].status = "expired"]
    <3>1. Moves(p) /\ proc'[p].at = "close" /\ proc'[p].call = w
      BY <1>1, <1>2, <2>3, GoMoves
    <3>2. /\ delivery'[w].status = "expired" /\ delivery'[w].shown = delivery[w].shown
          /\ delivery'[w].actor = delivery[w].actor /\ delivery'[w].conv = delivery[w].conv
          /\ \A x \in Call \ {w} : delivery'[x] = delivery[x]
      BY <1>1, <2>1, <2>3, RowWritten
    <3>3. Unanswered(w)
      BY <2>1, <2>3 DEF Open, RowOf
    <3>4. RowOf(w)' /\ Decided(w)'
      <4>1. answers'[w] = << >> /\ ran'[w] = 0
        BY <2>1, <3>3 DEF Unanswered
      <4>2. Decided(w)'
        BY <4>1 DEF Decided
      <4>3. QED
        BY <2>1, <2>3, <3>2, <4>2 DEF RowOf
    <3>5. Asks(p)'
      <4>1. Unanswered(w)' /\ w \in asked'
        BY <2>1, <3>3 DEF Unanswered, RowOf
      <4>2. QED
        BY <2>1, <3>1, <3>2, <4>1 DEF Asks
    <3>6. Recovering'
      <4>1. phase' # "pending"
        BY <1>1, <2>1, <2>3 DEF TypeOK, Proc, Idle, startup, StartShape
      <4>2. QED
        BY <4>1 DEF Recovering
    <3>7. \A q \in Proc : q # p /\ proc[q].call = w => proc[q].at \notin Working
      BY <1>2, <2>1, <2>3, OpenAlone
    <3>8. QED
      BY <2>1, <3>1, <3>2, <3>4, <3>5, <3>6, <3>7, CallsLocal
  <2>4. QED
    BY <1>2, <1>14, <2>2, <2>3 DEF Expire
<1>15. CASE Close(p)
  <2>1. /\ UNCHANGED <<delivery, asked, ran, prompts, lapsed>>
        /\ proc[p].at = "close" /\ w \in Call /\ RowOf(w) /\ Decided(w) /\ Unanswered(w)
        /\ delivery[w].status = "expired" /\ w \in asked /\ delivery[w].actor \in User
    BY <1>1, <1>2, <1>3, <1>15, NamesAssumption DEF Close, slack, Asks, WorkingSteps, RowOf
  <2>2. CASE Fail(p) /\ UNCHANGED answers
    BY <1>1, <1>5, <2>1, <2>2, FailEnds DEF decisions
  <2>3. CASE Answered(w, delivery[w].actor, FALSE) /\ Go(p, "closing") /\ UNCHANGED startup
    <3>1. Moves(p) /\ proc'[p].at = "closing" /\ proc'[p].call = w
      BY <1>1, <1>2, <2>3, GoMoves
    <3>2. /\ answers'[w] = << [by |-> delivery[w].actor, yes |-> FALSE] >>
          /\ \A x \in Call \ {w} : answers'[x] = answers[x]
      BY <1>1, <2>1, <2>3, AnswersWritten
    <3>3. /\ Len(answers'[w]) = 1 /\ DOMAIN answers'[w] = {1}
          /\ answers'[w][1].by = delivery[w].actor /\ answers'[w][1].yes = FALSE /\ ran'[w] = 0
      BY <2>1, <3>2 DEF Unanswered
    <3>4. RowOf(w)' /\ Decided(w)'
      <4>1. Decided(w)'
        BY <2>1, <3>3 DEF Decided
      <4>2. QED
        BY <2>1, <4>1 DEF RowOf
    <3>5. Asks(p)'
      BY <2>1, <3>1 DEF Asks
    <3>6. Recovering'
      BY <1>1, <2>1, <2>3 DEF Calls, Recovering, startup
    <3>7. QED
      BY <1>4, <2>1, <3>1, <3>2, <3>4, <3>5, <3>6, CallsLocal DEF WorkingSteps
  <2>4. QED
    BY <1>2, <1>15, <2>2, <2>3 DEF Close
<1>16. QED
  BY <1>6, <1>7, <1>8, <1>9, <1>10, <1>11, <1>12, <1>13, <1>14, <1>15 DEF HandlerStep

\* Steps that take up no call and write none.
LEMMA CallsStand ==
  ASSUME TurnsInv, UNCHANGED proc, UNCHANGED decisions, Recovering'
  PROVE  Calls'
<1>1. Calls
  BY DEF TurnsInv
<1>2. \A q \in Proc : Asks(q)'
  BY <1>1, AsksKept DEF Calls, decisions
<1>3. QED
  BY <1>1, <1>2, CallsStill

\* A goroutine takes up a message or a call.
LEMMA TakenUpCalls ==
  ASSUME TurnsInv, NEW p \in Proc, Moves(p), UNCHANGED decisions, UNCHANGED startup, Asks(p)',
         proc'[p].at \in Working => \A q \in Proc : q # p => proc[q].at \notin Working
  PROVE  Calls'
<1>1. Calls
  BY DEF TurnsInv
<1>2. \A w \in Call : RowOf(w)' /\ Decided(w)'
  BY <1>1 DEF Calls, decisions, RowOf, Decided, Unanswered
<1>3. ASSUME NEW q \in Proc PROVE Asks(q)'
  <2>1. CASE q = p
    BY <2>1
  <2>2. CASE q # p
    BY <1>1, <2>2, AsksKept DEF Calls, Moves, decisions
  <2>3. QED
    BY <2>1, <2>2
<1>4. \A q, r \in Proc :
        proc'[q].at \in Working /\ proc'[r].at \in Working /\ proc'[q].call = proc'[r].call => q = r
  BY <1>1 DEF Calls, Moves
<1>5. Recovering'
  BY <1>1 DEF Calls, Recovering, decisions, startup
<1>6. QED
  BY <1>2, <1>3, <1>4, <1>5 DEF Calls, Working, Prompting

LEMMA CallsNext ==
  ASSUME TurnsInv, [Next]_vars
  PROVE  Calls'
<1>1. TypeOK /\ Calls /\ Shapes /\ StartShape /\ Main \in Proc /\ Handler \subseteq Proc
  BY DEF TurnsInv, Shapes, Proc
<1>2. ASSUME NEW p \in Handler, NEW m \in Message, Receive(p, m) PROVE Calls'
  <2>1. UNCHANGED decisions /\ UNCHANGED startup
    BY <1>2 DEF Receive, session, slack, decisions
  <2>2. CASE proc' = proc
    BY <1>1, <2>1, <2>2, CallsStand DEF Calls, Recovering, decisions, startup
  <2>3. CASE proc' # proc
    <3>1. TakesUp(p, "intake", m, NoCall, FALSE, AuthorOf[m], ConversationOf[m])
      BY <1>1, <1>2, <2>3, ReceiveMoves
    <3>2. Asks(p)' /\ proc'[p].at \notin Working
      BY <3>1, WorkingIs DEF TakesUp, Asks, WorkingSteps
    <3>3. QED
      BY <1>1, <2>1, <3>1, <3>2, TakenUpCalls DEF TakesUp
  <2>4. QED
    BY <2>2, <2>3
<1>3. ASSUME NEW p \in Handler, NEW w \in Call, NEW u \in User, NEW yes \in BOOLEAN, Click(p, w, u, yes)
      PROVE  Calls'
  <2>1. UNCHANGED decisions /\ UNCHANGED startup
    BY <1>3 DEF Click, session, slack, decisions
  <2>2. TakesUp(p, IF w \in lapsed THEN "lapse" ELSE "enter", NoMessage, w, yes /\ w \notin lapsed,
                u, delivery[w].conv)
    BY <1>1, <1>3, ClickMoves
  <2>3. proc'[p].at \in {"lapse", "enter"} /\ proc'[p].call = w /\ proc'[p].user = u /\ Moves(p)
    BY <2>2 DEF TakesUp
  <2>4. delivery[w].shown /\ delivery[w].actor = u /\ delivery[w].status # "none" /\ w \in asked
    BY <1>1, <1>3 DEF Click, Entitled, Calls, RowOf
  <2>5. Asks(p)' /\ proc'[p].at \notin Working
    BY <2>1, <2>3, <2>4, WorkingIs DEF Asks, decisions, WorkingSteps
  <2>6. QED
    BY <1>1, <2>1, <2>3, <2>5, TakenUpCalls
<1>4. ASSUME NEW w \in Call, ExpireListed(w) PROVE Calls'
  <2>1. UNCHANGED decisions /\ UNCHANGED startup
    BY <1>4 DEF ExpireListed, session, slack, decisions
  <2>2. proc'[Main].at = "lapse" /\ proc'[Main].call = w /\ Moves(Main)
    BY <1>1, <1>4, ExpireListedMoves DEF TakesUp
  <2>3. delivery[w].status # "none" /\ w \in asked
    BY <1>1, <1>4 DEF ExpireListed, StartShape, Calls, RowOf
  <2>4. Asks(Main)' /\ proc'[Main].at \notin Working
    BY <2>1, <2>2, <2>3, WorkingIs DEF Asks, decisions, WorkingSteps
  <2>5. QED
    BY <1>1, <2>1, <2>2, <2>4, TakenUpCalls
<1>5. ASSUME NEW w \in Call, RecoverPending(w) PROVE Calls'
  <2>1. UNCHANGED decisions /\ UNCHANGED startup
    BY <1>5 DEF RecoverPending, session, slack, decisions
  <2>2. proc'[Main].at = (IF Shown(w) THEN "mark" ELSE "post") /\ proc'[Main].call = w /\ Moves(Main)
    BY <1>1, <1>5, RecoverPendingMoves DEF TakesUp
  <2>3. delivery[w].status = "pending" /\ w \in asked /\ prompts[w] = (IF Shown(w) THEN 1 ELSE 0)
    BY <1>1, <1>5 DEF RecoverPending, Recovering, Calls, RowOf, Shown
  <2>4. Asks(Main)'
    BY <2>1, <2>2, <2>3 DEF Asks, decisions
  <2>5. \A q \in Proc : q # Main => proc[q].at \notin Working
    <3>1. "idle" \notin Working /\ Idle.at = "idle"
      BY WorkingIs DEF WorkingSteps, Idle
    <3>2. QED
      BY <1>1, <1>5, <3>1 DEF RecoverPending, TypeOK, Proc
  <2>6. QED
    BY <1>1, <2>1, <2>2, <2>4, <2>5, TakenUpCalls
<1>6. ASSUME Start \/ LookUpPrepared \/ ListExpired \/ ListPending \/ Serve PROVE Calls'
  <2>1. UNCHANGED proc /\ UNCHANGED decisions
    BY <1>6 DEF Start, LookUpPrepared, ListExpired, ListPending, Serve, memory, session, slack, decisions
  <2>2. Recovering'
    BY <1>1, <1>6, <2>1 DEF Start, LookUpPrepared, ListExpired, ListPending, Serve, Recovering, decisions
  <2>3. QED
    BY <2>1, <2>2, CallsStand
<1>7. ASSUME NEW m \in Message, FinalizePublished(m) \/ MarkMatched(m) PROVE Calls'
  <2>1. UNCHANGED proc /\ UNCHANGED decisions
    BY <1>7 DEF FinalizePublished, MarkMatched, memory, session, slack, decisions
  <2>2. Recovering'
    BY <1>1, <1>7 DEF FinalizePublished, MarkMatched, startup, Recovering
  <2>3. QED
    BY <2>1, <2>2, CallsStand
<1>8. ASSUME Crash PROVE Calls'
  <2>1. UNCHANGED decisions /\ Exit
    BY <1>8 DEF Crash, session, slack, decisions
  <2>2. \A w \in Call : RowOf(w)' /\ Decided(w)'
    BY <1>1, <2>1 DEF Calls, decisions, RowOf, Decided, Unanswered
  <2>3. QED
    BY <2>1, <2>2, CallsExit
<1>9. ASSUME NEW w \in Call, Lapse(w) PROVE Calls'
  <2>1. /\ UNCHANGED <<delivery, asked, answers, ran, prompts>> /\ UNCHANGED proc /\ UNCHANGED startup
        /\ lapsed' = lapsed \union {w} /\ delivery[w].status # "none"
    BY <1>9 DEF Lapse, memory, session, slack
  <2>2. \A x \in Call : RowOf(x)' /\ Decided(x)'
    BY <1>1, <2>1 DEF Calls, RowOf, Decided, Unanswered
  <2>3. \A q \in Proc : Asks(q)'
    BY <1>1, <2>1, AsksKept DEF Calls
  <2>4. Recovering'
    BY <1>1, <2>1 DEF Calls, Recovering, startup
  <2>5. QED
    BY <1>1, <2>1, <2>2, <2>3, <2>4 DEF Calls, Working, Prompting
<1>10. ASSUME UNCHANGED vars PROVE Calls'
  BY <1>1, <1>10, CallsStand DEF vars, memory, startup, session, slack, decisions, Calls, Recovering
<1>11. QED
  BY <1>2, <1>3, <1>4, <1>5, <1>6, <1>7, <1>8, <1>9, <1>10, HandlerCalls DEF Next, StartStep

-----------------------------------------------------------------------------
(* The types.                                                              *)

ProcTyped ==
  /\ phase \in {"down", "exchanges", "matched", "expired", "pending", "serving"}
  /\ todo \subseteq Message \union Call /\ starts \in 0..MaxStarts
  /\ proc \in [Proc -> Line]
  /\ phase # "serving" => \A p \in Handler : proc[p] = Idle
  /\ phase = "serving" => proc[Main] = Idle

LimitsTyped == busy \subseteq Conversation /\ permits \in 0..MaxConcurrent /\ Cardinality(busy) <= MaxConcurrent

StoreTyped ==
  /\ stored \subseteq claimed /\ claimed \subseteq Message /\ remembered \subseteq stored
  /\ intent \in [Message -> {"none", "prepared", "published"}]
  /\ posted \in [Message -> Nat]

DeliveryLine == [status : {"none", "pending", "published", "consumed", "rejected", "expired"},
                 shown : BOOLEAN, actor : User \union {NoUser}, conv : Conversation \union {NoConversation}]

CallsTyped ==
  /\ delivery \in [Call -> DeliveryLine]
  /\ asked \subseteq Call /\ lapsed \subseteq asked
  /\ answers \in [Call -> Seq([by : User, yes : BOOLEAN])] /\ ran \in [Call -> Nat]
  /\ prompts \in [Call -> Nat]

LEMMA TypeParts == TypeOK <=> ProcTyped /\ LimitsTyped /\ StoreTyped /\ CallsTyped
BY DEF TypeOK, ProcTyped, LimitsTyped, StoreTyped, CallsTyped, Line, DeliveryLine

LEMMA ProcTypedNext ==
  ASSUME TurnsInv, [Next]_vars
  PROVE  ProcTyped'
<1> USE StepSets
<1>1. TypeOK /\ ProcTyped /\ Shapes /\ StartShape /\ Main \in Proc /\ Handler \subseteq Proc /\ Main \notin Handler
  BY TypeParts, HandlersAssumption DEF TurnsInv, Shapes, Proc
<1>2. ASSUME Exit PROVE ProcTyped'
  <2>1. proc' \in [Proc -> Line] /\ \A p \in Proc : proc'[p] = Idle
    BY <1>2, IdleTyped DEF Exit
  <2>2. phase' = "down" /\ todo' = {} /\ starts' = starts
    BY <1>2 DEF Exit
  <2>3. QED
    BY <1>1, <2>1, <2>2 DEF ProcTyped
<1>3. ASSUME NEW p \in Proc, HandlerStep(p) PROVE ProcTyped'
  <2>1. proc[p].at # "idle"
    BY <1>3 DEF HandlerStep, Acquire, StoreMessage, TakePermit, Model, Prepare, Publish, MarkExchange,
      Finalize, CreateDelivery, PublishConfirmation, MarkPublished, Decide, Resume, RunTool,
      Expire, Close, Closed, Waiting
  <2>2. (phase = "serving" => p # Main) /\ (phase # "serving" => p \notin Handler)
    BY <1>1, <2>1 DEF ProcTyped, Idle
  <2>3. ASSUME Moves(p), phase' = phase, starts' = starts, todo' \subseteq todo PROVE ProcTyped'
    BY <1>1, <2>2, <2>3 DEF ProcTyped, Moves
  <2>4. QED
    BY <1>2, <1>3, <2>3, StepMoves DEF Ends, Returns, Advances, startup
<1>4. ASSUME NEW p \in Handler, Moves(p), phase = "serving", UNCHANGED startup PROVE ProcTyped'
  BY <1>1, <1>4 DEF ProcTyped, Moves, startup
<1>5. ASSUME NEW p \in Handler, NEW m \in Message, Receive(p, m) PROVE ProcTyped'
  <2>1. CASE proc' = proc
    BY <1>1, <1>5, <2>1 DEF Receive, ProcTyped, startup
  <2>2. CASE proc' # proc
    BY <1>1, <1>4, <1>5, <2>2, ReceiveMoves DEF TakesUp, Receive
  <2>3. QED
    BY <2>1, <2>2
<1>6. ASSUME NEW p \in Handler, NEW w \in Call, NEW u \in User, NEW yes \in BOOLEAN, Click(p, w, u, yes)
      PROVE  ProcTyped'
  BY <1>1, <1>4, <1>6, ClickMoves DEF TakesUp, Click
<1>7. ASSUME Moves(Main), phase # "serving", UNCHANGED startup PROVE ProcTyped'
  BY <1>1, <1>7 DEF ProcTyped, Moves, startup
<1>8. ASSUME NEW w \in Call, ExpireListed(w) PROVE ProcTyped'
  BY <1>1, <1>7, <1>8, ExpireListedMoves DEF TakesUp, ExpireListed
<1>9. ASSUME NEW w \in Call, RecoverPending(w) PROVE ProcTyped'
  BY <1>1, <1>7, <1>9, RecoverPendingMoves DEF TakesUp, RecoverPending
<1>10. ASSUME Start \/ LookUpPrepared \/ ListExpired \/ ListPending PROVE ProcTyped'
  <2>1. UNCHANGED proc /\ phase # "serving" /\ phase' \in {"exchanges", "matched", "expired", "pending"}
    BY <1>10 DEF Start, LookUpPrepared, ListExpired, ListPending, memory
  <2>2. starts' \in 0..MaxStarts
    BY <1>1, <1>10, HandlersAssumption DEF Start, LookUpPrepared, ListExpired, ListPending, ProcTyped
  <2>3. todo' \subseteq Message \union Call
    BY <1>1, <1>10 DEF Start, LookUpPrepared, ListExpired, ListPending, ProcTyped, TypeOK
  <2>4. QED
    BY <1>1, <2>1, <2>2, <2>3 DEF ProcTyped
<1>11. ASSUME Serve PROVE ProcTyped'
  <2>1. proc[Main] = Idle
    BY <1>1, <1>11 DEF Serve, Reconciled, Shapes, Shape
  <2>2. QED
    BY <1>1, <1>11, <2>1 DEF Serve, memory, ProcTyped
<1>12. ASSUME NEW m \in Message, FinalizePublished(m) \/ MarkMatched(m) PROVE ProcTyped'
  BY <1>1, <1>12 DEF FinalizePublished, MarkMatched, memory, startup, ProcTyped
<1>13. ASSUME (\E w \in Call : Lapse(w)) \/ UNCHANGED vars PROVE ProcTyped'
  BY <1>1, <1>13 DEF Lapse, vars, memory, startup, ProcTyped
<1>14. QED
  BY <1>2, <1>3, <1>5, <1>6, <1>8, <1>9, <1>10, <1>11, <1>12, <1>13 DEF Next, StartStep, Crash

LEMMA LimitsTypedNext ==
  ASSUME TurnsInv, [Next]_vars, Limits', ProcTyped'
  PROVE  LimitsTyped'
<1> USE StepSets
<1>1. LimitsTyped /\ Limits /\ Held /\ Spent /\ TypeOK
  BY TypeParts DEF TurnsInv, Limits, Held, Spent
<1>2. busy' \subseteq Conversation
  BY DEF Limits, Held, Holders, ProcTyped, Line
<1>3. \/ busy' \subseteq busy
      \/ \E c \in Conversation : Free(c) /\ busy' = busy \union {c}
  <2>1. ASSUME NEW p \in Proc, HandlerStep(p) PROVE <1>3
    <3>1. ASSUME Leave(p) \/ Done(p) \/ Fail(p) PROVE busy' \subseteq busy
      BY <3>1 DEF Leave, Done, Fail, Exit, Released
    <3>2. CASE Acquire(p)
      <4>1. proc[p].conv \in Conversation
        BY <3>2 DEF Acquire, Waiting, TurnsInv, Shapes, Shape, StartShape, Proc
      <4>2. QED
        BY <3>1, <3>2, <4>1 DEF Acquire
    <3>3. CASE ~Acquire(p)
      BY <2>1, <3>1, <3>3 DEF HandlerStep, StoreMessage, TakePermit, Model, Prepare, Publish, MarkExchange,
        Finalize, CreateDelivery, PublishConfirmation, MarkPublished, Decide, Resume, RunTool,
        Expire, Close, Closed
    <3>4. QED
      BY <3>2, <3>3
  <2>2. ASSUME StartStep \/ Crash PROVE busy' \subseteq busy
    BY <2>2 DEF StartStep, Crash, Exit, Start, LookUpPrepared, ListExpired, ListPending, Serve,
      FinalizePublished, MarkMatched, ExpireListed, RecoverPending, memory
  <2>3. QED
    BY <2>1, <2>2 DEF Next, Receive, Click, Lapse, vars, memory
<1>4. Cardinality(busy') <= MaxConcurrent
  <2>1. IsFiniteSet(busy) /\ Cardinality(busy) \in Nat
    BY <1>1, FS_CardinalityType DEF Held
  <2>2. CASE busy' \subseteq busy
    <3>1. IsFiniteSet(busy') /\ Cardinality(busy') <= Cardinality(busy)
      BY <2>1, <2>2, FS_Subset
    <3>2. Cardinality(busy') \in Nat /\ Cardinality(busy) <= MaxConcurrent
      BY <1>1, <3>1, FS_CardinalityType DEF LimitsTyped
    <3>3. QED
      BY <2>1, <3>1, <3>2, HandlersAssumption
  <2>3. ASSUME NEW c \in Conversation, Free(c), busy' = busy \union {c} PROVE Cardinality(busy') <= MaxConcurrent
    <3>1. c \notin busy /\ Cardinality(busy) < MaxConcurrent
      BY <2>3 DEF Free
    <3>2. Cardinality(busy \union {c}) = Cardinality(busy) + 1
      BY <2>1, <3>1, FS_AddElement
    <3>3. QED
      BY <2>1, <2>3, <3>1, <3>2, HandlersAssumption
  <2>4. QED
    BY <1>3, <2>2, <2>3
<1>5. permits' \in 0..MaxConcurrent
  <2>1. permits' \in Nat
    BY FS_CardinalityType DEF Limits, Spent
  <2>2. permits' <= permits \/ (permits < MaxConcurrent /\ permits' = permits + 1)
    <3>1. ASSUME NEW p \in Proc, HandlerStep(p)
          PROVE  \/ permits' \in {permits, permits - 1, 0}
                 \/ permits < MaxConcurrent /\ permits' = permits + 1
      BY <3>1 DEF HandlerStep, Acquire, StoreMessage, TakePermit, Model, Prepare, Publish, MarkExchange,
        Finalize, CreateDelivery, PublishConfirmation, MarkPublished, Decide, Resume, RunTool,
        Expire, Close, Closed, Done, Fail, Exit
    <3>2. ASSUME StartStep \/ Crash PROVE permits' \in {permits, 0}
      BY <3>2 DEF StartStep, Crash, Exit, Start, LookUpPrepared, ListExpired, ListPending, Serve,
        FinalizePublished, MarkMatched, ExpireListed, RecoverPending, memory
    <3>3. \/ permits' \in {permits, permits - 1, 0}
          \/ permits < MaxConcurrent /\ permits' = permits + 1
      BY <3>1, <3>2 DEF Next, Receive, Click, Lapse, vars, memory
    <3>4. QED
      BY <1>1, <3>3, HandlersAssumption DEF LimitsTyped
  <2>3. QED
    BY <1>1, <2>1, <2>2, HandlersAssumption DEF LimitsTyped
<1>6. QED
  BY <1>2, <1>4, <1>5 DEF LimitsTyped

LEMMA StoreTypedNext ==
  ASSUME TurnsInv, [Next]_vars
  PROVE  StoreTyped'
<1> USE StepSets
<1>1. StoreTyped /\ Messages /\ proc \in [Proc -> Line] /\ Shapes
  BY TypeParts DEF TurnsInv, ProcTyped
<1>2. ASSUME UNCHANGED answersShown PROVE StoreTyped'
  BY <1>1, <1>2 DEF StoreTyped, answersShown
<1>3. ASSUME NEW p, NEW m \in Message, Receive(p, m) PROVE StoreTyped'
  BY <1>1, <1>3 DEF Receive, StoreTyped, slack
<1>4. ASSUME NEW p \in Proc, HandlerStep(p) PROVE StoreTyped'
  <2>1. PICK m : m = proc[p].msg
    OBVIOUS
  <2>2. CASE proc[p].at \in {"load", "prepare", "publish", "record", "finalize"}
    <3>1. m \in Message /\ Turn(p) /\ Ledger(m)
      BY <1>1, <2>1, <2>2 DEF Shapes, Shape, Line, Answering, Messages
    <3>2. m \in claimed
      BY <2>1, <3>1, NamesAssumption DEF Turn
    <3>3. CASE StoreMessage(p)
      BY <1>1, <2>1, <3>2, <3>3 DEF StoreMessage, StoreTyped, slack
    <3>4. CASE Prepare(p) \/ MarkExchange(p)
      BY <1>1, <2>1, <3>1, <3>4 DEF Prepare, MarkExchange, StoreTyped, slack
    <3>5. CASE Publish(p)
      BY <1>1, <2>1, <3>1, <3>5 DEF Publish, StoreTyped, store
    <3>6. CASE Finalize(p)
      <4>1. intent[m] = "published" /\ m \in stored
        BY <2>1, <3>1, <3>6, NamesAssumption DEF Finalize, Turn, Ledger
      <4>2. QED
        BY <1>1, <2>1, <3>6, <4>1 DEF Finalize, Finalized, StoreTyped, slack
    <3>7. QED
      BY <1>4, <2>2, <3>3, <3>4, <3>5, <3>6 DEF HandlerStep, Acquire, TakePermit, Model,
        CreateDelivery, PublishConfirmation, MarkPublished, Decide, Resume, RunTool,
        Expire, Close, Closed, Waiting
  <2>3. CASE proc[p].at \notin {"load", "prepare", "publish", "record", "finalize"}
    <3>1. UNCHANGED answersShown
      BY <1>4, <2>3 DEF HandlerStep, Acquire, StoreMessage, TakePermit, Model, Prepare, Publish, MarkExchange,
        Finalize, CreateDelivery, PublishConfirmation, MarkPublished, Decide, Resume, RunTool,
        Expire, Close, Closed, store, slack, answersShown
    <3>2. QED
      BY <1>2, <3>1
  <2>4. QED
    BY <2>2, <2>3
<1>5. ASSUME NEW m \in Message, FinalizePublished(m) \/ MarkMatched(m) PROVE StoreTyped'
  <2>1. intent[m] = "published" => m \in stored
    BY <1>1 DEF Messages, Ledger
  <2>2. QED
    BY <1>1, <1>5, <2>1 DEF FinalizePublished, MarkMatched, Finalized, Unfinalized, StoreTyped, slack
<1>6. ASSUME Start \/ LookUpPrepared \/ ListExpired \/ ListPending \/ Serve \/ Crash PROVE StoreTyped'
  BY <1>2, <1>6 DEF Start, LookUpPrepared, ListExpired, ListPending, Serve, Crash, store, slack, answersShown
<1>7. ASSUME NEW w \in Call, ExpireListed(w) \/ RecoverPending(w) \/ Lapse(w) PROVE StoreTyped'
  BY <1>2, <1>7 DEF ExpireListed, RecoverPending, Lapse, store, slack, answersShown
<1>8. ASSUME NEW p, NEW w, NEW u, NEW yes, Click(p, w, u, yes) PROVE StoreTyped'
  BY <1>2, <1>8 DEF Click, store, slack, answersShown
<1>9. ASSUME UNCHANGED vars PROVE StoreTyped'
  BY <1>2, <1>9 DEF vars, store, slack, answersShown
<1>10. QED
  BY <1>3, <1>4, <1>5, <1>6, <1>7, <1>8, <1>9 DEF Next, StartStep

LEMMA CallsTypedNext ==
  ASSUME TurnsInv, [Next]_vars
  PROVE  CallsTyped'
<1> USE StepSets
<1>1. CallsTyped /\ Calls /\ TypeOK /\ proc \in [Proc -> Line] /\ Shapes
  BY TypeParts DEF TurnsInv, ProcTyped
<1>2. ASSUME UNCHANGED decisions PROVE CallsTyped'
  BY <1>1, <1>2 DEF CallsTyped, decisions
<1>3. ASSUME NEW p \in Proc, HandlerStep(p) PROVE CallsTyped'
  <2>1. PICK w : w = proc[p].call
    OBVIOUS
  <2>2. Asks(p) /\ Shape(p) /\ proc[p] \in Line
    BY <1>1 DEF Calls, Shapes
  <2>3. ASSUME proc[p].at \in WorkingSteps \union {"decide", "expire"} PROVE w \in Call /\ RowOf(w)
    BY <1>1, <2>1, <2>2, <2>3 DEF Shape, Line, WorkingSteps, Prompting, Calls
  <2>4. CASE Model(p)
    BY <1>1, <2>4 DEF Model, CallsTyped, slack
  <2>5. CASE CreateDelivery(p)
    <3>1. w \in Call
      BY <2>3, <2>5 DEF CreateDelivery, WorkingSteps
    <3> DEFINE d == [status |-> "pending", shown |-> FALSE, actor |-> proc[p].user, conv |-> proc[p].conv]
    <3>2. d \in DeliveryLine
      <4>1. proc[p].user \in User \union {NoUser} /\ proc[p].conv \in Conversation \union {NoConversation}
        BY <2>2 DEF Line
      <4>2. QED
        BY <4>1 DEF DeliveryLine
    <3>3. delivery' = delivery \/ delivery' = [delivery EXCEPT ![w] = d]
      BY <2>1, <2>5 DEF CreateDelivery
    <3>4. UNCHANGED <<asked, lapsed, answers, ran, prompts>>
      BY <2>5 DEF CreateDelivery, session, slack
    <3> HIDE DEF d
    <3>5. QED
      BY <1>1, <3>2, <3>3, <3>4 DEF CallsTyped
  <2>6. CASE PublishConfirmation(p)
    <3>1. prompts' \in [Call -> Nat]
      BY <1>1, <2>6 DEF PublishConfirmation, CallsTyped
    <3>2. UNCHANGED <<asked, lapsed, answers, ran, delivery>>
      BY <2>6 DEF PublishConfirmation, session
    <3>3. QED
      BY <1>1, <3>1, <3>2 DEF CallsTyped
  <2>7. CASE MarkPublished(p)
    <3>1. w \in Call
      BY <2>3, <2>7 DEF MarkPublished, WorkingSteps
    <3> DEFINE d == [delivery[w] EXCEPT !.status = "published", !.shown = TRUE]
    <3>2. d \in DeliveryLine
      <4>1. PICK e \in DeliveryLine : e = delivery[w]
        BY <1>1, <3>1 DEF CallsTyped
      <4>2. [e EXCEPT !.status = "published", !.shown = TRUE] \in DeliveryLine
        BY DEF DeliveryLine
      <4>3. QED
        BY <4>1, <4>2
    <3>3. delivery' = delivery \/ delivery' = [delivery EXCEPT ![w] = d]
      <4>1. CASE delivery' = [delivery EXCEPT ![w].status = "published", ![w].shown = TRUE]
        BY <1>1, <3>1, <4>1 DEF CallsTyped
      <4>2. QED
        BY <2>1, <2>7, <4>1 DEF MarkPublished
    <3>4. UNCHANGED <<asked, lapsed, answers, ran, prompts>>
      BY <2>7 DEF MarkPublished, session, slack
    <3> HIDE DEF d
    <3>5. QED
      BY <1>1, <3>1, <3>2, <3>3, <3>4 DEF CallsTyped
  <2>8. CASE Decide(p) \/ Expire(p)
    <3>1. w \in Call
      BY <2>3, <2>8 DEF Decide, Expire
    <3>2. \A s \in {"consumed", "rejected", "expired"} : [delivery[w] EXCEPT !.status = s] \in DeliveryLine
      <4>1. PICK e \in DeliveryLine : e = delivery[w]
        BY <1>1, <3>1 DEF CallsTyped
      <4>2. \A s \in {"consumed", "rejected", "expired"} : [e EXCEPT !.status = s] \in DeliveryLine
        BY DEF DeliveryLine
      <4>3. QED
        BY <4>1, <4>2
    <3>3. \/ delivery' = delivery
          \/ \E s \in {"consumed", "rejected", "expired"} : delivery' = [delivery EXCEPT ![w].status = s]
      BY <2>1, <2>8 DEF Decide, Expire
    <3>4. UNCHANGED <<asked, lapsed, answers, ran, prompts>>
      BY <2>8 DEF Decide, Expire, session, slack
    <3>5. ASSUME NEW s \in {"consumed", "rejected", "expired"}, delivery' = [delivery EXCEPT ![w].status = s]
          PROVE  CallsTyped'
      <4> DEFINE d == [delivery[w] EXCEPT !.status = s]
      <4>1. d \in DeliveryLine /\ delivery' = [delivery EXCEPT ![w] = d]
        BY <3>2, <3>5
      <4> HIDE DEF d
      <4>2. QED
        BY <1>1, <3>1, <3>4, <4>1 DEF CallsTyped
    <3>6. QED
      BY <1>1, <3>3, <3>4, <3>5 DEF CallsTyped
  <2>9. CASE Resume(p) \/ Close(p)
    <3>1. w \in Call /\ RowOf(w)
      BY <2>3, <2>9 DEF Resume, Close, WorkingSteps
    <3>2. \/ answers' = answers
          \/ \E by \in User, yes \in BOOLEAN : Answered(w, by, yes)
      <4>1. CASE Resume(p)
        <5>1. proc[p].user \in User /\ proc[p].yes \in BOOLEAN
          BY <1>1, <2>2, <4>1 DEF Resume, Shape, Shapes, StartShape, Proc, Line
        <5>2. QED
          BY <2>1, <4>1, <5>1 DEF Resume
      <4>2. CASE Close(p)
        <5>1. delivery[w].actor \in User
          BY <2>1, <2>2, <3>1, <4>2 DEF Close, Asks, RowOf
        <5>2. QED
          BY <2>1, <4>2, <5>1 DEF Close
      <4>3. QED
        BY <2>9, <4>1, <4>2
    <3>3. ASSUME NEW by \in User, NEW yes \in BOOLEAN, Answered(w, by, yes)
          PROVE  answers' \in [Call -> Seq([by : User, yes : BOOLEAN])]
      <4>1. Append(answers[w], [by |-> by, yes |-> yes]) \in Seq([by : User, yes : BOOLEAN])
        <5>1. answers[w] \in Seq([by : User, yes : BOOLEAN])
          BY <1>1, <3>1 DEF CallsTyped
        <5>2. QED
          BY <5>1
      <4>2. QED
        BY <1>1, <3>1, <3>3, <4>1 DEF Answered, CallsTyped
    <3>4. QED
      BY <1>1, <2>9, <3>2, <3>3 DEF Resume, Close, CallsTyped, slack
  <2>10. CASE RunTool(p)
    <3>1. ran' \in [Call -> Nat]
      BY <1>1, <2>10 DEF RunTool, CallsTyped
    <3>2. UNCHANGED <<asked, lapsed, answers, prompts, delivery>>
      BY <2>10 DEF RunTool, slack
    <3>3. QED
      BY <1>1, <3>1, <3>2 DEF CallsTyped
  <2>11. CASE Acquire(p) \/ StoreMessage(p) \/ TakePermit(p) \/ Prepare(p) \/ Publish(p) \/ MarkExchange(p)
              \/ Finalize(p) \/ Closed(p)
    <3>1. CASE Acquire(p) \/ StoreMessage(p) \/ TakePermit(p) \/ Closed(p)
      BY <1>2, <3>1 DEF Acquire, StoreMessage, TakePermit, Closed, session, slack, decisions
    <3>2. CASE Prepare(p) \/ MarkExchange(p)
      BY <1>2, <3>2 DEF Prepare, MarkExchange, session, slack, decisions
    <3>3. CASE Publish(p)
      BY <1>2, <3>3 DEF Publish, session, decisions
    <3>4. CASE Finalize(p)
      BY <1>2, <3>4 DEF Finalize, session, slack, decisions
    <3>5. QED
      BY <2>11, <3>1, <3>2, <3>3, <3>4
  <2>12. QED
    BY <1>3, <2>4, <2>5, <2>6, <2>7, <2>8, <2>9, <2>10, <2>11 DEF HandlerStep
<1>4. ASSUME NEW p, NEW m, Receive(p, m) PROVE CallsTyped'
  BY <1>2, <1>4 DEF Receive, session, slack, decisions
<1>5. ASSUME NEW m \in Message, FinalizePublished(m) \/ MarkMatched(m) PROVE CallsTyped'
  BY <1>2, <1>5 DEF FinalizePublished, MarkMatched, session, slack, decisions
<1>6. ASSUME Start \/ LookUpPrepared \/ ListExpired \/ ListPending \/ Serve \/ Crash PROVE CallsTyped'
  BY <1>2, <1>6 DEF Start, LookUpPrepared, ListExpired, ListPending, Serve, Crash, session, slack, decisions
<1>7. ASSUME NEW w \in Call, ExpireListed(w) \/ RecoverPending(w) PROVE CallsTyped'
  BY <1>2, <1>7 DEF ExpireListed, RecoverPending, session, slack, decisions
<1>8. ASSUME NEW w \in Call, Lapse(w) PROVE CallsTyped'
  <2>1. w \in asked
    BY <1>1, <1>8 DEF Lapse, Calls, RowOf
  <2>2. QED
    BY <1>1, <1>8, <2>1 DEF Lapse, CallsTyped, session, slack
<1>9. ASSUME NEW p, NEW w, NEW u, NEW yes, Click(p, w, u, yes) PROVE CallsTyped'
  BY <1>2, <1>9 DEF Click, session, slack, decisions
<1>10. ASSUME UNCHANGED vars PROVE CallsTyped'
  BY <1>2, <1>10 DEF vars, session, slack, decisions
<1>11. QED
  BY <1>3, <1>4, <1>5, <1>6, <1>7, <1>8, <1>9, <1>10 DEF Next, StartStep

-----------------------------------------------------------------------------
(* The invariant and what follows from it.                                 *)

LEMMA TurnsInit == Init => TurnsInv
<1> SUFFICES ASSUME Init PROVE TurnsInv
  OBVIOUS
<1> USE StepSets
<1>1. proc = [p \in Proc |-> Idle] /\ Main \in Proc /\ \A p \in Proc : proc[p] = Idle
  BY DEF Init, Proc
<1>2. Idle.at = "idle" /\ Idle.msg = NoMessage /\ Idle.call = NoCall /\ Idle.conv = NoConversation
  BY DEF Idle
<1>3. TypeOK
  <2>1. ProcTyped
    <3>1. proc \in [Proc -> Line] /\ \A p \in Handler : proc[p] = Idle
      BY <1>1, IdleTyped DEF Proc
    <3>2. phase = "down" /\ todo = {} /\ starts \in 0..MaxStarts
      BY HandlersAssumption DEF Init
    <3>3. QED
      BY <3>1, <3>2 DEF ProcTyped
  <2>2. LimitsTyped
    BY HandlersAssumption, FS_EmptySet DEF Init, LimitsTyped
  <2>3. StoreTyped
    BY DEF Init, StoreTyped
  <2>4. CallsTyped
    <3>1. NoDelivery \in DeliveryLine
      BY DEF NoDelivery, DeliveryLine
    <3>2. << >> \in Seq([by : User, yes : BOOLEAN])
      OBVIOUS
    <3>3. QED
      BY <3>1, <3>2 DEF Init, CallsTyped
  <2>5. QED
    BY <2>1, <2>2, <2>3, <2>4, TypeParts
<1>4. Shapes
  <2>1. StartShape
    BY <1>1, <1>2 DEF Init, StartShape
  <2>2. ASSUME NEW p \in Proc PROVE Shape(p)
    BY <1>1, <1>2 DEF Shape, Answering, Prompting
  <2>3. QED
    BY <2>1, <2>2 DEF Shapes
<1>5. Limits
  <2>1. Holders = {} /\ Spenders = {}
    BY <1>1, <1>2 DEF Holders, Spenders
  <2>2. QED
    BY <2>1, FS_EmptySet DEF Init, Limits, Held, Spent
<1>6. Messages
  <2>1. \A m \in Message : Ledger(m)
    BY DEF Init, Ledger, Fresh
  <2>2. \A p \in Proc : Turn(p)
    BY <1>1, <1>2 DEF Turn
  <2>3. Reconciling
    BY DEF Init, Reconciling
  <2>4. QED
    BY <1>1, <1>2, <2>1, <2>2, <2>3 DEF Messages
<1>7. Calls
  <2>1. ASSUME NEW w \in Call PROVE RowOf(w) /\ Decided(w)
    <3>1. delivery[w] = NoDelivery /\ answers[w] = << >> /\ ran[w] = 0 /\ prompts[w] = 0 /\ lapsed = {}
      BY DEF Init
    <3>2. NoDelivery.status = "none" /\ NoDelivery.shown = FALSE
      BY DEF NoDelivery
    <3>3. RowOf(w)
      BY <3>1, <3>2 DEF RowOf, Unanswered
    <3>4. QED
      BY <3>1, <3>3 DEF Decided
  <2>2. \A p \in Proc : Asks(p)
    BY <1>1, <1>2 DEF Asks
  <2>3. Recovering
    BY DEF Init, Recovering
  <2>4. \A p \in Proc : proc[p].at \notin Working
    BY <1>1, <1>2 DEF Working, Prompting
  <2>5. QED
    BY <2>1, <2>2, <2>3, <2>4 DEF Calls
<1>8. QED
  BY <1>3, <1>4, <1>5, <1>6, <1>7 DEF TurnsInv

LEMMA TurnsNext ==
  ASSUME TurnsInv, [Next]_vars
  PROVE  TurnsInv'
<1>1. ProcTyped' /\ StoreTyped' /\ CallsTyped'
  BY ProcTypedNext, StoreTypedNext, CallsTypedNext
<1>2. Shapes' /\ Limits' /\ Messages' /\ Calls'
  BY ShapesNext, LimitsNext, MessagesNext, CallsNext
<1>3. LimitsTyped'
  BY <1>1, <1>2, LimitsTypedNext
<1>4. TypeOK'
  BY <1>1, <1>3 DEF TypeOK, ProcTyped, LimitsTyped, StoreTyped, CallsTyped, Line, DeliveryLine
<1>5. QED
  BY <1>2, <1>4 DEF TurnsInv

\* In every reachable state of the turns each goroutine works on what its step
\* says, the limiters count what is held, a message has one goroutine and one
\* answer, and a call one delivery, one prompt and one response.
THEOREM Invariant == Spec => []TurnsInv
<1>1. TurnsInv /\ [Next]_vars => TurnsInv'
  BY TurnsNext
<1>2. QED
  BY <1>1, TurnsInit, PTL DEF Spec

\* Every variable keeps its type, the limiters their bound, and goroutines work
\* only in the phase their kind belongs to (bot.Service, Limiter).
THEOREM TypeCorrect == Spec => []TypeOK
<1>1. TurnsInv => TypeOK
  BY DEF TurnsInv
<1>2. QED
  BY <1>1, Invariant, PTL

\* However clicks, the expiry, crashes and restarts interleave, a call gets at
\* most one response, its requester's and in agreement with the delivery, and
\* its tool runs at most once and only when approved (MarkConsumed,
\* RejectDelivery and ExpireDelivery as compare-and-set).
THEOREM DecisionTakesEffectOnce == Spec => []DecidedOnce
<1>1. ASSUME TurnsInv PROVE DecidedOnce
  <2>1. \A w \in Call : RowOf(w) /\ Decided(w)
    BY <1>1 DEF TurnsInv, Calls
  <2>2. QED
    BY <2>1 DEF DecidedOnce, RowOf, Decided
<1>2. QED
  BY <1>1, Invariant, PTL

\* Two goroutines never drive the ADK session of one conversation at once, and
\* what the two limiters hold is what live goroutines hold: no early return
\* of a handler keeps a conversation or a permit (Limiter.TryAcquire).
THEOREM SessionHasOneDriver == Spec => []OneDriver
<1> USE StepSets
<1>1. ASSUME TurnsInv PROVE OneDriver
  <2>1. Shapes /\ Limits /\ proc \in [Proc -> Line]
    BY <1>1, TypeParts DEF TurnsInv, ProcTyped
  <2>2. ASSUME NEW p \in Proc, proc[p].at \in Driving PROVE p \in Holders
    <3>1. proc[p].conv \in Conversation
      BY <2>1, <2>2 DEF Shapes, Shape, StartShape, Driving, Proc
    <3>2. QED
      BY <2>2, <3>1, NamesAssumption DEF Holders, Driving
  <2>3. \A p, q \in Proc : p # q /\ proc[p].at \in Driving /\ proc[q].at \in Driving
                             => proc[p].conv # proc[q].conv
    BY <2>1, <2>2 DEF Limits, Held
  <2>4. busy = {proc[p].conv : p \in {q \in Handler \union {Main} : proc[q].at \in Holding}} \ {NoConversation}
    <3>1. busy = {proc[p].conv : p \in Holders}
      BY <2>1 DEF Limits, Held
    <3>2. QED
      BY <3>1 DEF Holders, Proc
  <2>5. permits = Cardinality({p \in Proc : proc[p].at \in Spending})
    BY <2>1 DEF Limits, Spent, Spenders
  <2>6. QED
    BY <2>3, <2>4, <2>5 DEF OneDriver
<1>2. QED
  BY <1>1, Invariant, PTL

\* Slack never shows two answers to a message or two prompts for a call, and
\* what the store remembers or marks as published Slack shows: redelivered
\* events, lost answers of posts and restarts included (ClaimDedupe,
\* ReconcileAssistantExchanges, RecoverConfirmation).
THEOREM ShownOnce == Spec => []PostedOnce
<1>1. ASSUME TurnsInv PROVE PostedOnce
  <2>1. (\A m \in Message : Ledger(m)) /\ (\A w \in Call : RowOf(w))
    BY <1>1 DEF TurnsInv, Messages, Calls
  <2>2. QED
    BY <2>1 DEF PostedOnce, Ledger, RowOf
<1>2. QED
  BY <1>1, Invariant, PTL

\* A process that begins to serve has every answer Slack shows in the
\* conversation store, and every confirmation still open can be clicked or
\* has lapsed (ReconcileAssistantExchanges, ReconcileConfirmations).
THEOREM RecoveredFirst == Spec => RecoveredBeforeServing
<1>1. ASSUME TurnsInv, [Next]_vars, phase # "serving", phase' = "serving"
      PROVE  /\ \A m \in Message : posted[m] > 0 => m \in remembered
             /\ \A w \in Call : Open(w) => delivery[w].shown \/ w \in lapsed
  <2>1. Serve
    <3>1. ASSUME NEW p \in Proc, HandlerStep(p) PROVE phase' \in {phase, "down"}
      BY <1>1, <3>1, StepMoves DEF TurnsInv, Ends, Returns, Advances, startup, Exit
    <3>2. CASE StartStep
      BY <1>1, <3>2 DEF StartStep, Start, LookUpPrepared, ListExpired, ListPending,
        FinalizePublished, MarkMatched, ExpireListed, RecoverPending, startup
    <3>3. CASE Crash
      BY <1>1, <3>3 DEF Crash, Exit
    <3>4. QED
      BY <1>1, <3>1, <3>2, <3>3 DEF Next, Receive, Click, Lapse, startup, vars
  <2>2. phase = "pending" /\ todo = {}
    BY <2>1 DEF Serve, Reconciled
  <2>3. \A m \in Message : posted[m] > 0 => m \in remembered
    BY <1>1, <2>2 DEF TurnsInv, Messages, Ledger, Reconciling
  <2>4. \A w \in Call : Open(w) => delivery[w].shown \/ w \in lapsed
    BY <1>1, <2>2 DEF TurnsInv, Calls, Recovering, RowOf, Open
  <2>5. QED
    BY <2>3, <2>4
<1>2. TurnsInv /\ [Next]_vars =>
        [phase # "serving" /\ phase' = "serving" =>
           /\ \A m \in Message : posted[m] > 0 => m \in remembered
           /\ \A w \in Call : Open(w) => delivery[w].shown \/ w \in lapsed]_vars
  BY <1>1
<1>3. QED
  BY <1>2, Invariant, PTL DEF Spec, RecoveredBeforeServing

(***************************************************************************)
(* Summaries.                                                              *)
(***************************************************************************)

EventRow == [kind : Kinds, id : ToolCall \union {NoId}]
Contents == UNION {[D -> EventRow] : D \in SUBSET Nat}
TurnCount(ev) == Cardinality(Starts(ev))
Undecided(ev, id) == Has(ev, "ask", id) /\ ~Has(ev, "answer", id)

\* The events of a session that a person began: a call that was not made has no
\* response, and one that waits for a decision has its placeholder only.
SessionOf(ev) ==
  /\ ev \in Seq(EventRow) /\ ValidLedger(ev)
  /\ ev # <<>> => ev[1].kind = "user"
  /\ \A id \in ToolCall :
       /\ id \notin Made(ev) => Responses(ev, id) = 0 /\ ~Has(ev, "ask", id)
       /\ Undecided(ev, id) => Responses(ev, id) = 1

\* The first n turns get no event any more: nobody may still answer a
\* confirmation of them, and if one is the last turn, it has its final text.
SealedTurns(ev, n) ==
  /\ TurnCount(ev) \in 1 .. n => FinalText(ev)
  /\ \A id \in Made(ev) : Undecided(ev, id) => CallTurn(ev, id) \notin 1 .. n

\* An event that a driver may append; it asks in the turn of the call only.
MayFollow(ev, e) ==
  /\ e \in EventRow /\ Legal(ev, e)
  /\ ev = <<>> => e.kind = "user"
  /\ e.kind = "ask" => e.id \in Made(ev) /\ CallTurn(ev, e.id) = TurnCount(ev)

LedgerInv == SessionOf(events) /\ Len(events) <= MaxEvents

HeadsInv ==
  /\ epoch.number \in Nat /\ epoch.covered \in -1 .. Len(events) - 1
  /\ capsule.revision \in Nat /\ capsule.covered \in -1 .. Len(events) - 1
  /\ capsule.revision > 0 =>
       capsule.covered >= 0 /\ events[capsule.covered + 1].kind = "text"

\* What a driver that goes on with a turn has appended last.
DriverInv ==
  /\ driver.at \in {"idle", "model", "tool", "ask", "result", "schedule"}
  /\ driver.id \in ToolCall \union {NoId}
  /\ driver.at # "idle" => events # <<>>
  /\ driver.at \in {"model", "tool", "ask", "result"} => ~FinalText(events)
  /\ driver.at \in {"tool", "ask", "result"} => driver.id \in Made(events)
  /\ driver.at \in {"tool", "ask"} => CallTurn(events, driver.id) = TurnCount(events)
  /\ driver.at = "tool" => /\ Responses(events, driver.id) = 0
                           /\ ~Has(events, "ask", driver.id)
  /\ driver.at = "ask" => /\ Has(events, "placeholder", driver.id)
                          /\ Responses(events, driver.id) = 1
                          /\ ~Has(events, "ask", driver.id)
  /\ driver.at = "result" => /\ Responses(events, driver.id) = 1
                             /\ Has(events, "answer", driver.id)

\* The turns that are summarised or are in the hands of the summarizer.
Taken == IF worker.at = "commit" THEN worker.upto ELSE summary.covered

SummaryInv ==
  /\ summary.covered \in 0 .. TurnCount(events)
  /\ summary.source \in Seq(Contents) /\ Len(summary.source) = summary.covered
  /\ \A k \in 1 .. summary.covered : summary.source[k] = TurnContents(events, k)
  /\ worker.at = "commit" =>
       /\ worker.upto \in summary.covered + 1 .. TurnCount(events)
       /\ worker.read \in Seq(Contents) /\ Len(worker.read) = worker.upto - summary.covered
       /\ \A i \in 1 .. Len(worker.read) :
            worker.read[i] = TurnContents(events, summary.covered + i)
  /\ SealedTurns(events, Taken)

JobRow == [status : {"pending", "running", "failed", "done"}, attempts : 0 .. MaxAttempts]
WorkerRow == [at : {"idle", "discover", "read", "commit", "complete", "rest", "retry"},
              job : Nat, attempts : Nat, target : Nat, upto : Nat, read : Seq(Contents)]

RowsOK ==
  /\ DOMAIN jobs \subseteq Nat \ {0} /\ jobs \in [DOMAIN jobs -> JobRow]
  /\ \E b \in Nat : \A t \in DOMAIN jobs : t <= b

\* The worker holds the row it claimed, whose target it may have resolved.
QueueInv ==
  /\ RowsOK /\ worker \in WorkerRow
  /\ worker.at \in {"discover", "read", "commit", "complete", "retry"} =>
       worker.job \in DOMAIN jobs /\ jobs[worker.job] = Row("running", worker.attempts)
  /\ worker.at = "rest" => worker.job \in DOMAIN jobs /\ jobs[worker.job].status = "done" /\ Rest
  /\ worker.at = "discover" => IsDiscovery(worker.job) /\ worker.upto = 0
  /\ (worker.at \in {"read", "commit", "rest"} \/ (worker.at = "complete" /\ Rest)) =>
       worker.target > 0 /\ worker.target < Floor
         /\ (IsDiscovery(worker.job) \/ worker.target = worker.job)

\* A request that no discovery has served yet has a discovery that is not
\* done; one made since the worker resolved its own, a row that waits.
Unserved == requested > seen
RequestInv ==
  /\ requested \in 0 .. Len(events) /\ seen \in 0 .. Len(events) /\ owed \in Nat
  /\ Unserved => \E t \in DOMAIN jobs : IsDiscovery(t) /\ jobs[t].status # "done"
  /\ Unserved /\ worker.at \in {"read", "commit", "complete", "rest"} /\ IsDiscovery(worker.job) =>
       \E t \in Live : IsDiscovery(t)

SummariesInv ==
  /\ LedgerInv /\ HeadsInv /\ DriverInv /\ SummaryInv /\ QueueInv /\ RequestInv
  /\ faults \in 0 .. MaxFaults /\ restarts \in 0 .. MaxRestarts

-----------------------------------------------------------------------------
(* What one more event changes of the meaning of a session.                *)

LEMMA FirstNumbers ==
  ASSUME NEW n \in Nat
  PROVE  IsFiniteSet(1 .. n) /\ Cardinality(1 .. n) = n
<1>1. IsFiniteSet(1 .. n) /\ Cardinality(1 .. n) = (IF 1 > n THEN 0 ELSE n - 1 + 1)
  BY FS_Interval
<1>2. QED
  BY <1>1

LEMMA Extended ==
  ASSUME NEW ev \in Seq(EventRow), NEW e \in EventRow
  PROVE  LET f == Append(ev, e) IN
           /\ f \in Seq(EventRow) /\ Len(f) = Len(ev) + 1 /\ f[Len(ev) + 1] = e
           /\ DOMAIN ev = 1 .. Len(ev) /\ DOMAIN f = 1 .. Len(ev) + 1 /\ Len(ev) \in Nat
           /\ \A i \in 1 .. Len(ev) : f[i] = ev[i] /\ ev[i] \in EventRow
OBVIOUS

LEMMA EventFields ==
  ASSUME NEW kind, NEW id
  PROVE  /\ Event(kind, id).kind = kind /\ Event(kind, id).id = id
         /\ \A k, i : Event(kind, id) = Event(k, i) => kind = k /\ id = i
<1>1. \A k, i : Event(k, i).kind = k /\ Event(k, i).id = i
  BY DEF Event
<1>2. ASSUME NEW k, NEW i, Event(kind, id) = Event(k, i) PROVE kind = k /\ id = i
  <2>1. /\ Event(kind, id).kind = Event(k, i).kind
        /\ Event(kind, id).id = Event(k, i).id
    BY <1>2
  <2>2. QED
    BY <1>1, <2>1
<1>3. QED
  BY <1>1, <1>2

LEMMA EventTyped ==
  ASSUME NEW kind \in Kinds, NEW id \in ToolCall \union {NoId}
  PROVE  Event(kind, id) \in EventRow
BY DEF Event, EventRow

LEMMA StartsCounted ==
  ASSUME NEW ev \in Seq(EventRow)
  PROVE  /\ Starts(ev) \subseteq 1 .. Len(ev) /\ IsFiniteSet(Starts(ev)) /\ TurnCount(ev) \in Nat
         /\ TurnCount(ev) <= Len(ev)
         /\ \A i : /\ IsFiniteSet(Starts(ev) \cap 1 .. i)
                   /\ Ordinal(ev, i) \in 0 .. TurnCount(ev)
<1>1. Starts(ev) \subseteq 1 .. Len(ev) /\ Len(ev) \in Nat
  BY DEF Starts
<1>2. IsFiniteSet(1 .. Len(ev)) /\ Cardinality(1 .. Len(ev)) = Len(ev)
  BY <1>1, FirstNumbers
<1>3. IsFiniteSet(Starts(ev)) /\ TurnCount(ev) \in Nat /\ TurnCount(ev) <= Len(ev)
  BY <1>1, <1>2, FS_Subset, FS_CardinalityType DEF TurnCount
<1>4. ASSUME NEW i PROVE IsFiniteSet(Starts(ev) \cap 1 .. i) /\ Ordinal(ev, i) \in 0 .. TurnCount(ev)
  <2>1. Starts(ev) \cap 1 .. i \in SUBSET Starts(ev)
    OBVIOUS
  <2>2. /\ IsFiniteSet(Starts(ev) \cap 1 .. i)
        /\ Cardinality(Starts(ev) \cap 1 .. i) <= Cardinality(Starts(ev))
        /\ Cardinality(Starts(ev) \cap 1 .. i) \in Nat
    BY <1>3, <2>1, FS_Subset, FS_CardinalityType
  <2>3. QED
    BY <1>3, <2>2 DEF Ordinal, TurnCount
<1>5. QED
  BY <1>1, <1>3, <1>4

LEMMA StartsExtended ==
  ASSUME NEW ev \in Seq(EventRow), NEW e \in EventRow
  PROVE  LET f == Append(ev, e) IN
           /\ Starts(f) = Starts(ev) \union (IF e.kind = "user" THEN {Len(ev) + 1} ELSE {})
           /\ TurnCount(f) = TurnCount(ev) + (IF e.kind = "user" THEN 1 ELSE 0)
           /\ \A i \in 1 .. Len(ev) : Ordinal(f, i) = Ordinal(ev, i)
           /\ Ordinal(f, Len(ev) + 1) = TurnCount(f)
<1>1. PICK f : f = Append(ev, e)
  OBVIOUS
<1>2. /\ f \in Seq(EventRow) /\ f[Len(ev) + 1] = e /\ Len(ev) \in Nat /\ Len(f) = Len(ev) + 1
      /\ DOMAIN ev = 1 .. Len(ev) /\ DOMAIN f = 1 .. Len(ev) + 1
      /\ \A i \in 1 .. Len(ev) : f[i] = ev[i]
  BY <1>1, Extended
<1>3. Starts(f) = Starts(ev) \union (IF e.kind = "user" THEN {Len(ev) + 1} ELSE {})
  BY <1>2 DEF Starts
<1>4. Starts(ev) \subseteq 1 .. Len(ev) /\ IsFiniteSet(Starts(ev)) /\ TurnCount(ev) \in Nat
  BY StartsCounted
<1>5. TurnCount(f) = TurnCount(ev) + (IF e.kind = "user" THEN 1 ELSE 0)
  <2>1. Len(ev) + 1 \notin Starts(ev)
    BY <1>2, <1>4
  <2>2. CASE e.kind = "user"
    <3>1. Starts(f) = Starts(ev) \union {Len(ev) + 1}
      BY <1>3, <2>2
    <3>2. QED
      BY <1>4, <2>1, <2>2, <3>1, FS_AddElement DEF TurnCount
  <2>3. CASE e.kind # "user"
    <3>1. Starts(f) = Starts(ev)
      BY <1>3, <2>3
    <3>2. QED
      BY <1>4, <2>3, <3>1 DEF TurnCount
  <2>4. QED
    BY <2>2, <2>3
<1>6. ASSUME NEW i \in 1 .. Len(ev) PROVE Ordinal(f, i) = Ordinal(ev, i)
  <2>1. Len(ev) + 1 \notin 1 .. i
    BY <1>2
  <2>2. Starts(f) \cap 1 .. i = Starts(ev) \cap 1 .. i
    BY <1>3, <2>1
  <2>3. QED
    BY <2>2 DEF Ordinal
<1>7. Ordinal(f, Len(ev) + 1) = TurnCount(f)
  <2>1. Starts(f) \subseteq 1 .. Len(ev) + 1
    BY <1>2, StartsCounted
  <2>2. Starts(f) \cap 1 .. (Len(ev) + 1) = Starts(f)
    BY <2>1
  <2>3. QED
    BY <2>2 DEF Ordinal, TurnCount
<1>8. QED
  BY <1>1, <1>3, <1>5, <1>6, <1>7

\* An event of another turn leaves the contents of a turn alone.
LEMMA ContentsExtended ==
  ASSUME NEW ev \in Seq(EventRow), NEW e \in EventRow, NEW k, TurnCount(Append(ev, e)) # k
  PROVE  TurnContents(Append(ev, e), k) = TurnContents(ev, k)
<1>1. PICK f : f = Append(ev, e)
  OBVIOUS
<1>2. /\ Len(ev) \in Nat /\ DOMAIN ev = 1 .. Len(ev) /\ DOMAIN f = 1 .. Len(ev) + 1
      /\ \A i \in 1 .. Len(ev) : f[i] = ev[i]
  BY <1>1, Extended
<1>3. /\ \A i \in 1 .. Len(ev) : Ordinal(f, i) = Ordinal(ev, i)
      /\ Ordinal(f, Len(ev) + 1) # k
  BY <1>1, StartsExtended
<1>4. {i \in DOMAIN f : Ordinal(f, i) = k} = {i \in DOMAIN ev : Ordinal(ev, i) = k}
  BY <1>2, <1>3
<1>5. PICK D : D = {i \in DOMAIN ev : Ordinal(ev, i) = k}
  OBVIOUS
<1>6. \A i \in D : f[i] = ev[i]
  BY <1>2, <1>5
<1>7. TurnContents(f, k) = Restrict(f, D) /\ TurnContents(ev, k) = Restrict(ev, D)
  BY <1>4, <1>5 DEF TurnContents
<1>8. Restrict(f, D) = Restrict(ev, D)
  BY <1>6 DEF Restrict
<1>9. QED
  BY <1>1, <1>7, <1>8

LEMMA ContentsTyped ==
  ASSUME NEW ev \in Seq(EventRow), NEW k
  PROVE  TurnContents(ev, k) \in Contents
<1>1. PICK D : D = {i \in DOMAIN ev : Ordinal(ev, i) = k}
  OBVIOUS
<1>2. D \in SUBSET Nat /\ \A i \in D : ev[i] \in EventRow
  BY <1>1
<1>3. TurnContents(ev, k) = [i \in D |-> ev[i]]
  BY <1>1 DEF TurnContents, Restrict
<1>4. [i \in D |-> ev[i]] \in [D -> EventRow]
  BY <1>2
<1>5. QED
  BY <1>2, <1>3, <1>4 DEF Contents

LEMMA HasExtended ==
  ASSUME NEW ev \in Seq(EventRow), NEW e \in EventRow, NEW kind, NEW id
  PROVE  Has(Append(ev, e), kind, id) <=> Has(ev, kind, id) \/ e = Event(kind, id)
<1>1. PICK f : f = Append(ev, e)
  OBVIOUS
<1>2. /\ Len(ev) \in Nat /\ DOMAIN ev = 1 .. Len(ev) /\ DOMAIN f = 1 .. Len(ev) + 1
      /\ f[Len(ev) + 1] = e /\ \A i \in 1 .. Len(ev) : f[i] = ev[i]
  BY <1>1, Extended
<1>3. PICK x : x = Event(kind, id)
  OBVIOUS
<1>4. (\E i \in DOMAIN f : f[i] = x) <=> (\E i \in DOMAIN ev : ev[i] = x) \/ e = x
  BY <1>2
<1>5. QED
  BY <1>1, <1>3, <1>4 DEF Has

LEMMA OneMore ==
  ASSUME NEW n \in Nat, NEW R, NEW Q, R \subseteq 1 .. n, Q \subseteq 1 .. n + 1,
         \A i \in 1 .. n : i \in Q <=> i \in R
  PROVE  Q = R \union (IF n + 1 \in Q THEN {n + 1} ELSE {})
<1>1. \A i \in 1 .. n + 1 : i \in 1 .. n \/ i = n + 1
  OBVIOUS
<1>2. \A i \in Q : i \in R \/ i = n + 1
  BY <1>1
<1>3. \A i \in R : i \in Q
  OBVIOUS
<1>4. QED
  BY <1>2, <1>3

LEMMA ResponsesExtended ==
  ASSUME NEW ev \in Seq(EventRow), NEW e \in EventRow, NEW id
  PROVE  /\ Responses(ev, id) \in Nat
         /\ Responses(Append(ev, e), id) = Responses(ev, id)
              + (IF e.id = id /\ e.kind \in {"placeholder", "result"} THEN 1 ELSE 0)
<1>1. PICK f : f = Append(ev, e)
  OBVIOUS
<1>2. /\ Len(ev) \in Nat /\ DOMAIN ev = 1 .. Len(ev) /\ DOMAIN f = 1 .. Len(ev) + 1
      /\ f[Len(ev) + 1] = e /\ \A i \in 1 .. Len(ev) : f[i] = ev[i]
  BY <1>1, Extended
<1>3. PICK R : R = {i \in DOMAIN ev : ev[i].id = id /\ ev[i].kind \in {"placeholder", "result"}}
  OBVIOUS
<1>4. PICK Q : Q = {i \in DOMAIN f : f[i].id = id /\ f[i].kind \in {"placeholder", "result"}}
  OBVIOUS
<1>5. Responses(ev, id) = Cardinality(R) /\ Responses(f, id) = Cardinality(Q)
  BY <1>3, <1>4 DEF Responses
<1>6. R \in SUBSET (1 .. Len(ev)) /\ Len(ev) + 1 \notin R
  BY <1>2, <1>3
<1>7. IsFiniteSet(R) /\ Cardinality(R) \in Nat
  <2>1. IsFiniteSet(1 .. Len(ev))
    BY <1>2, FirstNumbers
  <2>2. IsFiniteSet(R)
    BY <1>6, <2>1, FS_Subset
  <2>3. QED
    BY <2>2, FS_CardinalityType
<1>8. /\ Q \subseteq 1 .. Len(ev) + 1 /\ R \subseteq 1 .. Len(ev)
      /\ \A i \in 1 .. Len(ev) : i \in Q <=> i \in R
      /\ Len(ev) + 1 \in Q <=> (e.id = id /\ e.kind \in {"placeholder", "result"})
  <2>1. Len(ev) + 1 \in Q <=> (e.id = id /\ e.kind \in {"placeholder", "result"})
    BY <1>2, <1>4
  <2>2. \A i \in 1 .. Len(ev) : i \in Q <=> i \in R
    BY <1>2, <1>3, <1>4
  <2>3. QED
    BY <1>2, <1>3, <1>4, <2>1, <2>2
<1>9. CASE e.id = id /\ e.kind \in {"placeholder", "result"}
  <2>1. Len(ev) + 1 \in Q
    BY <1>8, <1>9
  <2>2. Q = R \union (IF Len(ev) + 1 \in Q THEN {Len(ev) + 1} ELSE {})
    BY <1>2, <1>8, OneMore
  <2>3. Q = R \union {Len(ev) + 1}
    BY <2>1, <2>2
  <2>4. Cardinality(Q) = Cardinality(R) + 1
    BY <1>6, <1>7, <2>3, FS_AddElement
  <2>5. QED
    BY <1>1, <1>5, <1>7, <1>9, <2>4
<1>10. CASE ~(e.id = id /\ e.kind \in {"placeholder", "result"})
  <2>1. Len(ev) + 1 \notin Q
    BY <1>8, <1>10
  <2>2. Q = R \union (IF Len(ev) + 1 \in Q THEN {Len(ev) + 1} ELSE {})
    BY <1>2, <1>8, OneMore
  <2>3. Q = R
    BY <2>1, <2>2
  <2>4. QED
    BY <1>1, <1>5, <1>7, <1>10, <2>3
<1>11. QED
  BY <1>9, <1>10

-----------------------------------------------------------------------------
(* A legal session stays one: calls are made once and stay in their turn.  *)

LEMMA Prefix ==
  ASSUME NEW ev \in Seq(EventRow), NEW n \in 0 .. Len(ev)
  PROVE  LET b == SubSeq(ev, 1, n) IN
           /\ b \in Seq(EventRow) /\ Len(b) = n /\ DOMAIN b = 1 .. n
           /\ \A i \in 1 .. n : b[i] = ev[i]
<1>1. PICK b : b = SubSeq(ev, 1, n)
  OBVIOUS
<1>2. Len(ev) \in Nat /\ n \in Nat /\ \A i \in 1 .. n : ev[i] \in EventRow
  OBVIOUS
<1>3. /\ b \in Seq(EventRow) /\ Len(b) = (IF 1 <= n THEN n - 1 + 1 ELSE 0)
      /\ \A i \in 1 .. n - 1 + 1 : b[i] = ev[1 + i - 1]
  BY <1>1, <1>2, SubSeqProperties
<1>4. Len(b) = n /\ \A i \in 1 .. n : b[i] = ev[i]
  BY <1>2, <1>3
<1>5. DOMAIN b = 1 .. n
  BY <1>3, <1>4, LenProperties
<1>6. QED
  BY <1>1, <1>3, <1>4, <1>5

LEMMA PrefixExtended ==
  ASSUME NEW ev \in Seq(EventRow), NEW e \in EventRow, NEW n \in 0 .. Len(ev)
  PROVE  /\ SubSeq(Append(ev, e), 1, n) = SubSeq(ev, 1, n)
         /\ SubSeq(ev, 1, Len(ev)) = ev
<1>1. PICK f : f = Append(ev, e)
  OBVIOUS
<1>2. /\ f \in Seq(EventRow) /\ Len(ev) \in Nat /\ Len(f) = Len(ev) + 1
      /\ \A i \in 1 .. Len(ev) : f[i] = ev[i]
  BY <1>1, Extended
<1>3. n \in 0 .. Len(f) /\ n \in Nat /\ Len(ev) \in 0 .. Len(ev)
  BY <1>2
<1>4. PICK a : a = SubSeq(f, 1, n)
  OBVIOUS
<1>5. PICK b : b = SubSeq(ev, 1, n)
  OBVIOUS
<1>6. a \in Seq(EventRow) /\ Len(a) = n /\ \A i \in 1 .. n : a[i] = f[i]
  BY <1>2, <1>3, <1>4, Prefix
<1>7. b \in Seq(EventRow) /\ Len(b) = n /\ \A i \in 1 .. n : b[i] = ev[i]
  BY <1>3, <1>5, Prefix
<1>8. \A i \in 1 .. Len(a) : a[i] = b[i]
  BY <1>2, <1>3, <1>6, <1>7
<1>9. a = b
  BY <1>6, <1>7, <1>8, SeqEqual
<1>10. PICK c : c = SubSeq(ev, 1, Len(ev))
  OBVIOUS
<1>11. c \in Seq(EventRow) /\ Len(c) = Len(ev) /\ \A i \in 1 .. Len(ev) : c[i] = ev[i]
  BY <1>3, <1>10, Prefix
<1>12. c = ev
  BY <1>11, SeqEqual
<1>13. QED
  BY <1>1, <1>4, <1>5, <1>9, <1>10, <1>12

LEMMA LedgerExtended ==
  ASSUME NEW ev \in Seq(EventRow), NEW e \in EventRow
  PROVE  ValidLedger(Append(ev, e)) <=> ValidLedger(ev) /\ Legal(ev, e)
<1>1. PICK f : f = Append(ev, e)
  OBVIOUS
<1>2. /\ Len(ev) \in Nat /\ DOMAIN ev = 1 .. Len(ev) /\ DOMAIN f = 1 .. Len(ev) + 1
      /\ f[Len(ev) + 1] = e /\ \A i \in 1 .. Len(ev) : f[i] = ev[i]
  BY <1>1, Extended
<1>3. ASSUME NEW i \in 1 .. Len(ev)
      PROVE  Legal(SubSeq(f, 1, i - 1), f[i]) <=> Legal(SubSeq(ev, 1, i - 1), ev[i])
  <2>1. i - 1 \in 0 .. Len(ev)
    BY <1>2
  <2>2. SubSeq(f, 1, i - 1) = SubSeq(ev, 1, i - 1)
    BY <1>1, <2>1, PrefixExtended
  <2>3. QED
    BY <1>2, <2>2
<1>4. Legal(SubSeq(f, 1, (Len(ev) + 1) - 1), f[Len(ev) + 1]) <=> Legal(ev, e)
  <2>1. (Len(ev) + 1) - 1 = Len(ev) /\ Len(ev) \in 0 .. Len(ev)
    BY <1>2
  <2>2. SubSeq(f, 1, Len(ev)) = ev
    BY <1>1, <2>1, PrefixExtended
  <2>3. QED
    BY <1>2, <2>1, <2>2
<1>5. \A i \in 1 .. Len(ev) + 1 : i \in 1 .. Len(ev) \/ i = Len(ev) + 1
  BY <1>2
<1>6. 1 .. Len(ev) \subseteq 1 .. Len(ev) + 1 /\ Len(ev) + 1 \in 1 .. Len(ev) + 1
  BY <1>2
<1>7. QED
  BY <1>1, <1>2, <1>3, <1>4, <1>5, <1>6 DEF ValidLedger

LEMMA CalledOnce ==
  ASSUME NEW ev \in Seq(EventRow), ValidLedger(ev), NEW id,
         NEW i \in DOMAIN ev, NEW j \in DOMAIN ev, ev[i] = Event("call", id), ev[j] = Event("call", id)
  PROVE  i = j
<1>1. ASSUME NEW k \in DOMAIN ev, NEW l \in DOMAIN ev, k < l,
             ev[k] = Event("call", id), ev[l] = Event("call", id)
      PROVE  FALSE
  <2>1. PICK b : b = SubSeq(ev, 1, l - 1)
    OBVIOUS
  <2>2. Len(ev) \in Nat /\ k \in 1 .. l - 1 /\ l - 1 \in 0 .. Len(ev)
    BY <1>1
  <2>3. DOMAIN b = 1 .. l - 1 /\ b[k] = ev[k]
    BY <2>1, <2>2, Prefix
  <2>4. Has(b, "call", id)
    BY <1>1, <2>2, <2>3 DEF Has
  <2>5. Legal(b, ev[l])
    BY <2>1 DEF ValidLedger
  <2>6. ev[l].kind = "call" /\ ev[l].id = id
    BY <1>1, EventFields
  <2>7. ~Has(b, "call", id)
    BY <2>5, <2>6 DEF Legal
  <2>8. QED
    BY <2>4, <2>7
<1>2. i \in Int /\ j \in Int
  OBVIOUS
<1>3. QED
  BY <1>1, <1>2

LEMMA CallTurnOf ==
  ASSUME NEW ev \in Seq(EventRow), ValidLedger(ev), NEW id,
         NEW i \in DOMAIN ev, ev[i] = Event("call", id)
  PROVE  CallTurn(ev, id) = Ordinal(ev, i)
<1>1. PICK j : j = CHOOSE k \in DOMAIN ev : ev[k] = Event("call", id)
  OBVIOUS
<1>2. j \in DOMAIN ev /\ ev[j] = Event("call", id)
  BY <1>1
<1>3. j = i
  BY <1>2, CalledOnce
<1>4. QED
  BY <1>1, <1>3 DEF CallTurn

LEMMA CallTurnExtended ==
  ASSUME NEW ev \in Seq(EventRow), ValidLedger(ev), NEW e \in EventRow, Legal(ev, e), NEW id
  PROVE  /\ Has(ev, "call", id) => CallTurn(Append(ev, e), id) = CallTurn(ev, id)
         /\ e = Event("call", id) => CallTurn(Append(ev, e), id) = TurnCount(Append(ev, e))
<1>1. PICK f : f = Append(ev, e)
  OBVIOUS
<1>2. /\ f \in Seq(EventRow) /\ Len(ev) \in Nat
      /\ DOMAIN ev = 1 .. Len(ev) /\ DOMAIN f = 1 .. Len(ev) + 1
      /\ f[Len(ev) + 1] = e /\ \A i \in 1 .. Len(ev) : f[i] = ev[i]
  BY <1>1, Extended
<1>3. ValidLedger(f)
  BY <1>1, LedgerExtended
<1>4. ASSUME Has(ev, "call", id) PROVE CallTurn(f, id) = CallTurn(ev, id)
  <2>1. PICK i \in DOMAIN ev : ev[i] = Event("call", id)
    BY <1>4 DEF Has
  <2>2. i \in 1 .. Len(ev) /\ i \in DOMAIN f /\ f[i] = Event("call", id)
    BY <1>2, <2>1
  <2>3. CallTurn(ev, id) = Ordinal(ev, i) /\ CallTurn(f, id) = Ordinal(f, i)
    BY <1>2, <1>3, <2>1, <2>2, CallTurnOf
  <2>4. Ordinal(f, i) = Ordinal(ev, i)
    BY <1>1, <2>2, StartsExtended
  <2>5. QED
    BY <2>3, <2>4
<1>5. ASSUME e = Event("call", id) PROVE CallTurn(f, id) = TurnCount(f)
  <2>1. Len(ev) + 1 \in DOMAIN f /\ f[Len(ev) + 1] = Event("call", id)
    BY <1>2, <1>5
  <2>2. CallTurn(f, id) = Ordinal(f, Len(ev) + 1)
    BY <1>2, <1>3, <2>1, CallTurnOf
  <2>3. Ordinal(f, Len(ev) + 1) = TurnCount(f)
    BY <1>1, StartsExtended
  <2>4. QED
    BY <2>2, <2>3
<1>6. QED
  BY <1>1, <1>4, <1>5

LEMMA CallTurnBounded ==
  ASSUME NEW ev \in Seq(EventRow), ValidLedger(ev), ev # <<>> => ev[1].kind = "user",
         NEW id, Has(ev, "call", id)
  PROVE  CallTurn(ev, id) \in 1 .. TurnCount(ev)
<1>1. PICK i \in DOMAIN ev : ev[i] = Event("call", id)
  BY DEF Has
<1>2. CallTurn(ev, id) = Ordinal(ev, i)
  BY <1>1, CallTurnOf
<1>3. ev # <<>> /\ 1 \in DOMAIN ev /\ i \in 1 .. Len(ev)
  BY <1>1
<1>4. 1 \in Starts(ev) \cap 1 .. i
  BY <1>3 DEF Starts
<1>5. IsFiniteSet(Starts(ev) \cap 1 .. i) /\ Ordinal(ev, i) \in 0 .. TurnCount(ev) /\ TurnCount(ev) \in Nat
  BY StartsCounted
<1>6. Ordinal(ev, i) # 0
  BY <1>4, <1>5, FS_EmptySet DEF Ordinal
<1>7. QED
  BY <1>2, <1>5, <1>6

LEMMA SomeTurn ==
  ASSUME NEW ev \in Seq(EventRow), ev # <<>>, ev[1].kind = "user"
  PROVE  TurnCount(ev) \in Nat \ {0}
<1>1. 1 \in Starts(ev)
  BY DEF Starts
<1>2. IsFiniteSet(Starts(ev)) /\ TurnCount(ev) \in Nat
  BY StartsCounted
<1>3. QED
  BY <1>1, <1>2, FS_EmptySet DEF TurnCount

LEMMA LegalResponse ==
  ASSUME NEW ev, NEW e, Legal(ev, e)
  PROVE  /\ e.kind = "call" => ~Has(ev, "call", e.id)
         /\ e.kind = "placeholder" => Has(ev, "call", e.id) /\ Responses(ev, e.id) = 0
         /\ e.kind = "ask" => Responses(ev, e.id) = 1
         /\ e.kind = "result" =>
              /\ Has(ev, "call", e.id)
              /\ Responses(ev, e.id) = 0 \/ (Responses(ev, e.id) = 1 /\ Has(ev, "answer", e.id))
<1>1. CASE e.kind = "call"
  BY <1>1 DEF Legal
<1>2. CASE e.kind = "placeholder"
  BY <1>2 DEF Legal
<1>3. CASE e.kind = "ask"
  BY <1>3 DEF Legal
<1>4. CASE e.kind = "result"
  BY <1>4 DEF Legal
<1>5. QED
  BY <1>1, <1>2, <1>3, <1>4

LEMMA SessionFollows ==
  ASSUME NEW ev, SessionOf(ev), NEW e, MayFollow(ev, e)
  PROVE  SessionOf(Append(ev, e))
<1>1. PICK f : f = Append(ev, e)
  OBVIOUS
<1>2. ev \in Seq(EventRow) /\ e \in EventRow /\ ValidLedger(ev) /\ Legal(ev, e)
  BY DEF SessionOf, MayFollow
<1>3. /\ f \in Seq(EventRow) /\ Len(ev) \in Nat /\ f[Len(ev) + 1] = e
      /\ \A i \in 1 .. Len(ev) : f[i] = ev[i]
  BY <1>1, <1>2, Extended
<1>4. ValidLedger(f)
  BY <1>1, <1>2, LedgerExtended
<1>5. f[1].kind = "user"
  <2>1. CASE ev = <<>>
    BY <1>3, <2>1 DEF MayFollow
  <2>2. CASE ev # <<>>
    <3>1. Len(ev) >= 1 /\ ev[1].kind = "user"
      BY <1>2, <2>2 DEF SessionOf
    <3>2. QED
      BY <1>3, <3>1
  <2>3. QED
    BY <2>1, <2>2
<1>6. ASSUME NEW id \in ToolCall
      PROVE  /\ id \notin Made(f) => Responses(f, id) = 0 /\ ~Has(f, "ask", id)
             /\ Undecided(f, id) => Responses(f, id) = 1
  <2>1. /\ id \in Made(ev) <=> Has(ev, "call", id)
        /\ id \in Made(f) <=> Has(f, "call", id)
    BY DEF Made
  <2>2. \A kind : Has(f, kind, id) <=> Has(ev, kind, id) \/ e = Event(kind, id)
    BY <1>1, <1>2, HasExtended
  <2>3. /\ Responses(ev, id) \in Nat
        /\ Responses(f, id) = Responses(ev, id)
             + (IF e.id = id /\ e.kind \in {"placeholder", "result"} THEN 1 ELSE 0)
    BY <1>1, <1>2, ResponsesExtended
  <2>4. \A kind : Event(kind, id).kind = kind /\ Event(kind, id).id = id
    BY EventFields
  <2>5. /\ id \notin Made(ev) => Responses(ev, id) = 0 /\ ~Has(ev, "ask", id)
        /\ Undecided(ev, id) => Responses(ev, id) = 1
    BY DEF SessionOf
  <2>6. ASSUME id \notin Made(f) PROVE Responses(f, id) = 0 /\ ~Has(f, "ask", id)
    <3>1. id \notin Made(ev)
      BY <2>1, <2>2, <2>6
    <3>2. e # Event("ask", id)
      BY <2>4, <3>1 DEF MayFollow
    <3>3. ~(e.id = id /\ e.kind \in {"placeholder", "result"})
      BY <1>2, <2>1, <3>1, LegalResponse
    <3>4. QED
      BY <2>2, <2>3, <2>5, <3>1, <3>2, <3>3
  <2>7. ASSUME Undecided(f, id) PROVE Responses(f, id) = 1
    <3>1. Has(f, "ask", id) /\ ~Has(f, "answer", id)
      BY <2>7 DEF Undecided
    <3>2. ~Has(ev, "answer", id)
      BY <2>2, <3>1
    <3>3. CASE Has(ev, "ask", id)
      <4>1. Responses(ev, id) = 1
        BY <2>5, <3>2, <3>3 DEF Undecided
      <4>2. ~(e.id = id /\ e.kind \in {"placeholder", "result"})
        BY <1>2, <3>2, <4>1, LegalResponse
      <4>3. QED
        BY <2>3, <4>1, <4>2
    <3>4. CASE e = Event("ask", id)
      <4>1. e.kind = "ask" /\ e.id = id
        BY <2>4, <3>4
      <4>2. Responses(ev, id) = 1
        BY <1>2, <4>1, LegalResponse
      <4>3. QED
        BY <2>3, <4>1, <4>2
    <3>5. QED
      BY <2>2, <3>1, <3>3, <3>4
  <2>8. QED
    BY <2>6, <2>7
<1>7. QED
  BY <1>1, <1>3, <1>4, <1>5, <1>6 DEF SessionOf

\* Taken turns stay sealed when a later turn gets the event.
LEMMA SealedFollows ==
  ASSUME NEW ev, SessionOf(ev), NEW e, MayFollow(ev, e), NEW n \in Nat, SealedTurns(ev, n),
         TurnCount(Append(ev, e)) > n
  PROVE  SealedTurns(Append(ev, e), n)
<1>1. PICK f : f = Append(ev, e)
  OBVIOUS
<1>2. ev \in Seq(EventRow) /\ e \in EventRow /\ ValidLedger(ev) /\ Legal(ev, e)
  BY DEF SessionOf, MayFollow
<1>3. f \in Seq(EventRow) /\ TurnCount(f) \in Nat /\ TurnCount(ev) \in Nat
  BY <1>1, <1>2, Extended, StartsCounted
<1>4. TurnCount(f) \notin 1 .. n
  BY <1>1, <1>3
<1>5. ASSUME NEW id \in Made(f), Undecided(f, id) PROVE CallTurn(f, id) \notin 1 .. n
  <2>1. id \in ToolCall /\ Has(f, "call", id)
    BY DEF Made
  <2>2. Has(f, "ask", id) /\ ~Has(f, "answer", id)
    BY <1>5 DEF Undecided
  <2>3. \A kind : Has(f, kind, id) <=> Has(ev, kind, id) \/ e = Event(kind, id)
    BY <1>1, <1>2, HasExtended
  <2>4. CASE Has(ev, "ask", id)
    <3>1. Undecided(ev, id)
      BY <2>2, <2>3, <2>4 DEF Undecided
    <3>2. id \in Made(ev)
      BY <2>1, <2>4 DEF SessionOf
    <3>3. Has(ev, "call", id)
      BY <3>2 DEF Made
    <3>4. CallTurn(f, id) = CallTurn(ev, id)
      BY <1>1, <1>2, <3>3, CallTurnExtended
    <3>5. QED
      BY <3>1, <3>2, <3>4 DEF SealedTurns
  <2>5. CASE e = Event("ask", id)
    <3>1. e.kind = "ask" /\ e.id = id
      BY <2>5, EventFields
    <3>2. id \in Made(ev) /\ CallTurn(ev, id) = TurnCount(ev)
      BY <3>1 DEF MayFollow
    <3>3. Has(ev, "call", id)
      BY <3>2 DEF Made
    <3>4. CallTurn(f, id) = CallTurn(ev, id)
      BY <1>1, <1>2, <3>3, CallTurnExtended
    <3>5. TurnCount(f) = TurnCount(ev)
      BY <1>1, <1>2, <1>3, <3>1, StartsExtended
    <3>6. QED
      BY <1>4, <3>2, <3>4, <3>5
  <2>6. QED
    BY <2>2, <2>3, <2>4, <2>5
<1>6. QED
  BY <1>1, <1>4, <1>5 DEF SealedTurns

\* The turn in progress is not taken: it has no final text yet.
LEMMA UnfinishedTurn ==
  ASSUME NEW ev, SessionOf(ev), ev # <<>>, ~FinalText(ev),
         NEW n \in 0 .. TurnCount(ev), SealedTurns(ev, n)
  PROVE  TurnCount(ev) > n
<1>1. TurnCount(ev) \in Nat \ {0}
  BY SomeTurn DEF SessionOf
<1>2. TurnCount(ev) \notin 1 .. n
  BY DEF SealedTurns
<1>3. QED
  BY <1>1, <1>2

-----------------------------------------------------------------------------
(* Numbers of turns: the least, the greatest and the n-th of a set.        *)

LEMMA LeastNumber ==
  ASSUME NEW T \in SUBSET Nat, T # {}
  PROVE  \E x \in T : \A y \in T : x <= y
<1>1. PICK R : R = {ss \in Nat \X Nat : ss[1] < ss[2]}
  OBVIOUS
<1>2. IsWellFoundedOn(R, Nat)
  BY <1>1, NatLessThanWellFounded DEF OpToRel
<1>3. PICK x \in T : \A y \in T : ~(<<y, x>> \in R)
  BY <1>2, WFMin
<1>4. \A y \in T : ~(y < x)
  BY <1>1, <1>3
<1>5. x \in Nat /\ \A y \in T : y \in Nat /\ x <= y
  BY <1>4
<1>6. QED
  BY <1>5

LEMMA GreatestNumber ==
  ASSUME NEW T \in SUBSET Nat, T # {}, NEW b \in Nat, \A t \in T : t <= b
  PROVE  Max(T) \in T /\ \A t \in T : t <= Max(T)
<1>1. PICK U : U = {u \in Nat : \A t \in T : t <= u}
  OBVIOUS
<1>2. U \in SUBSET Nat /\ U # {}
  BY <1>1
<1>3. PICK m \in U : \A u \in U : m <= u
  BY <1>2, LeastNumber
<1>4. m \in Nat /\ \A t \in T : t <= m
  BY <1>1, <1>3
<1>5. m \in T
  <2>1. SUFFICES ASSUME m \notin T PROVE FALSE
    OBVIOUS
  <2>2. \A t \in T : t \in Nat /\ t < m
    BY <1>4, <2>1
  <2>3. PICK t \in T : TRUE
    OBVIOUS
  <2>4. m > 0
    BY <1>4, <2>2, <2>3
  <2>5. m - 1 \in Nat /\ \A x \in T : x <= m - 1
    BY <1>4, <2>2, <2>4
  <2>6. m - 1 \in U
    BY <1>1, <2>5
  <2>7. QED
    BY <1>3, <1>4, <2>6
<1>6. \E x \in T : \A t \in T : x >= t
  BY <1>4, <1>5
<1>7. PICK x : x = Max(T)
  OBVIOUS
<1>8. x \in T /\ \A t \in T : x >= t
  BY <1>6, <1>7 DEF Max
<1>9. \A t \in T : t <= x
  BY <1>8
<1>10. QED
  BY <1>7, <1>8, <1>9

LEMMA LesserOfTwo ==
  ASSUME NEW a \in Nat, NEW b \in Nat
  PROVE  Min({a, b}) \in {a, b} /\ Min({a, b}) <= a /\ Min({a, b}) <= b
<1>1. \E x \in {a, b} : \A y \in {a, b} : x <= y
  OBVIOUS
<1>2. QED
  BY <1>1 DEF Min

LEMMA GreaterOfTwo ==
  ASSUME NEW a \in Int
  PROVE  Max({0, a}) \in Nat
<1>1. \E x \in {0, a} : \A y \in {0, a} : x >= y
  <2>1. CASE a >= 0
    BY <2>1
  <2>2. CASE a < 0
    BY <2>2
  <2>3. QED
    BY <2>1, <2>2
<1>2. PICK x : x = Max({0, a})
  OBVIOUS
<1>3. x \in {0, a} /\ \A y \in {0, a} : x >= y
  BY <1>1, <1>2 DEF Max
<1>4. QED
  BY <1>2, <1>3

\* The n-th turn of a run of turns.
LEMMA NthOfRun ==
  ASSUME NEW a \in Nat, NEW b \in Nat, a < b, NEW n \in 1 .. b - a
  PROVE  Nth(a + 1 .. b, n) = a + n /\ Cardinality(a + 1 .. b) = b - a
<1>1. ASSUME NEW k \in a + 1 .. b PROVE Cardinality({t \in a + 1 .. b : t <= k}) = k - a
  <2>1. {t \in a + 1 .. b : t <= k} = a + 1 .. k
    OBVIOUS
  <2>2. Cardinality(a + 1 .. k) = (IF a + 1 > k THEN 0 ELSE k - (a + 1) + 1)
    BY FS_Interval
  <2>3. k \in Nat /\ a + 1 <= k
    OBVIOUS
  <2>4. Cardinality(a + 1 .. k) = k - a
    BY <2>2, <2>3
  <2>5. QED
    BY <2>1, <2>4
<1>2. Cardinality(a + 1 .. b) = (IF a + 1 > b THEN 0 ELSE b - (a + 1) + 1)
  BY FS_Interval
<1>3. a + n \in a + 1 .. b
  OBVIOUS
<1>4. \A k \in a + 1 .. b : Cardinality({t \in a + 1 .. b : t <= k}) = n <=> k = a + n
  BY <1>1
<1>5. PICK x : x = Nth(a + 1 .. b, n)
  OBVIOUS
<1>6. x \in a + 1 .. b /\ Cardinality({t \in a + 1 .. b : t <= x}) = n
  BY <1>3, <1>4, <1>5 DEF Nth
<1>7. x = a + n
  BY <1>4, <1>6
<1>8. QED
  BY <1>2, <1>5, <1>7

\* Counting up to a number adds the number itself, if it is of the set.
LEMMA NthExists ==
  ASSUME NEW m \in Nat, NEW S \in SUBSET (1 .. m), NEW n \in 1 .. Cardinality(S)
  PROVE  Nth(S, n) \in S /\ Cardinality(S) \in Nat
<1>1. IsFiniteSet(S) /\ Cardinality(S) \in Nat
  BY FirstNumbers, FS_Subset, FS_CardinalityType
<1>2. PICK below : below = [k \in Nat |-> {t \in S : t <= k}]
  OBVIOUS
<1>3. \A t \in S : t \in Nat /\ 1 <= t /\ t <= m
  OBVIOUS
<1>4. ASSUME NEW k \in Nat
      PROVE  below[k] \in SUBSET S /\ IsFiniteSet(below[k]) /\ Cardinality(below[k]) \in Nat
  <2>1. below[k] \in SUBSET S
    BY <1>2
  <2>2. IsFiniteSet(below[k])
    BY <1>1, <2>1, FS_Subset
  <2>3. QED
    BY <2>1, <2>2, FS_CardinalityType
<1>5. PICK A : A = {k \in Nat : n <= Cardinality(below[k])}
  OBVIOUS
<1>6. m \in A
  <2>1. below[m] = {t \in S : t <= m}
    BY <1>2
  <2>2. {t \in S : t <= m} = S
    BY <1>3
  <2>3. below[m] = S /\ n <= Cardinality(S)
    BY <1>1, <2>1, <2>2
  <2>4. QED
    BY <1>5, <2>3
<1>7. A \in SUBSET Nat /\ A # {}
  BY <1>5, <1>6
<1>8. PICK j \in A : \A y \in A : j <= y
  BY <1>7, LeastNumber
<1>9. j \in Nat /\ n <= Cardinality(below[j])
  BY <1>5, <1>8
<1>10. j # 0
  <2>1. below[0] = {t \in S : t <= 0} /\ {t \in S : t <= 0} = {}
    <3>1. below[0] = {t \in S : t <= 0}
      BY <1>2
    <3>2. \A t \in S : ~(t <= 0)
      BY <1>3
    <3>3. QED
      BY <3>1, <3>2
  <2>2. Cardinality(below[0]) = 0
    BY <2>1, FS_EmptySet
  <2>3. QED
    BY <1>9, <2>2
<1>11. j - 1 \in Nat /\ j - 1 \notin A
  BY <1>8, <1>9, <1>10
<1>12. Cardinality(below[j - 1]) < n
  BY <1>4, <1>5, <1>11
<1>13. below[j] = below[j - 1] \union (IF j \in S THEN {j} ELSE {})
  <2>1. \A t \in S : t <= j <=> t <= j - 1 \/ t = j
    BY <1>3, <1>9
  <2>2. below[j] = {t \in S : t <= j} /\ below[j - 1] = {t \in S : t <= j - 1}
    BY <1>2, <1>9, <1>11
  <2>3. QED
    BY <2>1, <2>2
<1>14. j \in S
  <2>1. SUFFICES ASSUME j \notin S PROVE FALSE
    OBVIOUS
  <2>2. below[j] = below[j - 1]
    BY <1>13, <2>1
  <2>3. QED
    BY <1>4, <1>9, <1>11, <1>12, <2>2
<1>15. j \notin below[j - 1]
  BY <1>2, <1>9, <1>11
<1>16. Cardinality(below[j]) = Cardinality(below[j - 1]) + 1
  <2>1. below[j] = below[j - 1] \union {j}
    BY <1>13, <1>14
  <2>2. IsFiniteSet(below[j - 1])
    BY <1>4, <1>11
  <2>3. QED
    BY <1>15, <2>1, <2>2, FS_AddElement
<1>17. Cardinality(below[j]) = n
  BY <1>4, <1>9, <1>11, <1>12, <1>16
<1>18. \E k \in S : Cardinality({t \in S : t <= k}) = n
  BY <1>2, <1>9, <1>14, <1>17
<1>19. QED
  BY <1>1, <1>18 DEF Nth

LEMMA TargetBounded ==
  ASSUME NEW ev \in Seq(EventRow), NEW covered \in 0 .. TurnCount(ev), RecentTurns \in Nat
  PROVE  DiscoveryTarget(ev, covered) \in 0 .. TurnCount(ev)
<1>1. PICK S : S = ClosedTurns(ev, covered, Floor)
  OBVIOUS
<1>2. TurnCount(ev) \in Nat
  BY StartsCounted
<1>3. S \in SUBSET (1 .. TurnCount(ev))
  BY <1>1 DEF ClosedTurns, TurnCount
<1>4. IsFiniteSet(S) /\ Cardinality(S) \in Nat
  BY <1>2, <1>3, FirstNumbers, FS_Subset, FS_CardinalityType
<1>5. CASE Cardinality(S) <= RecentTurns
  <2>1. DiscoveryTarget(ev, covered) = covered
    BY <1>1, <1>5 DEF DiscoveryTarget
  <2>2. QED
    BY <2>1
<1>6. CASE ~(Cardinality(S) <= RecentTurns)
  <2>1. DiscoveryTarget(ev, covered) = Nth(S, Cardinality(S) - RecentTurns)
    BY <1>1, <1>6 DEF DiscoveryTarget
  <2>2. Cardinality(S) - RecentTurns \in 1 .. Cardinality(S)
    BY <1>4, <1>6
  <2>3. Nth(S, Cardinality(S) - RecentTurns) \in S
    BY <1>2, <1>3, <2>2, NthExists
  <2>4. \A x \in S : x \in 0 .. TurnCount(ev)
    BY <1>2, <1>3
  <2>5. QED
    BY <2>1, <2>3, <2>4
<1>7. QED
  BY <1>5, <1>6

-----------------------------------------------------------------------------
(* The queue: what a new request leaves of it.                             *)

LEMMA RequestPlaced ==
  ASSUME RowsOK, NEW t \in Nat \ {0}, t \notin DOMAIN Without(jobs, WaitingRows),
         jobs' = With(Without(jobs, WaitingRows), t, Row("pending", 0))
  PROVE  /\ RowsOK' /\ t \in Live'
         /\ \A x \in DOMAIN jobs : jobs[x].status \in {"running", "done"} =>
              x \in DOMAIN jobs' /\ jobs'[x] = jobs[x]
<1>1. PICK kept : kept = Without(jobs, WaitingRows)
  OBVIOUS
<1>2. DOMAIN kept = DOMAIN jobs \ WaitingRows /\ \A x \in DOMAIN kept : kept[x] = jobs[x]
  BY <1>1 DEF Without
<1>3. jobs' = [x \in DOMAIN kept \union {t} |-> IF x = t THEN Row("pending", 0) ELSE kept[x]]
  BY <1>1 DEF With
<1>4. DOMAIN jobs' = DOMAIN kept \union {t} /\ t \notin DOMAIN kept
  BY <1>1, <1>3
<1>5. jobs'[t] = Row("pending", 0) /\ \A x \in DOMAIN kept : jobs'[x] = jobs[x]
  BY <1>2, <1>3, <1>4
<1>6. MaxAttempts \in Nat \ {0}
  BY SummariesAssumption DEF SummariesAssumption
<1>7. Row("pending", 0) \in JobRow /\ Row("pending", 0).status = "pending" /\ Row("pending", 0).attempts = 0
  BY <1>6 DEF Row, JobRow
<1>8. \A x \in DOMAIN jobs' : jobs'[x] \in JobRow /\ x \in Nat \ {0}
  BY <1>2, <1>4, <1>5, <1>7 DEF RowsOK
<1>9. jobs' \in [DOMAIN jobs' -> JobRow]
  BY <1>3, <1>4, <1>8
<1>10. \E b \in Nat : \A x \in DOMAIN jobs' : x <= b
  <2>1. PICK b \in Nat : \A x \in DOMAIN jobs : x <= b
    BY DEF RowsOK
  <2>2. \A x \in DOMAIN jobs' : x \in Nat /\ (x \in DOMAIN jobs \/ x = t)
    BY <1>2, <1>4, <1>8
  <2>3. b + t \in Nat /\ \A x \in DOMAIN jobs' : x <= b + t
    BY <2>1, <2>2
  <2>4. QED
    BY <2>3
<1>11. t \in Live'
  BY <1>4, <1>5, <1>6, <1>7 DEF Live, WaitingRows
<1>12. \A x \in DOMAIN jobs : jobs[x].status \in {"running", "done"} => x \in DOMAIN kept
  BY <1>2 DEF WaitingRows
<1>13. QED
  BY <1>4, <1>5, <1>8, <1>9, <1>10, <1>11, <1>12 DEF RowsOK

LEMMA RequestMade ==
  ASSUME RowsOK, NEW target \in Nat \ {0}, ScheduleSummaryJob(target)
  PROVE  /\ RowsOK'
         /\ \A x \in DOMAIN jobs : jobs[x].status \in {"running", "done"} =>
              x \in DOMAIN jobs' /\ jobs'[x] = jobs[x]
         /\ IsDiscovery(target) => \E t \in Live' : IsDiscovery(t)
         /\ target \in DOMAIN jobs /\ jobs[target].status = "done" /\ ~IsDiscovery(target) =>
              jobs' = jobs
<1>1. Floor \in Nat
  BY SummariesAssumption DEF SummariesAssumption
<1>2. Live \in SUBSET Nat /\ \E b \in Nat : \A t \in Live : t <= b
  BY DEF RowsOK, Live, WaitingRows
<1>3. CASE Coalesced(target)
  <2>1. jobs' = jobs
    BY <1>3 DEF ScheduleSummaryJob
  <2>2. RowsOK' /\ Live' = Live
    BY <2>1 DEF RowsOK, Live, WaitingRows
  <2>3. Live # {} /\ Max(Live) >= target
    BY <1>3 DEF Coalesced
  <2>4. Max(Live) \in Live /\ Max(Live) \in Nat
    BY <1>2, <2>3, GreatestNumber
  <2>5. IsDiscovery(target) => IsDiscovery(Max(Live))
    BY <1>1, <2>3, <2>4 DEF IsDiscovery
  <2>6. QED
    BY <2>1, <2>2, <2>4, <2>5
<1>4. CASE ~Coalesced(target)
  <2>1. PICK kept : kept = Without(jobs, WaitingRows)
    OBVIOUS
  <2>2. DOMAIN kept = DOMAIN jobs \ WaitingRows
    BY <2>1 DEF Without
  <2>3. jobs' = IF target \notin DOMAIN kept THEN With(kept, target, Row("pending", 0))
                ELSE IF IsDiscovery(target)
                     THEN With(kept, Max(DOMAIN kept) + 1, Row("pending", 0))
                     ELSE jobs
    BY <1>4, <2>1 DEF ScheduleSummaryJob, Scheduled
  <2>4. CASE target \notin DOMAIN kept
    <3>1. jobs' = With(kept, target, Row("pending", 0))
      BY <2>3, <2>4
    <3>2. /\ RowsOK' /\ target \in Live'
          /\ \A x \in DOMAIN jobs : jobs[x].status \in {"running", "done"} =>
               x \in DOMAIN jobs' /\ jobs'[x] = jobs[x]
      BY <2>1, <2>4, <3>1, RequestPlaced
    <3>3. ~(target \in DOMAIN jobs /\ jobs[target].status = "done")
      BY <2>2, <2>4 DEF WaitingRows
    <3>4. QED
      BY <3>2, <3>3
  <2>5. CASE target \in DOMAIN kept /\ IsDiscovery(target)
    <3>1. PICK g : g = Max(DOMAIN kept)
      OBVIOUS
    <3>2. DOMAIN kept \in SUBSET Nat /\ \E b \in Nat : \A t \in DOMAIN kept : t <= b
      BY <2>2 DEF RowsOK
    <3>3. g \in DOMAIN kept /\ \A t \in DOMAIN kept : t <= g
      BY <2>5, <3>1, <3>2, GreatestNumber
    <3>4. g \in Nat /\ g + 1 \in Nat \ {0} /\ g + 1 \notin DOMAIN kept /\ target <= g
      BY <2>5, <3>2, <3>3
    <3>5. jobs' = With(kept, g + 1, Row("pending", 0))
      BY <2>3, <2>5, <3>1
    <3>6. /\ RowsOK' /\ g + 1 \in Live'
          /\ \A x \in DOMAIN jobs : jobs[x].status \in {"running", "done"} =>
               x \in DOMAIN jobs' /\ jobs'[x] = jobs[x]
      BY <2>1, <3>4, <3>5, RequestPlaced
    <3>7. IsDiscovery(g + 1)
      BY <1>1, <2>5, <3>4 DEF IsDiscovery
    <3>8. QED
      BY <2>5, <3>6, <3>7
  <2>6. CASE target \in DOMAIN kept /\ ~IsDiscovery(target)
    <3>1. jobs' = jobs
      BY <2>3, <2>6
    <3>2. RowsOK'
      BY <3>1 DEF RowsOK
    <3>3. QED
      BY <2>6, <3>1, <3>2
  <2>7. QED
    BY <2>4, <2>5, <2>6
<1>5. QED
  BY <1>3, <1>4

-----------------------------------------------------------------------------
(* What a step that leaves its state alone keeps of the invariant.         *)

LEMMA QueueKept ==
  ASSUME QueueInv, UNCHANGED <<jobs, worker>>
  PROVE  QueueInv'
BY DEF QueueInv, RowsOK, Rest

LEMMA RequestsKeptBy ==
  ASSUME RequestInv, UNCHANGED <<jobs, worker, requested, seen, owed>>,
         Len(events) \in Nat, Len(events') \in Nat, Len(events) <= Len(events')
  PROVE  RequestInv'
<1>1. requested' \in 0 .. Len(events') /\ seen' \in 0 .. Len(events') /\ owed' \in Nat
  BY DEF RequestInv
<1>2. (Unserved' <=> Unserved) /\ Live' = Live
  BY DEF Unserved, Live, WaitingRows
<1>3. QED
  BY <1>1, <1>2 DEF RequestInv

LEMMA SummaryKept ==
  ASSUME SummaryInv, UNCHANGED <<events, summary, worker>>
  PROVE  SummaryInv'
<1>1. Taken' = Taken
  BY DEF Taken
<1>2. QED
  BY <1>1 DEF SummaryInv

LEMMA HeadsKept ==
  ASSUME HeadsInv, UNCHANGED <<events, epoch, capsule>>
  PROVE  HeadsInv'
BY DEF HeadsInv

LEMMA DriverKept ==
  ASSUME DriverInv, UNCHANGED <<events, driver>>
  PROVE  DriverInv'
BY DEF DriverInv

LEMMA DriverGone ==
  ASSUME driver' = NoDriver
  PROVE  DriverInv'
<1>1. driver'.at = "idle" /\ driver'.id = NoId
  BY DEF NoDriver
<1>2. QED
  BY <1>1 DEF DriverInv

LEMMA TakenBounded ==
  ASSUME SessionOf(events), SummaryInv
  PROVE  Taken \in 0 .. TurnCount(events) /\ Taken \in Nat /\ TurnCount(events) \in Nat
<1>1. TurnCount(events) \in Nat
  BY StartsCounted DEF SessionOf
<1>2. CASE worker.at = "commit"
  BY <1>1, <1>2 DEF Taken, SummaryInv
<1>3. CASE worker.at # "commit"
  BY <1>1, <1>3 DEF Taken, SummaryInv
<1>4. QED
  BY <1>1, <1>2, <1>3

-----------------------------------------------------------------------------
(* The driver appends to the turn in progress, or to a new one.            *)

LEMMA Appended ==
  ASSUME SummariesInv, Room, NEW kind \in Kinds, NEW id \in ToolCall \union {NoId},
         AppendEvent(kind, id), MayFollow(events, Event(kind, id)),
         TurnCount(events) > Taken \/ kind = "user",
         UNCHANGED <<queue, requested, owed>>
  PROVE  /\ LedgerInv' /\ SummaryInv' /\ QueueInv' /\ RequestInv'
         /\ events \in Seq(EventRow) /\ Event(kind, id) \in EventRow
         /\ events' = Append(events, Event(kind, id)) /\ Len(events) \in Nat
<1>1. PICK e : e = Event(kind, id)
  OBVIOUS
<1>2. e.kind = kind /\ e.id = id /\ e \in EventRow
  BY <1>1, EventFields, EventTyped
<1>3. events' = Append(events, e) /\ MayFollow(events, e)
  BY <1>1 DEF AppendEvent
<1>4. SessionOf(events) /\ events \in Seq(EventRow)
  BY DEF SummariesInv, LedgerInv, SessionOf
<1>5. /\ events' \in Seq(EventRow) /\ Len(events) \in Nat /\ Len(events') = Len(events) + 1
  BY <1>2, <1>3, <1>4, Extended
<1>6. LedgerInv'
  <2>1. SessionOf(Append(events, e))
    BY <1>3, <1>4, SessionFollows
  <2>2. Len(events') <= MaxEvents
    BY <1>5, SummariesAssumption DEF Room, SummariesAssumption
  <2>3. QED
    BY <1>3, <2>1, <2>2 DEF LedgerInv
<1>7. PICK n : n = Taken
  OBVIOUS
<1>8. /\ SummaryInv /\ n \in 0 .. TurnCount(events) /\ n \in Nat /\ TurnCount(events) \in Nat
  BY <1>4, <1>7, TakenBounded DEF SummariesInv
<1>9. /\ TurnCount(Append(events, e)) = TurnCount(events) + (IF e.kind = "user" THEN 1 ELSE 0)
  BY <1>2, <1>4, StartsExtended
<1>10. TurnCount(Append(events, e)) > n /\ TurnCount(events) <= TurnCount(Append(events, e))
  BY <1>2, <1>7, <1>8, <1>9
<1>11. /\ UNCHANGED <<summary, jobs, worker, seen, requested, owed>> /\ Taken' = n
  BY <1>7 DEF queue, Taken
<1>12. ASSUME NEW k \in 1 .. n PROVE TurnContents(events', k) = TurnContents(events, k)
  <2>1. TurnCount(Append(events, e)) # k
    BY <1>8, <1>9, <1>10
  <2>2. QED
    BY <1>2, <1>3, <1>4, <2>1, ContentsExtended
<1>13. SummaryInv'
  <2>1. SealedTurns(Append(events, e), n)
    BY <1>3, <1>4, <1>7, <1>8, <1>10, SealedFollows DEF SummaryInv
  <2>2. SealedTurns(events', Taken')
    BY <1>3, <1>11, <2>1
  <2>3. summary.covered \in 0 .. TurnCount(events') /\ TurnCount(events) <= TurnCount(events')
    BY <1>3, <1>8, <1>9, <1>10 DEF SummaryInv
  <2>4. summary.covered \in Nat /\ summary.covered <= n
    BY <1>7, <1>8 DEF SummaryInv, Taken
  <2>5. \A k \in 1 .. summary.covered : summary.source[k] = TurnContents(events', k)
    <3>1. \A k \in 1 .. summary.covered : k \in 1 .. n
      BY <1>8, <2>4
    <3>2. QED
      BY <1>8, <1>12, <3>1 DEF SummaryInv
  <2>6. ASSUME worker.at = "commit"
        PROVE  /\ worker.upto \in summary.covered + 1 .. TurnCount(events')
               /\ worker.read \in Seq(Contents) /\ Len(worker.read) = worker.upto - summary.covered
               /\ \A i \in 1 .. Len(worker.read) :
                    worker.read[i] = TurnContents(events', summary.covered + i)
    <3>1. /\ worker.upto \in summary.covered + 1 .. TurnCount(events) /\ n = worker.upto
          /\ worker.read \in Seq(Contents) /\ Len(worker.read) = worker.upto - summary.covered
          /\ \A i \in 1 .. Len(worker.read) :
               worker.read[i] = TurnContents(events, summary.covered + i)
      BY <1>7, <1>8, <2>6 DEF SummaryInv, Taken
    <3>2. TurnCount(events') \in Nat
      BY <1>3, <1>8, <1>9
    <3>3. worker.upto \in summary.covered + 1 .. TurnCount(events')
      BY <1>8, <2>3, <2>4, <3>1, <3>2
    <3>4. \A i \in 1 .. Len(worker.read) : summary.covered + i \in 1 .. n
      BY <1>8, <2>4, <3>1
    <3>5. \A i \in 1 .. Len(worker.read) :
            worker.read[i] = TurnContents(events', summary.covered + i)
      BY <1>12, <3>1, <3>4
    <3>6. QED
      BY <3>1, <3>3, <3>5
  <2>7. summary.source \in Seq(Contents) /\ Len(summary.source) = summary.covered
    BY <1>8 DEF SummaryInv
  <2>8. QED
    BY <1>11, <2>2, <2>3, <2>5, <2>6, <2>7 DEF SummaryInv
<1>14. QueueInv'
  BY <1>11, QueueKept DEF SummariesInv
<1>15. RequestInv'
  BY <1>5, <1>11, RequestsKeptBy DEF SummariesInv
<1>16. QED
  BY <1>1, <1>2, <1>3, <1>4, <1>5, <1>6, <1>13, <1>14, <1>15

\* While the driver goes on with a turn, that turn is not taken.
LEMMA DriverAhead ==
  ASSUME SummariesInv, driver.at \in {"model", "tool", "ask", "result"}
  PROVE  TurnCount(events) > Taken /\ events # <<>> /\ ~FinalText(events) /\ SessionOf(events)
<1>1. events # <<>> /\ ~FinalText(events) /\ SessionOf(events)
  BY DEF SummariesInv, DriverInv, LedgerInv
<1>2. Taken \in 0 .. TurnCount(events) /\ SealedTurns(events, Taken)
  BY <1>1, TakenBounded DEF SummariesInv, SummaryInv
<1>3. QED
  BY <1>1, <1>2, UnfinishedTurn

LEMMA FinalTextExtended ==
  ASSUME NEW ev \in Seq(EventRow), NEW e \in EventRow
  PROVE  /\ FinalText(Append(ev, e)) <=> e.kind = "text"
         /\ Append(ev, e) # <<>>
<1>1. PICK f : f = Append(ev, e)
  OBVIOUS
<1>2. f \in Seq(EventRow) /\ Len(f) = Len(ev) + 1 /\ Len(ev) \in Nat /\ f[Len(ev) + 1] = e
  BY <1>1, Extended
<1>3. f # <<>>
  BY <1>2
<1>4. QED
  BY <1>1, <1>2, <1>3 DEF FinalText

LEMMA FaultsBounded ==
  ASSUME faults \in 0 .. MaxFaults, Fault \/ UNCHANGED faults
  PROVE  faults' \in 0 .. MaxFaults
BY SummariesAssumption DEF Fault, SummariesAssumption

\* The capsule stands as the events go on, and so does an epoch of theirs.
LEMMA HeadsAppended ==
  ASSUME HeadsInv, NEW e \in EventRow, events \in Seq(EventRow), events' = Append(events, e),
         UNCHANGED capsule,
         UNCHANGED epoch \/ (epoch'.number \in Nat /\ epoch'.covered \in -1 .. Len(events) - 1)
  PROVE  HeadsInv'
<1>1. /\ Len(events) \in Nat /\ Len(events') = Len(events) + 1
      /\ \A i \in 1 .. Len(events) : events'[i] = events[i]
  BY Extended
<1>2. epoch'.number \in Nat /\ epoch'.covered \in -1 .. Len(events) - 1
  BY DEF HeadsInv
<1>3. capsule.revision \in Nat /\ capsule.covered \in -1 .. Len(events) - 1
  BY DEF HeadsInv
<1>4. ASSUME capsule.revision > 0
      PROVE  capsule.covered >= 0 /\ events'[capsule.covered + 1].kind = "text"
  <2>1. capsule.covered >= 0 /\ events[capsule.covered + 1].kind = "text"
    BY <1>4 DEF HeadsInv
  <2>2. capsule.covered + 1 \in 1 .. Len(events)
    BY <1>1, <1>3, <2>1
  <2>3. QED
    BY <1>1, <2>1, <2>2
<1>5. /\ epoch'.covered \in -1 .. Len(events') - 1
      /\ capsule.covered \in -1 .. Len(events') - 1
  BY <1>1, <1>2, <1>3
<1>6. QED
  BY <1>2, <1>3, <1>4, <1>5 DEF HeadsInv

LEMMA RunKeeps ==
  ASSUME SummariesInv, Run
  PROVE  SummariesInv'
<1>1. "user" \in Kinds /\ NoId \in ToolCall \union {NoId}
  BY DEF Kinds
<1>2. PICK e : e = Event("user", NoId)
  OBVIOUS
<1>3. e.kind = "user" /\ e \in EventRow
  BY <1>1, <1>2, EventFields, EventTyped
<1>4. MayFollow(events, e)
  BY <1>3 DEF MayFollow, Legal
<1>5. Room /\ AppendEvent("user", NoId) /\ UNCHANGED <<epoch, capsule, queue, requested, owed, faults, restarts>>
  BY DEF Run
<1>6. /\ LedgerInv' /\ SummaryInv' /\ QueueInv' /\ RequestInv'
      /\ events \in Seq(EventRow) /\ events' = Append(events, e) /\ Len(events) \in Nat
  BY <1>1, <1>2, <1>4, <1>5, Appended
<1>7. HeadsInv'
  BY <1>3, <1>5, <1>6, HeadsAppended DEF SummariesInv
<1>8. events' # <<>> /\ ~FinalText(events')
  BY <1>3, <1>6, FinalTextExtended
<1>9. driver'.at = "model" /\ driver'.id = NoId
  BY DEF Run, Driver
<1>10. DriverInv'
  BY <1>8, <1>9 DEF DriverInv
<1>11. QED
  BY <1>5, <1>6, <1>7, <1>10 DEF SummariesInv

LEMMA ResumeKeeps ==
  ASSUME SummariesInv, NEW id \in ToolCall, ResumeRun(id)
  PROVE  SummariesInv'
<1>1. "answer" \in Kinds /\ id \in ToolCall \union {NoId}
  BY DEF Kinds
<1>2. PICK e : e = Event("answer", id)
  OBVIOUS
<1>3. e.kind = "answer" /\ e.id = id /\ e \in EventRow
  BY <1>1, <1>2, EventFields, EventTyped
<1>4. /\ Room /\ AppendEvent("answer", id)
      /\ UNCHANGED <<epoch, capsule, queue, requested, owed, faults, restarts>>
      /\ Has(events, "ask", id) /\ ~Has(events, "answer", id)
  BY DEF ResumeRun
<1>5. events # <<>>
  BY <1>4 DEF Has
<1>6. MayFollow(events, e)
  BY <1>3, <1>4, <1>5 DEF MayFollow, Legal
<1>7. SessionOf(events) /\ SummaryInv
  BY DEF SummariesInv, LedgerInv
<1>8. id \in Made(events) /\ Responses(events, id) = 1 /\ Undecided(events, id)
  BY <1>4, <1>7 DEF SessionOf, Undecided
<1>9. TurnCount(events) > Taken
  <2>1. CallTurn(events, id) \in 1 .. TurnCount(events)
    BY <1>7, <1>8, CallTurnBounded DEF SessionOf, Made
  <2>2. CallTurn(events, id) \notin 1 .. Taken
    BY <1>7, <1>8 DEF SummaryInv, SealedTurns
  <2>3. Taken \in Nat /\ TurnCount(events) \in Nat
    BY <1>7, TakenBounded
  <2>4. QED
    BY <2>1, <2>2, <2>3
<1>10. /\ LedgerInv' /\ SummaryInv' /\ QueueInv' /\ RequestInv'
       /\ events \in Seq(EventRow) /\ events' = Append(events, e) /\ Len(events) \in Nat
  BY <1>1, <1>2, <1>4, <1>6, <1>9, Appended
<1>11. HeadsInv'
  BY <1>3, <1>4, <1>10, HeadsAppended DEF SummariesInv
<1>12. events' # <<>> /\ ~FinalText(events')
  BY <1>3, <1>10, FinalTextExtended
<1>13. id \in Made(events') /\ Responses(events', id) = 1 /\ Has(events', "answer", id)
  <2>1. Has(events', "answer", id) /\ (Has(events, "call", id) => Has(events', "call", id))
    BY <1>2, <1>3, <1>10, HasExtended
  <2>2. Responses(events', id) = Responses(events, id) + 0
    BY <1>3, <1>10, ResponsesExtended
  <2>3. QED
    BY <1>8, <2>1, <2>2 DEF Made
<1>14. driver'.at = "result" /\ driver'.id = id
  BY DEF ResumeRun, Driver
<1>15. DriverInv'
  BY <1>12, <1>13, <1>14 DEF DriverInv
<1>16. QED
  BY <1>4, <1>10, <1>11, <1>15 DEF SummariesInv

LEMMA ModelAnswersKeeps ==
  ASSUME SummariesInv, ModelAnswers
  PROVE  SummariesInv'
<1>1. "text" \in Kinds /\ NoId \in ToolCall \union {NoId}
  BY DEF Kinds
<1>2. PICK e : e = Event("text", NoId)
  OBVIOUS
<1>3. e.kind = "text" /\ e \in EventRow
  BY <1>1, <1>2, EventFields, EventTyped
<1>4. /\ Room /\ AppendEvent("text", NoId) /\ RecordEpoch
      /\ \/ UpdateContinuity /\ UNCHANGED faults
         \/ Fault /\ UNCHANGED capsule
      /\ UNCHANGED <<queue, requested, owed, restarts>> /\ driver.at = "model"
  BY DEF ModelAnswers
<1>5. TurnCount(events) > Taken /\ events # <<>>
  BY <1>4, DriverAhead
<1>6. MayFollow(events, e)
  BY <1>3, <1>5 DEF MayFollow, Legal
<1>7. /\ LedgerInv' /\ SummaryInv' /\ QueueInv' /\ RequestInv'
      /\ events \in Seq(EventRow) /\ events' = Append(events, e) /\ Len(events) \in Nat
  BY <1>1, <1>2, <1>4, <1>5, <1>6, Appended
<1>8. /\ Len(events') = Len(events) + 1 /\ events'[Len(events) + 1] = e
      /\ \A i \in 1 .. Len(events) : events'[i] = events[i]
  BY <1>3, <1>7, Extended
<1>9. epoch'.number \in Nat /\ epoch'.covered \in -1 .. Len(events') - 1
  <2>1. HeadsInv
    BY DEF SummariesInv
  <2>2. epoch'.number = epoch.number + 1 /\ epoch'.covered = Len(events) - 1
    BY <1>4 DEF RecordEpoch, AppendEpoch, LatestEventOrdinal
  <2>3. QED
    BY <1>7, <1>8, <2>1, <2>2 DEF HeadsInv
<1>10. HeadsInv'
  <2>1. HeadsInv
    BY DEF SummariesInv
  <2>2. CASE UpdateContinuity
    <3>1. capsule'.revision = capsule.revision + 1 /\ capsule'.covered = Len(events') - 1
      BY <2>2 DEF UpdateContinuity, CommitCapsule, LatestEventOrdinal
    <3>2. events'[capsule'.covered + 1] = e /\ capsule'.covered >= 0
      BY <1>7, <1>8, <3>1
    <3>3. capsule'.revision \in Nat /\ capsule'.covered \in -1 .. Len(events') - 1
      BY <1>7, <1>8, <2>1, <3>1 DEF HeadsInv
    <3>4. QED
      BY <1>3, <1>9, <3>2, <3>3 DEF HeadsInv
  <2>3. CASE UNCHANGED capsule
    <3>1. epoch'.covered \in -1 .. Len(events) - 1
      BY <1>4, <1>7 DEF RecordEpoch, AppendEpoch, LatestEventOrdinal
    <3>2. QED
      BY <1>3, <1>7, <1>9, <2>1, <2>3, <3>1, HeadsAppended
  <2>4. QED
    BY <1>4, <2>2, <2>3
<1>11. events' # <<>>
  BY <1>3, <1>7, FinalTextExtended
<1>12. driver'.at = "schedule" /\ driver'.id = NoId
  BY DEF ModelAnswers, Driver
<1>13. DriverInv'
  BY <1>11, <1>12 DEF DriverInv
<1>14. faults' \in 0 .. MaxFaults /\ restarts' \in 0 .. MaxRestarts
  BY <1>4, FaultsBounded DEF SummariesInv
<1>15. QED
  BY <1>7, <1>10, <1>13, <1>14 DEF SummariesInv

LEMMA ModelCallsKeeps ==
  ASSUME SummariesInv, NEW id \in ToolCall, ModelCalls(id)
  PROVE  SummariesInv'
<1>1. "call" \in Kinds /\ id \in ToolCall \union {NoId}
  BY DEF Kinds
<1>2. PICK e : e = Event("call", id)
  OBVIOUS
<1>3. e.kind = "call" /\ e.id = id /\ e \in EventRow
  BY <1>1, <1>2, EventFields, EventTyped
<1>4. /\ Room /\ AppendEvent("call", id) /\ RecordEpoch /\ id \notin Made(events)
      /\ UNCHANGED <<capsule, queue, requested, owed, faults, restarts>> /\ driver.at = "model"
  BY DEF ModelCalls
<1>5. TurnCount(events) > Taken /\ events # <<>> /\ SessionOf(events)
  BY <1>4, DriverAhead
<1>6. ~Has(events, "call", id) /\ Responses(events, id) = 0 /\ ~Has(events, "ask", id)
  BY <1>4, <1>5 DEF Made, SessionOf
<1>7. MayFollow(events, e)
  BY <1>3, <1>5, <1>6 DEF MayFollow, Legal
<1>8. /\ LedgerInv' /\ SummaryInv' /\ QueueInv' /\ RequestInv'
      /\ events \in Seq(EventRow) /\ events' = Append(events, e) /\ Len(events) \in Nat
  BY <1>1, <1>2, <1>4, <1>5, <1>7, Appended
<1>9. HeadsInv'
  <2>1. epoch'.number = epoch.number + 1 /\ epoch'.covered = Len(events) - 1
    BY <1>4 DEF RecordEpoch, AppendEpoch, LatestEventOrdinal
  <2>2. epoch'.number \in Nat /\ epoch'.covered \in -1 .. Len(events) - 1
    BY <1>8, <2>1 DEF SummariesInv, HeadsInv
  <2>3. QED
    BY <1>3, <1>4, <1>8, <2>2, HeadsAppended DEF SummariesInv
<1>10. events' # <<>> /\ ~FinalText(events')
  BY <1>3, <1>8, FinalTextExtended
<1>11. id \in Made(events') /\ ~Has(events', "ask", id)
  <2>1. \A kind : Has(events', kind, id) <=> Has(events, kind, id) \/ e = Event(kind, id)
    BY <1>3, <1>8, HasExtended
  <2>2. e # Event("ask", id)
    BY <1>3, EventFields
  <2>3. QED
    BY <1>2, <1>6, <2>1, <2>2 DEF Made
<1>12. Responses(events', id) = 0
  BY <1>3, <1>6, <1>8, ResponsesExtended
<1>13. CallTurn(events', id) = TurnCount(events')
  BY <1>2, <1>3, <1>5, <1>7, <1>8, CallTurnExtended DEF SessionOf, MayFollow
<1>14. driver'.at = "tool" /\ driver'.id = id
  BY DEF ModelCalls, Driver
<1>15. DriverInv'
  BY <1>10, <1>11, <1>12, <1>13, <1>14 DEF DriverInv
<1>16. QED
  BY <1>4, <1>8, <1>9, <1>15 DEF SummariesInv

LEMMA ToolReturnsKeeps ==
  ASSUME SummariesInv, ToolReturns
  PROVE  SummariesInv'
<1>1. PICK id : id = driver.id
  OBVIOUS
<1>2. /\ driver.at \in {"tool", "result"} /\ Room /\ AppendEvent("result", id)
      /\ UNCHANGED <<epoch, capsule, queue, requested, owed, faults, restarts>>
  BY <1>1 DEF ToolReturns
<1>3. /\ id \in ToolCall \union {NoId} /\ Has(events, "call", id)
      /\ Responses(events, id) = 0 \/ (Responses(events, id) = 1 /\ Has(events, "answer", id))
  BY <1>1, <1>2 DEF SummariesInv, DriverInv, Made
<1>4. "result" \in Kinds
  BY DEF Kinds
<1>5. PICK e : e = Event("result", id)
  OBVIOUS
<1>6. e.kind = "result" /\ e.id = id /\ e \in EventRow
  BY <1>3, <1>4, <1>5, EventFields, EventTyped
<1>7. TurnCount(events) > Taken /\ events # <<>>
  BY <1>2, DriverAhead
<1>8. MayFollow(events, e)
  BY <1>3, <1>6, <1>7 DEF MayFollow, Legal
<1>9. /\ LedgerInv' /\ SummaryInv' /\ QueueInv' /\ RequestInv'
      /\ events \in Seq(EventRow) /\ events' = Append(events, e) /\ Len(events) \in Nat
  BY <1>2, <1>3, <1>4, <1>5, <1>7, <1>8, Appended
<1>10. HeadsInv'
  BY <1>2, <1>6, <1>9, HeadsAppended DEF SummariesInv
<1>11. events' # <<>> /\ ~FinalText(events')
  BY <1>6, <1>9, FinalTextExtended
<1>12. driver'.at = "model" /\ driver'.id = NoId
  BY DEF ToolReturns, Driver
<1>13. DriverInv'
  BY <1>11, <1>12 DEF DriverInv
<1>14. QED
  BY <1>2, <1>9, <1>10, <1>13 DEF SummariesInv

LEMMA ToolNeedsConfirmationKeeps ==
  ASSUME SummariesInv, ToolNeedsConfirmation
  PROVE  SummariesInv'
<1>1. PICK id : id = driver.id
  OBVIOUS
<1>2. /\ driver.at = "tool" /\ Room /\ AppendEvent("placeholder", id)
      /\ UNCHANGED <<epoch, capsule, queue, requested, owed, faults, restarts>>
  BY <1>1 DEF ToolNeedsConfirmation
<1>3. /\ id \in ToolCall \union {NoId} /\ id \in ToolCall /\ Has(events, "call", id)
      /\ Responses(events, id) = 0 /\ ~Has(events, "ask", id)
      /\ CallTurn(events, id) = TurnCount(events)
  BY <1>1, <1>2 DEF SummariesInv, DriverInv, Made
<1>4. "placeholder" \in Kinds
  BY DEF Kinds
<1>5. PICK e : e = Event("placeholder", id)
  OBVIOUS
<1>6. e.kind = "placeholder" /\ e.id = id /\ e \in EventRow
  BY <1>3, <1>4, <1>5, EventFields, EventTyped
<1>7. TurnCount(events) > Taken /\ events # <<>> /\ SessionOf(events)
  BY <1>2, DriverAhead
<1>8. MayFollow(events, e)
  BY <1>3, <1>6, <1>7 DEF MayFollow, Legal
<1>9. /\ LedgerInv' /\ SummaryInv' /\ QueueInv' /\ RequestInv'
      /\ events \in Seq(EventRow) /\ events' = Append(events, e) /\ Len(events) \in Nat
  BY <1>2, <1>3, <1>4, <1>5, <1>7, <1>8, Appended
<1>10. HeadsInv'
  BY <1>2, <1>6, <1>9, HeadsAppended DEF SummariesInv
<1>11. events' # <<>> /\ ~FinalText(events')
  BY <1>6, <1>9, FinalTextExtended
<1>12. id \in Made(events') /\ Has(events', "placeholder", id) /\ ~Has(events', "ask", id)
  <2>1. \A kind : Has(events', kind, id) <=> Has(events, kind, id) \/ e = Event(kind, id)
    BY <1>6, <1>9, HasExtended
  <2>2. e # Event("ask", id)
    BY <1>6, EventFields
  <2>3. QED
    BY <1>3, <1>5, <2>1, <2>2 DEF Made
<1>13. Responses(events', id) = 1
  BY <1>3, <1>6, <1>9, ResponsesExtended
<1>14. CallTurn(events', id) = TurnCount(events')
  <2>1. CallTurn(events', id) = CallTurn(events, id)
    BY <1>3, <1>6, <1>7, <1>8, <1>9, CallTurnExtended DEF SessionOf, MayFollow
  <2>2. TurnCount(events') = TurnCount(events) + 0 /\ TurnCount(events) \in Nat
    BY <1>6, <1>9, StartsExtended, StartsCounted
  <2>3. QED
    BY <1>3, <2>1, <2>2
<1>15. driver'.at = "ask" /\ driver'.id = id
  BY <1>1 DEF ToolNeedsConfirmation, Driver
<1>16. DriverInv'
  BY <1>3, <1>11, <1>12, <1>13, <1>14, <1>15 DEF DriverInv
<1>17. QED
  BY <1>2, <1>9, <1>10, <1>16 DEF SummariesInv

LEMMA AskKeeps ==
  ASSUME SummariesInv, Ask
  PROVE  SummariesInv'
<1>1. PICK id : id = driver.id
  OBVIOUS
<1>2. /\ driver.at = "ask" /\ Room /\ AppendEvent("ask", id) /\ driver' = NoDriver
      /\ UNCHANGED <<epoch, capsule, queue, requested, owed, faults, restarts>>
  BY <1>1 DEF Ask
<1>3. /\ id \in ToolCall \union {NoId} /\ id \in Made(events)
      /\ CallTurn(events, id) = TurnCount(events)
      /\ Has(events, "placeholder", id) /\ Responses(events, id) = 1 /\ ~Has(events, "ask", id)
  BY <1>1, <1>2 DEF SummariesInv, DriverInv
<1>4. "ask" \in Kinds
  BY DEF Kinds
<1>5. PICK e : e = Event("ask", id)
  OBVIOUS
<1>6. e.kind = "ask" /\ e.id = id /\ e \in EventRow
  BY <1>3, <1>4, <1>5, EventFields, EventTyped
<1>7. TurnCount(events) > Taken /\ events # <<>>
  BY <1>2, DriverAhead
<1>8. MayFollow(events, e)
  BY <1>3, <1>6, <1>7 DEF MayFollow, Legal
<1>9. /\ LedgerInv' /\ SummaryInv' /\ QueueInv' /\ RequestInv'
      /\ events \in Seq(EventRow) /\ events' = Append(events, e) /\ Len(events) \in Nat
  BY <1>2, <1>3, <1>4, <1>5, <1>7, <1>8, Appended
<1>10. HeadsInv'
  BY <1>2, <1>6, <1>9, HeadsAppended DEF SummariesInv
<1>11. DriverInv'
  BY <1>2, DriverGone
<1>12. QED
  BY <1>2, <1>9, <1>10, <1>11 DEF SummariesInv

LEMMA RequestsStand ==
  ASSUME RequestInv, UNCHANGED <<events, jobs, worker, requested, seen, owed>>
  PROVE  RequestInv'
BY DEF RequestInv, Unserved, Live, WaitingRows

\* Fewer turns are sealed, too.
LEMMA SealedFewer ==
  ASSUME NEW ev, NEW n \in Nat, NEW m \in 0 .. n, SealedTurns(ev, n)
  PROVE  SealedTurns(ev, m)
<1>1. 1 .. m \subseteq 1 .. n
  OBVIOUS
<1>2. QED
  BY <1>1 DEF SealedTurns

LEMMA SummaryReleased ==
  ASSUME SessionOf(events), SummaryInv, UNCHANGED <<events, summary>>, worker'.at # "commit"
  PROVE  SummaryInv'
<1>1. Taken \in 0 .. TurnCount(events) /\ Taken \in Nat /\ TurnCount(events) \in Nat
  BY TakenBounded
<1>2. Taken' = summary.covered /\ summary.covered \in Nat
  BY <1>1 DEF Taken, SummaryInv
<1>3. summary.covered \in 0 .. Taken
  <2>1. CASE worker.at = "commit"
    BY <1>1, <1>2, <2>1 DEF Taken, SummaryInv
  <2>2. CASE worker.at # "commit"
    BY <1>2, <2>2 DEF Taken
  <2>3. QED
    BY <2>1, <2>2
<1>4. SealedTurns(events, summary.covered)
  BY <1>1, <1>3, SealedFewer DEF SummaryInv
<1>5. QED
  BY <1>2, <1>4 DEF SummaryInv

LEMMA EmptyRead == <<>> \in Seq(Contents)
OBVIOUS

LEMMA WorkerMoved ==
  ASSUME worker \in WorkerRow,
         NEW at \in {"idle", "discover", "read", "commit", "complete", "rest", "retry"}, Worker(at)
  PROVE  /\ worker' \in WorkerRow /\ worker'.at = at
         /\ worker'.job = worker.job /\ worker'.attempts = worker.attempts
         /\ worker'.target = worker.target /\ worker'.upto = worker.upto
         /\ worker'.read = worker.read
BY DEF Worker, WorkerRow

LEMMA WorkerRests ==
  ASSUME worker' = Resting
  PROVE  worker' \in WorkerRow /\ worker'.at = "idle"
BY EmptyRead DEF Resting, WorkerRow

LEMMA RowChanged ==
  ASSUME RowsOK, NEW t \in DOMAIN jobs, NEW r \in JobRow, jobs' = [jobs EXCEPT ![t] = r]
  PROVE  /\ RowsOK' /\ DOMAIN jobs' = DOMAIN jobs /\ jobs'[t] = r
         /\ \A x \in DOMAIN jobs : x # t => jobs'[x] = jobs[x]
<1>1. jobs \in [DOMAIN jobs -> JobRow]
  BY DEF RowsOK
<1>2. /\ DOMAIN jobs' = DOMAIN jobs /\ jobs'[t] = r /\ jobs' \in [DOMAIN jobs -> JobRow]
      /\ \A x \in DOMAIN jobs : x # t => jobs'[x] = jobs[x]
  BY <1>1
<1>3. RowsOK'
  BY <1>2 DEF RowsOK
<1>4. QED
  BY <1>2, <1>3

\* A request leaves what the worker holds.
LEMMA HeldRowsKept ==
  ASSUME QueueInv, RowsOK', UNCHANGED worker,
         \A x \in DOMAIN jobs : jobs[x].status \in {"running", "done"} =>
           x \in DOMAIN jobs' /\ jobs'[x] = jobs[x]
  PROVE  QueueInv'
<1>1. \A a : Row("running", a).status = "running"
  BY DEF Row
<1>2. Rest' <=> Rest
  BY DEF Rest
<1>3. QED
  BY <1>1, <1>2 DEF QueueInv

LEMMA ModelFailsKeeps ==
  ASSUME SummariesInv, ModelFails
  PROVE  SummariesInv'
<1>1. /\ driver' = NoDriver /\ Fault
      /\ UNCHANGED <<events, epoch, capsule, summary, jobs, worker, seen, requested, owed, restarts>>
  BY DEF ModelFails, ledger, queue
<1>2. LedgerInv' /\ HeadsInv' /\ DriverInv' /\ SummaryInv' /\ QueueInv'
  BY <1>1, HeadsKept, DriverGone, SummaryKept, QueueKept DEF SummariesInv, LedgerInv
<1>3. RequestInv'
  BY <1>1, RequestsStand DEF SummariesInv
<1>4. faults' \in 0 .. MaxFaults
  BY <1>1, FaultsBounded DEF SummariesInv
<1>5. QED
  BY <1>1, <1>2, <1>3, <1>4 DEF SummariesInv

LEMMA ScheduleConversationKeeps ==
  ASSUME SummariesInv, ScheduleConversation
  PROVE  SummariesInv'
<1>1. /\ driver' = NoDriver
      /\ UNCHANGED <<events, epoch, capsule, summary, worker, seen, restarts>>
  BY DEF ScheduleConversation, ledger
<1>2. LedgerInv' /\ HeadsInv' /\ DriverInv' /\ SummaryInv'
  BY <1>1, HeadsKept, DriverGone, SummaryKept DEF SummariesInv, LedgerInv
<1>3. events \in Seq(EventRow) /\ Len(events) \in Nat /\ TurnCount(events) \in Nat
  BY StartsCounted DEF SummariesInv, LedgerInv, SessionOf
<1>4. CASE Fault /\ UNCHANGED <<jobs, requested, owed>>
  <2>1. QueueInv' /\ RequestInv'
    BY <1>1, <1>4, QueueKept, RequestsStand DEF SummariesInv
  <2>2. QED
    BY <1>1, <1>2, <1>4, <2>1, FaultsBounded DEF SummariesInv
<1>5. CASE /\ ScheduleSummaryJob(Floor) /\ requested' = Len(events) /\ UNCHANGED faults
           /\ owed' = Max({0, Cardinality(Starts(events)) - RecentTurns})
  <2>1. Floor \in Nat \ {0} /\ IsDiscovery(Floor) /\ RecentTurns \in Nat
    BY SummariesAssumption DEF SummariesAssumption, IsDiscovery
  <2>2. /\ RowsOK'
        /\ \A x \in DOMAIN jobs : jobs[x].status \in {"running", "done"} =>
             x \in DOMAIN jobs' /\ jobs'[x] = jobs[x]
        /\ \E t \in Live' : IsDiscovery(t)
    BY <1>5, <2>1, RequestMade DEF SummariesInv, QueueInv
  <2>3. QueueInv'
    BY <1>1, <2>2, HeldRowsKept DEF SummariesInv
  <2>4. RequestInv'
    <3>1. owed' \in Nat
      <4>1. Cardinality(Starts(events)) - RecentTurns \in Int
        BY <1>3, <2>1 DEF TurnCount
      <4>2. QED
        BY <1>5, <4>1, GreaterOfTwo
    <3>2. requested' \in 0 .. Len(events') /\ seen' \in 0 .. Len(events')
      BY <1>1, <1>3, <1>5 DEF SummariesInv, RequestInv
    <3>3. \E t \in DOMAIN jobs' : IsDiscovery(t) /\ jobs'[t].status # "done"
      BY <2>2 DEF Live, WaitingRows
    <3>4. QED
      BY <2>2, <3>1, <3>2, <3>3 DEF RequestInv
  <2>5. QED
    BY <1>1, <1>2, <1>5, <2>3, <2>4 DEF SummariesInv
<1>6. QED
  BY <1>4, <1>5 DEF ScheduleConversation

-----------------------------------------------------------------------------
(* The worker.                                                             *)

LEMMA ClaimKeeps ==
  ASSUME SummariesInv, NEW t \in DOMAIN jobs, ClaimSummaryJob(t)
  PROVE  SummariesInv'
<1>1. /\ worker.at = "idle" /\ Claimable(t)
      /\ jobs' = [jobs EXCEPT ![t] = Row("running", jobs[t].attempts + 1)]
      /\ worker' = [Resting EXCEPT !.at = IF IsDiscovery(t) THEN "discover" ELSE "read",
                                   !.job = t, !.target = t, !.attempts = jobs[t].attempts + 1]
      /\ UNCHANGED <<events, epoch, capsule, driver, summary, seen, requested, owed, faults, restarts>>
  BY DEF ClaimSummaryJob, ledger
<1>2. RowsOK /\ t \in Nat \ {0} /\ jobs[t] \in JobRow
  BY DEF SummariesInv, QueueInv, RowsOK
<1>3. /\ MaxAttempts \in Nat /\ jobs[t].attempts \in Nat
      /\ jobs[t].attempts + 1 \in Nat /\ jobs[t].attempts + 1 \in 0 .. MaxAttempts /\ jobs[t].status # "done"
  BY <1>1, <1>2, SummariesAssumption DEF SummariesAssumption, JobRow, Claimable
<1>4. PICK r : r = Row("running", jobs[t].attempts + 1)
  OBVIOUS
<1>5. r \in JobRow /\ r.status = "running"
  BY <1>3, <1>4 DEF Row, JobRow
<1>6. /\ RowsOK' /\ DOMAIN jobs' = DOMAIN jobs /\ jobs'[t] = r
      /\ \A x \in DOMAIN jobs : x # t => jobs'[x] = jobs[x]
  BY <1>1, <1>2, <1>4, <1>5, RowChanged
<1>7. /\ worker' \in WorkerRow /\ worker'.at = (IF IsDiscovery(t) THEN "discover" ELSE "read")
      /\ worker'.job = t /\ worker'.target = t /\ worker'.attempts = jobs[t].attempts + 1
      /\ worker'.upto = 0
  BY <1>1, <1>2, <1>3, EmptyRead DEF WorkerRow, Resting
<1>8. QueueInv'
  <2>1. Floor \in Nat
    BY SummariesAssumption DEF SummariesAssumption
  <2>2. CASE IsDiscovery(t)
    BY <1>4, <1>6, <1>7, <2>2 DEF QueueInv
  <2>3. CASE ~IsDiscovery(t)
    <3>1. worker'.target > 0 /\ worker'.target < Floor
      BY <1>2, <1>7, <2>1, <2>3 DEF IsDiscovery
    <3>2. QED
      BY <1>4, <1>6, <1>7, <2>3, <3>1 DEF QueueInv
  <2>4. QED
    BY <2>2, <2>3
<1>9. RequestInv'
  <2>1. (Unserved' <=> Unserved) /\ RequestInv
    BY <1>1 DEF Unserved, SummariesInv
  <2>2. requested' \in 0 .. Len(events') /\ seen' \in 0 .. Len(events') /\ owed' \in Nat
    BY <1>1, <2>1 DEF RequestInv
  <2>3. ASSUME Unserved PROVE \E x \in DOMAIN jobs' : IsDiscovery(x) /\ jobs'[x].status # "done"
    <3>1. PICK x \in DOMAIN jobs : IsDiscovery(x) /\ jobs[x].status # "done"
      BY <2>1, <2>3 DEF RequestInv
    <3>2. x \in DOMAIN jobs' /\ jobs'[x].status # "done"
      BY <1>5, <1>6, <3>1
    <3>3. QED
      BY <3>1, <3>2
  <2>4. ~(worker'.at \in {"read", "commit", "complete", "rest"} /\ IsDiscovery(worker'.job))
    BY <1>7
  <2>5. QED
    BY <2>1, <2>2, <2>3, <2>4 DEF RequestInv
<1>10. LedgerInv' /\ HeadsInv' /\ DriverInv' /\ SummaryInv'
  BY <1>1, <1>7, HeadsKept, DriverKept, SummaryReleased DEF SummariesInv, LedgerInv
<1>11. QED
  BY <1>1, <1>8, <1>9, <1>10 DEF SummariesInv

LEMMA ResolveKeeps ==
  ASSUME SummariesInv, ResolveDiscoveryTarget
  PROVE  SummariesInv'
<1>1. PICK target : target = DiscoveryTarget(events, summary.covered)
  OBVIOUS
<1>2. /\ worker.at = "discover" /\ seen' = Len(events)
      /\ \/ Worker("retry")
         \/ Worker("complete")
         \/ ~(target <= summary.covered) /\ worker' = [worker EXCEPT !.at = "read", !.target = target]
      /\ UNCHANGED <<events, epoch, capsule, driver, summary, jobs, requested, owed, faults, restarts>>
  BY <1>1 DEF ResolveDiscoveryTarget, ledger
<1>3. /\ worker \in WorkerRow /\ RowsOK /\ worker.job \in DOMAIN jobs
      /\ jobs[worker.job] = Row("running", worker.attempts) /\ worker.upto = 0
      /\ IsDiscovery(worker.job)
  BY <1>2 DEF SummariesInv, QueueInv
<1>4. events \in Seq(EventRow) /\ Len(events) \in Nat /\ TurnCount(events) \in Nat
      /\ TurnCount(events) <= Len(events) /\ Len(events) <= MaxEvents
  BY StartsCounted DEF SummariesInv, LedgerInv, SessionOf
<1>5. RowsOK'
  BY <1>2, <1>3 DEF RowsOK
<1>6. QueueInv' /\ worker'.at # "commit"
  <2>1. CASE Worker("retry") \/ Worker("complete")
    <3>1. /\ worker' \in WorkerRow /\ worker'.at \in {"retry", "complete"}
          /\ worker'.job = worker.job /\ worker'.attempts = worker.attempts /\ worker'.upto = worker.upto
      BY <1>3, <2>1, WorkerMoved
    <3>2. ~Rest'
      BY <1>3, <3>1 DEF Rest
    <3>3. QED
      BY <1>2, <1>3, <1>5, <3>1, <3>2 DEF QueueInv
  <2>2. CASE ~(target <= summary.covered) /\ worker' = [worker EXCEPT !.at = "read", !.target = target]
    <3>1. summary.covered \in 0 .. TurnCount(events) /\ RecentTurns \in Nat /\ MaxEvents \in Nat
          /\ Floor \in Nat /\ Floor > MaxEvents
      BY SummariesAssumption DEF SummariesAssumption, SummariesInv, SummaryInv
    <3>2. target \in 0 .. TurnCount(events)
      BY <1>1, <1>4, <3>1, TargetBounded
    <3>3. target \in Nat /\ target > 0 /\ target < Floor
      BY <1>4, <2>2, <3>1, <3>2
    <3>4. /\ worker' \in WorkerRow /\ worker'.at = "read" /\ worker'.target = target
          /\ worker'.job = worker.job /\ worker'.attempts = worker.attempts
      BY <1>3, <2>2, <3>3 DEF WorkerRow
    <3>5. QED
      BY <1>2, <1>3, <1>5, <3>3, <3>4 DEF QueueInv
  <2>3. QED
    BY <1>2, <2>1, <2>2
<1>7. RequestInv'
  <2>1. requested \in 0 .. Len(events) /\ owed \in Nat
    BY DEF SummariesInv, RequestInv
  <2>2. ~Unserved'
    BY <1>2, <1>4, <2>1 DEF Unserved
  <2>3. QED
    BY <1>2, <1>4, <2>1, <2>2 DEF RequestInv
<1>8. LedgerInv' /\ HeadsInv' /\ DriverInv' /\ SummaryInv'
  BY <1>2, <1>6, HeadsKept, DriverKept, SummaryReleased DEF SummariesInv, LedgerInv
<1>9. QED
  BY <1>2, <1>6, <1>7, <1>8 DEF SummariesInv

LEMMA RowSettled ==
  ASSUME QueueInv, worker.at \in {"complete", "retry"}, NEW status \in {"failed", "done"},
         SettleRow(status)
  PROVE  /\ RowsOK' /\ DOMAIN jobs' = DOMAIN jobs /\ worker.job \in DOMAIN jobs
         /\ jobs[worker.job].status = "running" /\ jobs'[worker.job].status = status
         /\ \A x \in DOMAIN jobs : x # worker.job => jobs'[x] = jobs[x]
<1>1. worker.job \in DOMAIN jobs /\ jobs[worker.job] = Row("running", worker.attempts) /\ RowsOK
  BY DEF QueueInv
<1>2. jobs[worker.job].status = "running"
  BY <1>1 DEF Row
<1>3. PICK r : r = [jobs[worker.job] EXCEPT !.status = status]
  OBVIOUS
<1>4. jobs[worker.job] \in JobRow
  BY <1>1 DEF RowsOK
<1>5. r \in JobRow /\ r.status = status
  BY <1>3, <1>4 DEF JobRow
<1>6. jobs' = [jobs EXCEPT ![worker.job] = r]
  BY <1>1, <1>3 DEF SettleRow
<1>7. QED
  BY <1>1, <1>2, <1>5, <1>6, RowChanged

\* A worker that has nothing in its hands.
LEMMA QueueReleased ==
  ASSUME RowsOK', worker' = Resting
  PROVE  QueueInv'
BY WorkerRests DEF QueueInv

LEMMA RequestsReleased ==
  ASSUME RequestInv, UNCHANGED <<events, requested, seen>>, owed' \in Nat,
         worker'.at \in {"idle", "retry"},
         \A t \in DOMAIN jobs : IsDiscovery(t) /\ jobs[t].status # "done" =>
           t \in DOMAIN jobs' /\ jobs'[t].status # "done"
  PROVE  RequestInv'
<1>1. Unserved' <=> Unserved
  BY DEF Unserved
<1>2. ASSUME Unserved PROVE \E t \in DOMAIN jobs' : IsDiscovery(t) /\ jobs'[t].status # "done"
  <2>1. PICK t \in DOMAIN jobs : IsDiscovery(t) /\ jobs[t].status # "done"
    BY <1>2 DEF RequestInv
  <2>2. QED
    BY <2>1
<1>3. requested' \in 0 .. Len(events') /\ seen' \in 0 .. Len(events')
  BY DEF RequestInv
<1>4. QED
  BY <1>1, <1>2, <1>3 DEF RequestInv

\* A retry follows whatever the worker did with the row it holds.
LEMMA RetryKeeps ==
  ASSUME SummariesInv, worker.at \in {"discover", "read", "commit"}, Worker("retry"),
         UNCHANGED <<events, epoch, capsule, driver, summary, jobs, seen, requested, owed, restarts>>,
         Fault \/ UNCHANGED faults
  PROVE  SummariesInv'
<1>1. /\ worker \in WorkerRow /\ RowsOK /\ worker.job \in DOMAIN jobs
      /\ jobs[worker.job] = Row("running", worker.attempts)
  BY DEF SummariesInv, QueueInv
<1>2. /\ worker' \in WorkerRow /\ worker'.at = "retry"
      /\ worker'.job = worker.job /\ worker'.attempts = worker.attempts
  BY <1>1, WorkerMoved
<1>3. RowsOK'
  BY <1>1 DEF RowsOK
<1>4. QueueInv'
  BY <1>1, <1>2, <1>3 DEF QueueInv
<1>5. RequestInv'
  <2>1. owed' \in Nat /\ RequestInv
    BY DEF SummariesInv, RequestInv
  <2>2. QED
    BY <1>2, <2>1, RequestsReleased
<1>6. LedgerInv' /\ HeadsInv' /\ DriverInv' /\ SummaryInv'
  BY <1>2, HeadsKept, DriverKept, SummaryReleased DEF SummariesInv, LedgerInv
<1>7. QED
  BY <1>4, <1>5, <1>6, FaultsBounded DEF SummariesInv

LEMMA WorkFailsKeeps ==
  ASSUME SummariesInv, WorkFails
  PROVE  SummariesInv'
BY RetryKeeps DEF WorkFails, ledger

\* The turns a summary may read are closed, and nobody answers them any more.
LEMMA ClosedAreSealed ==
  ASSUME NEW ev, SessionOf(ev), NEW a \in Nat, NEW b \in Nat, SealedTurns(ev, a),
         a < b, ClosedTurns(ev, a, b) = a + 1 .. b, NEW n \in 1 .. b - a
  PROVE  SealedTurns(ev, a + n) /\ a + n <= TurnCount(ev)
<1>1. TurnCount(ev) \in Nat
  BY StartsCounted DEF SessionOf
<1>2. \A k \in a + 1 .. b : /\ k \in 1 .. TurnCount(ev) /\ ClosedTurn(ev, k)
                            /\ ~HasOpenConfirmation(ev, k)
  BY DEF ClosedTurns, TurnCount
<1>3. a + n \in a + 1 .. b
  OBVIOUS
<1>4. ASSUME TurnCount(ev) \in 1 .. a + n PROVE FinalText(ev)
  <2>1. CASE TurnCount(ev) \in 1 .. a
    BY <2>1 DEF SealedTurns
  <2>2. CASE TurnCount(ev) \notin 1 .. a
    <3>1. TurnCount(ev) \in a + 1 .. b
      BY <1>1, <1>4, <2>2
    <3>2. ClosedTurn(ev, TurnCount(ev))
      BY <1>2, <3>1
    <3>3. QED
      BY <3>2 DEF ClosedTurn, TurnCount
  <2>3. QED
    BY <2>1, <2>2
<1>5. ASSUME NEW id \in Made(ev), Undecided(ev, id), CallTurn(ev, id) \in 1 .. a + n
      PROVE  FALSE
  <2>1. PICK k : k = CallTurn(ev, id)
    OBVIOUS
  <2>2. k \notin 1 .. a
    BY <1>5, <2>1 DEF SealedTurns
  <2>3. k \in a + 1 .. b
    BY <1>5, <2>1, <2>2
  <2>4. ~HasOpenConfirmation(ev, k)
    BY <1>2, <2>3
  <2>5. Has(ev, "ask", id) /\ ~Has(ev, "answer", id)
    BY <1>5 DEF Undecided
  <2>6. \A i \in DOMAIN ev : ev[i] # Event("answer", id)
    BY <2>5 DEF Has
  <2>7. HasOpenConfirmation(ev, k)
    BY <2>1, <2>5, <2>6 DEF HasOpenConfirmation
  <2>8. QED
    BY <2>4, <2>7
<1>6. SealedTurns(ev, a + n)
  BY <1>4, <1>5 DEF SealedTurns
<1>7. a + n <= TurnCount(ev)
  BY <1>1, <1>2, <1>3
<1>8. QED
  BY <1>6, <1>7

LEMMA ReadTurnsKeeps ==
  ASSUME SummariesInv, ReadTurns
  PROVE  SummariesInv'
<1>1. PICK c : c = summary.covered
  OBVIOUS
<1>2. PICK b : b = worker.target
  OBVIOUS
<1>3. PICK turns : turns = ClosedTurns(events, c, b)
  OBVIOUS
<1>4. /\ worker.at = "read"
      /\ UNCHANGED <<events, epoch, capsule, driver, summary, jobs, seen, requested, owed, faults, restarts>>
  BY DEF ReadTurns, ledger
<1>5. CASE Worker("retry")
  BY <1>4, <1>5, RetryKeeps
<1>6. CASE ~Worker("retry")
  <2>1. /\ Contiguous(ClosedTurns(events, summary.covered, worker.target), summary.covered, worker.target)
        /\ \E n \in 1 .. Min({Cardinality(ClosedTurns(events, summary.covered, worker.target)), MaxSourceTurns}) :
             worker' = [worker EXCEPT
               !.at = "commit", !.upto = Nth(ClosedTurns(events, summary.covered, worker.target), n),
               !.read = [i \in 1 .. n |-> TurnContents(events, summary.covered + i)]]
    BY <1>6 DEF ReadTurns
  <2>2. PICK n \in 1 .. Min({Cardinality(turns), MaxSourceTurns}) :
          worker' = [worker EXCEPT
            !.at = "commit", !.upto = Nth(turns, n),
            !.read = [i \in 1 .. n |-> TurnContents(events, summary.covered + i)]]
    BY <1>1, <1>2, <1>3, <2>1
  <2>3. /\ worker \in WorkerRow /\ b \in Nat /\ b > 0 /\ b < Floor
        /\ IsDiscovery(worker.job) \/ worker.target = worker.job
        /\ worker.job \in DOMAIN jobs /\ jobs[worker.job] = Row("running", worker.attempts)
        /\ RowsOK
    BY <1>2, <1>4 DEF SummariesInv, QueueInv, WorkerRow
  <2>4. /\ SessionOf(events) /\ SummaryInv /\ TurnCount(events) \in Nat /\ events \in Seq(EventRow)
    BY StartsCounted DEF SummariesInv, LedgerInv, SessionOf
  <2>5. c \in Nat /\ c \in 0 .. TurnCount(events) /\ SealedTurns(events, c)
    <3>1. Taken = c
      BY <1>1, <1>4 DEF Taken
    <3>2. c \in 0 .. TurnCount(events) /\ SealedTurns(events, c)
      BY <1>1, <2>4, <3>1 DEF SummaryInv
    <3>3. QED
      BY <2>4, <3>2
  <2>6. c < b /\ turns = c + 1 .. b
    BY <1>1, <1>2, <1>3, <2>1, <2>3, <2>5 DEF Contiguous
  <2>7. Cardinality(turns) = b - c /\ b - c \in Nat /\ MaxSourceTurns \in Nat
    <3>1. 1 \in 1 .. b - c /\ b - c \in Nat
      BY <2>3, <2>5, <2>6
    <3>2. Cardinality(turns) = b - c
      BY <2>3, <2>5, <2>6, <3>1, NthOfRun
    <3>3. QED
      BY <3>1, <3>2, SummariesAssumption DEF SummariesAssumption
  <2>8. n \in 1 .. b - c
    <3>1. Min({b - c, MaxSourceTurns}) \in Nat /\ Min({b - c, MaxSourceTurns}) <= b - c
      BY <2>7, LesserOfTwo
    <3>2. n \in 1 .. Min({b - c, MaxSourceTurns})
      BY <2>2, <2>7
    <3>3. QED
      BY <2>7, <3>1, <3>2
  <2>9. Nth(turns, n) = c + n
    BY <2>3, <2>5, <2>6, <2>8, NthOfRun
  <2>10. SealedTurns(events, c + n) /\ c + n <= TurnCount(events)
    BY <1>3, <2>3, <2>4, <2>5, <2>6, <2>8, ClosedAreSealed
  <2>11. PICK read : read = [i \in 1 .. n |-> TurnContents(events, summary.covered + i)]
    OBVIOUS
  <2>12. n \in Nat /\ c + n \in Nat /\ c + n \in c + 1 .. TurnCount(events)
    BY <2>3, <2>4, <2>5, <2>8, <2>10
  <2>13. /\ read \in Seq(Contents) /\ Len(read) = n
         /\ \A i \in 1 .. n : read[i] = TurnContents(events, c + i)
    <3>1. \A i \in 1 .. n : TurnContents(events, c + i) \in Contents
      BY <2>4, ContentsTyped
    <3>2. read \in [1 .. n -> Contents] /\ \A i \in 1 .. n : read[i] = TurnContents(events, c + i)
      BY <1>1, <2>11, <3>1
    <3>3. read \in Seq(Contents) /\ Len(read) = n
      BY <2>12, <3>2
    <3>4. QED
      BY <3>2, <3>3
  <2>14. worker' = [worker EXCEPT !.at = "commit", !.upto = c + n, !.read = read]
    BY <2>2, <2>9, <2>11
  <2>15. /\ worker' \in WorkerRow /\ worker'.at = "commit" /\ worker'.upto = c + n
         /\ worker'.read = read /\ worker'.job = worker.job
         /\ worker'.attempts = worker.attempts /\ worker'.target = worker.target
    BY <2>3, <2>12, <2>13, <2>14 DEF WorkerRow
  <2>16. SummaryInv'
    <3>1. Taken' = c + n
      BY <2>15 DEF Taken
    <3>2. SealedTurns(events', Taken')
      BY <1>4, <2>10, <3>1
    <3>3. Len(read) = (c + n) - c
      BY <2>5, <2>12, <2>13
    <3>4. QED
      BY <1>1, <1>4, <2>4, <2>12, <2>13, <2>15, <3>2, <3>3 DEF SummaryInv
  <2>17. QueueInv'
    <3>1. RowsOK'
      BY <1>4, <2>3 DEF RowsOK
    <3>2. QED
      BY <1>2, <1>4, <2>3, <2>15, <3>1 DEF QueueInv
  <2>18. RequestInv'
    <3>1. (Unserved' <=> Unserved) /\ Live' = Live /\ RequestInv
      BY <1>4 DEF Unserved, Live, WaitingRows, SummariesInv
    <3>2. QED
      BY <1>4, <2>15, <3>1 DEF RequestInv
  <2>19. LedgerInv' /\ HeadsInv' /\ DriverInv'
    BY <1>4, HeadsKept, DriverKept DEF SummariesInv, LedgerInv
  <2>20. QED
    BY <1>4, <2>16, <2>17, <2>18, <2>19 DEF SummariesInv
<1>7. QED
  BY <1>5, <1>6

LEMMA CommitKeeps ==
  ASSUME SummariesInv, CommitSummary
  PROVE  SummariesInv'
<1>1. /\ worker.at = "commit" /\ Worker("complete")
      /\ summary' = [covered |-> worker.upto, source |-> summary.source \o worker.read]
      /\ UNCHANGED <<events, epoch, capsule, driver, jobs, seen, requested, owed, faults, restarts>>
  BY DEF CommitSummary, ledger
<1>2. /\ worker \in WorkerRow /\ RowsOK /\ worker.job \in DOMAIN jobs
      /\ jobs[worker.job] = Row("running", worker.attempts)
      /\ worker.target > 0 /\ worker.target < Floor
      /\ IsDiscovery(worker.job) \/ worker.target = worker.job
  BY <1>1 DEF SummariesInv, QueueInv
<1>3. /\ worker' \in WorkerRow /\ worker'.at = "complete"
      /\ worker'.job = worker.job /\ worker'.attempts = worker.attempts
      /\ worker'.target = worker.target
  BY <1>1, <1>2, WorkerMoved
<1>4. QueueInv'
  <2>1. RowsOK'
    BY <1>1, <1>2 DEF RowsOK
  <2>2. QED
    BY <1>1, <1>2, <1>3, <2>1 DEF QueueInv
<1>5. RequestInv'
  <2>1. (Unserved' <=> Unserved) /\ Live' = Live /\ RequestInv
    BY <1>1 DEF Unserved, Live, WaitingRows, SummariesInv
  <2>2. QED
    BY <1>1, <1>3, <2>1 DEF RequestInv
<1>6. SummaryInv'
  <2>1. PICK c : c = summary.covered
    OBVIOUS
  <2>2. PICK s : s = summary.source
    OBVIOUS
  <2>3. PICK r : r = worker.read
    OBVIOUS
  <2>4. PICK u : u = worker.upto
    OBVIOUS
  <2>5. SummaryInv /\ TurnCount(events) \in Nat
    BY StartsCounted DEF SummariesInv, LedgerInv, SessionOf
  <2>6. /\ c \in Nat /\ s \in Seq(Contents) /\ Len(s) = c
        /\ \A k \in 1 .. c : s[k] = TurnContents(events, k)
    BY <2>1, <2>2, <2>5 DEF SummaryInv
  <2>7. /\ u \in c + 1 .. TurnCount(events) /\ r \in Seq(Contents) /\ Len(r) = u - c
        /\ \A i \in 1 .. Len(r) : r[i] = TurnContents(events, c + i)
    BY <1>1, <2>1, <2>3, <2>4, <2>5 DEF SummaryInv
  <2>8. Taken = u /\ SealedTurns(events, u)
    BY <1>1, <2>4, <2>5 DEF Taken, SummaryInv
  <2>9. u \in Nat /\ u \in 0 .. TurnCount(events)
    BY <2>5, <2>6, <2>7
  <2>10. PICK t : t = s \o r
    OBVIOUS
  <2>11. /\ t \in Seq(Contents) /\ Len(t) = Len(s) + Len(r)
         /\ \A k \in 1 .. Len(s) + Len(r) : t[k] = IF k <= Len(s) THEN s[k] ELSE r[k - Len(s)]
    BY <2>6, <2>7, <2>10, ConcatProperties
  <2>12. Len(t) = u
    BY <2>6, <2>7, <2>9, <2>11
  <2>13. ASSUME NEW k \in 1 .. u PROVE t[k] = TurnContents(events, k)
    <3>1. k \in 1 .. Len(s) + Len(r) /\ k \in Nat
      BY <2>6, <2>7, <2>9
    <3>2. CASE k <= c
      <4>1. k \in 1 .. c /\ t[k] = s[k]
        BY <2>6, <2>11, <3>1, <3>2
      <4>2. QED
        BY <2>6, <4>1
    <3>3. CASE ~(k <= c)
      <4>1. k - c \in 1 .. Len(r) /\ c + (k - c) = k /\ t[k] = r[k - c]
        BY <2>6, <2>7, <2>9, <2>11, <3>1, <3>3
      <4>2. r[k - c] = TurnContents(events, c + (k - c))
        BY <2>7, <4>1
      <4>3. QED
        BY <4>1, <4>2
    <3>4. QED
      BY <3>2, <3>3
  <2>14. summary'.covered = u /\ summary'.source = t
    BY <1>1, <2>2, <2>3, <2>4, <2>10
  <2>15. Taken' = u
    BY <1>3, <2>14 DEF Taken
  <2>16. QED
    BY <1>1, <1>3, <2>8, <2>9, <2>11, <2>12, <2>13, <2>14, <2>15 DEF SummaryInv
<1>7. LedgerInv' /\ HeadsInv' /\ DriverInv'
  BY <1>1, HeadsKept, DriverKept DEF SummariesInv, LedgerInv
<1>8. QED
  BY <1>1, <1>4, <1>5, <1>6, <1>7 DEF SummariesInv

LEMMA CompleteKeeps ==
  ASSUME SummariesInv, CompleteSummaryJob
  PROVE  SummariesInv'
<1>1. /\ worker.at = "complete" /\ SettleRow("done")
      /\ worker' = IF Rest THEN [worker EXCEPT !.at = "rest"] ELSE Resting
      /\ UNCHANGED <<events, epoch, capsule, driver, summary, seen, requested, owed, faults, restarts>>
  BY DEF CompleteSummaryJob, ledger
<1>2. QueueInv /\ RequestInv /\ worker \in WorkerRow
  BY DEF SummariesInv, QueueInv
<1>3. /\ RowsOK' /\ DOMAIN jobs' = DOMAIN jobs /\ worker.job \in DOMAIN jobs
      /\ jobs[worker.job].status = "running" /\ jobs'[worker.job].status = "done"
      /\ \A x \in DOMAIN jobs : x # worker.job => jobs'[x] = jobs[x]
  BY <1>1, <1>2, RowSettled
<1>4. /\ worker' \in WorkerRow /\ worker'.at \in {"idle", "rest"}
      /\ worker'.at = "rest" => /\ Rest /\ worker'.job = worker.job
                                /\ worker'.target = worker.target /\ worker'.upto = worker.upto
  <2>1. CASE Rest
    <3>1. Worker("rest")
      BY <1>1, <2>1 DEF Worker
    <3>2. QED
      BY <1>2, <2>1, <3>1, WorkerMoved
  <2>2. CASE ~Rest
    BY <1>1, <2>2, WorkerRests
  <2>3. QED
    BY <2>1, <2>2
<1>5. QueueInv'
  <2>1. CASE worker'.at = "idle"
    BY <1>3, <1>4, <2>1 DEF QueueInv
  <2>2. CASE worker'.at = "rest"
    <3>1. Rest /\ Rest'
      BY <1>4, <2>2 DEF Rest
    <3>2. /\ worker.target > 0 /\ worker.target < Floor
          /\ IsDiscovery(worker.job) \/ worker.target = worker.job
      BY <1>1, <1>2, <3>1 DEF QueueInv
    <3>3. QED
      BY <1>3, <1>4, <2>2, <3>1, <3>2 DEF QueueInv
  <2>3. QED
    BY <1>4, <2>1, <2>2
<1>6. RequestInv'
  <2>1. Unserved' <=> Unserved
    BY <1>1 DEF Unserved
  <2>2. requested' \in 0 .. Len(events') /\ seen' \in 0 .. Len(events') /\ owed' \in Nat
    BY <1>1, <1>2 DEF RequestInv
  <2>3. \A t \in Live : t # worker.job /\ t \in Live' /\ t \in DOMAIN jobs' /\ jobs'[t].status # "done"
    BY <1>3 DEF Live, WaitingRows
  <2>4. ASSUME Unserved PROVE \E t \in DOMAIN jobs' : IsDiscovery(t) /\ jobs'[t].status # "done"
    <3>1. CASE IsDiscovery(worker.job)
      <4>1. PICK t \in Live : IsDiscovery(t)
        BY <1>1, <1>2, <2>4, <3>1 DEF RequestInv
      <4>2. QED
        BY <2>3, <4>1
    <3>2. CASE ~IsDiscovery(worker.job)
      <4>1. PICK t \in DOMAIN jobs : IsDiscovery(t) /\ jobs[t].status # "done"
        BY <1>2, <2>4 DEF RequestInv
      <4>2. t # worker.job
        BY <3>2, <4>1
      <4>3. QED
        BY <1>3, <4>1, <4>2
    <3>3. QED
      BY <3>1, <3>2
  <2>5. ASSUME Unserved, worker'.at = "rest", IsDiscovery(worker'.job)
        PROVE  \E t \in Live' : IsDiscovery(t)
    <3>1. PICK t \in Live : IsDiscovery(t)
      BY <1>1, <1>2, <1>4, <2>5 DEF RequestInv
    <3>2. QED
      BY <2>3, <3>1
  <2>6. QED
    BY <1>4, <2>1, <2>2, <2>4, <2>5 DEF RequestInv
<1>7. LedgerInv' /\ HeadsInv' /\ DriverInv' /\ SummaryInv'
  BY <1>1, <1>4, HeadsKept, DriverKept, SummaryReleased DEF SummariesInv, LedgerInv
<1>8. QED
  BY <1>1, <1>5, <1>6, <1>7 DEF SummariesInv

LEMMA ScheduleRestKeeps ==
  ASSUME SummariesInv, ScheduleRest
  PROVE  SummariesInv'
<1>1. /\ worker.at = "rest" /\ ScheduleSummaryJob(worker.target) /\ worker' = Resting
      /\ owed' \in {0, owed}
      /\ UNCHANGED <<events, epoch, capsule, driver, summary, seen, requested, faults, restarts>>
  BY DEF ScheduleRest, ledger
<1>2. QueueInv /\ RequestInv /\ RowsOK /\ worker \in WorkerRow
  BY DEF SummariesInv, QueueInv
<1>3. /\ worker.job \in DOMAIN jobs /\ jobs[worker.job].status = "done"
      /\ worker.target \in Nat \ {0} /\ worker.target < Floor /\ Floor \in Nat
      /\ IsDiscovery(worker.job) \/ worker.target = worker.job
  BY <1>1, <1>2, SummariesAssumption DEF QueueInv, WorkerRow, SummariesAssumption
<1>4. RowsOK'
  BY <1>1, <1>2, <1>3, RequestMade
<1>5. worker'.at = "idle" /\ owed' \in Nat
  BY <1>1, <1>2, WorkerRests DEF RequestInv
<1>6. QueueInv'
  BY <1>1, <1>4, QueueReleased
<1>7. RequestInv'
  <2>1. CASE jobs' = jobs
    BY <1>1, <1>2, <1>5, <2>1, RequestsReleased
  <2>2. CASE jobs' # jobs
    \* Such a worker served a discovery, and no newer one waits.
    <3>1. IsDiscovery(worker.job)
      <4>1. ~IsDiscovery(worker.target)
        BY <1>3 DEF IsDiscovery
      <4>2. worker.target # worker.job
        BY <1>1, <1>2, <1>3, <2>2, <4>1, RequestMade
      <4>3. QED
        BY <1>3, <4>2
    <3>2. ~Coalesced(worker.target)
      BY <1>1, <2>2 DEF ScheduleSummaryJob
    <3>3. ~\E t \in Live : IsDiscovery(t)
      <4>1. SUFFICES ASSUME NEW t \in Live, IsDiscovery(t) PROVE FALSE
        OBVIOUS
      <4>2. Live \in SUBSET Nat /\ \E b \in Nat : \A x \in Live : x <= b
        BY <1>2 DEF RowsOK, Live, WaitingRows
      <4>3. Max(Live) \in Nat /\ t <= Max(Live) /\ t \in Nat
        BY <4>1, <4>2, GreatestNumber
      <4>4. Max(Live) >= worker.target
        BY <1>3, <4>1, <4>3 DEF IsDiscovery
      <4>5. QED
        BY <3>2, <4>1, <4>4 DEF Coalesced
    <3>4. ~Unserved
      BY <1>1, <1>2, <3>1, <3>3 DEF RequestInv
    <3>5. ~Unserved'
      BY <1>1, <3>4 DEF Unserved
    <3>6. QED
      BY <1>1, <1>2, <1>5, <3>5 DEF RequestInv
  <2>3. QED
    BY <2>1, <2>2
<1>8. LedgerInv' /\ HeadsInv' /\ DriverInv' /\ SummaryInv'
  BY <1>1, <1>5, HeadsKept, DriverKept, SummaryReleased DEF SummariesInv, LedgerInv
<1>9. QED
  BY <1>1, <1>6, <1>7, <1>8 DEF SummariesInv

LEMMA FailKeeps ==
  ASSUME SummariesInv, FailSummaryJob
  PROVE  SummariesInv'
<1>1. /\ worker.at = "retry" /\ SettleRow("failed") /\ worker' = Resting
      /\ UNCHANGED <<events, epoch, capsule, driver, summary, seen, requested, owed, faults, restarts>>
  BY DEF FailSummaryJob, ledger
<1>2. QueueInv /\ RequestInv
  BY DEF SummariesInv
<1>3. /\ RowsOK' /\ DOMAIN jobs' = DOMAIN jobs /\ worker.job \in DOMAIN jobs
      /\ jobs[worker.job].status = "running" /\ jobs'[worker.job].status = "failed"
      /\ \A x \in DOMAIN jobs : x # worker.job => jobs'[x] = jobs[x]
  BY <1>1, <1>2, RowSettled
<1>4. worker'.at = "idle" /\ owed' \in Nat
  BY <1>1, <1>2, WorkerRests DEF RequestInv
<1>5. \A t \in DOMAIN jobs : IsDiscovery(t) /\ jobs[t].status # "done" =>
        t \in DOMAIN jobs' /\ jobs'[t].status # "done"
  BY <1>3
<1>6. QueueInv' /\ RequestInv'
  BY <1>1, <1>2, <1>3, <1>4, <1>5, QueueReleased, RequestsReleased
<1>7. LedgerInv' /\ HeadsInv' /\ DriverInv' /\ SummaryInv'
  BY <1>1, <1>4, HeadsKept, DriverKept, SummaryReleased DEF SummariesInv, LedgerInv
<1>8. QED
  BY <1>1, <1>6, <1>7 DEF SummariesInv

\* Whatever the worker was at, it may drop it.
LEMMA DroppedKeeps ==
  ASSUME SummariesInv, worker' = Resting, owed' \in {0, owed}, driver' \in {driver, NoDriver},
         UNCHANGED <<events, epoch, capsule, summary, jobs, seen, requested>>,
         faults' \in 0 .. MaxFaults, restarts' \in 0 .. MaxRestarts
  PROVE  SummariesInv'
<1>1. QueueInv /\ RequestInv /\ RowsOK
  BY DEF SummariesInv, QueueInv
<1>2. RowsOK' /\ worker'.at = "idle" /\ owed' \in Nat
  BY <1>1, WorkerRests DEF RowsOK, RequestInv
<1>3. QueueInv' /\ RequestInv'
  BY <1>1, <1>2, QueueReleased, RequestsReleased
<1>4. LedgerInv' /\ HeadsInv' /\ SummaryInv'
  BY <1>2, HeadsKept, SummaryReleased DEF SummariesInv, LedgerInv
<1>5. DriverInv'
  BY DriverKept, DriverGone DEF SummariesInv
<1>6. QED
  BY <1>3, <1>4, <1>5 DEF SummariesInv

LEMMA WriteFailsKeeps ==
  ASSUME SummariesInv, WriteFails
  PROVE  SummariesInv'
<1>1. /\ worker' = Resting /\ owed' \in {0, owed} /\ Fault
      /\ UNCHANGED <<events, epoch, capsule, driver, summary, jobs, seen, requested, restarts>>
  BY DEF WriteFails, ledger
<1>2. faults' \in 0 .. MaxFaults /\ restarts' \in 0 .. MaxRestarts
  BY <1>1, FaultsBounded DEF SummariesInv
<1>3. QED
  BY <1>1, <1>2, DroppedKeeps

LEMMA RestartKeeps ==
  ASSUME SummariesInv, Restart
  PROVE  SummariesInv'
<1>1. /\ worker' = Resting /\ driver' = NoDriver /\ owed' \in {0, owed}
      /\ restarts < MaxRestarts /\ restarts' = restarts + 1
      /\ UNCHANGED <<events, epoch, capsule, summary, jobs, seen, requested, faults>>
  BY DEF Restart, ledger
<1>2. faults' \in 0 .. MaxFaults /\ restarts' \in 0 .. MaxRestarts
  BY <1>1, SummariesAssumption DEF SummariesInv, SummariesAssumption
<1>3. QED
  BY <1>1, <1>2, DroppedKeeps

LEMMA InitKeeps ==
  ASSUME SummariesInit
  PROVE  SummariesInv
<1>1. Len(<<>>) = 0 /\ <<>> \in Seq(EventRow) /\ DOMAIN <<>> = {}
  OBVIOUS
<1>2. {i \in {} : TRUE} = {} /\ Cardinality({}) = 0
  BY FS_EmptySet
<1>3. /\ events = <<>> /\ driver = NoDriver /\ worker = Resting /\ jobs = <<>>
      /\ summary = [covered |-> 0, source |-> <<>>]
      /\ epoch = [number |-> 0, covered |-> -1] /\ capsule = [revision |-> 0, covered |-> -1]
      /\ requested = 0 /\ seen = 0 /\ owed = 0 /\ faults = 0 /\ restarts = 0
  BY DEF SummariesInit
<1>4. Made(<<>>) = {} /\ \A kind, id : ~Has(<<>>, kind, id)
  BY <1>1 DEF Made, Has
<1>5. ASSUME NEW id PROVE Responses(<<>>, id) = 0
  <2>1. {i \in DOMAIN <<>> : <<>>[i].id = id /\ <<>>[i].kind \in {"placeholder", "result"}} = {}
    BY <1>1
  <2>2. QED
    BY <1>2, <2>1 DEF Responses
<1>6. TurnCount(<<>>) = 0
  <2>1. Starts(<<>>) = {}
    BY <1>1 DEF Starts
  <2>2. QED
    BY <1>2, <2>1 DEF TurnCount
<1>7. SessionOf(<<>>)
  BY <1>1, <1>4, <1>5 DEF SessionOf, Undecided, ValidLedger
<1>8. LedgerInv
  BY <1>1, <1>3, <1>7, SummariesAssumption DEF LedgerInv, SummariesAssumption
<1>9. HeadsInv
  BY <1>1, <1>3 DEF HeadsInv
<1>10. DriverInv
  BY <1>3 DEF DriverInv, NoDriver
<1>11. worker \in WorkerRow /\ worker.at = "idle"
  BY <1>3, EmptyRead DEF Resting, WorkerRow
<1>12. SummaryInv
  <2>1. summary.covered = 0 /\ summary.source = <<>> /\ Taken = 0
    BY <1>3, <1>11 DEF Taken
  <2>2. SealedTurns(events, Taken)
    BY <1>3, <1>4, <1>6, <2>1 DEF SealedTurns
  <2>3. QED
    BY <1>1, <1>3, <1>6, <1>11, <2>1, <2>2, EmptyRead DEF SummaryInv
<1>13. QueueInv
  <2>1. RowsOK
    BY <1>1, <1>3 DEF RowsOK
  <2>2. QED
    BY <1>11, <2>1 DEF QueueInv
<1>14. RequestInv
  BY <1>1, <1>3, <1>11 DEF RequestInv, Unserved
<1>15. QED
  BY <1>3, <1>8, <1>9, <1>10, <1>12, <1>13, <1>14, SummariesAssumption
  DEF SummariesInv, SummariesAssumption

LEMMA StutterKeeps ==
  ASSUME SummariesInv, UNCHANGED summariesVars
  PROVE  SummariesInv'
<1>1. UNCHANGED <<events, epoch, capsule, driver, summary, jobs, worker, seen, requested, owed, faults, restarts>>
  BY DEF summariesVars, ledger, queue
<1>2. LedgerInv' /\ HeadsInv' /\ DriverInv' /\ SummaryInv' /\ QueueInv'
  BY <1>1, HeadsKept, DriverKept, SummaryKept, QueueKept DEF SummariesInv, LedgerInv
<1>3. RequestInv'
  BY <1>1, RequestsStand DEF SummariesInv
<1>4. QED
  BY <1>1, <1>2, <1>3 DEF SummariesInv

LEMMA StepKeeps ==
  ASSUME SummariesInv, [SummariesNext]_summariesVars
  PROVE  SummariesInv'
<1>1. CASE DriverStep
  BY <1>1, RunKeeps, ModelAnswersKeeps, ModelFailsKeeps, ToolReturnsKeeps,
     ToolNeedsConfirmationKeeps, AskKeeps, ScheduleConversationKeeps, ResumeKeeps, ModelCallsKeeps
  DEF DriverStep
<1>2. CASE WorkerStep
  BY <1>2, ClaimKeeps, ResolveKeeps, ReadTurnsKeeps, CommitKeeps, CompleteKeeps,
     ScheduleRestKeeps, FailKeeps
  DEF WorkerStep
<1>3. CASE WorkFails \/ WriteFails \/ Restart
  BY <1>3, WorkFailsKeeps, WriteFailsKeeps, RestartKeeps
<1>4. CASE UNCHANGED summariesVars
  BY <1>4, StutterKeeps
<1>5. QED
  BY <1>1, <1>2, <1>3, <1>4 DEF SummariesNext

\* The inductive invariant of a session and its summaries.
THEOREM SummariesInvariant == SummariesSpec => []SummariesInv
<1>1. SummariesInit => SummariesInv
  BY InitKeeps
<1>2. SummariesInv /\ [SummariesNext]_summariesVars => SummariesInv'
  BY StepKeeps
<1>3. QED
  BY <1>1, <1>2, PTL DEF SummariesSpec

\* Every state has its type: the session is legal whatever its drivers did, no
\* row of the queue is claimed more often than allowed, and epoch and capsule
\* cover events of the session.
THEOREM SummariesTypeCorrect == SummariesSpec => []SummariesTypeOK
<1>1. SummariesInv => SummariesTypeOK
  <2>1. SUFFICES ASSUME SummariesInv PROVE SummariesTypeOK
    OBVIOUS
  <2>2. /\ LedgerInv /\ HeadsInv /\ DriverInv /\ SummaryInv /\ QueueInv /\ RequestInv
        /\ faults \in 0 .. MaxFaults /\ restarts \in 0 .. MaxRestarts
    BY <2>1 DEF SummariesInv
  <2>3. /\ events \in Seq([kind : Kinds, id : ToolCall \union {NoId}]) /\ Len(events) <= MaxEvents
        /\ ValidLedger(events)
    BY <2>2 DEF LedgerInv, SessionOf, EventRow
  <2>4. summary.covered \in 0 .. Cardinality(Starts(events))
    BY <2>2 DEF SummaryInv, TurnCount
  <2>5. \A t \in DOMAIN jobs : t \in Nat \ {0} /\ jobs[t] \in JobRow
    BY <2>2 DEF QueueInv, RowsOK
  <2>6. \A t \in DOMAIN jobs : /\ t \in Nat \ {0}
                               /\ jobs[t].status \in {"pending", "running", "failed", "done"}
                               /\ jobs[t].attempts \in 0 .. MaxAttempts
    BY <2>5 DEF JobRow
  <2>7. worker.at \in {"idle", "discover", "read", "commit", "complete", "rest", "retry"}
    BY <2>2 DEF QueueInv, WorkerRow
  <2>8. {requested, seen} \subseteq 0 .. Len(events) /\ owed \in Nat
    BY <2>2 DEF RequestInv
  <2>9. /\ driver.at \in {"idle", "model", "tool", "ask", "result", "schedule"}
        /\ driver.id \in ToolCall \union {NoId}
    BY <2>2 DEF DriverInv
  <2>10. /\ epoch.number \in Nat /\ epoch.covered \in -1 .. Len(events) - 1
         /\ capsule.revision \in Nat /\ capsule.covered \in -1 .. Len(events) - 1
         /\ capsule.revision > 0 => events[capsule.covered + 1].kind = "text"
    BY <2>2 DEF HeadsInv
  <2>11. QED
    BY <2>2, <2>3, <2>4, <2>6, <2>7, <2>8, <2>9, <2>10 DEF SummariesTypeOK
<1>2. QED
  BY <1>1, SummariesInvariant, PTL

\* A summary is made of every turn it covers, each read once, in order and
\* complete: no event ever belongs to a turn that was summarised before, and no
\* turn is skipped, whatever batches, failures and restarts came in between.
THEOREM SummaryFaithful == SummariesSpec => []SummaryIsFaithful
<1>1. SummariesInv => SummaryIsFaithful
  BY DEF SummariesInv, SummaryInv, SummaryIsFaithful
<1>2. QED
  BY <1>1, SummariesInvariant, PTL

\* A request that was accepted is never lost: until a discovery has read the
\* session as it was then, one waits, runs or was given up, though requests
\* coalesce and a running discovery may hold the marker.
THEOREM RequestsKept == SummariesSpec => []RequestIsKept
<1>1. SummariesInv => RequestIsKept
  <2>1. SUFFICES ASSUME SummariesInv, requested > seen PROVE RequestIsKept
    BY DEF RequestIsKept
  <2>2. PICK t \in DOMAIN jobs : IsDiscovery(t) /\ jobs[t].status # "done"
    BY <2>1 DEF SummariesInv, RequestInv, Unserved
  <2>3. jobs[t] \in JobRow /\ MaxAttempts \in Nat
    BY <2>1, SummariesAssumption DEF SummariesInv, QueueInv, RowsOK, SummariesAssumption
  <2>4. jobs[t].attempts \in 0 .. MaxAttempts
    BY <2>3 DEF JobRow
  <2>5. jobs[t].attempts < MaxAttempts \/ jobs[t].attempts = MaxAttempts
    BY <2>3, <2>4
  <2>6. QED
    BY <2>2, <2>5 DEF RequestIsKept, Claimable, Exhausted
<1>2. QED
  BY <1>1, SummariesInvariant, PTL
=============================================================================

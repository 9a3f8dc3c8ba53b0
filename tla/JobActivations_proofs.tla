------------------------- MODULE JobActivations_proofs -------------------------
(***************************************************************************)
(* Proofs about JobActivations, for any activations, conversations and     *)
(* bounds: the type invariant, how a row may move, that the root model is  *)
(* asked once about a result, and that the results of a conversation are   *)
(* taken up in the order in which they were announced.                     *)
(*                                                                         *)
(* Order rests on RowMoves, what any single step may do to the state of a  *)
(* row: only a claim takes a row out of "pending", and a claim waits until *)
(* the older rows of the conversation have ended, which is for good.       *)
(* One model turn rests on Boundary: a row that is still to be asked has   *)
(* not been asked, and the worker that is about to ask wrote that down.    *)
(* That an answer excludes the message that there is none rests on         *)
(* SaidOnce and Place: a fallback is owed only where no answer was posted. *)
(* That either is shown and remembered once rests on ShownOnce, what       *)
(* lookups know, and on Remembered and Publishing, how exchange, memory    *)
(* and row follow each other.  All of it together refines RootTurn.        *)
(***************************************************************************)
EXTENDS JobActivations, TLAPS

-----------------------------------------------------------------------------
(* Pieces of the type invariant, each disturbed by few actions.             *)

RowsOK   == row \in [Activation -> Row] /\ \A a \in Activation : RowOK(row[a])
WorkerOK == w \in Worker /\ (w.pc # "idle" => w.a \in Activation)
StoreOK  == /\ intent \in [Message -> {"absent", "prepared", "published"}]
            /\ kept \in [Message -> Nat]
            /\ session \in [Activation -> {"nothing", "answer", "unusable"}]
SlackOK  == /\ view \in [Message -> {"none", "partial", "exact", "repeated"}]
            /\ late \subseteq Message /\ missed \subseteq Message
            /\ reposted \subseteq Message
WorldOK  == /\ human \subseteq Conversation
            /\ revoked \in {{}, Revocable}
            /\ closed \in BOOLEAN
            /\ proc \in {"up", "draining", "cancelled", "down"}
            /\ restarts \in 0 .. MaxRestarts
            /\ humanTurns \in 0 .. MaxHumanTurns
CountsOK == runs \in [Activation -> Nat] /\ faults \in 0 .. MaxFaults

Typed == RowsOK /\ WorkerOK /\ StoreOK /\ SlackOK /\ WorldOK /\ CountsOK

LEMMA TypedIsTypeOK == Typed <=> TypeOK
BY DEF Typed, TypeOK, RowsOK, WorkerOK, StoreOK, SlackOK, WorldOK, CountsOK

\* The worker's exchange is one of the messages.
LEMMA OwnMessage ==
    ASSUME w.a \in Activation
    PROVE  M \in Message
BY DEF M, Message

\* However a handler returns or goes on, the worker stays well typed.
LEMMA WorkerMoves ==
    ASSUME WorkerOK
    PROVE  /\ Idle \in Worker
           /\ w' = Idle => WorkerOK'
           /\ (w.a \in Activation /\ Return) => WorkerOK'
           /\ \A pc \in Holding \cup {"frame", "reject", "reconcile", "settle", "resolve"} :
                  w.a \in Activation /\ Goto(pc) => WorkerOK'
<1>1. Idle \in Worker /\ Idle.pc = "idle"
    BY DEF Idle, Worker, Code
<1>2. w' = Idle => WorkerOK'
    BY <1>1 DEF WorkerOK
<1>3. ASSUME NEW pc \in Holding \cup {"frame", "reject", "reconcile", "settle", "resolve"},
             w.a \in Activation, Goto(pc)
      PROVE  WorkerOK'
    BY <1>3 DEF WorkerOK, Worker, Goto, Holding
<1>4. ASSUME w.a \in Activation, Return
      PROVE  WorkerOK'
    <2>1. CASE w' = Idle
        BY <2>1, <1>2
    <2>2. CASE w' = [w EXCEPT !.pc = "settle"]
        BY <2>2, <1>3, <1>4 DEF Goto
    <2>3. QED
        BY <2>1, <2>2, <1>4 DEF Return
<1>5. QED
    BY <1>1, <1>2, <1>3, <1>4


\* A row is replaced by a well-typed one.
LEMMA RowReplaced ==
    ASSUME RowsOK, NEW a \in Activation, NEW r \in Row, RowOK(r),
           row' = [row EXCEPT ![a] = r]
    PROVE  RowsOK'
BY DEF RowsOK

Fits(r) == r \in Row /\ RowOK(r)

\* A claim writes the state, the lease and the attempts.
LEMMA FitsWhenClaimed ==
    ASSUME NEW r, Fits(r), ~r.told, NEW n \in 0 .. MaxAttempts,
           NEW s \in (Open \cup Terminal) \ {"pending", "completed"},
           r.owed => s \in Terminal
    PROVE  Fits([r EXCEPT !.state = s, !.lease = "live", !.attempts = n])
BY DEF Fits, Row, RowOK, Open, Terminal

\* An end writes the state, the lease and whether a message is owed.
LEMMA FitsWhenEnded ==
    ASSUME NEW r, Fits(r), ~r.told, NEW o \in BOOLEAN,
           NEW s \in {"failed", "completion_unknown"}
    PROVE  Fits([r EXCEPT !.state = s, !.lease = "none", !.owed = o])
BY DEF Fits, Row, RowOK, Open, Terminal

\* Every update the store makes of a row, in the state it asks for, fits.
LEMMA RowUpdates ==
    ASSUME NEW r, Fits(r)
    PROVE  /\ r.state = "absent" => Fits([r EXCEPT !.state = "pending"])
           /\ r.state \notin {"completed", "absent"} /\ ~r.told => Fits(Claimed(r))
           /\ r.state \in {"processing", "response_prepared"} =>
                 \A code \in Code : Fits(Ended(r, "failed", code))
           /\ r.state = "model_started" =>
                 /\ Fits(Ended(r, "completion_unknown", "unusable"))
                 /\ Fits([r EXCEPT !.state = "response_prepared"])
           /\ r.state = "processing" => Fits(Started(r)) /\ Fits(Resolved(r))
           /\ r.state = "response_prepared" =>
                 Fits([r EXCEPT !.state = "completed", !.lease = "none"])
           /\ r.owed => Fits([r EXCEPT !.told = TRUE, !.lease = "none"])
           /\ r.lease = "live" => Fits([r EXCEPT !.lease = "lapsed"])
<1>1. r.state = "absent" => Fits([r EXCEPT !.state = "pending"])
    BY DEF Fits, Row, RowOK, Open, Terminal
<1>2. ASSUME r.state \notin {"completed", "absent"}, ~r.told
      PROVE  Fits(Claimed(r))
    <2> DEFINE n == IF r.attempts < MaxAttempts THEN r.attempts + 1 ELSE r.attempts
               s == IF r.state = "pending" THEN "processing" ELSE r.state
    <2>1. n \in 0 .. MaxAttempts
        BY BoundsAssumption DEF Fits, Row
    <2>2. s \in (Open \cup Terminal) \ {"pending", "completed"}
        BY <1>2 DEF Fits, Row, Open, Terminal
    <2>3. r.owed \in BOOLEAN /\ r.told \in BOOLEAN /\ (r.owed => s \in Terminal)
        BY <1>2 DEF Fits, Row, RowOK, Terminal
    <2>4. Fits([r EXCEPT !.state = s, !.lease = "live", !.attempts = n])
        <3> HIDE DEF n, s
        <3> QED  BY <1>2, <2>1, <2>2, <2>3, FitsWhenClaimed
    <2>5. QED
        BY <2>4 DEF Claimed
<1>3. ASSUME r.state \in {"processing", "model_started", "response_prepared"},
             NEW s \in {"failed", "completion_unknown"}, NEW code \in Code
      PROVE  Fits(Ended(r, s, code))
    <2> DEFINE o == FallbackRequired(code)
    <2>1. o \in BOOLEAN
        BY DEF FallbackRequired
    <2>2. ~r.told /\ r.told \in BOOLEAN /\ r.attempts \in 0 .. MaxAttempts
        BY <1>3 DEF Fits, Row, RowOK, Terminal
    <2>3. Fits([r EXCEPT !.state = s, !.lease = "none", !.owed = o])
        <3> HIDE DEF o
        <3> QED  BY <2>1, <2>2, FitsWhenEnded
    <2>4. QED
        BY <2>3 DEF Ended
<1>4. r.state = "model_started" => Fits(Ended(r, "completion_unknown", "unusable"))
    BY <1>3 DEF Code
<1>5. r.state = "model_started" => Fits([r EXCEPT !.state = "response_prepared"])
    BY DEF Fits, Row, RowOK, Open, Terminal
<1>6. r.state = "processing" => Fits(Started(r))
    BY DEF Fits, Row, RowOK, Open, Terminal, Started
<1>7. ASSUME r.state = "processing"
      PROVE  Fits(Resolved(r))
    <2>1. Fits(Ended(r, "failed", "exhausted"))
        BY <1>3, <1>7 DEF Code
    <2>2. Fits([r EXCEPT !.state = "pending", !.lease = "none"])
        BY <1>7 DEF Fits, Row, RowOK, Open, Terminal
    <2>3. QED
        BY <2>1, <2>2 DEF Resolved
<1>8. r.state = "response_prepared" =>
          Fits([r EXCEPT !.state = "completed", !.lease = "none"])
    BY DEF Fits, Row, RowOK, Open, Terminal
<1>9. r.owed => Fits([r EXCEPT !.told = TRUE, !.lease = "none"])
    BY DEF Fits, Row, RowOK, Open, Terminal
<1>10. r.lease = "live" => Fits([r EXCEPT !.lease = "lapsed"])
    BY DEF Fits, Row, RowOK, Open, Terminal
<1>11. QED
    BY <1>1, <1>2, <1>3, <1>4, <1>5, <1>6, <1>7, <1>8, <1>9, <1>10


\* A worker that is at a place is in a call about one of the activations.
LEMMA InCall ==
    ASSUME WorkerOK, NEW pc \in Holding \cup {"frame", "reject", "reconcile", "fallback",
                                        "settle", "resolve"},
           At(pc)
    PROVE  w.a \in Activation /\ M \in Message /\ row[w.a] = R
BY OwnMessage DEF WorkerOK, At, R, Holding

\* Messages that enter the memory leave their exchange.
LEMMA ConsumeOK ==
    ASSUME StoreOK, NEW ms \in SUBSET Message, Consume(ms), UNCHANGED session
    PROVE  StoreOK'
BY DEF StoreOK, Consume

\* A post shows some or all parts of a message.
LEMMA ShownOK ==
    ASSUME SlackOK, NEW m \in Message,
           \/ UNCHANGED view
           \/ view' = [view EXCEPT ![m] = Posted(@)]
           \/ view' = [view EXCEPT ![m] = Partly(@)]
    PROVE  view' \in [Message -> {"none", "partial", "exact", "repeated"}]
BY DEF SlackOK, Posted, Partly

LEMMA FrameType ==
    ASSUME Typed, Frame
    PROVE  Typed'
<1>1. RowsOK /\ WorkerOK /\ StoreOK /\ SlackOK /\ WorldOK /\ CountsOK
    BY DEF Typed
<1>2. w.a \in Activation /\ M \in Message
    BY <1>1, InCall DEF Frame, Holding, At
<1>3. RowsOK'
    BY <1>1 DEF Frame, RowsOK, store
<1>4. WorkerOK'
    BY <1>1, <1>2, WorkerMoves
       DEF Frame, Transaction, Holding, WorkerOK, Worker, Code
<1>5. StoreOK'
    BY <1>1, <1>2 DEF Frame, Transaction, StoreOK, store
<1>6. SlackOK'
    BY <1>1, <1>2 DEF Frame, SlackOK, slack
<1>7. WorldOK'
    BY <1>1 DEF Frame, WorldOK, outside
<1>8. CountsOK'
    BY <1>1, <1>2, BoundsAssumption
       DEF Frame, Transaction, CountsOK, Works, CallFails, Fault
<1>9. QED
    BY <1>3, <1>4, <1>5, <1>6, <1>7, <1>8 DEF Typed

LEMMA RejectType ==
    ASSUME Typed, Reject
    PROVE  Typed'
<1>1. RowsOK /\ WorkerOK /\ StoreOK /\ SlackOK /\ WorldOK /\ CountsOK
    BY DEF Typed
<1>2. w.a \in Activation /\ M \in Message
    BY <1>1, InCall DEF Reject, Holding, At
<1>3. RowsOK'
    <2>1. CASE UNCHANGED row
        BY <1>1, <2>1 DEF RowsOK
    <2>2. ASSUME ~UNCHANGED row
          PROVE  \E r \in Row : RowOK(r) /\ row' = [row EXCEPT ![w.a] = r]
        <3>1. Fits(R)
            BY <1>1, <1>2 DEF RowsOK, Fits, R
        <3>2. QED
            BY <1>1, <1>2, <2>2, <3>1, RowUpdates
               DEF Reject, Transaction, SetRow, Fits, WorkerOK, Worker
    <2>3. QED
        BY <1>1, <1>2, <2>1, <2>2, RowReplaced
<1>4. WorkerOK'
    BY <1>1, <1>2, WorkerMoves
       DEF Reject, Transaction, Holding, WorkerOK, Worker, Code
<1>5. StoreOK'
    BY <1>1, <1>2 DEF Reject, Transaction, StoreOK, store
<1>6. SlackOK'
    BY <1>1, <1>2 DEF Reject, SlackOK, slack
<1>7. WorldOK'
    BY <1>1 DEF Reject, WorldOK, outside
<1>8. CountsOK'
    BY <1>1, <1>2, BoundsAssumption
       DEF Reject, Transaction, CountsOK, Works, CallFails, Fault
<1>9. QED
    BY <1>3, <1>4, <1>5, <1>6, <1>7, <1>8 DEF Typed

LEMMA MarkModelStartedType ==
    ASSUME Typed, MarkModelStarted
    PROVE  Typed'
<1>1. RowsOK /\ WorkerOK /\ StoreOK /\ SlackOK /\ WorldOK /\ CountsOK
    BY DEF Typed
<1>2. w.a \in Activation /\ M \in Message
    BY <1>1, InCall DEF MarkModelStarted, Holding, At
<1>3. RowsOK'
    <2>1. CASE UNCHANGED row
        BY <1>1, <2>1 DEF RowsOK
    <2>2. ASSUME ~UNCHANGED row
          PROVE  \E r \in Row : RowOK(r) /\ row' = [row EXCEPT ![w.a] = r]
        <3>1. Fits(R)
            BY <1>1, <1>2 DEF RowsOK, Fits, R
        <3>2. QED
            BY <1>1, <1>2, <2>2, <3>1, RowUpdates
               DEF MarkModelStarted, Transaction, SetRow, Fits, WorkerOK, Worker
    <2>3. QED
        BY <1>1, <1>2, <2>1, <2>2, RowReplaced
<1>4. WorkerOK'
    BY <1>1, <1>2, WorkerMoves
       DEF MarkModelStarted, Transaction, Holding, WorkerOK, Worker, Code
<1>5. StoreOK'
    BY <1>1, <1>2 DEF MarkModelStarted, Transaction, StoreOK, store
<1>6. SlackOK'
    BY <1>1, <1>2 DEF MarkModelStarted, SlackOK, slack
<1>7. WorldOK'
    BY <1>1 DEF MarkModelStarted, WorldOK, outside
<1>8. CountsOK'
    BY <1>1, <1>2, BoundsAssumption
       DEF MarkModelStarted, Transaction, CountsOK, Works, CallFails, Fault
<1>9. QED
    BY <1>3, <1>4, <1>5, <1>6, <1>7, <1>8 DEF Typed

LEMMA ModelType ==
    ASSUME Typed, Model
    PROVE  Typed'
<1>1. RowsOK /\ WorkerOK /\ StoreOK /\ SlackOK /\ WorldOK /\ CountsOK
    BY DEF Typed
<1>2. w.a \in Activation /\ M \in Message
    BY <1>1, InCall DEF Model, Holding, At
<1>3. RowsOK'
    BY <1>1 DEF Model, RowsOK, store
<1>4. WorkerOK'
    BY <1>1, <1>2, WorkerMoves
       DEF Model, Transaction, Holding, WorkerOK, Worker, Code
<1>5. StoreOK'
    BY <1>1, <1>2 DEF Model, Transaction, StoreOK, store
<1>6. SlackOK'
    BY <1>1, <1>2 DEF Model, SlackOK, slack
<1>7. WorldOK'
    BY <1>1 DEF Model, WorldOK, outside
<1>8. CountsOK'
    BY <1>1, <1>2, BoundsAssumption
       DEF Model, Transaction, CountsOK, Works, CallFails, Fault
<1>9. QED
    BY <1>3, <1>4, <1>5, <1>6, <1>7, <1>8 DEF Typed

LEMMA ReconcileType ==
    ASSUME Typed, Reconcile
    PROVE  Typed'
<1>1. RowsOK /\ WorkerOK /\ StoreOK /\ SlackOK /\ WorldOK /\ CountsOK
    BY DEF Typed
<1>2. w.a \in Activation /\ M \in Message
    BY <1>1, InCall DEF Reconcile, Holding, At
<1>3. RowsOK'
    BY <1>1 DEF Reconcile, RowsOK, store
<1>4. WorkerOK'
    BY <1>1, <1>2, WorkerMoves
       DEF Reconcile, Transaction, Holding, WorkerOK, Worker, Code
<1>5. StoreOK'
    BY <1>1, <1>2 DEF Reconcile, Transaction, StoreOK, store
<1>6. SlackOK'
    BY <1>1, <1>2 DEF Reconcile, SlackOK, slack
<1>7. WorldOK'
    BY <1>1 DEF Reconcile, WorldOK, outside
<1>8. CountsOK'
    BY <1>1, <1>2, BoundsAssumption
       DEF Reconcile, Transaction, CountsOK, Works, CallFails, Fault
<1>9. QED
    BY <1>3, <1>4, <1>5, <1>6, <1>7, <1>8 DEF Typed

LEMMA RecoverType ==
    ASSUME Typed, Recover
    PROVE  Typed'
<1>1. RowsOK /\ WorkerOK /\ StoreOK /\ SlackOK /\ WorldOK /\ CountsOK
    BY DEF Typed
<1>2. w.a \in Activation /\ M \in Message
    BY <1>1, InCall DEF Recover, Holding, At
<1>3. RowsOK'
    BY <1>1 DEF Recover, RowsOK, store
<1>4. WorkerOK'
    BY <1>1, <1>2, WorkerMoves
       DEF Recover, Transaction, Holding, WorkerOK, Worker, Code
<1>5. StoreOK'
    BY <1>1, <1>2 DEF Recover, Transaction, StoreOK, store
<1>6. SlackOK'
    BY <1>1, <1>2 DEF Recover, SlackOK, slack
<1>7. WorldOK'
    BY <1>1 DEF Recover, WorldOK, outside
<1>8. CountsOK'
    BY <1>1, <1>2, BoundsAssumption
       DEF Recover, Transaction, CountsOK, Works, CallFails, Fault
<1>9. QED
    BY <1>3, <1>4, <1>5, <1>6, <1>7, <1>8 DEF Typed

LEMMA MarkUnknownType ==
    ASSUME Typed, MarkUnknown
    PROVE  Typed'
<1>1. RowsOK /\ WorkerOK /\ StoreOK /\ SlackOK /\ WorldOK /\ CountsOK
    BY DEF Typed
<1>2. w.a \in Activation /\ M \in Message
    BY <1>1, InCall DEF MarkUnknown, Holding, At
<1>3. RowsOK'
    <2>1. CASE UNCHANGED row
        BY <1>1, <2>1 DEF RowsOK
    <2>2. ASSUME ~UNCHANGED row
          PROVE  \E r \in Row : RowOK(r) /\ row' = [row EXCEPT ![w.a] = r]
        <3>1. Fits(R)
            BY <1>1, <1>2 DEF RowsOK, Fits, R
        <3>2. QED
            BY <1>1, <1>2, <2>2, <3>1, RowUpdates
               DEF MarkUnknown, Transaction, SetRow, Fits, WorkerOK, Worker
    <2>3. QED
        BY <1>1, <1>2, <2>1, <2>2, RowReplaced
<1>4. WorkerOK'
    BY <1>1, <1>2, WorkerMoves
       DEF MarkUnknown, Transaction, Holding, WorkerOK, Worker, Code
<1>5. StoreOK'
    BY <1>1, <1>2 DEF MarkUnknown, Transaction, StoreOK, store
<1>6. SlackOK'
    BY <1>1, <1>2 DEF MarkUnknown, SlackOK, slack
<1>7. WorldOK'
    BY <1>1 DEF MarkUnknown, WorldOK, outside
<1>8. CountsOK'
    BY <1>1, <1>2, BoundsAssumption
       DEF MarkUnknown, Transaction, CountsOK, Works, CallFails, Fault
<1>9. QED
    BY <1>3, <1>4, <1>5, <1>6, <1>7, <1>8 DEF Typed

LEMMA PrepareResponseType ==
    ASSUME Typed, PrepareResponse
    PROVE  Typed'
<1>1. RowsOK /\ WorkerOK /\ StoreOK /\ SlackOK /\ WorldOK /\ CountsOK
    BY DEF Typed
<1>2. w.a \in Activation /\ M \in Message
    BY <1>1, InCall DEF PrepareResponse, Holding, At
<1>3. RowsOK'
    <2>1. CASE UNCHANGED row
        BY <1>1, <2>1 DEF RowsOK
    <2>2. ASSUME ~UNCHANGED row
          PROVE  \E r \in Row : RowOK(r) /\ row' = [row EXCEPT ![w.a] = r]
        <3>1. Fits(R)
            BY <1>1, <1>2 DEF RowsOK, Fits, R
        <3>2. QED
            BY <1>1, <1>2, <2>2, <3>1, RowUpdates
               DEF PrepareResponse, Transaction, SetRow, Fits, WorkerOK, Worker
    <2>3. QED
        BY <1>1, <1>2, <2>1, <2>2, RowReplaced
<1>4. WorkerOK'
    BY <1>1, <1>2, WorkerMoves
       DEF PrepareResponse, Transaction, Holding, WorkerOK, Worker, Code
<1>5. StoreOK'
    BY <1>1, <1>2 DEF PrepareResponse, Transaction, StoreOK, store
<1>6. SlackOK'
    BY <1>1, <1>2 DEF PrepareResponse, SlackOK, slack
<1>7. WorldOK'
    BY <1>1 DEF PrepareResponse, WorldOK, outside
<1>8. CountsOK'
    BY <1>1, <1>2, BoundsAssumption
       DEF PrepareResponse, Transaction, CountsOK, Works, CallFails, Fault
<1>9. QED
    BY <1>3, <1>4, <1>5, <1>6, <1>7, <1>8 DEF Typed

LEMMA PrepareFallbackType ==
    ASSUME Typed, PrepareFallback
    PROVE  Typed'
<1>1. RowsOK /\ WorkerOK /\ StoreOK /\ SlackOK /\ WorldOK /\ CountsOK
    BY DEF Typed
<1>2. w.a \in Activation /\ M \in Message
    BY <1>1, InCall DEF PrepareFallback, Holding, At
<1>3. RowsOK'
    BY <1>1 DEF PrepareFallback, RowsOK, store
<1>4. WorkerOK'
    BY <1>1, <1>2, WorkerMoves
       DEF PrepareFallback, Transaction, Holding, WorkerOK, Worker, Code
<1>5. StoreOK'
    BY <1>1, <1>2 DEF PrepareFallback, Transaction, StoreOK, store
<1>6. SlackOK'
    BY <1>1, <1>2 DEF PrepareFallback, SlackOK, slack
<1>7. WorldOK'
    BY <1>1 DEF PrepareFallback, WorldOK, outside
<1>8. CountsOK'
    BY <1>1, <1>2, BoundsAssumption
       DEF PrepareFallback, Transaction, CountsOK, Works, CallFails, Fault
<1>9. QED
    BY <1>3, <1>4, <1>5, <1>6, <1>7, <1>8 DEF Typed

LEMMA FindPublishedType ==
    ASSUME Typed, FindPublished
    PROVE  Typed'
<1>1. RowsOK /\ WorkerOK /\ StoreOK /\ SlackOK /\ WorldOK /\ CountsOK
    BY DEF Typed
<1>2. w.a \in Activation /\ M \in Message
    BY <1>1, InCall DEF FindPublished, Holding, At
<1>3. RowsOK'
    BY <1>1 DEF FindPublished, RowsOK, store
<1>4. WorkerOK'
    BY <1>1, <1>2, WorkerMoves
       DEF FindPublished, Transaction, Holding, WorkerOK, Worker, Code
<1>5. StoreOK'
    BY <1>1, <1>2 DEF FindPublished, Transaction, StoreOK, store
<1>6. SlackOK'
    BY <1>1, <1>2 DEF FindPublished, SlackOK, slack
<1>7. WorldOK'
    BY <1>1 DEF FindPublished, WorldOK, outside
<1>8. CountsOK'
    BY <1>1, <1>2, BoundsAssumption
       DEF FindPublished, Transaction, CountsOK, Works, CallFails, Fault
<1>9. QED
    BY <1>3, <1>4, <1>5, <1>6, <1>7, <1>8 DEF Typed

LEMMA PostType ==
    ASSUME Typed, Post
    PROVE  Typed'
<1>1. RowsOK /\ WorkerOK /\ StoreOK /\ SlackOK /\ WorldOK /\ CountsOK
    BY DEF Typed
<1>2. w.a \in Activation /\ M \in Message
    BY <1>1, InCall DEF Post, Holding, At
<1>3. RowsOK'
    BY <1>1 DEF Post, RowsOK, store
<1>4. WorkerOK'
    BY <1>1, <1>2, WorkerMoves
       DEF Post, Transaction, Holding, WorkerOK, Worker, Code
<1>5. StoreOK'
    BY <1>1, <1>2 DEF Post, Transaction, StoreOK, store
<1>6. SlackOK'
    <2>1. view' \in [Message -> {"none", "partial", "exact", "repeated"}]
        BY <1>1, <1>2, ShownOK DEF Post
    <2>2. late' \subseteq Message /\ reposted' \subseteq Message /\ missed' = missed
        BY <1>1, <1>2 DEF Post, SlackOK
    <2>3. QED
        BY <1>1, <2>1, <2>2 DEF SlackOK
<1>7. WorldOK'
    BY <1>1 DEF Post, WorldOK, outside
<1>8. CountsOK'
    BY <1>1, <1>2, BoundsAssumption
       DEF Post, Transaction, CountsOK, Works, CallFails, Fault
<1>9. QED
    BY <1>3, <1>4, <1>5, <1>6, <1>7, <1>8 DEF Typed

LEMMA RecordPublicationType ==
    ASSUME Typed, RecordPublication
    PROVE  Typed'
<1>1. RowsOK /\ WorkerOK /\ StoreOK /\ SlackOK /\ WorldOK /\ CountsOK
    BY DEF Typed
<1>2. w.a \in Activation /\ M \in Message
    BY <1>1, InCall DEF RecordPublication, Holding, At
<1>3. RowsOK'
    BY <1>1 DEF RecordPublication, RowsOK, store
<1>4. WorkerOK'
    BY <1>1, <1>2, WorkerMoves
       DEF RecordPublication, Transaction, Holding, WorkerOK, Worker, Code
<1>5. StoreOK'
    BY <1>1, <1>2 DEF RecordPublication, Transaction, StoreOK, store
<1>6. SlackOK'
    BY <1>1, <1>2 DEF RecordPublication, SlackOK, slack
<1>7. WorldOK'
    BY <1>1 DEF RecordPublication, WorldOK, outside
<1>8. CountsOK'
    BY <1>1, <1>2, BoundsAssumption
       DEF RecordPublication, Transaction, CountsOK, Works, CallFails, Fault
<1>9. QED
    BY <1>3, <1>4, <1>5, <1>6, <1>7, <1>8 DEF Typed

LEMMA FinalizeType ==
    ASSUME Typed, Finalize
    PROVE  Typed'
<1>1. RowsOK /\ WorkerOK /\ StoreOK /\ SlackOK /\ WorldOK /\ CountsOK
    BY DEF Typed
<1>2. w.a \in Activation /\ M \in Message
    BY <1>1, InCall DEF Finalize, Holding, At
<1>3. RowsOK'
    BY <1>1 DEF Finalize, RowsOK, store
<1>4. WorkerOK'
    BY <1>1, <1>2, WorkerMoves
       DEF Finalize, Transaction, Holding, WorkerOK, Worker, Code
<1>5. StoreOK'
    <2>1. {M} \cap {m \in Message : intent[m] = "published"} \in SUBSET Message
        OBVIOUS
    <2>2. CASE UNCHANGED <<kept, intent>>
        BY <1>1, <2>2 DEF Finalize, StoreOK
    <2>3. CASE Consume({M} \cap {m \in Message : intent[m] = "published"})
        BY <1>1, <2>1, <2>3, ConsumeOK DEF Finalize
    <2>4. QED
        BY <2>2, <2>3 DEF Finalize, Transaction
<1>6. SlackOK'
    BY <1>1, <1>2 DEF Finalize, SlackOK, slack
<1>7. WorldOK'
    BY <1>1 DEF Finalize, WorldOK, outside
<1>8. CountsOK'
    BY <1>1, <1>2, BoundsAssumption
       DEF Finalize, Transaction, CountsOK, Works, CallFails, Fault
<1>9. QED
    BY <1>3, <1>4, <1>5, <1>6, <1>7, <1>8 DEF Typed

LEMMA CompleteType ==
    ASSUME Typed, Complete
    PROVE  Typed'
<1>1. RowsOK /\ WorkerOK /\ StoreOK /\ SlackOK /\ WorldOK /\ CountsOK
    BY DEF Typed
<1>2. w.a \in Activation /\ M \in Message
    BY <1>1, InCall DEF Complete, Holding, At
<1>3. RowsOK'
    <2>1. CASE UNCHANGED row
        BY <1>1, <2>1 DEF RowsOK
    <2>2. ASSUME ~UNCHANGED row
          PROVE  \E r \in Row : RowOK(r) /\ row' = [row EXCEPT ![w.a] = r]
        <3>1. Fits(R)
            BY <1>1, <1>2 DEF RowsOK, Fits, R
        <3>2. QED
            BY <1>1, <1>2, <2>2, <3>1, RowUpdates
               DEF Complete, Transaction, SetRow, Fits, WorkerOK, Worker
    <2>3. QED
        BY <1>1, <1>2, <2>1, <2>2, RowReplaced
<1>4. WorkerOK'
    BY <1>1, <1>2, WorkerMoves
       DEF Complete, Transaction, Holding, WorkerOK, Worker, Code
<1>5. StoreOK'
    BY <1>1, <1>2 DEF Complete, Transaction, StoreOK, store
<1>6. SlackOK'
    BY <1>1, <1>2 DEF Complete, SlackOK, slack
<1>7. WorldOK'
    BY <1>1 DEF Complete, WorldOK, outside
<1>8. CountsOK'
    BY <1>1, <1>2, BoundsAssumption
       DEF Complete, Transaction, CountsOK, Works, CallFails, Fault
<1>9. QED
    BY <1>3, <1>4, <1>5, <1>6, <1>7, <1>8 DEF Typed

LEMMA CloseFallbackType ==
    ASSUME Typed, CloseFallback
    PROVE  Typed'
<1>1. RowsOK /\ WorkerOK /\ StoreOK /\ SlackOK /\ WorldOK /\ CountsOK
    BY DEF Typed
<1>2. w.a \in Activation /\ M \in Message
    BY <1>1, InCall DEF CloseFallback, Holding, At
<1>3. RowsOK'
    <2>1. CASE UNCHANGED row
        BY <1>1, <2>1 DEF RowsOK
    <2>2. ASSUME ~UNCHANGED row
          PROVE  \E r \in Row : RowOK(r) /\ row' = [row EXCEPT ![w.a] = r]
        <3>1. Fits(R)
            BY <1>1, <1>2 DEF RowsOK, Fits, R
        <3>2. QED
            BY <1>1, <1>2, <2>2, <3>1, RowUpdates
               DEF CloseFallback, Transaction, SetRow, Fits, WorkerOK, Worker
    <2>3. QED
        BY <1>1, <1>2, <2>1, <2>2, RowReplaced
<1>4. WorkerOK'
    BY <1>1, <1>2, WorkerMoves
       DEF CloseFallback, Transaction, Holding, WorkerOK, Worker, Code
<1>5. StoreOK'
    <2>1. CASE UNCHANGED <<kept, intent>>
        BY <1>1, <2>1 DEF CloseFallback, StoreOK
    <2>2. CASE Consume({M})
        BY <1>1, <1>2, <2>2, ConsumeOK DEF CloseFallback
    <2>3. QED
        BY <2>1, <2>2 DEF CloseFallback, Transaction
<1>6. SlackOK'
    BY <1>1, <1>2 DEF CloseFallback, SlackOK, slack
<1>7. WorldOK'
    BY <1>1 DEF CloseFallback, WorldOK, outside
<1>8. CountsOK'
    BY <1>1, <1>2, BoundsAssumption
       DEF CloseFallback, Transaction, CountsOK, Works, CallFails, Fault
<1>9. QED
    BY <1>3, <1>4, <1>5, <1>6, <1>7, <1>8 DEF Typed

LEMMA SettleType ==
    ASSUME Typed, Settle
    PROVE  Typed'
<1>1. RowsOK /\ WorkerOK /\ StoreOK /\ SlackOK /\ WorldOK /\ CountsOK
    BY DEF Typed
<1>2. w.a \in Activation /\ M \in Message
    BY <1>1, InCall DEF Settle, Holding, At
<1>3. RowsOK'
    BY <1>1 DEF Settle, RowsOK, store
<1>4. WorkerOK'
    BY <1>1, <1>2, WorkerMoves
       DEF Settle, Transaction, Holding, WorkerOK, Worker, Code
<1>5. StoreOK'
    BY <1>1, <1>2 DEF Settle, Transaction, StoreOK, store
<1>6. SlackOK'
    BY <1>1, <1>2 DEF Settle, SlackOK, slack
<1>7. WorldOK'
    BY <1>1 DEF Settle, WorldOK, outside
<1>8. CountsOK'
    BY <1>1, <1>2, BoundsAssumption
       DEF Settle, Transaction, CountsOK, Works, CallFails, Fault
<1>9. QED
    BY <1>3, <1>4, <1>5, <1>6, <1>7, <1>8 DEF Typed

LEMMA ResolveType ==
    ASSUME Typed, Resolve
    PROVE  Typed'
<1>1. RowsOK /\ WorkerOK /\ StoreOK /\ SlackOK /\ WorldOK /\ CountsOK
    BY DEF Typed
<1>2. w.a \in Activation /\ M \in Message
    BY <1>1, InCall DEF Resolve, Holding, At
<1>3. RowsOK'
    <2>1. CASE UNCHANGED row
        BY <1>1, <2>1 DEF RowsOK
    <2>2. ASSUME ~UNCHANGED row
          PROVE  \E r \in Row : RowOK(r) /\ row' = [row EXCEPT ![w.a] = r]
        <3>1. Fits(R)
            BY <1>1, <1>2 DEF RowsOK, Fits, R
        <3>2. QED
            BY <1>1, <1>2, <2>2, <3>1, RowUpdates
               DEF Resolve, Transaction, SetRow, Fits, WorkerOK, Worker
    <2>3. QED
        BY <1>1, <1>2, <2>1, <2>2, RowReplaced
<1>4. WorkerOK'
    BY <1>1, <1>2, WorkerMoves
       DEF Resolve, Transaction, Holding, WorkerOK, Worker, Code
<1>5. StoreOK'
    BY <1>1, <1>2 DEF Resolve, Transaction, StoreOK, store
<1>6. SlackOK'
    BY <1>1, <1>2 DEF Resolve, SlackOK, slack
<1>7. WorldOK'
    BY <1>1 DEF Resolve, WorldOK, outside
<1>8. CountsOK'
    BY <1>1, <1>2, BoundsAssumption
       DEF Resolve, Transaction, CountsOK, Works, CallFails, Fault
<1>9. QED
    BY <1>3, <1>4, <1>5, <1>6, <1>7, <1>8 DEF Typed

\* The worker takes a row.
LEMMA TakeType ==
    ASSUME Typed, NEW a \in Activation, Claimable(a) \/ OwesFallback(a),
           NEW phase \in {"before", "after", "fallback"},
           NEW pc \in {"frame", "reconcile", "fallback"}, Take(a, phase, pc)
    PROVE  Typed'
<1>1. RowsOK /\ WorkerOK /\ StoreOK /\ SlackOK /\ WorldOK /\ CountsOK
    BY DEF Typed
<1>2. RowsOK'
    <2>1. Fits(row[a]) /\ row[a].state \notin {"completed", "absent"} /\ ~row[a].told
        BY <1>1 DEF RowsOK, Fits, Row, RowOK, Claimable, OwesFallback, Terminal
    <2>2. Fits(Claimed(row[a])) /\ row' = [row EXCEPT ![a] = Claimed(row[a])]
        BY <2>1, RowUpdates DEF Take
    <2>3. QED
        BY <1>1, <2>2, RowReplaced DEF Fits
<1>3. WorkerOK'
    BY DEF Take, Idle, WorkerOK, Worker, Code
<1>4. StoreOK' /\ SlackOK' /\ WorldOK' /\ CountsOK'
    BY <1>1 DEF Take, StoreOK, SlackOK, WorldOK, CountsOK, slack, outside
<1>5. QED
    BY <1>2, <1>3, <1>4 DEF Typed

LEMMA ClaimType ==
    ASSUME Typed, NEW a \in Activation, Claim(a) \/ ClaimFallback(a)
    PROVE  Typed'
BY TakeType DEF Claim, ClaimFallback

LEMMA EnvironmentType ==
    ASSUME Typed, Environment
    PROVE  Typed'
<1>1. RowsOK /\ WorkerOK /\ StoreOK /\ SlackOK /\ WorldOK /\ CountsOK
    BY DEF Typed
<1>2. ASSUME NEW a \in Activation, Enqueue(a)
      PROVE  Typed'
    <2>1. RowsOK'
        <3>1. Fits(row[a]) /\ row[a].state = "absent"
            BY <1>1, <1>2 DEF RowsOK, Fits, Enqueue
        <3>2. row' = [row EXCEPT ![a] = [row[a] EXCEPT !.state = "pending"]]
            BY <1>2 DEF Enqueue
        <3>3. QED
            BY <1>1, <3>1, <3>2, RowUpdates, RowReplaced DEF Fits
    <2>2. QED
        BY <1>1, <1>2, <2>1
           DEF Typed, Enqueue, WorkerOK, StoreOK, SlackOK, WorldOK, CountsOK, slack, outside
<1>3. ASSUME NEW a \in Activation, LeaseLapses(a)
      PROVE  Typed'
    <2>1. RowsOK'
        <3>1. Fits(row[a]) /\ row[a].lease = "live"
            BY <1>1, <1>3 DEF RowsOK, Fits, LeaseLapses
        <3>2. row' = [row EXCEPT ![a] = [row[a] EXCEPT !.lease = "lapsed"]]
            BY <1>3 DEF LeaseLapses
        <3>3. QED
            BY <1>1, <3>1, <3>2, RowUpdates, RowReplaced DEF Fits
    <2>2. CountsOK'
        BY <1>1, <1>3, BoundsAssumption DEF LeaseLapses, CountsOK, Fault
    <2>3. QED
        BY <1>1, <1>3, <2>1, <2>2
           DEF Typed, LeaseLapses, WorkerOK, StoreOK, SlackOK, WorldOK, slack, outside
<1>4. CASE RenewalFails
    <2>1. WorkerOK'
        BY <1>1, <1>4 DEF RenewalFails, WorkerOK, Worker
    <2>2. CountsOK'
        BY <1>1, <1>4, BoundsAssumption DEF RenewalFails, CountsOK, Fault, outside
    <2>3. QED
        BY <1>1, <1>4, <2>1, <2>2
           DEF Typed, RenewalFails, RowsOK, StoreOK, SlackOK, WorldOK, store, slack, outside
<1>5. ASSUME NEW m \in late, Land(m)
      PROVE  Typed'
    <2>1. m \in Message
        BY <1>1 DEF SlackOK
    <2>2. view' \in [Message -> {"none", "partial", "exact", "repeated"}]
        BY <1>1, <1>5, <2>1, ShownOK DEF Land
    <2>3. SlackOK'
        BY <1>1, <1>5, <2>2 DEF Land, SlackOK
    <2>4. QED
        BY <1>1, <1>5, <2>3
           DEF Typed, Land, RowsOK, WorkerOK, StoreOK, WorldOK, CountsOK, store, outside
<1>6. ASSUME NEW c \in Conversation, HumanTurnStarts(c) \/ HumanTurnEnds(c)
      PROVE  Typed'
    <2>1. WorldOK'
        BY <1>1, <1>6, BoundsAssumption DEF HumanTurnStarts, HumanTurnEnds, WorldOK
    <2>2. QED
        BY <1>1, <1>6, <2>1
           DEF Typed, HumanTurnStarts, HumanTurnEnds, RowsOK, WorkerOK, StoreOK, SlackOK,
               CountsOK, store, slack
<1>7. CASE CloseChannel
    BY <1>1, <1>7
       DEF Typed, CloseChannel, RowsOK, WorkerOK, StoreOK, SlackOK, WorldOK, CountsOK,
           store, slack
<1>8. QED
    BY <1>2, <1>3, <1>4, <1>5, <1>6, <1>7 DEF Environment

LEMMA ProcessStepType ==
    ASSUME Typed, ProcessStep
    PROVE  Typed'
<1>1. RowsOK /\ WorkerOK /\ StoreOK /\ SlackOK /\ WorldOK /\ CountsOK
    BY DEF Typed
<1>2. CASE StopAdmission \/ CancelContext
    BY <1>1, <1>2
       DEF Typed, StopAdmission, CancelContext, RowsOK, WorkerOK, StoreOK, SlackOK, WorldOK,
           CountsOK, store, slack
<1>3. CASE Crash \/ Exit
    <2>1. WorkerOK'
        BY <1>1, <1>3, WorkerMoves DEF Crash, Exit, ProcessEnds
    <2>2. WorldOK'
        BY <1>1, <1>3, BoundsAssumption DEF Crash, Exit, ProcessEnds, WorldOK
    <2>3. QED
        BY <1>1, <1>3, <2>1, <2>2
           DEF Typed, Crash, Exit, ProcessEnds, RowsOK, StoreOK, SlackOK, CountsOK, store, slack
<1>4. CASE StartUp
    <2>1. PICK ms \in SUBSET Message : Consume(ms)
        <3>1. /\ (LeftPublished \cup LeftFound) \in SUBSET Message
              /\ LeftPublished \in SUBSET Message
            BY DEF LeftPublished, LeftFound, LeftPrepared, StartUpReconciles
        <3>2. QED
            BY <1>4, <3>1 DEF StartUp
    <2>2. StoreOK'
        BY <1>1, <1>4, <2>1, ConsumeOK DEF StartUp
    <2>3. WorldOK' /\ CountsOK'
        BY <1>1, <1>4, BoundsAssumption DEF StartUp, WorldOK, CountsOK, Fault
    <2>4. QED
        BY <1>1, <1>4, <2>2, <2>3
           DEF Typed, StartUp, RowsOK, WorkerOK, SlackOK, slack
<1>5. QED
    BY <1>2, <1>3, <1>4 DEF ProcessStep

LEMMA WorkerStepType ==
    ASSUME Typed, WorkerStep
    PROVE  Typed'
BY FrameType, RejectType, MarkModelStartedType, ModelType, ReconcileType, RecoverType,
   MarkUnknownType, PrepareResponseType, PrepareFallbackType, FindPublishedType, PostType,
   RecordPublicationType, FinalizeType, CompleteType, CloseFallbackType, SettleType, ResolveType
   DEF WorkerStep, HandleJobCompletion, ReconcileJobCompletion, Publish, PublishFallback

LEMMA TypedStep ==
    ASSUME Typed, [Next]_vars
    PROVE  Typed'
<1>1. CASE Next
    BY <1>1, ClaimType, WorkerStepType, EnvironmentType, ProcessStepType DEF Next
<1>2. CASE UNCHANGED vars
    BY <1>2
       DEF vars, Typed, RowsOK, WorkerOK, StoreOK, SlackOK, WorldOK, CountsOK
<1>3. QED
    BY <1>1, <1>2

LEMMA TypedInit ==
    ASSUME Init
    PROVE  Typed
<1>1. RowsOK
    <2>1. Absent \in Row /\ RowOK(Absent)
        BY BoundsAssumption DEF Absent, Row, RowOK, Terminal
    <2>2. QED
        BY <2>1 DEF Init, RowsOK
<1>2. WorkerOK
    BY DEF Init, WorkerOK, Idle, Worker, Code
<1>3. StoreOK /\ SlackOK
    BY DEF Init, StoreOK, SlackOK
<1>4. WorldOK
    <2>1. 0 \in 0 .. MaxRestarts /\ 0 \in 0 .. MaxHumanTurns
        BY BoundsAssumption
    <2>2. closed \in BOOLEAN
        BY DEF Init
    <2>3. QED
        BY <2>1, <2>2 DEF Init, WorldOK
<1>5. CountsOK
    BY BoundsAssumption DEF Init, CountsOK
<1>6. QED
    BY <1>1, <1>2, <1>3, <1>4, <1>5 DEF Typed

\* Every reachable state is well typed, and the lease and the fallback flags of
\* every row fit its state, for any number of activations, faults and restarts.
THEOREM TypeCorrect == Spec => []TypeOK
<1>1. Spec => []Typed
    BY TypedInit, TypedStep, PTL DEF Spec
<1>2. QED
    BY <1>1, TypedIsTypeOK, PTL

-----------------------------------------------------------------------------
(* How the state of a row may move, and one model turn per result.          *)

\* What the worker's own writes may make of the state of a row.
Advances(s, t) ==
    \/ s = t
    \/ s = "processing" /\ t \in {"pending", "model_started", "failed"}
    \/ s = "model_started" /\ t \in {"response_prepared", "completion_unknown"}
    \/ s = "response_prepared" /\ t \in {"completed", "failed"}

\* What any step may make of it.
Moves(s, t) ==
    \/ Advances(s, t)
    \/ s = "absent" /\ t = "pending"
    \/ s = "pending" /\ t = "processing"

RowsAdvance == \A a \in Activation : Advances(row[a].state, row'[a].state)
RowMoves    == \A a \in Activation : Moves(row[a].state, row'[a].state)

\* A row that is still to be asked about was not asked about, no row was asked
\* about twice, and the worker that is about to ask wrote so down.
Boundary ==
    /\ \A a \in Activation :
          /\ runs[a] <= 1
          /\ row[a].state \in {"absent", "pending", "processing"} => runs[a] = 0
    /\ w.pc = "model" => runs[w.a] = 0 /\ row[w.a].state = "model_started"

\* A write that moves one row is a move of all of them.
LEMMA OneRowMoves ==
    ASSUME RowsOK, NEW a \in Activation, NEW r, row' = [row EXCEPT ![a] = r]
    PROVE  /\ Moves(row[a].state, r.state) => RowMoves
           /\ Advances(row[a].state, r.state) => RowsAdvance
BY DEF RowsOK, RowMoves, RowsAdvance, Moves, Advances

LEMMA NoRowMoves ==
    ASSUME UNCHANGED row
    PROVE  RowMoves /\ RowsAdvance
BY DEF RowMoves, RowsAdvance, Moves, Advances

\* The writes of the worker, each in the state it asks for.
LEMMA WorkerAdvances ==
    ASSUME Typed, WorkerStep
    PROVE  RowsAdvance
<1>1. RowsOK /\ WorkerOK
    BY DEF Typed
<1> DEFINE Write(r) == row' = [row EXCEPT ![w.a] = r]
<1>2. ASSUME NEW r, Write(r), w.pc # "idle", Advances(R.state, r.state)
      PROVE  RowsAdvance
    BY <1>1, <1>2, OneRowMoves DEF WorkerOK, R
<1>3. CASE Reject
    <2>1. ASSUME R.state \in {"processing", "response_prepared"},
                 Write(Ended(R, "failed", w.code))
          PROVE  RowsAdvance
        <3>1. Ended(R, "failed", w.code).state = "failed"
            BY <1>1, <1>3, InCall DEF Ended, RowsOK, Row, Reject, Holding
        <3>2. QED
            BY <1>2, <1>3, <2>1, <3>1 DEF Reject, At, Advances
    <2>2. QED
        BY <1>3, <2>1, NoRowMoves DEF Reject, Transaction, SetRow
<1>4. CASE MarkModelStarted
    <2>1. ASSUME R.state = "processing", Write(Started(R))
          PROVE  RowsAdvance
        <3>1. Started(R).state = "model_started"
            BY <1>1, <1>4, InCall DEF Started, RowsOK, Row, MarkModelStarted, Holding
        <3>2. QED
            BY <1>2, <1>4, <2>1, <3>1 DEF MarkModelStarted, At, Advances
    <2>2. QED
        BY <1>4, <2>1, NoRowMoves DEF MarkModelStarted, Transaction, SetRow
<1>5. CASE MarkUnknown
    <2>1. ASSUME R.state = "model_started", Write(Ended(R, "completion_unknown", "unusable"))
          PROVE  RowsAdvance
        <3>1. Ended(R, "completion_unknown", "unusable").state = "completion_unknown"
            BY <1>1, <1>5, InCall DEF Ended, RowsOK, Row, MarkUnknown, Holding
        <3>2. QED
            BY <1>2, <1>5, <2>1, <3>1 DEF MarkUnknown, At, Advances
    <2>2. QED
        BY <1>5, <2>1, NoRowMoves DEF MarkUnknown, Transaction, SetRow
<1>6. CASE PrepareResponse
    <2>1. ASSUME R.state = "model_started", Write([R EXCEPT !.state = "response_prepared"])
          PROVE  RowsAdvance
        <3>1. [R EXCEPT !.state = "response_prepared"].state = "response_prepared"
            BY <1>1, <1>6, InCall DEF RowsOK, Row, PrepareResponse, Holding
        <3>2. QED
            BY <1>2, <1>6, <2>1, <3>1 DEF PrepareResponse, At, Advances
    <2>2. QED
        BY <1>6, <2>1, NoRowMoves DEF PrepareResponse, Transaction, SetRow
<1>7. CASE Complete
    <2>1. ASSUME R.state = "response_prepared",
                 Write([R EXCEPT !.state = "completed", !.lease = "none"])
          PROVE  RowsAdvance
        <3>1. [R EXCEPT !.state = "completed", !.lease = "none"].state = "completed"
            BY <1>1, <1>7, InCall DEF RowsOK, Row, Complete, Holding
        <3>2. QED
            BY <1>2, <1>7, <2>1, <3>1 DEF Complete, At, Advances
    <2>2. QED
        BY <1>7, <2>1, NoRowMoves DEF Complete, Transaction, SetRow
<1>8. CASE CloseFallback
    <2>1. ASSUME Write([R EXCEPT !.told = TRUE, !.lease = "none"])
          PROVE  RowsAdvance
        <3>1. [R EXCEPT !.told = TRUE, !.lease = "none"].state = R.state
            BY <1>1, <1>8, InCall DEF RowsOK, Row, CloseFallback, Holding
        <3>2. QED
            BY <1>2, <1>8, <2>1, <3>1 DEF CloseFallback, At, Advances
    <2>2. QED
        BY <1>8, <2>1, NoRowMoves DEF CloseFallback, Transaction, SetRow
<1>9. CASE Resolve
    <2>1. ASSUME R.state = "processing", Write(Resolved(R))
          PROVE  RowsAdvance
        <3>1. Resolved(R).state \in {"pending", "failed"}
            BY <1>1, <1>9, InCall DEF Resolved, Ended, RowsOK, Row, Resolve
        <3>2. QED
            BY <1>2, <1>9, <2>1, <3>1 DEF Resolve, At, Advances
    <2>2. QED
        BY <1>9, <2>1, NoRowMoves DEF Resolve, SetRow
<1>10. CASE \/ Frame \/ Model \/ Reconcile \/ Recover \/ PrepareFallback \/ FindPublished
            \/ Post \/ RecordPublication \/ Finalize \/ Settle
    BY <1>10, NoRowMoves
       DEF Frame, Model, Reconcile, Recover, PrepareFallback, FindPublished, Post,
           RecordPublication, Finalize, Settle, store
<1>11. QED
    BY <1>3, <1>4, <1>5, <1>6, <1>7, <1>8, <1>9, <1>10
       DEF WorkerStep, HandleJobCompletion, ReconcileJobCompletion, Publish, PublishFallback

\* A claim takes a row out of "pending" or leaves its state alone.
LEMMA ClaimRowMoves ==
    ASSUME Typed, NEW a \in Activation, Claim(a) \/ ClaimFallback(a)
    PROVE  RowMoves
<1>1. RowsOK
    BY DEF Typed
<1>2. row' = [row EXCEPT ![a] = Claimed(row[a])]
    BY <1>1 DEF Claim, ClaimFallback, Take, RowsOK
<1>3. Claimed(row[a]).state = IF row[a].state = "pending" THEN "processing" ELSE row[a].state
    BY <1>1 DEF Claimed, RowsOK, Row
<1>4. QED
    BY <1>1, <1>2, <1>3, OneRowMoves DEF Moves, Advances

LEMMA StepRowMoves ==
    ASSUME Typed, [Next]_vars
    PROVE  RowMoves
<1>1. RowsOK
    BY DEF Typed
<1>2. CASE \E a \in Activation : Claim(a) \/ ClaimFallback(a)
    BY <1>2, ClaimRowMoves
<1>3. CASE WorkerStep
    BY <1>3, WorkerAdvances DEF RowsAdvance, RowMoves, Moves
<1>4. CASE Environment
    <2>1. ASSUME NEW a \in Activation, Enqueue(a)
          PROVE  RowMoves
        <3>1. row' = [row EXCEPT ![a] = [row[a] EXCEPT !.state = "pending"]]
              /\ row[a].state = "absent"
            BY <2>1 DEF Enqueue
        <3>2. [row[a] EXCEPT !.state = "pending"].state = "pending"
            BY <1>1 DEF RowsOK, Row
        <3>3. QED
            BY <1>1, <3>1, <3>2, OneRowMoves DEF Moves, Advances
    <2>2. ASSUME NEW a \in Activation, LeaseLapses(a)
          PROVE  RowMoves
        <3>1. row' = [row EXCEPT ![a] = [row[a] EXCEPT !.lease = "lapsed"]]
            BY <2>2 DEF LeaseLapses
        <3>2. [row[a] EXCEPT !.lease = "lapsed"].state = row[a].state
            BY <1>1 DEF RowsOK, Row
        <3>3. QED
            BY <1>1, <3>1, <3>2, OneRowMoves DEF Moves, Advances
    <2>3. CASE ~\E a \in Activation : Enqueue(a) \/ LeaseLapses(a)
        BY <1>4, <2>3, NoRowMoves
           DEF Environment, RenewalFails, Land, HumanTurnStarts, HumanTurnEnds, CloseChannel,
               store
    <2>4. QED
        BY <2>1, <2>2, <2>3
<1>5. CASE ProcessStep \/ UNCHANGED vars
    BY <1>5, NoRowMoves
       DEF ProcessStep, StopAdmission, CancelContext, Crash, Exit, ProcessEnds, StartUp, store,
           vars
<1>6. QED
    BY <1>2, <1>3, <1>4, <1>5 DEF Next

\* No step of the worker, a claim or a start moves a row against the table of
\* the domain, which the store does not read: a row that ended is not reopened,
\* and none returns to before the boundary of its model turn.
THEOREM RowsFollowTable == Spec => FollowsTransitionTable
<1> DEFINE Follows ==
        \A a \in Activation :
           \/ row'[a].state = row[a].state
           \/ row[a].state = "absent" /\ row'[a].state = "pending"
           \/ ValidActivationTransition(row[a].state, row'[a].state)
<1>1. RowMoves => Follows
    BY DEF RowMoves, Moves, Advances, ValidActivationTransition
<1>2. Typed /\ [Next]_vars => [Follows]_vars
    BY <1>1, StepRowMoves
<1> HIDE DEF Follows
<1>3. Spec => [][Follows]_vars
    BY <1>2, TypedInit, TypedStep, PTL DEF Spec
<1>4. QED
    BY <1>3 DEF Follows, FollowsTransitionTable

\* Only the model's turn adds to runs.
LEMMA RunsUnchanged ==
    ASSUME [Next]_vars, ~Model
    PROVE  UNCHANGED runs
<1>1. CASE \E a \in Activation : Claim(a) \/ ClaimFallback(a)
    BY <1>1 DEF Claim, ClaimFallback, Take
<1>2. CASE WorkerStep
    BY <1>2
       DEF WorkerStep, HandleJobCompletion, ReconcileJobCompletion, Publish, PublishFallback,
           Frame, Reject, MarkModelStarted, Reconcile, Recover, MarkUnknown, PrepareResponse,
           FindPublished, Post, RecordPublication, Finalize, Complete, PrepareFallback,
           CloseFallback, Settle, Resolve
<1>3. CASE Environment
    BY <1>3
       DEF Environment, Enqueue, LeaseLapses, RenewalFails, Land, HumanTurnStarts,
           HumanTurnEnds, CloseChannel
<1>4. CASE ProcessStep \/ UNCHANGED vars
    BY <1>4
       DEF ProcessStep, StopAdmission, CancelContext, Crash, Exit, ProcessEnds, StartUp, vars
<1>5. QED
    BY <1>1, <1>2, <1>3, <1>4 DEF Next

\* The worker comes to the model only by writing the boundary, and as long as
\* it is there nobody else writes the row.
LEMMA AtModel ==
    ASSUME Typed, Boundary, [Next]_vars, ~Model, w'.pc = "model"
    PROVE  runs[w'.a] = 0 /\ row'[w'.a].state = "model_started"
<1>1. RowsOK /\ WorkerOK
    BY DEF Typed
<1>2. CASE MarkModelStarted
    <2>1. w.a \in Activation
        BY <1>1, <1>2, InCall DEF MarkModelStarted, Holding
    <2>2. ~Return
        BY <1>1, <1>2 DEF Return, Idle, WorkerOK, Worker
    <2>3. R.state = "processing" /\ row' = [row EXCEPT ![w.a] = Started(R)] /\ w'.a = w.a
        BY <1>1, <1>2, <2>2 DEF MarkModelStarted, Transaction, SetRow, Goto, WorkerOK, Worker
    <2>4. Started(R).state = "model_started"
        BY <1>1, <2>1 DEF R, Started, RowsOK, Row
    <2>5. runs[w.a] = 0
        BY <2>1, <2>3 DEF Boundary, R
    <2>6. QED
        BY <1>1, <2>1, <2>3, <2>4, <2>5 DEF RowsOK
<1>3. CASE ~MarkModelStarted
    <2>1. w.pc = "model" /\ w'.a = w.a
        <3>1. CASE \E a \in Activation : Claim(a) \/ ClaimFallback(a)
            BY <3>1 DEF Claim, ClaimFallback, Take, Idle
        <3>2. CASE WorkerStep
            <4>1. ~Return
                BY <1>1 DEF Return, Idle, WorkerOK, Worker
            <4>2. \A pc : Goto(pc) => pc = "model"
                BY <1>1 DEF Goto, WorkerOK, Worker
            <4>3. ~(Reject \/ MarkUnknown \/ PrepareResponse \/ Complete \/ CloseFallback)
                BY <4>1, <4>2
                   DEF Reject, MarkUnknown, PrepareResponse, Complete, CloseFallback,
                       Transaction
            <4>4. ~(Finalize \/ PrepareFallback \/ Reconcile \/ Recover)
                BY <4>1, <4>2 DEF Finalize, PrepareFallback, Reconcile, Recover, Transaction
            <4>5. ~(Frame \/ FindPublished \/ Post)
                BY <1>1, <4>1, <4>2 DEF Frame, FindPublished, Post, WorkerOK, Worker
            <4>6. ~RecordPublication
                <5> SUFFICES ASSUME RecordPublication
                             PROVE  FALSE
                    OBVIOUS
                <5> DEFINE f == w.fresh /\ intent[M] # "prepared"
                           p == IF M[2] = "reply" THEN "finalize" ELSE "close"
                <5>1. w' = [w EXCEPT !.fresh = f, !.pc = p]
                    BY <4>1 DEF RecordPublication, Transaction
                <5>2. p # "model"
                    OBVIOUS
                <5> HIDE DEF f, p
                <5>3. QED
                    BY <1>1, <5>1, <5>2 DEF WorkerOK, Worker
            <4>7. ~(Settle \/ Resolve)
                <5>1. w' # Idle
                    BY DEF Idle
                <5>2. w' # [w EXCEPT !.pc = "reconcile", !.phase = "recheck", !.ctx = TRUE]
                    BY <1>1 DEF WorkerOK, Worker
                <5>3. ~Goto("resolve")
                    BY <4>2
                <5>4. QED
                    BY <5>1, <5>2, <5>3 DEF Settle, Resolve
            <4>8. QED
                BY <1>3, <3>2, <4>3, <4>4, <4>5, <4>6, <4>7
                   DEF WorkerStep, HandleJobCompletion, ReconcileJobCompletion, Publish,
                       PublishFallback
        <3>3. CASE Environment
            BY <1>1, <3>3
               DEF Environment, Enqueue, LeaseLapses, RenewalFails, Land, HumanTurnStarts,
                   HumanTurnEnds, CloseChannel, WorkerOK, Worker
        <3>4. CASE ProcessStep \/ UNCHANGED vars
            BY <3>4
               DEF ProcessStep, StopAdmission, CancelContext, Crash, Exit, ProcessEnds, StartUp,
                   vars, Idle
        <3>5. QED
            BY <3>1, <3>2, <3>3, <3>4 DEF Next
    <2>2. row'[w.a].state = row[w.a].state
        <3>1. w.a \in Activation
            BY <1>1, <2>1 DEF WorkerOK
        <3>2. CASE \E a \in Activation : Claim(a) \/ ClaimFallback(a)
            BY <2>1, <3>2 DEF Claim, ClaimFallback
        <3>3. CASE WorkerStep
            BY <1>3, <2>1, <3>3
               DEF WorkerStep, HandleJobCompletion, ReconcileJobCompletion, Publish,
                   PublishFallback, Frame, Reject, Reconcile, Recover, MarkUnknown,
                   PrepareResponse, FindPublished, Post, RecordPublication, Finalize, Complete,
                   PrepareFallback, CloseFallback, Settle, Resolve, At
        <3>4. ASSUME NEW a \in Activation, Enqueue(a) \/ LeaseLapses(a)
              PROVE  row'[w.a].state = row[w.a].state
            BY <1>1, <2>1, <3>1, <3>4 DEF Enqueue, LeaseLapses, RowsOK, Row, Boundary
        <3>5. CASE UNCHANGED row
            BY <3>5
        <3>6. QED
            BY <3>2, <3>3, <3>4, <3>5
               DEF Next, Environment, ProcessStep, RenewalFails, Land, HumanTurnStarts,
                   HumanTurnEnds, CloseChannel, StopAdmission, CancelContext, Crash, Exit,
                   ProcessEnds, StartUp, store, vars
    <2>3. QED
        BY <2>1, <2>2 DEF Boundary
<1>4. QED
    BY <1>2, <1>3

LEMMA BoundaryStep ==
    ASSUME Typed, Boundary, [Next]_vars
    PROVE  Boundary'
<1>1. RowsOK /\ WorkerOK /\ CountsOK
    BY DEF Typed
<1>2. CASE Model
    <2>1. w.pc = "model" /\ w.a \in Activation /\ UNCHANGED row
        BY <1>1, <1>2, InCall DEF Model, At, Holding, store
    <2>2. runs[w.a] = 0 /\ row[w.a].state = "model_started"
        BY <2>1 DEF Boundary
    <2>3. runs' = runs \/ runs' = [runs EXCEPT ![w.a] = 1]
        BY <1>1, <1>2, <2>1, <2>2 DEF Model, CountsOK
    <2>4. w'.pc # "model"
        BY <1>1, <1>2 DEF Model, Return, Goto, Idle, WorkerOK, Worker
    <2>5. QED
        BY <1>1, <2>1, <2>2, <2>3, <2>4 DEF Boundary, CountsOK
<1>3. CASE ~Model
    <2>1. UNCHANGED runs
        BY <1>3, RunsUnchanged
    <2>2. \A a \in Activation :
              row'[a].state \in {"absent", "pending", "processing"} =>
                  row[a].state \in {"absent", "pending", "processing"}
        BY StepRowMoves DEF RowMoves, Moves, Advances
    <2>3. w'.pc = "model" => runs[w'.a] = 0 /\ row'[w'.a].state = "model_started"
        BY <1>3, AtModel
    <2>4. QED
        BY <2>1, <2>2, <2>3 DEF Boundary
<1>4. QED
    BY <1>2, <1>3

\* Whatever is retried, taken over, reconciled or restarted, and however often:
\* the root model is not asked twice about one result.
THEOREM AskedOnce == Spec => []ModelRunsOnce
<1>1. Init => Boundary
    BY DEF Init, Boundary, Idle
<1>2. Boundary => ModelRunsOnce
    BY DEF Boundary, ModelRunsOnce
<1>3. Typed /\ Boundary /\ [Next]_vars => Typed' /\ Boundary'
    BY TypedStep, BoundaryStep
<1>4. QED
    BY <1>1, <1>2, <1>3, TypedInit, PTL DEF Spec

-----------------------------------------------------------------------------
(* The order of the results of a conversation.                              *)

\* Rows are inserted in the order of their activations.
InsertedInOrder ==
    \A a, b \in Activation : a < b /\ row[b].state # "absent" => row[a].state # "absent"

\* Who takes a row out of "absent" and "pending".
LEMMA Takers ==
    ASSUME Typed, [Next]_vars, NEW a \in Activation, row'[a].state # row[a].state
    PROVE  /\ row[a].state = "absent" => Enqueue(a)
           /\ row[a].state = "pending" => Claim(a)
<1>1. RowsOK
    BY DEF Typed
<1>2. ASSUME NEW b \in Activation, Enqueue(b), row[a].state \in {"absent", "pending"}
      PROVE  a = b /\ row[a].state = "absent"
    BY <1>1, <1>2 DEF Enqueue, RowsOK, Row
<1>3. ASSUME NEW b \in Activation, Claim(b) \/ ClaimFallback(b),
             row[a].state \in {"absent", "pending"}
      PROVE  a = b /\ row[a].state = "pending" /\ Claim(a)
    <2>1. row' = [row EXCEPT ![b] = Claimed(row[b])]
        BY <1>3 DEF Claim, ClaimFallback, Take
    <2>2. a = b
        BY <1>1, <2>1 DEF RowsOK
    <2>3. ~OwesFallback(a)
        BY <1>3 DEF OwesFallback
    <2>4. Claim(a) /\ Claimable(a)
        BY <1>3, <2>2, <2>3 DEF Claim, ClaimFallback
    <2>5. QED
        BY <1>3, <2>2, <2>4 DEF Claimable
<1>4. ASSUME NEW b \in Activation, LeaseLapses(b)
      PROVE  FALSE
    BY <1>1, <1>4 DEF LeaseLapses, RowsOK, Row
<1>5. CASE WorkerStep
    BY <1>5, WorkerAdvances DEF RowsAdvance, Advances
<1>6. CASE UNCHANGED row
    BY <1>6
<1>7. QED
    BY <1>2, <1>3, <1>4, <1>5, <1>6
       DEF Next, Environment, ProcessStep, RenewalFails, Land, HumanTurnStarts, HumanTurnEnds,
           CloseChannel, StopAdmission, CancelContext, Crash, Exit, ProcessEnds, StartUp, store,
           vars

LEMMA OrderStep ==
    ASSUME Typed, InsertedInOrder, AskedInOrder, [Next]_vars
    PROVE  InsertedInOrder' /\ AskedInOrder'
<1>1. RowMoves
    BY StepRowMoves
<1>2. \A a \in Activation : row[a].state \in {"absent"} \cup Open \cup Terminal
    BY DEF Typed, RowsOK, Row
<1>3. ASSUME NEW a \in Activation, NEW b \in Activation, a < b, row'[b].state # "absent"
      PROVE  row'[a].state # "absent"
    <2>1. row[a].state # "absent"
        <3>1. CASE row[b].state # "absent"
            BY <1>3, <3>1 DEF InsertedInOrder
        <3>2. CASE row[b].state = "absent"
            BY <1>3, <3>2, Takers DEF Enqueue
        <3>3. QED
            BY <3>1, <3>2
    <2>2. QED
        BY <1>1, <2>1 DEF RowMoves, Moves, Advances
<1>4. ASSUME NEW c \in Conversation, NEW a \in c, NEW b \in c, a < b,
             row'[b].state \notin {"absent", "pending"}
      PROVE  row'[a].state \in Terminal
    <2>1. a \in Activation /\ b \in Activation
        BY ActivationsAssumption
    <2>2. row[a].state \in Terminal
        <3>1. CASE row[b].state \notin {"absent", "pending"}
            BY <1>4, <3>1 DEF AskedInOrder
        <3>2. CASE row[b].state = "absent"
            BY <1>1, <1>4, <2>1, <3>2 DEF RowMoves, Moves, Advances
        <3>3. CASE row[b].state = "pending"
            <4>1. Claim(b)
                BY <1>4, <2>1, <3>3, Takers
            <4>2. OldestOpen(b)
                BY <4>1 DEF Claim, Claimable
            <4>3. row[a].state \notin Open
                BY <1>4, <2>1, <4>2 DEF OldestOpen
            <4>4. row[a].state # "absent"
                BY <1>4, <2>1, <3>3 DEF InsertedInOrder
            <4>5. QED
                BY <1>2, <2>1, <4>3, <4>4
        <3>4. QED
            BY <3>1, <3>2, <3>3
    <2>3. QED
        BY <1>1, <2>1, <2>2 DEF RowMoves, Moves, Advances, Terminal
<1>5. QED
    BY <1>3, <1>4 DEF InsertedInOrder, AskedInOrder

\* The root is asked about the results of a conversation in the order in which
\* they were announced, for any number of results, conversations and restarts.
THEOREM InOrder == Spec => []AskedInOrder
<1>1. Init => InsertedInOrder /\ AskedInOrder
    BY ActivationsAssumption DEF Init, Absent, InsertedInOrder, AskedInOrder
<1>2. Typed /\ InsertedInOrder /\ AskedInOrder /\ [Next]_vars
          => Typed' /\ InsertedInOrder' /\ AskedInOrder'
    BY TypedStep, OrderStep
<1>3. QED
    BY <1>1, <1>2, TypedInit, PTL DEF Spec

-----------------------------------------------------------------------------
(* An answer and the message that there is none exclude each other.         *)

\* Nothing was or will be shown of a message.
Unsaid(m) == view[m] = "none" /\ m \notin late

Early == {"absent", "pending", "processing", "model_started"}

\* A fallback is owed only where no answer was posted, and posted only where it
\* is owed; no answer is posted before it was prepared.
SaidOnce ==
    \A a \in Activation :
        /\ row[a].owed => Unsaid(<<a, "reply">>)
        /\ ~row[a].owed => Unsaid(<<a, "fallback">>)
        /\ row[a].state \in Early => Unsaid(<<a, "reply">>)

\* What the place of the worker says of the row it is in a call about.
Place ==
    /\ w.pc = "idle" => w.phase = "before"
    /\ w.phase = "fallback" => row[w.a].owed
    /\ w.pc = "fallback" => w.phase = "fallback"
    /\ w.pc = "frame" => row[w.a].state = "processing" /\ w.phase = "before"
    /\ w.pc \in {"find", "post"} => w.phase = "fallback" \/ row[w.a].state = "response_prepared"
    /\ w.pc = "reject" => /\ w.phase # "fallback"
                          /\ row[w.a].state = "processing" \/ w.code = "refused"

LEMMA SaidSame ==
    ASSUME SaidOnce, UNCHANGED <<row, view, late>>
    PROVE  SaidOnce'
BY DEF SaidOnce, Unsaid

\* A write of one row keeps SaidOnce when the row it writes fits what was shown.
LEMMA SaidRow ==
    ASSUME RowsOK, SaidOnce, NEW a \in Activation, NEW r, row' = [row EXCEPT ![a] = r],
           UNCHANGED <<view, late>>,
           r.owed => Unsaid(<<a, "reply">>),
           ~r.owed => Unsaid(<<a, "fallback">>),
           r.state \in Early => Unsaid(<<a, "reply">>)
    PROVE  SaidOnce'
BY DEF SaidOnce, Unsaid, RowsOK

\* Rows whose end is still open owe nothing.
LEMMA OpenOwesNothing ==
    ASSUME RowsOK, NEW a \in Activation, row[a].state \notin Terminal
    PROVE  row[a].owed = FALSE
BY DEF RowsOK, Row, RowOK

\* A worker that only moves on or returns keeps its place, if the row does.
LEMMA PlaceKept ==
    ASSUME WorkerOK, Place, UNCHANGED row,
           \/ Return
           \/ w' = Idle
           \/ \E pc \in (Holding \ {"find", "post"})
                         \cup {"reconcile", "settle", "resolve"} : Goto(pc)
    PROVE  Place'
BY DEF WorkerOK, Worker, Place, Return, Goto, Idle, Holding

LEMMA QuietStepsKeepPlace ==
    ASSUME WorkerOK, Place,
           Frame \/ Model \/ Reconcile \/ Recover \/ PrepareFallback
    PROVE  Place'
<1>1. CASE Frame
    BY <1>1, PlaceKept DEF Frame, At, Holding, Place, WorkerOK, Worker, Works, store
<1>2. CASE Model
    BY <1>2, PlaceKept DEF Model, Holding, store
<1>3. CASE Reconcile
    <2>1. CASE Goto("find") /\ R.state = "response_prepared"
        BY <1>3, <2>1 DEF Reconcile, Goto, Place, R, WorkerOK, Worker, store
    <2>2. CASE ~(Goto("find") /\ R.state = "response_prepared")
        BY <1>3, <2>2, PlaceKept DEF Reconcile, Holding, store
    <2>3. QED
        BY <2>1, <2>2
<1>4. CASE Recover
    BY <1>4, PlaceKept DEF Recover, Holding, store
<1>5. CASE PrepareFallback
    <2>1. CASE Goto("find") /\ R.owed
        BY <1>5, <2>1 DEF PrepareFallback, At, Goto, Place, R, WorkerOK, Worker
    <2>2. CASE ~(Goto("find") /\ R.owed)
        BY <1>5, <2>2, PlaceKept DEF PrepareFallback, Transaction, Holding
    <2>3. QED
        BY <2>1, <2>2
<1>6. QED
    BY <1>1, <1>2, <1>3, <1>4, <1>5

LEMMA PublishKeepsPlace ==
    ASSUME WorkerOK, Place,
           FindPublished \/ Post \/ RecordPublication \/ Finalize \/ Settle
    PROVE  Place'
<1>1. CASE FindPublished
    <2>1. w.pc = "find" /\ UNCHANGED row
        BY <1>1 DEF FindPublished, At, store
    <2>2. CASE Revoked /\ w' = [w EXCEPT !.pc = "reject", !.code = "refused"]
        BY <2>1, <2>2 DEF Revoked, Place, WorkerOK, Worker
    <2>3. CASE Goto("post")
        BY <2>1, <2>3 DEF Goto, Place, WorkerOK, Worker
    <2>4. CASE Return \/ Goto("record")
        BY <2>1, <2>4, PlaceKept DEF Holding
    <2>5. QED
        BY <1>1, <2>2, <2>3, <2>4 DEF FindPublished
<1>2. CASE Post
    <2>1. UNCHANGED row
        BY <1>2 DEF Post, store
    <2>2. CASE w' = [w EXCEPT !.pc = "record", !.fresh = TRUE]
        BY <2>1, <2>2 DEF Place, WorkerOK, Worker
    <2>3. CASE Return
        BY <2>1, <2>3, PlaceKept
    <2>4. QED
        BY <1>2, <2>2, <2>3 DEF Post
<1>3. CASE RecordPublication
    <2> DEFINE f == w.fresh /\ intent[M] # "prepared"
               p == IF M[2] = "reply" THEN "finalize" ELSE "close"
    <2>1. UNCHANGED row
        BY <1>3 DEF RecordPublication
    <2>2. CASE Return
        BY <2>1, <2>2, PlaceKept
    <2>3. CASE w' = [w EXCEPT !.fresh = f, !.pc = p]
        <3>1. p \in {"finalize", "close"}
            OBVIOUS
        <3> HIDE DEF f, p
        <3>2. QED
            BY <2>1, <2>3, <3>1 DEF Place, WorkerOK, Worker
    <2>4. QED
        BY <1>3, <2>2, <2>3 DEF RecordPublication, Transaction
<1>4. CASE Finalize
    BY <1>4, PlaceKept DEF Finalize, Transaction, Holding
<1>5. CASE Settle
    <2>1. UNCHANGED row
        BY <1>5 DEF Settle, store
    <2>2. CASE w' = [w EXCEPT !.pc = "reconcile", !.phase = "recheck", !.ctx = TRUE]
        BY <2>1, <2>2 DEF Place, WorkerOK, Worker
    <2>3. CASE w' = Idle \/ Goto("resolve")
        BY <2>1, <2>3, PlaceKept
    <2>4. QED
        BY <1>5, <2>2, <2>3 DEF Settle
<1>6. QED
    BY <1>1, <1>2, <1>3, <1>4, <1>5

\* A worker that writes its row and moves on keeps its place, if the row stays
\* owed where it was and is not published or rejected next.
LEMMA PlaceAfterWrite ==
    ASSUME RowsOK, WorkerOK, Place, w.a \in Activation, NEW r,
           row' = [row EXCEPT ![w.a] = r], row[w.a].owed => r.owed,
           \/ Return
           \/ w' = Idle
           \/ Goto("model")
           \/ Goto("find") /\ r.state = "response_prepared"
    PROVE  Place'
<1>1. row'[w.a] = r
    BY DEF RowsOK
<1>2. CASE w' = Idle
    BY <1>2 DEF Place, Idle
<1>3. CASE w' # Idle
    BY <1>1, <1>3 DEF Place, Return, Goto, WorkerOK, Worker
<1>4. QED
    BY <1>2, <1>3

LEMMA WritesKeepSaid ==
    ASSUME Typed, SaidOnce, Place,
           \/ Reject \/ MarkModelStarted \/ MarkUnknown \/ PrepareResponse \/ Complete
           \/ CloseFallback \/ Resolve
    PROVE  SaidOnce' /\ Place'
<1>1. RowsOK /\ WorkerOK
    BY DEF Typed
<1>2. w.pc # "idle" /\ UNCHANGED <<view, late>>
    BY DEF Reject, MarkModelStarted, MarkUnknown, PrepareResponse, Complete, CloseFallback,
           Resolve, At, slack
<1>3. w.a \in Activation /\ R = row[w.a]
    BY <1>1, <1>2 DEF WorkerOK, R
<1>4. R \in Row /\ RowOK(R)
    BY <1>1, <1>3 DEF RowsOK
<1>5. ASSUME UNCHANGED row, Return \/ w' = Idle
      PROVE  SaidOnce' /\ Place'
    BY <1>1, <1>2, <1>5, SaidSame, PlaceKept
<1> DEFINE Write(r) == row' = [row EXCEPT ![w.a] = r]
<1>6. ASSUME NEW r, Write(r),
             R.owed => r.owed,
             \/ Return \/ w' = Idle \/ Goto("model")
             \/ Goto("find") /\ r.state = "response_prepared",
             R.state \in Early \/ r.owed = R.owed \/ (~r.owed /\ ~R.owed),
             r.state \in Early => R.state \in Early
      PROVE  SaidOnce' /\ Place'
    <2>1. Place'
        BY <1>1, <1>3, <1>6, PlaceAfterWrite
    <2>2. /\ r.owed => Unsaid(<<w.a, "reply">>)
          /\ ~r.owed => Unsaid(<<w.a, "fallback">>)
          /\ r.state \in Early => Unsaid(<<w.a, "reply">>)
        BY <1>3, <1>6 DEF SaidOnce
    <2>3. QED
        BY <1>1, <1>2, <1>3, <1>6, <2>1, <2>2, SaidRow
<1>7. CASE MarkModelStarted
    <2>1. ASSUME R.state = "processing", Write(Started(R)), Return \/ Goto("model")
          PROVE  SaidOnce' /\ Place'
        <3>1. Started(R).state = "model_started" /\ Started(R).owed = R.owed
            BY <1>4 DEF Started, Row
        <3>2. QED
            BY <1>6, <2>1, <3>1 DEF Early
    <2>2. QED
        BY <1>7, <1>5, <2>1 DEF MarkModelStarted, Transaction, SetRow
<1>8. CASE MarkUnknown
    <2>1. ASSUME R.state = "model_started",
                 Write(Ended(R, "completion_unknown", "unusable")), Return
          PROVE  SaidOnce' /\ Place'
        <3> DEFINE r == Ended(R, "completion_unknown", "unusable")
        <3>1. r.state = "completion_unknown" /\ r.owed
            BY <1>4 DEF Ended, Row, FallbackRequired
        <3> HIDE DEF r
        <3>2. QED
            BY <1>6, <2>1, <3>1 DEF Early, r
    <2>2. QED
        BY <1>8, <1>5, <2>1 DEF MarkUnknown, Transaction, SetRow
<1>9. CASE PrepareResponse
    <2>1. ASSUME R.state = "model_started",
                 Write([R EXCEPT !.state = "response_prepared"]), Return \/ Goto("find")
          PROVE  SaidOnce' /\ Place'
        <3> DEFINE r == [R EXCEPT !.state = "response_prepared"]
        <3>1. r.state = "response_prepared" /\ r.owed = R.owed
            BY <1>4 DEF Row
        <3> HIDE DEF r
        <3>2. QED
            BY <1>6, <2>1, <3>1 DEF Early, r
    <2>2. QED
        BY <1>9, <1>5, <2>1 DEF PrepareResponse, Transaction, SetRow
<1>10. CASE Complete
    <2>1. ASSUME R.state = "response_prepared",
                 Write([R EXCEPT !.state = "completed", !.lease = "none"]), Return
          PROVE  SaidOnce' /\ Place'
        <3> DEFINE r == [R EXCEPT !.state = "completed", !.lease = "none"]
        <3>1. r.state = "completed" /\ r.owed = R.owed
            BY <1>4 DEF Row
        <3> HIDE DEF r
        <3>2. QED
            BY <1>6, <2>1, <3>1 DEF Early, r
    <2>2. QED
        BY <1>10, <1>5, <2>1 DEF Complete, Transaction, SetRow
<1>11. CASE CloseFallback
    <2>1. ASSUME R.owed, Write([R EXCEPT !.told = TRUE, !.lease = "none"]), Return
          PROVE  SaidOnce' /\ Place'
        <3> DEFINE r == [R EXCEPT !.told = TRUE, !.lease = "none"]
        <3>1. r.state = R.state /\ r.owed = R.owed
            BY <1>4 DEF Row
        <3> HIDE DEF r
        <3>2. QED
            BY <1>6, <2>1, <3>1 DEF r
    <2>2. QED
        BY <1>11, <1>5, <2>1 DEF CloseFallback, Transaction, SetRow
<1>12. CASE Reject
    <2>1. ASSUME R.state \in {"processing", "response_prepared"},
                 Write(Ended(R, "failed", w.code)), Return
          PROVE  SaidOnce' /\ Place'
        <3> DEFINE r == Ended(R, "failed", w.code)
        <3>1. r.state = "failed" /\ (w.code = "refused" => ~r.owed)
            BY <1>4 DEF Ended, Row, FallbackRequired
        <3>2. R.owed = FALSE
            BY <1>4, <2>1 DEF Row, RowOK, Terminal
        <3>3. R.state = "processing" \/ w.code = "refused"
            BY <1>3, <1>12 DEF Reject, At, Place
        <3> HIDE DEF r
        <3>4. QED
            BY <1>6, <2>1, <3>1, <3>2, <3>3 DEF Early, r
    <2>2. QED
        BY <1>12, <1>5, <2>1 DEF Reject, Transaction, SetRow
<1>13. CASE Resolve
    <2>1. ASSUME R.state = "processing", Write(Resolved(R)), w' = Idle
          PROVE  SaidOnce' /\ Place'
        <3>1. Resolved(R).state \in {"pending", "failed"}
            BY <1>4 DEF Resolved, Ended, Row
        <3>2. R.owed = FALSE
            BY <1>4, <2>1 DEF Row, RowOK, Terminal
        <3>3. QED
            BY <1>6, <2>1, <3>1, <3>2 DEF Early
    <2>2. QED
        BY <1>13, <1>5, <2>1 DEF Resolve, Transaction, SetRow
<1>14. QED
    BY <1>7, <1>8, <1>9, <1>10, <1>11, <1>12, <1>13

\* A post shows a message of the worker's own call only.
LEMMA PostKeepsSaid ==
    ASSUME Typed, SaidOnce, Place, Post
    PROVE  SaidOnce'
<1>1. RowsOK /\ WorkerOK /\ w.pc = "post" /\ UNCHANGED row
    BY DEF Typed, Post, At, store
<1>2. w.a \in Activation
    BY <1>1 DEF WorkerOK
<1>3. view' = view \/ (\E v : view' = [view EXCEPT ![M] = v])
    BY DEF Post
<1>4. late' = late \/ late' = late \cup {M}
    BY DEF Post
<1>5. \A m \in Message : m # M /\ Unsaid(m) => Unsaid(m)'
    BY <1>3, <1>4 DEF Unsaid, Typed, SlackOK
<1>6. CASE w.phase = "fallback"
    <2>1. M = <<w.a, "fallback">> /\ row[w.a].owed
        BY <1>6 DEF M, Place
    <2>2. QED
        BY <1>1, <1>2, <1>5, <2>1 DEF SaidOnce, Message
<1>7. CASE w.phase # "fallback"
    <2>1. M = <<w.a, "reply">> /\ row[w.a].state = "response_prepared"
        BY <1>1, <1>7 DEF M, Place
    <2>2. row[w.a].owed = FALSE /\ row[w.a].state \notin Early
        BY <1>1, <1>2, <2>1, OpenOwesNothing DEF Terminal, Early
    <2>3. QED
        BY <1>1, <1>2, <1>5, <2>1, <2>2 DEF SaidOnce, Message
<1>8. QED
    BY <1>6, <1>7

LEMMA WorkerKeepsSaid ==
    ASSUME Typed, SaidOnce, Place, WorkerStep
    PROVE  SaidOnce' /\ Place'
<1>1. WorkerOK
    BY DEF Typed
<1>2. CASE Post
    BY <1>1, <1>2, PostKeepsSaid, PublishKeepsPlace
<1>3. CASE \/ Frame \/ Model \/ Reconcile \/ Recover \/ PrepareFallback \/ FindPublished
           \/ RecordPublication \/ Finalize \/ Settle
    <2>1. UNCHANGED <<row, view, late>>
        BY <1>3
           DEF Frame, Model, Reconcile, Recover, PrepareFallback, FindPublished,
               RecordPublication, Finalize, Settle, store, slack
    <2>2. QED
        BY <1>1, <1>3, <2>1, SaidSame, QuietStepsKeepPlace, PublishKeepsPlace
<1>4. CASE \/ Reject \/ MarkModelStarted \/ MarkUnknown \/ PrepareResponse \/ Complete
           \/ CloseFallback \/ Resolve
    BY <1>4, WritesKeepSaid
<1>5. QED
    BY <1>2, <1>3, <1>4
       DEF WorkerStep, HandleJobCompletion, ReconcileJobCompletion, Publish, PublishFallback

LEMMA ClaimKeepsSaid ==
    ASSUME Typed, SaidOnce, Place, NEW a \in Activation, Claim(a) \/ ClaimFallback(a)
    PROVE  SaidOnce' /\ Place'
<1>1. RowsOK
    BY DEF Typed
<1> DEFINE r == Claimed(row[a])
<1>2. row' = [row EXCEPT ![a] = r] /\ UNCHANGED <<view, late>>
    BY DEF Claim, ClaimFallback, Take, slack
<1>3. /\ r.owed = row[a].owed
      /\ r.state = IF row[a].state = "pending" THEN "processing" ELSE row[a].state
    BY <1>1 DEF Claimed, RowsOK, Row
<1> HIDE DEF r
<1>4. SaidOnce'
    BY <1>1, <1>2, <1>3, SaidRow DEF SaidOnce, Early
<1>5. row'[a] = r
    BY <1>1, <1>2 DEF RowsOK
<1>6. Place'
    BY <1>3, <1>5 DEF Place, Claim, ClaimFallback, Take, Idle, OwesFallback
<1>7. QED
    BY <1>4, <1>6

LEMMA EnvironmentKeepsSaid ==
    ASSUME Typed, SaidOnce, Place, Environment
    PROVE  SaidOnce' /\ Place'
<1>1. RowsOK /\ WorkerOK
    BY DEF Typed
<1>2. ASSUME NEW a \in Activation, NEW r, row' = [row EXCEPT ![a] = r],
             UNCHANGED <<view, late, w>>, r.owed = row[a].owed,
             r.state = row[a].state \/ (row[a].state = "absent" /\ r.state = "pending")
      PROVE  SaidOnce' /\ Place'
    <2>1. SaidOnce'
        BY <1>1, <1>2, SaidRow DEF SaidOnce, Early
    <2>2. row'[a] = r /\ \A b \in Activation : b # a => row'[b] = row[b]
        BY <1>1, <1>2 DEF RowsOK
    <2>3. w.pc # "idle" => w.a \in Activation
        BY <1>1 DEF WorkerOK
    <2>4. w.phase = "fallback" => w.pc # "idle"
        BY DEF Place
    <2>5. QED
        BY <1>2, <2>1, <2>2, <2>3, <2>4 DEF Place
<1>3. ASSUME NEW a \in Activation, Enqueue(a)
      PROVE  SaidOnce' /\ Place'
    <2>1. /\ [row[a] EXCEPT !.state = "pending"].owed = row[a].owed
          /\ [row[a] EXCEPT !.state = "pending"].state = "pending"
        BY <1>1 DEF RowsOK, Row
    <2>2. QED
        BY <1>2, <1>3, <2>1 DEF Enqueue, slack
<1>4. ASSUME NEW a \in Activation, LeaseLapses(a)
      PROVE  SaidOnce' /\ Place'
    <2>1. /\ [row[a] EXCEPT !.lease = "lapsed"].owed = row[a].owed
          /\ [row[a] EXCEPT !.lease = "lapsed"].state = row[a].state
        BY <1>1 DEF RowsOK, Row
    <2>2. QED
        BY <1>2, <1>4, <2>1 DEF LeaseLapses, slack
<1>5. CASE RenewalFails
    <2>1. UNCHANGED <<row, view, late>>
        BY <1>5 DEF RenewalFails, store, slack
    <2>2. Place'
        BY <1>1, <1>5, <2>1 DEF RenewalFails, Place, WorkerOK, Worker
    <2>3. QED
        BY <2>1, <2>2, SaidSame
<1>6. ASSUME NEW m \in late, Land(m)
      PROVE  SaidOnce' /\ Place'
    <2>1. UNCHANGED <<row, w>>
        BY <1>6 DEF Land, store
    <2>2. \A n \in Message : Unsaid(n) => Unsaid(n)'
        BY <1>6 DEF Land, Unsaid, Typed, SlackOK
    <2>3. QED
        BY <2>1, <2>2 DEF SaidOnce, Place, Message
<1>7. ASSUME \/ \E c \in Conversation : HumanTurnStarts(c) \/ HumanTurnEnds(c)
             \/ CloseChannel
      PROVE  SaidOnce' /\ Place'
    <2>1. UNCHANGED <<row, view, late, w>>
        BY <1>7 DEF HumanTurnStarts, HumanTurnEnds, CloseChannel, store, slack
    <2>2. QED
        BY <2>1, SaidSame DEF Place
<1>8. QED
    BY <1>3, <1>4, <1>5, <1>6, <1>7 DEF Environment

LEMMA SaidStep ==
    ASSUME Typed, SaidOnce, Place, [Next]_vars
    PROVE  SaidOnce' /\ Place'
<1>1. CASE ProcessStep \/ UNCHANGED vars
    <2>1. UNCHANGED <<row, view, late>> /\ (w' = Idle \/ w' = w)
        BY <1>1
           DEF ProcessStep, StopAdmission, CancelContext, Crash, Exit, ProcessEnds, StartUp,
               store, slack, vars
    <2>2. QED
        BY <2>1, SaidSame DEF Place, Idle
<1>2. QED
    BY <1>1, ClaimKeepsSaid, WorkerKeepsSaid, EnvironmentKeepsSaid DEF Next

\* A conversation that was shown an answer is not told that there is none,
\* although access is checked again before every publication, posts may appear
\* long after their call, and rows change hands: for any number of each.
THEOREM AnswerExcludesFallback == Spec => []NeverBoth
<1>1. Init => SaidOnce /\ Place
    BY DEF Init, Absent, Idle, SaidOnce, Place, Unsaid, Message
<1>2. Typed /\ SaidOnce => NeverBoth
    BY DEF SaidOnce, NeverBoth, Unsaid
<1>3. Typed /\ SaidOnce /\ Place /\ [Next]_vars => Typed' /\ SaidOnce' /\ Place'
    BY TypedStep, SaidStep
<1>4. QED
    BY <1>1, <1>2, <1>3, TypedInit, PTL DEF Spec

-----------------------------------------------------------------------------
(* What Slack shows once, the conversation remembers once.                  *)

\* A message that no lookup missed is not shown twice: while one copy may still
\* appear none is shown, and the worker posts only what it knows nobody saw.
ShownOnce ==
    /\ \A m \in Message \ missed :
          view[m] # "repeated" /\ (m \in late => view[m] = "none")
    /\ w.pc = "post" /\ M \notin missed => Unsaid(M)

\* An exchange turns into one memory of a message that Slack has.
Exchanged(m) ==
    /\ kept[m] \in {0, 1}
    /\ kept[m] = 1 => intent[m] = "absent" /\ view[m] # "none"
    /\ intent[m] = "published" => view[m] # "none"

\* A reply is remembered before its row is completed, a fallback together with
\* its row.
Filed(a) ==
    LET reply == <<a, "reply">>
    IN /\ kept[<<a, "fallback">>] = 1 <=> row[a].told
       /\ row[a].state \in Early => intent[reply] = "absent" /\ kept[reply] = 0
       /\ row[a].state = "response_prepared" => intent[reply] # "absent" \/ kept[reply] = 1
       /\ row[a].state = "completed" => kept[reply] = 1

Remembered == (\A m \in Message : Exchanged(m)) /\ (\A a \in Activation : Filed(a))

\* What the worker knows of the message it is publishing.
Publishing ==
    /\ proc = "down" => w.pc = "idle"
    /\ w.pc \in {"finalize", "complete"} => w.phase # "fallback"
    /\ w.pc = "close" => w.phase = "fallback"
    /\ w.pc \in {"record", "finalize", "complete"} =>
          w.phase = "fallback" \/ row[w.a].state = "response_prepared"
    /\ w.pc = "record" => view[M] # "none"
    /\ w.pc = "finalize" => intent[M] # "prepared"
    /\ w.pc = "complete" => kept[M] = 1

\* An answer is prepared only after a model turn that gave it.
Answered ==
    /\ \A a \in Activation : session[a] = "answer" => runs[a] = 1
    /\ w.pc = "prepare" => runs[w.a] = 1

\* The worker is where it was, in the call it was in.
Stays == w'.pc = w.pc /\ w'.a = w.a /\ (w'.phase = "fallback" <=> w.phase = "fallback")

LEMMA StaysM ==
    ASSUME Stays
    PROVE  M' = M
BY DEF Stays, M

\* From where the worker comes to the places of a publication.
LEMMA Entered ==
    ASSUME Typed, [Next]_vars, ~Stays
    PROVE  /\ w'.pc = "post" => FindPublished
           /\ w'.pc = "record" => FindPublished \/ Post
           /\ w'.pc \in {"finalize", "close"} => RecordPublication
           /\ w'.pc = "complete" => Finalize
           /\ w'.pc = "prepare" => Model \/ Recover
<1> DEFINE Late == {"post", "record", "finalize", "close", "complete", "prepare"}
<1>1. WorkerOK
    BY DEF Typed
<1>2. Return \/ w' = Idle => w'.pc \notin Late
    BY <1>1 DEF Return, Idle, WorkerOK, Worker
<1>3. \A pc : Goto(pc) => w'.pc = pc
    BY <1>1 DEF Goto, WorkerOK, Worker
<1>4. CASE \E a \in Activation : Claim(a) \/ ClaimFallback(a)
    BY <1>4 DEF Claim, ClaimFallback, Take, Idle
<1>5. CASE WorkerStep
    <2>1. CASE Reject \/ MarkUnknown \/ PrepareResponse \/ Complete \/ CloseFallback
               \/ MarkModelStarted
        BY <1>2, <1>3, <2>1
           DEF Reject, MarkUnknown, PrepareResponse, Complete, CloseFallback,
               MarkModelStarted, Transaction
    <2>2. CASE PrepareFallback \/ Reconcile
        BY <1>2, <1>3, <2>2 DEF PrepareFallback, Reconcile, Transaction
    <2>3. CASE Finalize
        BY <1>2, <1>3, <2>3 DEF Finalize, Transaction
    <2>4. CASE Recover \/ Model
        BY <1>2, <1>3, <2>4 DEF Recover, Model
    <2>5. CASE Frame
        BY <1>1, <1>2, <1>3, <2>5 DEF Frame, WorkerOK, Worker
    <2>6. CASE FindPublished
        BY <1>1, <1>2, <1>3, <2>6 DEF FindPublished, WorkerOK, Worker
    <2>7. CASE Post
        BY <1>1, <1>2, <1>3, <2>7 DEF Post, WorkerOK, Worker
    <2>8. CASE RecordPublication
        <3> DEFINE f == w.fresh /\ intent[M] # "prepared"
                   p == IF M[2] = "reply" THEN "finalize" ELSE "close"
        <3>1. Return \/ w' = [w EXCEPT !.fresh = f, !.pc = p]
            BY <2>8 DEF RecordPublication, Transaction
        <3>2. p \in {"finalize", "close"}
            OBVIOUS
        <3> HIDE DEF f, p
        <3>3. w'.pc \in {"finalize", "close"} \/ w'.pc \notin Late
            BY <1>1, <1>2, <3>1, <3>2 DEF WorkerOK, Worker
        <3>4. QED
            BY <2>8, <3>3
    <2>9. CASE Settle \/ Resolve
        <3>1. w' = [w EXCEPT !.pc = "reconcile", !.phase = "recheck", !.ctx = TRUE]
                  => w'.pc = "reconcile"
            BY <1>1 DEF WorkerOK, Worker
        <3>2. QED
            BY <1>2, <1>3, <2>9, <3>1 DEF Settle, Resolve
    <2>10. QED
        BY <1>5, <2>1, <2>2, <2>3, <2>4, <2>5, <2>6, <2>7, <2>8, <2>9
           DEF WorkerStep, HandleJobCompletion, ReconcileJobCompletion, Publish,
               PublishFallback
<1>6. CASE Environment
    BY <1>1, <1>6
       DEF Environment, Enqueue, LeaseLapses, RenewalFails, Land, HumanTurnStarts,
           HumanTurnEnds, CloseChannel, WorkerOK, Worker, Stays
<1>7. CASE ProcessStep \/ UNCHANGED vars
    BY <1>2, <1>7
       DEF ProcessStep, StopAdmission, CancelContext, Crash, Exit, ProcessEnds, StartUp,
           vars, Stays
<1>8. QED
    BY <1>4, <1>5, <1>6, <1>7 DEF Next

\* Who writes the exchanges and the memory, and who the sessions.
LEMMA StoreWriters ==
    ASSUME [Next]_vars
    PROVE  /\ UNCHANGED <<intent, kept>> \/ PrepareResponse \/ PrepareFallback
              \/ RecordPublication \/ Finalize \/ CloseFallback \/ StartUp
           /\ UNCHANGED session \/ Model
<1>1. CASE \E a \in Activation : Claim(a) \/ ClaimFallback(a)
    BY <1>1 DEF Claim, ClaimFallback, Take
<1>2. CASE WorkerStep
    <2>1. CASE Frame \/ Reject \/ MarkModelStarted \/ Model \/ Reconcile
        BY <2>1 DEF Frame, Reject, MarkModelStarted, Model, Reconcile, store
    <2>2. CASE Recover \/ MarkUnknown \/ FindPublished \/ Post \/ Complete \/ Settle \/ Resolve
        BY <2>2 DEF Recover, MarkUnknown, FindPublished, Post, Complete, Settle, Resolve, store
    <2>3. CASE PrepareResponse \/ PrepareFallback \/ RecordPublication \/ Finalize
               \/ CloseFallback
        BY <2>3
           DEF PrepareResponse, PrepareFallback, RecordPublication, Finalize, CloseFallback
    <2>4. QED
        BY <1>2, <2>1, <2>2, <2>3
           DEF WorkerStep, HandleJobCompletion, ReconcileJobCompletion, Publish,
               PublishFallback
<1>3. CASE Environment
    BY <1>3
       DEF Environment, Enqueue, LeaseLapses, RenewalFails, Land, HumanTurnStarts,
           HumanTurnEnds, CloseChannel, store
<1>4. CASE ProcessStep \/ UNCHANGED vars
    BY <1>4
       DEF ProcessStep, StopAdmission, CancelContext, Crash, Exit, ProcessEnds, StartUp,
           store, vars
<1>5. QED
    BY <1>1, <1>2, <1>3, <1>4 DEF Next

\* Who shows a message, and who misses one.
LEMMA SlackWriters ==
    ASSUME [Next]_vars
    PROVE  /\ UNCHANGED <<view, late>> \/ Post \/ (\E m \in late : Land(m))
           /\ UNCHANGED missed \/ FindPublished
<1>1. CASE \E a \in Activation : Claim(a) \/ ClaimFallback(a)
    BY <1>1 DEF Claim, ClaimFallback, Take, slack
<1>2. CASE WorkerStep
    <2>1. CASE Frame \/ Reject \/ MarkModelStarted \/ Model \/ Reconcile
        BY <2>1 DEF Frame, Reject, MarkModelStarted, Model, Reconcile, slack
    <2>2. CASE Recover \/ MarkUnknown \/ FindPublished \/ Post \/ Complete \/ Settle \/ Resolve
        BY <2>2 DEF Recover, MarkUnknown, FindPublished, Post, Complete, Settle, Resolve, slack
    <2>3. CASE PrepareResponse \/ PrepareFallback \/ RecordPublication \/ Finalize
               \/ CloseFallback
        BY <2>3
           DEF PrepareResponse, PrepareFallback, RecordPublication, Finalize, CloseFallback,
               slack
    <2>4. QED
        BY <1>2, <2>1, <2>2, <2>3
           DEF WorkerStep, HandleJobCompletion, ReconcileJobCompletion, Publish,
               PublishFallback
<1>3. CASE Environment
    BY <1>3
       DEF Environment, Enqueue, LeaseLapses, RenewalFails, Land, HumanTurnStarts,
           HumanTurnEnds, CloseChannel, slack
<1>4. CASE ProcessStep \/ UNCHANGED vars
    BY <1>4
       DEF ProcessStep, StopAdmission, CancelContext, Crash, Exit, ProcessEnds, StartUp,
           slack, vars
<1>5. QED
    BY <1>1, <1>2, <1>3, <1>4 DEF Next

\* What Slack showed of a message stays.
LEMMA ViewStays ==
    ASSUME Typed, [Next]_vars, NEW m \in Message, view[m] # "none"
    PROVE  view'[m] # "none"
<1>1. SlackOK
    BY DEF Typed
<1>2. CASE Post
    BY <1>1, <1>2 DEF Post, Posted, Partly, SlackOK
<1>3. ASSUME NEW n \in late, Land(n)
      PROVE  view'[m] # "none"
    BY <1>1, <1>3 DEF Land, Posted, SlackOK
<1>4. QED
    BY <1>2, <1>3, SlackWriters

LEMMA ShownStep ==
    ASSUME Typed, ShownOnce, [Next]_vars
    PROVE  ShownOnce'
<1>1. SlackOK /\ WorkerOK
    BY DEF Typed
<1>2. missed \subseteq missed'
    BY SlackWriters DEF FindPublished
<1>3. CASE FindPublished
    <2>1. UNCHANGED <<view, late>> /\ w.pc = "find" /\ w.a \in Activation /\ M \in Message
        BY <1>1, <1>3, InCall DEF FindPublished, At, Holding
    <2>2. ASSUME w'.pc = "post", M' \notin missed'
          PROVE  view'[M'] = "none" /\ M' \notin late'
        <3>1. Goto("post") /\ ~Found(M)
              /\ missed' = IF M \in late \/ (view[M] # "none" /\ ~Recognisable(M))
                           THEN missed \cup {M} ELSE missed
            <4>1. ~Return /\ ~Goto("record")
                BY <1>1, <2>2 DEF Return, Goto, Idle, WorkerOK, Worker
            <4>2. w' # [w EXCEPT !.pc = "reject", !.code = "refused"]
                BY <1>1, <2>2 DEF WorkerOK, Worker
            <4>3. QED
                BY <1>3, <4>1, <4>2 DEF FindPublished
        <3>2. M' = M
            BY <1>1, <3>1 DEF M, Goto, WorkerOK, Worker
        <3>3. Unsaid(M)
            BY <2>2, <3>1, <3>2 DEF Found, Unsaid
        <3>4. QED
            BY <2>1, <3>2, <3>3 DEF Unsaid
    <2>3. QED
        BY <1>2, <2>1, <2>2 DEF ShownOnce, Unsaid
<1>4. CASE Post
    <2>1. w.pc = "post" /\ w.a \in Activation /\ M \in Message /\ UNCHANGED missed
        BY <1>1, <1>4, InCall DEF Post, At, Holding
    <2>2. w'.pc # "post"
        <3>1. Return => w'.pc # "post"
            BY <1>1 DEF Return, Idle, WorkerOK, Worker
        <3>2. w' = [w EXCEPT !.pc = "record", !.fresh = TRUE] => w'.pc # "post"
            BY <1>1 DEF WorkerOK, Worker
        <3>3. QED
            BY <1>4, <3>1, <3>2 DEF Post
    <2>3. /\ view' = view \/ view' = [view EXCEPT ![M] = Posted(@)]
                \/ view' = [view EXCEPT ![M] = Partly(@)]
          /\ late' = late \/ (late' = late \cup {M} /\ view' = view)
        BY <1>4 DEF Post
    <2>4. M \notin missed => view[M] = "none" /\ M \notin late
        BY <2>1 DEF ShownOnce, Unsaid
    <2>5. ASSUME NEW m \in Message \ missed
          PROVE  view'[m] # "repeated" /\ (m \in late' => view'[m] = "none")
        <3>1. CASE m # M
            BY <1>1, <2>1, <2>3, <3>1 DEF ShownOnce, SlackOK
        <3>2. CASE m = M
            BY <1>1, <2>1, <2>3, <2>4, <3>2 DEF ShownOnce, SlackOK, Posted, Partly
        <3>3. QED
            BY <3>1, <3>2
    <2>6. QED
        BY <2>1, <2>2, <2>5 DEF ShownOnce
<1>5. ASSUME NEW m \in late, Land(m)
      PROVE  ShownOnce'
    <2>1. m \in Message /\ UNCHANGED <<w, missed>> /\ late' = late \ {m}
          /\ view' = [view EXCEPT ![m] = Posted(@)]
        BY <1>1, <1>5 DEF Land, SlackOK
    <2>2. w.pc = "post" /\ M \notin missed => M # m
        BY <1>5 DEF ShownOnce, Unsaid
    <2>3. w.pc = "post" => M \in Message
        BY <1>1, OwnMessage DEF WorkerOK
    <2>4. M' = M
        BY <2>1 DEF M
    <2>5. \A n \in Message : n # m => (view'[n] = view[n] /\ (n \in late' <=> n \in late))
        BY <1>1, <2>1 DEF SlackOK
    <2>6. m \notin missed => view'[m] = "exact"
        BY <1>1, <1>5, <2>1 DEF ShownOnce, SlackOK, Posted
    <2>7. QED
        BY <2>1, <2>2, <2>3, <2>4, <2>5, <2>6 DEF ShownOnce, Unsaid
<1>6. CASE ~FindPublished /\ ~Post /\ ~\E m \in late : Land(m)
    <2>1. UNCHANGED <<view, late, missed>>
        BY <1>6, SlackWriters
    <2>2. w'.pc = "post" => w.pc = "post" /\ M' = M
        BY <1>6, Entered, StaysM DEF Stays
    <2>3. QED
        BY <2>1, <2>2 DEF ShownOnce, Unsaid
<1>7. QED
    BY <1>3, <1>4, <1>5, <1>6

-----------------------------------------------------------------------------
\* The bookkeeping keeps an exchange: it is staged, published and remembered.
LEMMA ExchangedKept ==
    ASSUME Typed, [Next]_vars, NEW m \in Message, Exchanged(m), kept'[m] = kept[m],
           \/ intent'[m] = intent[m]
           \/ intent'[m] = "prepared" /\ kept[m] = 0
           \/ intent'[m] = "published" /\ intent[m] # "absent" /\ view[m] # "none"
    PROVE  Exchanged(m)'
BY ViewStays DEF Exchanged

LEMMA ExchangedConsumed ==
    ASSUME Typed, [Next]_vars, NEW ms \in SUBSET Message, Consume(ms),
           \A m \in ms : intent[m] # "absent" /\ view[m] # "none",
           \A m \in Message : Exchanged(m)
    PROVE  \A m \in Message : Exchanged(m)'
<1>1. StoreOK
    BY DEF Typed
<1>2. ASSUME NEW m \in ms
      PROVE  Exchanged(m)'
    <2>1. kept[m] = 0 /\ view'[m] # "none"
        BY ViewStays DEF Exchanged
    <2>2. kept'[m] = 1 /\ intent'[m] = "absent"
        BY <1>1, <2>1 DEF Consume
    <2>3. QED
        BY <2>1, <2>2 DEF Exchanged
<1>3. ASSUME NEW m \in Message \ ms
      PROVE  Exchanged(m)'
    BY <1>1, ExchangedKept DEF Consume
<1>4. QED
    BY <1>2, <1>3

\* What a row must keep, when its exchanges stay as they are.
LEMMA FiledKept ==
    ASSUME NEW a \in Activation, Filed(a),
           intent'[<<a, "reply">>] = intent[<<a, "reply">>],
           kept'[<<a, "reply">>] = kept[<<a, "reply">>],
           kept'[<<a, "fallback">>] = kept[<<a, "fallback">>],
           row'[a].told = row[a].told,
           row'[a].state \in Early => row[a].state \in Early,
           row'[a].state = "response_prepared" => row[a].state = "response_prepared",
           row'[a].state = "completed" =>
               row[a].state = "completed" \/ kept[<<a, "reply">>] = 1
    PROVE  Filed(a)'
BY DEF Filed

\* Who prepares and completes rows, who notes that a fallback was told, and for
\* which rows one is owed.
LEMMA RowWriters ==
    ASSUME Typed, Place, [Next]_vars, NEW a \in Activation
    PROVE  /\ row'[a].told = row[a].told \/ (CloseFallback /\ w.a = a)
           /\ row'[a].state = "response_prepared" =>
                 row[a].state = "response_prepared" \/ (PrepareResponse /\ w.a = a)
           /\ row'[a].state = "completed" =>
                 row[a].state = "completed" \/ (Complete /\ w.a = a)
           /\ row'[a].state \in Early => row[a].state \in Early
           /\ row[a].state = "response_prepared" =>
                 row'[a].state = "response_prepared" \/ Complete \/ Reject
           /\ row'[a].state = row[a].state => row'[a].owed = row[a].owed
           /\ row[a].state = "model_started" /\ row'[a].state = "completion_unknown" =>
                 row'[a].owed
           /\ row[a].state = "response_prepared" /\ row'[a].state = "failed" =>
                 ~row'[a].owed
<1>1. RowsOK /\ WorkerOK
    BY DEF Typed
<1>2. CASE UNCHANGED row
    BY <1>2
<1>3. ASSUME NEW b \in Activation, Claim(b) \/ ClaimFallback(b)
      PROVE  row'[a].told = row[a].told /\ row'[a].owed = row[a].owed /\
             (row'[a].state = row[a].state
                \/ (row[a].state = "pending" /\ row'[a].state = "processing"))
    <2>1. row' = [row EXCEPT ![b] = Claimed(row[b])]
        BY <1>3 DEF Claim, ClaimFallback, Take
    <2>2. /\ Claimed(row[b]).told = row[b].told /\ Claimed(row[b]).owed = row[b].owed
          /\ Claimed(row[b]).state =
                 IF row[b].state = "pending" THEN "processing" ELSE row[b].state
        BY <1>1 DEF Claimed, RowsOK, Row
    <2>3. QED
        BY <1>1, <2>1, <2>2 DEF RowsOK
<1>4. ASSUME NEW b \in Activation, Enqueue(b) \/ LeaseLapses(b)
      PROVE  row'[a].told = row[a].told /\ row'[a].owed = row[a].owed /\
             (row'[a].state = row[a].state
                \/ (row[a].state = "absent" /\ row'[a].state = "pending"))
    BY <1>1, <1>4 DEF Enqueue, LeaseLapses, RowsOK, Row
<1>5. CASE /\ ~UNCHANGED row
           /\ ~\E b \in Activation :
                  Claim(b) \/ ClaimFallback(b) \/ Enqueue(b) \/ LeaseLapses(b)
    <2>1. \/ Reject \/ MarkModelStarted \/ MarkUnknown \/ PrepareResponse \/ Complete
          \/ CloseFallback \/ Resolve
        BY <1>5
           DEF Next, Environment, ProcessStep, RenewalFails, Land, HumanTurnStarts,
               HumanTurnEnds, CloseChannel, StopAdmission, CancelContext, Crash, Exit,
               ProcessEnds, StartUp, store, vars, WorkerStep, HandleJobCompletion,
               ReconcileJobCompletion, Publish, PublishFallback, Frame, Model, Reconcile,
               Recover, FindPublished, Post, RecordPublication, Finalize, PrepareFallback,
               Settle
    <2>2. w.a \in Activation /\ R = row[w.a] /\ R \in Row
        BY <1>1, <2>1
           DEF Reject, MarkModelStarted, MarkUnknown, PrepareResponse, Complete,
               CloseFallback, Resolve, At, WorkerOK, RowsOK, R
    <2> DEFINE Write(r) == row' = [row EXCEPT ![w.a] = r]
    <2>3. CASE Reject
        <3>1. R.state \in {"processing", "response_prepared"} /\ Write(Ended(R, "failed", w.code))
            BY <1>5, <2>3 DEF Reject, Transaction, SetRow
        <3>2. /\ Ended(R, "failed", w.code).told = R.told
              /\ Ended(R, "failed", w.code).state = "failed"
              /\ w.code = "refused" => ~Ended(R, "failed", w.code).owed
            BY <2>2 DEF Ended, Row, FallbackRequired
        <3>3. R.state = "processing" \/ w.code = "refused"
            BY <2>2, <2>3 DEF Reject, At, Place
        <3>4. QED
            BY <1>1, <2>2, <2>3, <3>1, <3>2, <3>3 DEF RowsOK, Early
    <2>4. CASE MarkModelStarted
        <3>1. R.state = "processing" /\ Write(Started(R))
            BY <1>5, <2>4 DEF MarkModelStarted, Transaction, SetRow
        <3>2. Started(R).told = R.told /\ Started(R).state = "model_started"
            BY <2>2 DEF Started, Row
        <3>3. QED
            BY <1>1, <2>2, <2>4, <3>1, <3>2 DEF RowsOK, Early
    <2>5. CASE MarkUnknown
        <3>1. R.state = "model_started" /\ Write(Ended(R, "completion_unknown", "unusable"))
            BY <1>5, <2>5 DEF MarkUnknown, Transaction, SetRow
        <3>2. Ended(R, "completion_unknown", "unusable").told = R.told
              /\ Ended(R, "completion_unknown", "unusable").state = "completion_unknown"
              /\ Ended(R, "completion_unknown", "unusable").owed
            BY <2>2 DEF Ended, Row, FallbackRequired
        <3>3. QED
            BY <1>1, <2>2, <2>5, <3>1, <3>2 DEF RowsOK, Early
    <2>6. CASE PrepareResponse
        <3>1. R.state = "model_started" /\ Write([R EXCEPT !.state = "response_prepared"])
            BY <1>5, <2>6 DEF PrepareResponse, Transaction, SetRow
        <3>2. [R EXCEPT !.state = "response_prepared"].told = R.told
              /\ [R EXCEPT !.state = "response_prepared"].state = "response_prepared"
            BY <2>2 DEF Row
        <3>3. QED
            BY <1>1, <2>2, <2>6, <3>1, <3>2 DEF RowsOK, Early
    <2>7. CASE Complete
        <3>1. R.state = "response_prepared"
              /\ Write([R EXCEPT !.state = "completed", !.lease = "none"])
            BY <1>5, <2>7 DEF Complete, Transaction, SetRow
        <3>2. [R EXCEPT !.state = "completed", !.lease = "none"].told = R.told
              /\ [R EXCEPT !.state = "completed", !.lease = "none"].state = "completed"
            BY <2>2 DEF Row
        <3>3. QED
            BY <1>1, <2>2, <2>7, <3>1, <3>2 DEF RowsOK, Early
    <2>8. CASE CloseFallback
        <3>1. Write([R EXCEPT !.told = TRUE, !.lease = "none"])
            BY <1>5, <2>8 DEF CloseFallback, Transaction, SetRow
        <3>2. /\ [R EXCEPT !.told = TRUE, !.lease = "none"].state = R.state
              /\ [R EXCEPT !.told = TRUE, !.lease = "none"].owed = R.owed
            BY <2>2 DEF Row
        <3>3. QED
            BY <1>1, <2>2, <2>8, <3>1, <3>2 DEF RowsOK, Early
    <2>9. CASE Resolve
        <3>1. R.state = "processing" /\ Write(Resolved(R))
            BY <1>5, <2>9 DEF Resolve, SetRow
        <3>2. Resolved(R).told = R.told /\ Resolved(R).state \in {"pending", "failed"}
            BY <2>2 DEF Resolved, Ended, Row
        <3>3. QED
            BY <1>1, <2>2, <2>9, <3>1, <3>2 DEF RowsOK, Early
    <2>10. QED
        BY <2>1, <2>3, <2>4, <2>5, <2>6, <2>7, <2>8, <2>9
<1>6. QED
    BY <1>2, <1>3, <1>4, <1>5 DEF Early

\* Every writer of the exchanges keeps them and their rows together.
LEMMA RememberedStep ==
    ASSUME Typed, Place, SaidOnce, Publishing, Remembered, [Next]_vars
    PROVE  Remembered'
<1>1. RowsOK /\ WorkerOK /\ StoreOK /\ SlackOK
    BY DEF Typed
<1>2. ASSUME UNCHANGED <<intent, kept>>, ~Complete, ~CloseFallback, ~PrepareResponse
      PROVE  Remembered'
    <2>1. \A m \in Message : Exchanged(m)'
        BY <1>2, ExchangedKept DEF Remembered
    <2>2. ASSUME NEW a \in Activation
          PROVE  Filed(a)'
        <3>1. /\ row'[a].told = row[a].told
              /\ row'[a].state \in Early => row[a].state \in Early
              /\ row'[a].state = "response_prepared" => row[a].state = "response_prepared"
              /\ row'[a].state = "completed" => row[a].state = "completed"
            BY <1>2, RowWriters
        <3>2. QED
            BY <1>2, <3>1, FiledKept DEF Remembered
    <2>3. QED
        BY <2>1, <2>2 DEF Remembered
<1>3. CASE Complete
    <2>1. w.pc = "complete" /\ w.a \in Activation /\ UNCHANGED <<intent, kept>>
        BY <1>1, <1>3, InCall DEF Complete, At, Holding
    <2>2. kept[<<w.a, "reply">>] = 1
        BY <2>1 DEF Publishing, M
    <2>3. ~CloseFallback /\ ~PrepareResponse
        BY <2>1 DEF CloseFallback, PrepareResponse, At
    <2>4. \A m \in Message : Exchanged(m)'
        BY <2>1, ExchangedKept DEF Remembered
    <2>5. ASSUME NEW a \in Activation
          PROVE  Filed(a)'
        <3>1. /\ row'[a].told = row[a].told
              /\ row'[a].state \in Early => row[a].state \in Early
              /\ row'[a].state = "response_prepared" => row[a].state = "response_prepared"
              /\ row'[a].state = "completed" => row[a].state = "completed" \/ w.a = a
            BY <2>3, RowWriters
        <3>2. QED
            BY <2>1, <2>2, <3>1, FiledKept DEF Remembered
    <2>6. QED
        BY <2>4, <2>5 DEF Remembered
<1>4. CASE PrepareResponse
    <2>1. /\ w.pc = "prepare" /\ w.a \in Activation /\ M \in Message /\ row[w.a] = R
          /\ UNCHANGED kept
        BY <1>1, <1>4, InCall DEF PrepareResponse, At, Holding
    <2>2. ~CloseFallback /\ ~Complete
        BY <2>1 DEF CloseFallback, Complete, At
    <2>3. CASE UNCHANGED <<row, intent>>
        BY <2>1, <2>2, <2>3, ExchangedKept, FiledKept DEF Remembered
    <2>4. CASE R.state = "model_started" /\ SetRow([R EXCEPT !.state = "response_prepared"])
               /\ intent' = [intent EXCEPT ![M] = "prepared"]
        <3>1. M = <<w.a, "reply">>
            BY <1>1, <2>1, <2>4, OpenOwesNothing DEF Place, M, Terminal
        <3>2. kept[M] = 0 /\ intent[M] = "absent"
            BY <2>1, <2>4, <3>1 DEF Remembered, Filed, Early
        <3>3. \A m \in Message : Exchanged(m)'
            BY <1>1, <2>1, <2>4, <3>2, ExchangedKept DEF Remembered, StoreOK
        <3>4. \A a \in Activation : a # w.a => Filed(a)'
            <4>1. ASSUME NEW a \in Activation, a # w.a
                  PROVE  /\ intent'[<<a, "reply">>] = intent[<<a, "reply">>]
                         /\ row'[a] = row[a]
                <5>1. <<a, "reply">> \in Message /\ <<a, "reply">> # M
                    BY <3>1, <4>1 DEF Message
                <5>2. intent'[<<a, "reply">>] = intent[<<a, "reply">>]
                    <6> HIDE DEF M
                    <6> QED  BY <1>1, <2>4, <5>1 DEF StoreOK
                <5>3. row'[a] = row[a]
                    BY <1>1, <2>1, <2>4, <4>1 DEF SetRow, RowsOK
                <5>4. QED
                    BY <5>2, <5>3
            <4>2. ASSUME NEW a \in Activation, a # w.a
                  PROVE  Filed(a)'
                <5>1. Filed(a)
                    BY DEF Remembered
                <5>2. /\ intent'[<<a, "reply">>] = intent[<<a, "reply">>]
                      /\ row'[a] = row[a]
                    BY <4>1, <4>2
                <5>3. QED
                    BY <2>1, <5>1, <5>2, FiledKept
            <4>3. QED
                BY <4>2
        <3>5. ASSUME NEW a \in Activation, a = w.a
              PROVE  Filed(a)'
            <4>1. row'[w.a] = [R EXCEPT !.state = "response_prepared"]
                BY <1>1, <2>1, <2>4 DEF SetRow, RowsOK
            <4>2. row'[w.a].told = row[w.a].told /\ row'[w.a].state = "response_prepared"
                BY <1>1, <2>1, <4>1 DEF RowsOK, Row
            <4>3. intent'[<<w.a, "reply">>] = "prepared"
                BY <1>1, <2>1, <2>4, <3>1 DEF StoreOK
            <4>4. QED
                BY <2>1, <3>5, <4>2, <4>3 DEF Remembered, Filed, Early
        <3>6. QED
            BY <3>3, <3>4, <3>5 DEF Remembered
    <2>5. QED
        BY <1>4, <2>3, <2>4 DEF PrepareResponse, Transaction
<1>5. CASE PrepareFallback \/ RecordPublication
    <2>1. /\ w.pc \in {"fallback", "record"} /\ w.a \in Activation /\ M \in Message
          /\ row[w.a] = R /\ UNCHANGED <<kept, row>>
        BY <1>1, <1>5, InCall DEF PrepareFallback, RecordPublication, At, Holding
    <2>2. CASE UNCHANGED intent
        BY <2>1, <2>2, ExchangedKept, FiledKept DEF Remembered
    <2>3. ASSUME NEW i, intent' = [intent EXCEPT ![M] = i],
                 \/ i = intent[M]
                 \/ i = "prepared" /\ kept[M] = 0 /\ intent[M] = "absent"
                    /\ M = <<w.a, "fallback">>
                 \/ i = "published" /\ intent[M] = "prepared" /\ view[M] # "none"
          PROVE  Remembered'
        <3>1. intent'[M] = i /\ \A m \in Message : m # M => intent'[m] = intent[m]
            BY <1>1, <2>1, <2>3 DEF StoreOK
        <3>2. \A m \in Message : Exchanged(m)'
            BY <2>1, <2>3, <3>1, ExchangedKept DEF Remembered
        <3>3. ASSUME NEW a \in Activation
              PROVE  Filed(a)'
            <4>1. /\ <<a, "reply">> \in Message /\ <<a, "reply">> # <<w.a, "fallback">>
                  /\ intent'[<<a, "reply">>] = "absent" <=> intent[<<a, "reply">>] = "absent"
                BY <2>3, <3>1 DEF Message
            <4>2. QED
                BY <2>1, <4>1 DEF Remembered, Filed
        <3>4. QED
            BY <3>2, <3>3 DEF Remembered
    <2>4. CASE PrepareFallback
        <3>1. M = <<w.a, "fallback">>
            BY <2>1, <2>4 DEF PrepareFallback, At, Place, M
        <3>2. \/ UNCHANGED intent
              \/ /\ ~R.told
                 /\ intent' = [intent EXCEPT ![M] = IF @ = "absent" THEN "prepared" ELSE @]
            BY <2>4 DEF PrepareFallback, Transaction
        <3>3. ~R.told => kept[M] = 0
            BY <2>1, <3>1 DEF Remembered, Filed, Exchanged
        <3>4. QED
            <4> DEFINE i == IF intent[M] = "absent" THEN "prepared" ELSE intent[M]
            <4>1. i = intent[M] \/ (i = "prepared" /\ intent[M] = "absent")
                OBVIOUS
            <4>2. UNCHANGED intent \/ (~R.told /\ intent' = [intent EXCEPT ![M] = i])
                BY <1>1, <2>1, <3>2 DEF StoreOK
            <4> HIDE DEF i
            <4>3. QED
                BY <2>2, <2>3, <3>1, <3>3, <4>1, <4>2
    <2>5. CASE RecordPublication
        <3>1. view[M] # "none"
            BY <2>5 DEF RecordPublication, At, Publishing
        <3>2. \/ UNCHANGED intent
              \/ intent' = [intent EXCEPT ![M] = IF @ = "prepared" THEN "published" ELSE @]
            BY <2>5 DEF RecordPublication, Transaction
        <3>3. QED
            <4> DEFINE i == IF intent[M] = "prepared" THEN "published" ELSE intent[M]
            <4>1. i = intent[M] \/ (i = "published" /\ intent[M] = "prepared")
                OBVIOUS
            <4>2. UNCHANGED intent \/ intent' = [intent EXCEPT ![M] = i]
                BY <1>1, <2>1, <3>2 DEF StoreOK
            <4> HIDE DEF i
            <4>3. QED
                BY <2>2, <2>3, <3>1, <4>1, <4>2
    <2>6. QED
        BY <1>5, <2>4, <2>5
\* Replies leave their exchange while their row is prepared or has ended.
<1>6. ASSUME NEW ms \in SUBSET Message, Consume(ms), UNCHANGED row,
             \A m \in ms : m[2] = "reply" /\ intent[m] # "absent" /\ view[m] # "none"
      PROVE  Remembered'
    <2>1. \A m \in Message : Exchanged(m)'
        BY <1>6, ExchangedConsumed DEF Remembered
    <2>2. ASSUME NEW a \in Activation
          PROVE  Filed(a)'
        <3>1. /\ <<a, "reply">> \in Message /\ <<a, "fallback">> \in Message
              /\ <<a, "fallback">> \notin ms
            BY <1>6 DEF Message
        <3>2. kept'[<<a, "fallback">>] = kept[<<a, "fallback">>]
            BY <1>6, <3>1 DEF Consume
        <3>3. CASE <<a, "reply">> \notin ms
            <4>1. /\ kept'[<<a, "reply">>] = kept[<<a, "reply">>]
                  /\ intent'[<<a, "reply">>] = intent[<<a, "reply">>]
                BY <1>6, <3>1, <3>3 DEF Consume
            <4>2. QED
                BY <1>6, <3>2, <4>1, FiledKept DEF Remembered
        <3>4. CASE <<a, "reply">> \in ms
            <4>1. intent[<<a, "reply">>] # "absent" /\ kept[<<a, "reply">>] = 0
                BY <1>6, <3>1, <3>4 DEF Remembered, Exchanged
            <4>2. kept'[<<a, "reply">>] = 1
                BY <1>6, <3>1, <3>4, <4>1 DEF Consume
            <4>3. QED
                BY <1>6, <3>2, <4>1, <4>2 DEF Remembered, Filed
        <3>5. QED
            BY <3>3, <3>4
    <2>3. QED
        BY <2>1, <2>2 DEF Remembered
<1>7. CASE Finalize
    <2>1. /\ w.pc = "finalize" /\ w.a \in Activation /\ UNCHANGED row
        BY <1>1, <1>7, InCall DEF Finalize, At, Holding
    <2>2. M[2] = "reply"
        BY <2>1 DEF Publishing, M
    <2>3. CASE UNCHANGED <<kept, intent>>
        BY <2>1, <1>2, <2>3 DEF Complete, CloseFallback, PrepareResponse, At
    <2> DEFINE ms == {M} \cap {m \in Message : intent[m] = "published"}
    <2>4. CASE Consume(ms)
        <3>1. \A m \in ms : m[2] = "reply" /\ intent[m] # "absent" /\ view[m] # "none"
            BY <2>2 DEF Remembered, Exchanged
        <3>2. ms \in SUBSET Message
            OBVIOUS
        <3> HIDE DEF ms
        <3>3. QED
            BY <1>6, <2>1, <2>4, <3>1, <3>2
    <2>5. QED
        BY <1>7, <2>3, <2>4 DEF Finalize, Transaction
<1>8. CASE StartUp
    <2>1. PICK ms \in SUBSET (LeftPublished \cup LeftFound) : Consume(ms)
        BY <1>8 DEF StartUp
    <2>2. \A m \in ms : m \in Message /\ m[2] = "reply" /\ intent[m] # "absent"
                        /\ view[m] # "none"
        BY <2>1 DEF LeftPublished, LeftFound, LeftPrepared, StartUpReconciles, Found,
                    Recognisable, Remembered, Exchanged
    <2>3. QED
        BY <1>6, <1>8, <2>1, <2>2 DEF StartUp
<1>9. CASE CloseFallback
    <2>1. /\ w.pc = "close" /\ w.a \in Activation /\ M \in Message /\ row[w.a] = R
        BY <1>1, <1>9, InCall DEF CloseFallback, At, Holding
    <2>2. M = <<w.a, "fallback">>
        BY <2>1 DEF Publishing, M
    <2>3. CASE UNCHANGED <<row, kept, intent>>
        BY <2>1, <2>3, ExchangedKept, FiledKept DEF Remembered
    <2>4. CASE /\ intent[M] = "published"
               /\ SetRow([R EXCEPT !.told = TRUE, !.lease = "none"])
               /\ Consume({M})
        <3>1. kept[M] = 0 /\ view[M] # "none"
            BY <2>1, <2>4 DEF Remembered, Exchanged
        <3>2. \A m \in Message : Exchanged(m)'
            BY <2>1, <2>4, <3>1, ExchangedConsumed DEF Remembered
        <3>3. ASSUME NEW a \in Activation
              PROVE  Filed(a)'
            <4>1. /\ intent'[<<a, "reply">>] = intent[<<a, "reply">>]
                  /\ kept'[<<a, "reply">>] = kept[<<a, "reply">>]
                BY <2>2, <2>4 DEF Consume, Message
            <4>2. row'[a] = IF a = w.a THEN [R EXCEPT !.told = TRUE, !.lease = "none"]
                            ELSE row[a]
                BY <1>1, <2>1, <2>4 DEF SetRow, RowsOK
            <4>3. /\ row'[a].state = row[a].state
                  /\ row'[a].told = IF a = w.a THEN TRUE ELSE row[a].told
                BY <1>1, <2>1, <4>2 DEF RowsOK, Row
            <4>4. kept'[<<a, "fallback">>] = IF a = w.a THEN 1 ELSE kept[<<a, "fallback">>]
                BY <2>2, <2>4, <3>1 DEF Consume, Message
            <4>5. QED
                BY <4>1, <4>3, <4>4 DEF Remembered, Filed
        <3>4. QED
            BY <3>2, <3>3 DEF Remembered
    <2>5. QED
        BY <1>9, <2>3, <2>4 DEF CloseFallback, Transaction
<1>10. QED
    BY <1>2, <1>3, <1>4, <1>5, <1>7, <1>8, <1>9, StoreWriters

LEMMA PublishingStep ==
    ASSUME Typed, Place, SaidOnce, Publishing, Remembered, [Next]_vars
    PROVE  Publishing'
<1>1. RowsOK /\ WorkerOK /\ StoreOK /\ SlackOK
    BY DEF Typed
<1>2. w.pc \in Holding => w.a \in Activation /\ M \in Message /\ row[w.a] = R
    BY <1>1, OwnMessage DEF WorkerOK, Holding, R
<1>3. proc' = "down" => w'.pc = "idle"
    <2>1. CASE Crash \/ Exit
        BY <2>1 DEF Crash, Exit, ProcessEnds, Idle
    <2>2. CASE StartUp
        BY <2>2 DEF StartUp, Publishing
    <2>3. CASE ~Crash /\ ~Exit /\ ~StartUp
        <3>1. proc' = "down" => proc = "down"
            BY <2>3
               DEF Next, Claim, ClaimFallback, Take, Environment, Enqueue, LeaseLapses,
                   RenewalFails, Land, HumanTurnStarts, HumanTurnEnds, CloseChannel,
                   ProcessStep, StopAdmission, CancelContext, WorkerStep,
                   HandleJobCompletion, ReconcileJobCompletion, Publish, PublishFallback,
                   Frame, Reject, MarkModelStarted, Model, Reconcile, Recover, MarkUnknown,
                   PrepareResponse, FindPublished, Post, RecordPublication, Finalize,
                   Complete, PrepareFallback, CloseFallback, Settle, Resolve, outside, vars
        <3>2. proc = "down" => ~WorkerStep
            BY DEF WorkerStep, HandleJobCompletion, ReconcileJobCompletion, Publish,
                   PublishFallback, Frame, Reject, MarkModelStarted, Model, Reconcile,
                   Recover, MarkUnknown, PrepareResponse, FindPublished, Post,
                   RecordPublication, Finalize, Complete, PrepareFallback, CloseFallback,
                   Settle, Resolve, At
        <3>3. proc = "down" /\ ~WorkerStep => w' = w
            BY <2>3
               DEF Next, Claim, ClaimFallback, Environment, Enqueue, LeaseLapses,
                   RenewalFails, Land, HumanTurnStarts, HumanTurnEnds, CloseChannel,
                   ProcessStep, StopAdmission, CancelContext, Publishing, Holding, vars
        <3>4. QED
            BY <3>1, <3>2, <3>3 DEF Publishing
    <2>4. QED
        BY <2>1, <2>2, <2>3
\* A worker that stays finds its exchange as it was.
<1>4. ASSUME Stays, w.pc \in {"record", "finalize", "complete", "close"}
      PROVE  UNCHANGED <<intent, kept>> /\ ~Complete /\ ~Reject
    <2>1. w'.pc = w.pc
        BY <1>4 DEF Stays
    <2>2. Return \/ w' = Idle => w'.pc \notin Holding
        BY <1>1 DEF Return, Idle, WorkerOK, Worker, Holding
    <2>3. \A pc : Goto(pc) => w'.pc = pc
        BY <1>1 DEF Goto, WorkerOK, Worker
    <2>4. ~(PrepareResponse \/ PrepareFallback \/ Reject \/ StartUp)
        BY <1>4
           DEF PrepareResponse, PrepareFallback, Reject, StartUp, At, Publishing
    <2>5. ~(Finalize \/ CloseFallback \/ Complete)
        BY <1>4, <2>1, <2>2, <2>3
           DEF Finalize, CloseFallback, Complete, Transaction, Holding, At
    <2>6. ~RecordPublication
        <3> DEFINE f == w.fresh /\ intent[M] # "prepared"
                   p == IF M[2] = "reply" THEN "finalize" ELSE "close"
        <3>1. RecordPublication => w.pc = "record"
                                   /\ (Return \/ w' = [w EXCEPT !.fresh = f, !.pc = p])
            BY DEF RecordPublication, Transaction, At
        <3>2. p # "record"
            OBVIOUS
        <3> HIDE DEF f, p
        <3>3. w' = [w EXCEPT !.fresh = f, !.pc = p] => w'.pc # "record"
            BY <1>1, <3>2 DEF WorkerOK, Worker
        <3>4. QED
            BY <2>1, <2>2, <3>1, <3>3 DEF Holding
    <2>7. QED
        BY <2>4, <2>5, <2>6, StoreWriters
<1>5. CASE Stays
    <2>1. M' = M /\ w'.pc = w.pc /\ w'.a = w.a
          /\ (w'.phase = "fallback" <=> w.phase = "fallback")
        BY <1>5, StaysM DEF Stays
    <2>2. w.pc \in {"record", "finalize", "complete"} /\ w.phase # "fallback" =>
              row'[w.a].state = "response_prepared"
        BY <1>2, <1>4, <1>5, RowWriters DEF Publishing, Holding
    <2>3. w.pc = "record" => view'[M] # "none"
        BY <1>2, ViewStays DEF Publishing, Holding
    <2>4. QED
        BY <1>3, <1>4, <1>5, <2>1, <2>2, <2>3 DEF Publishing
<1>6. CASE ~Stays /\ w'.pc \notin {"record", "finalize", "complete", "close"}
    BY <1>3, <1>6 DEF Publishing
<1>7. CASE ~Stays /\ w'.pc = "record"
    <2>1. FindPublished \/ Post
        BY <1>7, Entered
    <2>2. w.pc \in {"find", "post"} /\ UNCHANGED <<row>>
        BY <2>1 DEF FindPublished, Post, At, store
    <2>3. w'.a = w.a /\ w'.phase = w.phase
        <3>1. CASE FindPublished
            <4>1. /\ ~Return /\ ~Goto("post")
                  /\ w' # [w EXCEPT !.pc = "reject", !.code = "refused"]
                <5>1. ~Return /\ ~Goto("post")
                    BY <1>1, <1>7 DEF Return, Goto, Idle, WorkerOK, Worker
                <5>2. w' # [w EXCEPT !.pc = "reject", !.code = "refused"]
                    BY <1>1, <1>7 DEF WorkerOK, Worker
                <5>3. QED
                    BY <5>1, <5>2
            <4>2. Goto("record")
                BY <3>1, <4>1 DEF FindPublished
            <4>3. QED
                BY <1>1, <4>2 DEF Goto, WorkerOK, Worker
        <3>2. CASE Post
            <4>1. ~Return
                BY <1>1, <1>7 DEF Return, Idle, WorkerOK, Worker
            <4>2. w' = [w EXCEPT !.pc = "record", !.fresh = TRUE]
                BY <3>2, <4>1 DEF Post
            <4>3. QED
                BY <1>1, <4>2 DEF WorkerOK, Worker
        <3>3. QED
            BY <2>1, <3>1, <3>2
    <2>4. M' = M
        BY <2>3 DEF M
    <2>5. view'[M] # "none"
        <3>1. CASE FindPublished
            <4>1. /\ ~Return /\ ~Goto("post")
                  /\ w' # [w EXCEPT !.pc = "reject", !.code = "refused"]
                <5>1. ~Return /\ ~Goto("post")
                    BY <1>1, <1>7 DEF Return, Goto, Idle, WorkerOK, Worker
                <5>2. w' # [w EXCEPT !.pc = "reject", !.code = "refused"]
                    BY <1>1, <1>7 DEF WorkerOK, Worker
                <5>3. QED
                    BY <5>1, <5>2
            <4>2. view' = view /\ Found(M)
                BY <3>1, <4>1 DEF FindPublished
            <4>3. QED
                BY <4>2 DEF Found, Recognisable
        <3>2. CASE Post
            <4>1. ~Return
                BY <1>1, <1>7 DEF Return, Idle, WorkerOK, Worker
            <4>2. view' = [view EXCEPT ![M] = Posted(@)]
                BY <3>2, <4>1 DEF Post
            <4>3. QED
                BY <1>1, <1>2, <2>2, <4>2 DEF SlackOK, Posted, Holding
        <3>3. QED
            BY <2>1, <3>1, <3>2
    <2>6. QED
        BY <1>3, <1>7, <2>2, <2>3, <2>4, <2>5 DEF Publishing, Place
<1>8. CASE ~Stays /\ w'.pc \in {"finalize", "close"}
    <2>1. RecordPublication
        BY <1>8, Entered
    <2> DEFINE f == w.fresh /\ intent[M] # "prepared"
               p == IF M[2] = "reply" THEN "finalize" ELSE "close"
    <2>2. /\ w.pc = "record" /\ UNCHANGED <<row, kept>>
          /\ intent' = [intent EXCEPT ![M] = IF @ = "prepared" THEN "published" ELSE @]
          /\ w' = [w EXCEPT !.fresh = f, !.pc = p]
        <3>1. ~Return
            BY <1>1, <1>8 DEF Return, Idle, WorkerOK, Worker
        <3>2. QED
            BY <2>1, <3>1 DEF RecordPublication, Transaction, At
    <2>3. p = IF w.phase = "fallback" THEN "close" ELSE "finalize"
        BY DEF M
    <2> HIDE DEF f, p
    <2>4. w'.a = w.a /\ w'.phase = w.phase /\ w'.pc = p
        BY <1>1, <2>2 DEF WorkerOK, Worker
    <2>5. M' = M
        BY <2>4 DEF M
    <2>6. intent'[M] # "prepared"
        BY <1>1, <1>2, <2>2 DEF StoreOK, Holding
    <2>7. QED
        BY <1>3, <2>2, <2>3, <2>4, <2>5, <2>6 DEF Publishing
<1>9. CASE ~Stays /\ w'.pc = "complete"
    <2>1. Finalize
        BY <1>9, Entered
    <2>2. /\ w.pc = "finalize" /\ UNCHANGED row
          /\ Consume({M} \cap {m \in Message : intent[m] = "published"})
          /\ Goto("complete")
        <3>1. ~Return
            BY <1>1, <1>9 DEF Return, Idle, WorkerOK, Worker
        <3>2. QED
            BY <2>1, <3>1 DEF Finalize, Transaction, At
    <2>3. w'.a = w.a /\ w'.phase = w.phase /\ M' = M
        BY <1>1, <2>2 DEF Goto, WorkerOK, Worker, M
    <2>4. M \in Message /\ M = <<w.a, "reply">> /\ row[w.a].state = "response_prepared"
        BY <1>2, <2>2 DEF Publishing, M, Holding
    <2>5. kept'[M] = 1
        <3>1. CASE intent[M] = "published"
            <4>1. kept[M] = 0
                BY <2>4, <3>1 DEF Remembered, Exchanged
            <4>2. QED
                BY <2>2, <2>4, <3>1, <4>1 DEF Consume
        <3>2. CASE intent[M] # "published"
            <4>1. intent[M] = "absent"
                BY <1>1, <2>2, <2>4, <3>2 DEF Publishing, StoreOK
            <4>2. kept[M] = 1
                BY <1>2, <2>2, <2>4, <4>1 DEF Remembered, Filed, Holding
            <4>3. QED
                BY <2>2, <2>4, <3>2, <4>2 DEF Consume
        <3>3. QED
            BY <3>1, <3>2
    <2>6. QED
        BY <1>3, <1>9, <2>2, <2>3, <2>4, <2>5 DEF Publishing
<1>10. QED
    BY <1>5, <1>6, <1>7, <1>8, <1>9

-----------------------------------------------------------------------------
(* Answered once, and the refinement of RootTurn.                           *)

LEMMA AnsweredStep ==
    ASSUME Typed, Boundary, Answered, [Next]_vars
    PROVE  Answered'
<1>1. WorkerOK /\ StoreOK /\ CountsOK
    BY DEF Typed
<1>2. CASE Model
    <2>1. w.pc = "model" /\ w.a \in Activation /\ runs[w.a] = 0
        BY <1>1, <1>2, InCall DEF Model, At, Holding, Boundary
    <2>2. /\ runs' = [runs EXCEPT ![w.a] = 1] \/ UNCHANGED <<runs, session>>
          /\ UNCHANGED session \/ \E e : session' = [session EXCEPT ![w.a] = e]
        BY <1>1, <1>2, <2>1 DEF Model, CountsOK, StoreOK
    <2>3. \A a \in Activation : session'[a] = "answer" => runs'[a] = 1
        BY <1>1, <2>1, <2>2 DEF Answered, CountsOK, StoreOK
    <2>4. w'.pc = "prepare" => w'.a = w.a /\ runs' = [runs EXCEPT ![w.a] = 1]
        <3>1. ~(w'.pc = "prepare" /\ (Return \/ Goto("unknown")))
            BY <1>1 DEF Return, Goto, Idle, WorkerOK, Worker
        <3>2. Goto("prepare") => w'.a = w.a
            BY <1>1 DEF Goto, WorkerOK, Worker
        <3>3. runs' = [runs EXCEPT ![w.a] = @ + 1] => runs' = [runs EXCEPT ![w.a] = 1]
            BY <1>1, <2>1 DEF CountsOK
        <3>4. QED
            BY <1>2, <3>1, <3>2, <3>3 DEF Model
    <2>5. QED
        BY <1>1, <2>1, <2>3, <2>4 DEF Answered, CountsOK
<1>3. CASE ~Model
    <2>1. UNCHANGED <<runs, session>>
        BY <1>3, RunsUnchanged, StoreWriters
    <2>2. CASE Stays
        BY <2>1, <2>2 DEF Answered, Stays
    <2>3. CASE ~Stays /\ w'.pc = "prepare"
        <3>1. Recover
            BY <1>3, <2>3, Entered
        <3>2. w.a \in Activation
            BY <1>1, <3>1, InCall DEF Recover, Holding
        <3>3. ~Return
            BY <1>1, <2>3 DEF Return, Idle, WorkerOK, Worker
        <3>4. Goto(IF session[w.a] = "answer" THEN "prepare" ELSE "unknown")
            BY <3>1, <3>3 DEF Recover
        <3>5. session[w.a] = "answer" /\ w'.a = w.a
            BY <1>1, <2>3, <3>4 DEF Goto, WorkerOK, Worker
        <3>6. QED
            BY <2>1, <3>2, <3>5 DEF Answered
    <2>4. QED
        BY <2>1, <2>2, <2>3 DEF Answered
<1>4. QED
    BY <1>2, <1>3

\* What the theorems about answers rest on.
Turn ==
    /\ Typed /\ Boundary /\ SaidOnce /\ Place
    /\ ShownOnce /\ Remembered /\ Publishing /\ Answered

LEMMA TurnInit == Init => Turn
<1> SUFFICES ASSUME Init PROVE Turn
    OBVIOUS
<1>1. Typed
    BY TypedInit
<1>2. Boundary /\ SaidOnce /\ Place
    BY DEF Init, Absent, Idle, Boundary, SaidOnce, Place, Unsaid, Message
<1>3. ShownOnce /\ Publishing /\ Answered
    BY DEF Init, Idle, ShownOnce, Publishing, Answered
<1>4. Remembered
    BY DEF Init, Absent, Remembered, Exchanged, Filed, Early, Message
<1>5. QED
    BY <1>1, <1>2, <1>3, <1>4 DEF Turn

LEMMA TurnStep == Turn /\ [Next]_vars => Turn'
BY TypedStep, BoundaryStep, SaidStep, ShownStep, RememberedStep, PublishingStep, AnsweredStep
   DEF Turn

\* Whether the worker, the next start or the fallback's transaction closes it,
\* Slack shows an answer or a message that there is none, once, the memory keeps
\* it once, and no activation ends before: for any number of failures, lapsed
\* leases, restarts and late posts.
THEOREM Answers == Spec => []AnsweredOnce
<1>1. ASSUME Turn
      PROVE  AnsweredOnce
    <2>1. NeverBoth
        BY <1>1 DEF Turn, SaidOnce, NeverBoth, Unsaid
    <2>2. PostedOnce
        BY <1>1 DEF Turn, ShownOnce, PostedOnce
    <2>3. RememberedOnce
        BY <1>1 DEF Turn, Remembered, Exchanged, RememberedOnce
    <2>4. FinishedIsKept
        BY <1>1 DEF Turn, Remembered, Filed, FinishedIsKept
    <2>5. QED
        BY <2>1, <2>2, <2>3, <2>4 DEF AnsweredOnce
<1>2. QED
    BY <1>1, TurnInit, TurnStep, PTL DEF Spec

\* The stage of a row.
LEMMA Stages ==
    ASSUME NEW r, Fits(r)
    PROVE  /\ r.state \in {"absent", "pending", "processing"} => Stage(r) = "waiting"
           /\ r.state = "model_started" => Stage(r) = "asked"
           /\ r.state = "response_prepared" => Stage(r) = "answering"
           /\ r.state = "completed" => Stage(r) = "answered"
           /\ r.state \in {"failed", "completion_unknown"} =>
                 Stage(r) = IF r.told THEN "told" ELSE IF r.owed THEN "owing" ELSE "dropped"
<1>1. /\ r \in Row
      /\ r.told => r.owed
      /\ r.owed => r.state \in {"failed", "completion_unknown"}
    BY DEF Fits, RowOK, Terminal
<1>2. CASE r.state \in {"absent", "pending", "processing"}
    BY <1>1, <1>2 DEF Stage
<1>3. CASE r.state = "model_started"
    BY <1>1, <1>3 DEF Stage
<1>4. CASE r.state = "response_prepared"
    BY <1>1, <1>4 DEF Stage
<1>5. CASE r.state = "completed"
    BY <1>1, <1>5 DEF Stage
<1>6. CASE r.state \in {"failed", "completion_unknown"}
    BY <1>1, <1>6 DEF Stage, Row
<1>7. QED
    BY <1>2, <1>3, <1>4, <1>5, <1>6

\* Two rows are not written in one step.
LEMMA OneRowWritten ==
    ASSUME Typed, [Next]_vars, NEW a \in Activation, row'[a] # row[a],
           NEW b \in Activation, b # a
    PROVE  row'[b] = row[b]
<1>1. RowsOK /\ WorkerOK
    BY DEF Typed
<1>2. ASSUME NEW c \in Activation,
             Claim(c) \/ ClaimFallback(c) \/ Enqueue(c) \/ LeaseLapses(c)
      PROVE  row'[b] = row[b]
    BY <1>1, <1>2 DEF Claim, ClaimFallback, Take, Enqueue, LeaseLapses, RowsOK
<1>3. CASE Reject \/ MarkModelStarted \/ MarkUnknown \/ PrepareResponse
    BY <1>1, <1>3
       DEF Reject, MarkModelStarted, MarkUnknown, PrepareResponse, Transaction, SetRow, RowsOK
<1>4. CASE Complete \/ CloseFallback \/ Resolve
    BY <1>1, <1>4 DEF Complete, CloseFallback, Resolve, Transaction, SetRow, RowsOK
<1>5. QED
    BY <1>2, <1>3, <1>4
       DEF Next, Environment, ProcessStep, RenewalFails, Land, HumanTurnStarts,
           HumanTurnEnds, CloseChannel, StopAdmission, CancelContext, Crash, Exit,
           ProcessEnds, StartUp, store, vars, WorkerStep, HandleJobCompletion,
           ReconcileJobCompletion, Publish, PublishFallback, Frame, Model, Reconcile,
           Recover, FindPublished, Post, RecordPublication, Finalize, PrepareFallback,
           Settle

\* A row that moves from one stage to the next, and nothing else, is a move of
\* the abstract turn.
LEMMA MovesOneStage ==
    ASSUME NEW a \in Activation, \A b \in Activation : b # a => row'[b] = row[b],
           UNCHANGED <<view, runs>>
    PROVE  /\ RT!Move(a, Stage(row[a]), Stage(row'[a]))
           /\ Stage(row'[a]) = Stage(row[a]) => UNCHANGED RT!vars
<1>1. \A b \in Activation : Said(b)' = Said(b)
    BY DEF Said
<1>2. \A b \in Activation : b # a => Stage(row'[b]) = Stage(row[b])
    OBVIOUS
<1>3. QED
    BY <1>1, <1>2 DEF RT!Move, RT!vars

LEMMA RowStep ==
    ASSUME Turn, Turn', [Next]_vars, UNCHANGED <<view, runs>>,
           NEW a \in Activation, row'[a] # row[a]
    PROVE  RT!Next \/ UNCHANGED RT!vars
<1>1. Typed /\ RowsOK /\ RowsOK' /\ Place /\ WorkerOK
    BY DEF Turn, Typed
<1> DEFINE r == row[a]
           s == row'[a]
<1>2. Fits(r) /\ Fits(s)
    BY <1>1 DEF RowsOK, Fits
<1>3. RT!Move(a, Stage(r), Stage(s)) /\ (Stage(s) = Stage(r) => UNCHANGED RT!vars)
    BY <1>1, OneRowWritten, MovesOneStage
<1>4. /\ r.state \in {"absent"} \cup Open \cup Terminal /\ r.told \in BOOLEAN
      /\ r.told => r.owed
      /\ r.owed => r.state \in {"failed", "completion_unknown"}
      /\ s.told => s.owed
      /\ s.owed => s.state \in {"failed", "completion_unknown"}
    BY <1>2 DEF Fits, Row, RowOK, Terminal
<1>5. CloseFallback /\ w.a = a => r.owed /\ ~r.told
    BY DEF CloseFallback, Transaction, R
<1>6. Moves(r.state, s.state)
    BY <1>1, StepRowMoves DEF RowMoves
<1>7. /\ s.told = r.told \/ (CloseFallback /\ w.a = a)
      /\ s.state = "response_prepared" =>
             r.state = "response_prepared" \/ (PrepareResponse /\ w.a = a)
      /\ s.state = r.state => s.owed = r.owed
      /\ r.state = "model_started" /\ s.state = "completion_unknown" => s.owed
      /\ r.state = "response_prepared" /\ s.state = "failed" => ~s.owed
    BY <1>1, RowWriters
<1>8. s.state = "completed" => view[<<a, "reply">>] # "none"
    BY DEF Turn, Remembered, Exchanged, Filed, Message
<1>9. s.told => view[<<a, "fallback">>] # "none"
    BY DEF Turn, Remembered, Exchanged, Filed, Message
<1>10. r.owed => view[<<a, "reply">>] = "none"
    BY DEF Turn, SaidOnce, Unsaid
<1>11. PrepareResponse /\ w.a = a => runs[a] = 1
    BY DEF PrepareResponse, At, Turn, Answered
<1> HIDE DEF r, s
<1>12. CASE r.state \in {"absent", "pending", "processing"}
    <2>1. Stage(r) = "waiting"
        BY <1>2, <1>12, Stages
    <2>2. ~s.told
        BY <1>4, <1>5, <1>7, <1>12
    <2>3. s.state \in {"absent", "pending", "processing", "model_started", "failed"}
        BY <1>6, <1>12 DEF Moves, Advances
    <2>4. Stage(s) \in {"waiting", "asked", "owing", "dropped"}
        BY <1>2, <2>2, <2>3, Stages
    <2>5. QED
        BY <1>3, <2>1, <2>4 DEF RT!Next, RT!Ask, RT!GiveUp
<1>13. CASE r.state = "model_started"
    <2>1. Stage(r) = "asked"
        BY <1>2, <1>13, Stages
    <2>2. ~s.told
        BY <1>4, <1>5, <1>7, <1>13
    <2>3. CASE s.state = "model_started"
        BY <1>2, <1>3, <2>1, <2>3, Stages
    <2>4. CASE s.state = "response_prepared"
        <3>1. Stage(s) = "answering" /\ runs[a] = 1
            BY <1>2, <1>7, <1>11, <1>13, <2>4, Stages
        <3>2. QED
            BY <1>3, <2>1, <3>1 DEF RT!Next, RT!Answer
    <2>5. CASE s.state = "completion_unknown"
        <3>1. Stage(s) = "owing"
            BY <1>2, <1>7, <1>13, <2>2, <2>5, Stages
        <3>2. QED
            BY <1>3, <2>1, <3>1 DEF RT!Next, RT!GiveUp
    <2>6. QED
        BY <1>6, <1>13, <2>3, <2>4, <2>5 DEF Moves, Advances
<1>14. CASE r.state = "response_prepared"
    <2>1. Stage(r) = "answering"
        BY <1>2, <1>14, Stages
    <2>2. ~s.told
        BY <1>4, <1>5, <1>7, <1>14
    <2>3. CASE s.state = "response_prepared"
        BY <1>2, <1>3, <2>1, <2>3, Stages
    <2>4. CASE s.state = "completed"
        <3>1. Stage(s) = "answered" /\ Said(a) = "reply"
            BY <1>2, <1>8, <2>4, Stages DEF Said
        <3>2. QED
            BY <1>3, <2>1, <3>1 DEF RT!Next, RT!Close
    <2>5. CASE s.state = "failed"
        <3>1. ~s.owed
            BY <1>7, <1>14, <2>5
        <3>2. Stage(s) = "dropped"
            BY <1>2, <2>2, <2>5, <3>1, Stages
        <3>3. QED
            BY <1>3, <2>1, <3>2 DEF RT!Next, RT!GiveUp
    <2>6. QED
        BY <1>6, <1>14, <2>3, <2>4, <2>5 DEF Moves, Advances
<1>15. CASE r.state \in {"completed", "failed", "completion_unknown"}
    <2>1. s.state = r.state /\ s.owed = r.owed
        BY <1>6, <1>7, <1>15 DEF Moves, Advances
    <2>2. CASE s.told = r.told
        BY <1>2, <1>3, <1>15, <2>1, <2>2, Stages
    <2>3. CASE s.told # r.told
        <3>1. r.owed /\ ~r.told /\ s.told
            <4>1. s.told \in BOOLEAN
                BY <1>2 DEF Fits, Row
            <4>2. r.owed /\ ~r.told
                BY <1>5, <1>7, <2>3
            <4>3. r.told = FALSE
                BY <1>4, <4>2
            <4>4. s.told = TRUE
                BY <2>3, <4>1, <4>3
            <4>5. QED
                BY <4>2, <4>4
        <3>2. Stage(r) = "owing" /\ Stage(s) = "told"
            BY <1>2, <1>4, <2>1, <3>1, Stages
        <3>3. Said(a) = "fallback"
            BY <1>9, <1>10, <3>1 DEF Said
        <3>4. QED
            BY <1>3, <3>2, <3>3 DEF RT!Next, RT!Close
    <2>4. QED
        BY <2>2, <2>3
<1>16. QED
    BY <1>4, <1>12, <1>13, <1>14, <1>15 DEF Open, Terminal

\* A message that appears where nothing was shown is what the abstract turn says.
LEMMA Appears ==
    ASSUME Turn, NEW m \in Message, NEW v, v # "none", UNCHANGED <<row, runs>>,
           view' = [view EXCEPT ![m] = v],
           m[2] = "fallback" => row[m[1]].owed,
           m[2] = "reply" => ~row[m[1]].owed /\ row[m[1]].state \notin Early
    PROVE  RT!Next \/ UNCHANGED RT!vars
<1>1. RowsOK /\ SlackOK
    BY DEF Turn, Typed
<1>2. PICK a \in Activation : m = <<a, "reply">> \/ m = <<a, "fallback">>
    BY DEF Message
<1>3. \A n \in Message : view'[n] = IF n = m THEN v ELSE view[n]
    BY <1>1 DEF SlackOK
<1>4. \A b \in Activation : b # a => Said(b)' = Said(b)
    BY <1>2, <1>3 DEF Said, Message
<1>5. CASE view[m] # "none"
    <2>1. Said(a)' = Said(a)
        BY <1>2, <1>3, <1>5, v # "none" DEF Said, Message
    <2>2. QED
        BY <1>4, <2>1 DEF RT!vars
<1>6. CASE view[m] = "none"
    <2>1. Fits(row[a])
        BY <1>1 DEF RowsOK, Fits
    <2>2. CASE m = <<a, "reply">>
        <3>1. ~row[a].owed /\ row[a].state \notin Early
            BY <2>2
        <3>2. view[<<a, "fallback">>] = "none"
            BY <3>1 DEF Turn, SaidOnce, Unsaid
        <3>3. Said(a) = "nothing" /\ Said(a)' = "reply"
            BY <1>3, <1>6, <2>2, <3>2 DEF Said
        <3>4. row[a].state # "completed"
            BY <1>6, <2>2 DEF Turn, Remembered, Exchanged, Filed
        <3>5. ~row[a].told
            BY <2>1, <3>1 DEF Fits, RowOK
        <3>6. row[a].state \in {"response_prepared", "failed", "completion_unknown"}
            BY <2>1, <3>1, <3>4 DEF Fits, Row, Early, Open, Terminal
        <3>7. Stage(row[a]) \in {"answering", "dropped"}
            BY <2>1, <3>1, <3>5, <3>6, Stages
        <3>8. RT!Say(a)
            BY <1>4, <3>3, <3>7 DEF RT!Say
        <3>9. QED
            BY <3>8 DEF RT!Next
    <2>3. CASE m = <<a, "fallback">>
        <3>1. row[a].owed
            BY <2>3
        <3>2. view[<<a, "reply">>] = "none"
            BY <3>1 DEF Turn, SaidOnce, Unsaid
        <3>3. Said(a) = "nothing" /\ Said(a)' = "fallback"
            BY <1>3, <1>6, <2>3, <3>2 DEF Said, Message
        <3>4. ~row[a].told
            BY <1>6, <2>3 DEF Turn, Remembered, Exchanged, Filed
        <3>5. row[a].state \in {"failed", "completion_unknown"}
            BY <2>1, <3>1 DEF Fits, RowOK, Terminal
        <3>6. Stage(row[a]) = "owing"
            BY <2>1, <3>1, <3>4, <3>5, Stages
        <3>7. RT!Say(a)
            BY <1>4, <3>3, <3>6 DEF RT!Say
        <3>8. QED
            BY <3>7 DEF RT!Next
    <2>4. QED
        BY <1>2, <2>2, <2>3
<1>7. QED
    BY <1>5, <1>6

LEMMA RootTurnStep ==
    ASSUME Turn, Turn', [Next]_vars
    PROVE  RT!Next \/ UNCHANGED RT!vars
<1>1. Typed /\ RowsOK /\ WorkerOK /\ SlackOK /\ CountsOK /\ Boundary /\ Place
    BY DEF Turn, Typed
<1>2. CASE Model
    <2>1. w.pc = "model" /\ w.a \in Activation /\ UNCHANGED <<row, view>>
        BY <1>1, <1>2, InCall DEF Model, At, Holding, store, slack
    <2>2. runs[w.a] = 0 /\ row[w.a].state = "model_started"
        BY <1>1, <2>1 DEF Boundary
    <2>3. Stage(row[w.a]) = "asked"
        BY <1>1, <2>1, <2>2, Stages DEF RowsOK, Fits
    <2>4. \A b \in Activation : Said(b)' = Said(b)
        BY <2>1 DEF Said
    <2>5. UNCHANGED runs \/ runs' = [runs EXCEPT ![w.a] = 1]
        BY <1>1, <1>2, <2>1, <2>2 DEF Model, CountsOK
    <2>6. CASE UNCHANGED runs
        BY <2>1, <2>4, <2>6 DEF RT!vars
    <2>7. CASE runs' = [runs EXCEPT ![w.a] = 1]
        BY <2>1, <2>2, <2>3, <2>4, <2>7 DEF RT!Next, RT!Call
    <2>8. QED
        BY <2>5, <2>6, <2>7
<1>3. CASE Post
    <2>1. w.pc = "post" /\ w.a \in Activation /\ M \in Message /\ UNCHANGED <<row, runs>>
        BY <1>1, <1>3, InCall DEF Post, At, Holding, store
    <2>2. view' = view \/ view' = [view EXCEPT ![M] = Posted(@)]
          \/ view' = [view EXCEPT ![M] = Partly(@)]
        BY <1>3 DEF Post
    <2>3. /\ M[1] = w.a
          /\ M[2] = "fallback" => row[w.a].owed
          /\ M[2] = "reply" => row[w.a].state = "response_prepared"
        BY <1>1, <2>1 DEF Place, M
    <2>4. M[2] = "reply" => ~row[w.a].owed /\ row[w.a].state \notin Early
        BY <1>1, <2>1, <2>3, OpenOwesNothing DEF Terminal, Early
    <2>5. CASE view' = view
        BY <2>1, <2>5 DEF RT!vars, Said
    <2>6. ASSUME NEW v, v # "none", view' = [view EXCEPT ![M] = v]
          PROVE  RT!Next \/ UNCHANGED RT!vars
        <3> HIDE DEF M
        <3> QED  BY <2>1, <2>3, <2>4, <2>6, Appears
    <2>7. Posted(view[M]) # "none" /\ Partly(view[M]) # "none"
        BY DEF Posted, Partly
    <2>8. \/ view' = view
          \/ view' = [view EXCEPT ![M] = Posted(view[M])]
          \/ view' = [view EXCEPT ![M] = Partly(view[M])]
        BY <2>2
    <2>9. QED
        BY <2>5, <2>6, <2>7, <2>8
<1>4. ASSUME NEW m \in late, Land(m)
      PROVE  RT!Next \/ UNCHANGED RT!vars
    <2>1. m \in Message /\ UNCHANGED <<row, runs>>
        BY <1>1, <1>4 DEF Land, SlackOK, store
    <2> DEFINE v == Posted(view[m])
    <2>2. view' = [view EXCEPT ![m] = v] /\ v # "none"
        BY <1>1, <1>4, <2>1 DEF Land, SlackOK, Posted
    <2>3. PICK a \in Activation : m = <<a, "reply">> \/ m = <<a, "fallback">>
        BY <2>1 DEF Message
    <2>4. /\ m[2] = "fallback" => row[m[1]].owed
          /\ m[2] = "reply" => ~row[m[1]].owed /\ row[m[1]].state \notin Early
        <3>1. m[1] = a /\ (m[2] = "reply" <=> m = <<a, "reply">>)
              /\ (m[2] = "fallback" <=> m = <<a, "fallback">>)
            BY <2>3
        <3>2. m = <<a, "fallback">> => row[a].owed
            BY <1>4 DEF Turn, SaidOnce, Unsaid
        <3>3. m = <<a, "reply">> => ~row[a].owed /\ row[a].state \notin Early
            BY <1>4 DEF Turn, SaidOnce, Unsaid
        <3>4. QED
            BY <3>1, <3>2, <3>3
    <2> HIDE DEF v
    <2>5. QED
        BY <2>1, <2>2, <2>4, Appears
<1>5. CASE ~Model /\ ~Post /\ ~\E m \in late : Land(m)
    <2>1. UNCHANGED <<view, runs>>
        BY <1>5, RunsUnchanged, SlackWriters
    <2>2. CASE \E a \in Activation : row'[a] # row[a]
        BY <2>1, <2>2, RowStep
    <2>3. CASE \A a \in Activation : row'[a] = row[a]
        BY <2>1, <2>3 DEF RT!vars, Said
    <2>4. QED
        BY <2>2, <2>3
<1>6. QED
    BY <1>2, <1>3, <1>4, <1>5

\* Rows, Slack and the model together behave like RootTurn, whatever fails, lapses
\* or is started again: the model is called once at most, after it was written
\* down, and the conversation is shown its answer or one message that there is none.
THEOREM Refinement == Spec => ImplementsRootTurn
<1>1. Init => RT!Init
    <2> SUFFICES ASSUME Init PROVE RT!Init
        OBVIOUS
    <2>1. \A a \in Activation : row[a] = Absent
        BY DEF Init
    <2>2. Stage(Absent) = "waiting"
        <3>1. Typed
            BY TypedInit
        <3>2. \A a \in Activation : Fits(row[a])
            BY <3>1 DEF Typed, RowsOK, Fits
        <3>3. QED
            BY DEF Absent, Stage
    <2>3. \A a \in Activation : Said(a) = "nothing"
        BY DEF Init, Said, Message
    <2>4. QED
        BY <2>1, <2>2, <2>3 DEF RT!Init, Init
<1>2. Turn /\ Turn' /\ [Next]_vars => [RT!Next]_(RT!vars)
    BY RootTurnStep
<1>3. QED
    BY <1>1, <1>2, TurnInit, TurnStep, PTL DEF Spec, ImplementsRootTurn, RT!Spec

=============================================================================

------------------------ MODULE JobNotifications_proofs ------------------------
(***************************************************************************)
(* Proofs about JobNotifications, for any jobs, kinds, message counts and  *)
(* bounds: the type invariant, that a settled notice stays as it is, that  *)
(* Slack is asked for one file per result, that the row tells what the     *)
(* conversation got, and that nothing is posted twice or out of order      *)
(* unless a lookup could not see it.                                       *)
(*                                                                         *)
(* Held ties the worker to the row it claimed.  Uploads follows the file   *)
(* from the grant to the share: a grant whose file id was lost is never    *)
(* followed by another one, since the row then asks for a lookup and the   *)
(* lookup needs the file id.  Parts and Outcome tie what was posted to the *)
(* place the worker has reached, and Order says when nothing of a notice   *)
(* has been posted: before the worker posts it, and wherever a row can be  *)
(* claimed without a lookup.                                               *)
(***************************************************************************)
EXTENDS JobNotifications, SequenceTheorems, TLAPS

-----------------------------------------------------------------------------
(* Pieces of the type invariant, each disturbed by few actions.             *)

Row == [state : {"absent", "pending", "publishing", "published", "unknown"},
        code : Code, upload : UploadStage, file : BOOLEAN,
        attempts : 0 .. ReconcileMaxAttempts]

Worker == [pc : WorkerPc, n : Notice \cup {NoNotice}, part : 0 .. Parts,
           upload : UploadStage, file : BOOLEAN, code : Code,
           amb : BOOLEAN, retry : BOOLEAN]

KindOK   == kind \in [Job -> Kinds]
RowsOK   == row \in [Notice -> Row] /\ activation \subseteq Notice
WorkerOK == w \in Worker
SlackOK  == /\ thread \in Seq(Message)
            /\ flight \subseteq Message
            /\ slackFile \in [Notice -> {"none", "reserved", "uploaded", "shared"}]
            /\ granted \in [Notice -> Nat]
            /\ missed \subseteq Notice
WorldOK  == /\ closed \in BOOLEAN
            /\ proc \in {"up", "draining", "cancelled", "down"}
            /\ faults \in 0 .. MaxFaults
            /\ restarts \in 0 .. MaxRestarts

Typed == KindOK /\ RowsOK /\ WorkerOK /\ SlackOK /\ WorldOK

\* The pieces are the type invariant.
LEMMA TypedIsTypeOK == Typed <=> TypeOK
BY DEF Typed, TypeOK, KindOK, RowsOK, WorkerOK, SlackOK, WorldOK, Row, Worker

\* The worker holds a row in "publishing", and its local copies of the file and
\* the upload stage are those of the row until it changes the row itself.
Held ==
    w.pc # "idle" =>
        /\ w.n \in Notice
        /\ row[w.n].state = "publishing"
        /\ w.part \in 1 .. PartCount(w.n)
        /\ w.file = row[w.n].file
        /\ w.pc \in {"lookup", "verify", "file", "inspect", "request"} =>
               w.upload = row[w.n].upload

-----------------------------------------------------------------------------
LEMMA PartCountPositive == \A n \in Notice : PartCount(n) \in 1 .. Parts
BY NumbersAssumption DEF PartCount

\* The notice of a failure is a notice.
LEMMA FailureIsNotice == \A n \in Notice : FailureOf(n) \in Notice
BY DEF FailureOf, Notice

\* The disjuncts of the next-state relation, one by one.
LEMMA Steps ==
    Next => \/ \E n \in Notice : Enqueue(n) \/ Claim(n)
            \/ LookupWithoutFile
            \/ \E n \in Notice : LookupFails(n) \/ LookupRefuses(n) \/ LookupAnswers(n)
            \/ Verify \/ ResumeFile \/ Inspect \/ RequestURL \/ MarkFile
            \/ UploadBytes \/ MarkBytes \/ CompleteUpload \/ MarkCompleted
            \/ Post \/ PostFails \/ PostRefused
            \/ MarkPublished \/ MarkPublishedFails
            \/ RecordRetry \/ RecordRetryFails \/ RecordUnknown \/ RecordUnknownFails
            \/ \E m \in flight : Land(m)
            \/ CloseChannel
            \/ StopAdmission \/ CancelContext \/ Crash \/ Exit \/ Restart
BY DEF Next, WorkerStep, PublishFile, RecordFailure, ProcessStep, Lookup

\* The kinds of the jobs never change,
LEMMA KindIsKept ==
    ASSUME Next \/ UNCHANGED <<vars, kind>>
    PROVE  kind' = kind
BY DEF Next

\* nor what depends on them.
LEMMA SameKinds ==
    ASSUME kind' = kind
    PROVE  \A n : /\ CarriesResult(n)' <=> CarriesResult(n)
                  /\ InFile(n)' <=> InFile(n)
                  /\ Activates(n)' <=> Activates(n)
                  /\ PartCount(n)' = PartCount(n)
BY DEF CarriesResult, InFile, Activates, PartCount

\* However a step goes on or fails, the worker stays well typed.
LEMMA WorkerMoves ==
    ASSUME WorkerOK
    PROVE  /\ w' = w => WorkerOK'
           /\ w' = Idle => WorkerOK'
           /\ \A pc \in WorkerPc : Goto(pc) => WorkerOK'
           /\ \A code \in Code, amb \in BOOLEAN, retry \in BOOLEAN :
                  FailWith(code, amb, retry) => WorkerOK'
<1>1. Idle \in Worker
    BY NumbersAssumption DEF Idle, Worker, WorkerPc, UploadStage, Code
<1>2. ASSUME NEW pc \in WorkerPc, Goto(pc)
      PROVE  WorkerOK'
    BY <1>2 DEF WorkerOK, Worker, Goto
<1>3. ASSUME NEW code \in Code, NEW amb \in BOOLEAN, NEW retry \in BOOLEAN,
             FailWith(code, amb, retry)
      PROVE  WorkerOK'
    BY <1>3 DEF WorkerOK, Worker, FailWith, WorkerPc
<1>4. QED
    BY <1>1, <1>2, <1>3 DEF WorkerOK

\* The codes with which the publisher fails.
LEMMA Codes ==
    /\ {"artifact_invalid", "destination_mismatch", "delivery_invalid", "upload_unknown",
        "publish_ambiguous", "upload_failed", "completion_failed"} \subseteq Code
    /\ \A upload : EvidenceCode(upload) \in Code
BY DEF Code, Permanent, Undeliverable, EvidenceCode

\* The worker stays well typed,
LEMMA WorkerStaysTyped ==
    ASSUME Typed, Held, Next
    PROVE  WorkerOK'
<1>1. ASSUME NEW n \in Notice, Enqueue(n)
      PROVE  WorkerOK'
    BY <1>1, WorkerMoves DEF Enqueue, Typed
<1>2. ASSUME NEW n \in Notice, Claim(n)
      PROVE  WorkerOK'
    <2>1. row[n] \in Row /\ 1 \in 0 .. Parts
        BY NumbersAssumption DEF Typed, RowsOK
    <2>2. PICK pc \in {"lookup", "verify"} :
              w' = [Idle EXCEPT !.pc = pc, !.n = n, !.part = 1,
                                !.upload = row[n].upload, !.file = row[n].file]
        BY <1>2 DEF Claim
    <2>3. QED
        BY <2>1, <2>2 DEF WorkerOK, Worker, WorkerPc, Idle, Row, Code
<1>3. CASE LookupWithoutFile
    BY <1>3, WorkerMoves, Codes DEF Typed, LookupWithoutFile, WorkerPc
<1>4. ASSUME NEW n \in Notice, LookupFails(n)
      PROVE  WorkerOK'
    BY <1>4, WorkerMoves, Codes DEF Typed, LookupFails, WorkerPc
<1>5. ASSUME NEW n \in Notice, LookupRefuses(n)
      PROVE  WorkerOK'
    BY <1>5, WorkerMoves, Codes DEF Typed, LookupRefuses, WorkerPc
<1>6. ASSUME NEW n \in Notice, LookupAnswers(n)
      PROVE  WorkerOK'
    BY <1>6, WorkerMoves, Codes DEF Typed, LookupAnswers, WorkerPc
<1>7. CASE Verify
    BY <1>7, WorkerMoves, Codes DEF Typed, Verify, WorkerPc
<1>8. CASE ResumeFile
    BY <1>8, WorkerMoves, Codes DEF Typed, ResumeFile, WorkerPc
<1>9. CASE Inspect
    BY <1>9, WorkerMoves, Codes DEF Typed, Inspect, WorkerPc
<1>10. CASE RequestURL
    BY <1>10, WorkerMoves, Codes DEF Typed, RequestURL, WorkerPc
<1>11. CASE MarkFile
    <2>1. CASE w' = [w EXCEPT !.pc = "upload", !.file = TRUE]
        BY <2>1 DEF Typed, WorkerOK, Worker, WorkerPc
    <2>2. QED
        BY <1>11, <2>1, WorkerMoves, Codes DEF MarkFile, Typed
<1>12. CASE UploadBytes
    BY <1>12, WorkerMoves, Codes DEF Typed, UploadBytes, WorkerPc
<1>13. CASE MarkBytes
    BY <1>13, WorkerMoves, Codes DEF Typed, MarkBytes, WorkerPc
<1>14. CASE CompleteUpload
    BY <1>14, WorkerMoves, Codes DEF Typed, CompleteUpload, WorkerPc
<1>15. CASE MarkCompleted
    BY <1>15, WorkerMoves, Codes DEF Typed, MarkCompleted, WorkerPc
<1>16. CASE Post
    <2>1. CASE w' = [w EXCEPT !.pc = "mark_published"]
        BY <2>1 DEF Typed, WorkerOK, Worker, WorkerPc
    <2>2. CASE ~LastPart(w.part) /\ w' = [w EXCEPT !.part = @ + 1]
        <3>1. w.part + 1 \in 0 .. Parts
            BY <1>16, <2>2, PartCountPositive, NumbersAssumption DEF Post, At, Held,
                   LastPart
        <3>2. QED
            BY <2>2, <3>1 DEF Typed, WorkerOK, Worker
    <2>3. QED
        BY <1>16, <2>1, <2>2 DEF Post
<1>17. CASE PostFails
    BY <1>17, WorkerMoves, Codes DEF Typed, PostFails, WorkerPc
<1>18. CASE PostRefused
    BY <1>18, WorkerMoves, Codes DEF Typed, PostRefused, WorkerPc
<1>19. CASE MarkPublished
    BY <1>19, WorkerMoves, Codes DEF Typed, MarkPublished, WorkerPc
<1>20. CASE MarkPublishedFails
    BY <1>20, WorkerMoves, Codes DEF Typed, MarkPublishedFails, WorkerPc
<1>21. CASE RecordRetry
    BY <1>21, WorkerMoves, Codes DEF Typed, RecordRetry, WorkerPc
<1>22. CASE RecordRetryFails
    BY <1>22, WorkerMoves, Codes DEF Typed, RecordRetryFails, WorkerPc
<1>23. CASE RecordUnknown
    BY <1>23, WorkerMoves, Codes DEF Typed, RecordUnknown, WorkerPc
<1>24. CASE RecordUnknownFails
    BY <1>24, WorkerMoves, Codes DEF Typed, RecordUnknownFails, WorkerPc
<1>25. ASSUME NEW m \in flight, Land(m)
      PROVE  WorkerOK'
    BY <1>25, WorkerMoves DEF Land, Typed
<1>26. CASE CloseChannel \/ StopAdmission \/ CancelContext \/ Restart
    BY <1>26, WorkerMoves DEF CloseChannel, StopAdmission, CancelContext, Restart,
           outbox, slack, Typed
<1>27. CASE Crash \/ Exit
    BY <1>27, WorkerMoves DEF Crash, Exit, ProcessEnds, Typed
<1>28. QED
    BY <1>1, <1>2, <1>3, <1>4, <1>5, <1>6, <1>7, <1>8, <1>9, <1>10, <1>11, <1>12,
           <1>13, <1>14, <1>15, <1>16, <1>17, <1>18, <1>19, <1>20, <1>21, <1>22, <1>23,
           <1>24, <1>25, <1>26, <1>27, Steps

\* What the store writes into a row.
LEMMA RowUpdates ==
    ASSUME NEW r \in Row
    PROVE  /\ \A n : Enqueued(n) \in Row
           /\ [r EXCEPT !.state = "publishing",
                        !.attempts = IF @ < ReconcileMaxAttempts THEN @ + 1 ELSE @] \in Row
           /\ [r EXCEPT !.file = TRUE, !.upload = "url_requested"] \in Row
           /\ \A stage \in UploadStage : [r EXCEPT !.upload = stage] \in Row
           /\ [r EXCEPT !.state = "published", !.code = ""] \in Row
           /\ \A state \in {"pending", "unknown"}, code \in Code, stage \in UploadStage :
                 [r EXCEPT !.state = state, !.code = code, !.upload = stage] \in Row
<1>1. \A n : Enqueued(n) \in Row
    <2>1. Absent \in Row
        <3>1. 0 \in 0 .. ReconcileMaxAttempts /\ "" \in Code
            BY NumbersAssumption DEF Code
        <3>2. QED
            BY <3>1 DEF Absent, Row, UploadStage
    <2>2. TAKE n
    <2>3. PICK stage \in UploadStage :
              Enqueued(n) = [Absent EXCEPT !.state = "pending", !.upload = stage]
        BY <2>1 DEF Enqueued, Row, UploadStage
    <2>4. QED
        BY <2>1, <2>3 DEF Row
<1>2. [r EXCEPT !.state = "publishing",
                !.attempts = IF @ < ReconcileMaxAttempts THEN @ + 1 ELSE @] \in Row
    <2>1. (IF r.attempts < ReconcileMaxAttempts THEN r.attempts + 1 ELSE r.attempts)
              \in 0 .. ReconcileMaxAttempts
        BY NumbersAssumption DEF Row
    <2>2. QED
        BY <2>1 DEF Row
<1>3. [r EXCEPT !.file = TRUE, !.upload = "url_requested"] \in Row
    BY DEF Row, UploadStage
<1>4. \A stage \in UploadStage : [r EXCEPT !.upload = stage] \in Row
    BY DEF Row
<1>5. [r EXCEPT !.state = "published", !.code = ""] \in Row
    BY DEF Row, Code
<1>6. \A state \in {"pending", "unknown"}, code \in Code, stage \in UploadStage :
          [r EXCEPT !.state = state, !.code = code, !.upload = stage] \in Row
    BY DEF Row
<1>7. QED
    BY <1>1, <1>2, <1>3, <1>4, <1>5, <1>6

\* and so do the rows and the activations,
LEMMA RowsStayTyped ==
    ASSUME Typed, Held, Next
    PROVE  RowsOK'
<1>1. ASSUME NEW n \in Notice, Enqueue(n)
      PROVE  RowsOK'
    BY <1>1, RowUpdates DEF Enqueue, RowsOK, Typed
<1>2. ASSUME NEW n \in Notice, Claim(n)
      PROVE  RowsOK'
    BY <1>2, RowUpdates DEF Claim, RowsOK, Typed
<1>3. CASE LookupWithoutFile
    BY <1>3 DEF LookupWithoutFile, outbox, RowsOK, Typed
<1>4. ASSUME NEW n \in Notice, LookupFails(n)
      PROVE  RowsOK'
    BY <1>4 DEF LookupFails, outbox, RowsOK, Typed
<1>5. ASSUME NEW n \in Notice, LookupRefuses(n)
      PROVE  RowsOK'
    BY <1>5 DEF LookupRefuses, outbox, RowsOK, Typed
<1>6. ASSUME NEW n \in Notice, LookupAnswers(n)
      PROVE  RowsOK'
    BY <1>6 DEF LookupAnswers, outbox, RowsOK, Typed
<1>7. CASE Verify
    BY <1>7 DEF Verify, outbox, RowsOK, Typed
<1>8. CASE ResumeFile
    BY <1>8 DEF ResumeFile, outbox, RowsOK, Typed
<1>9. CASE Inspect
    BY <1>9 DEF Inspect, outbox, RowsOK, Typed
<1>10. CASE RequestURL
    BY <1>10 DEF RequestURL, outbox, RowsOK, Typed
<1>11. CASE MarkFile
    <2>1. w.n \in Notice /\ row[w.n] \in Row
        BY <1>11 DEF MarkFile, At, Held, RowsOK, Typed
    <2>2. \/ UNCHANGED row
          \/ row' = [row EXCEPT ![w.n] = [row[w.n] EXCEPT
                                             !.file = TRUE, !.upload = "url_requested"]]
        BY <1>11, <2>1 DEF MarkFile, RowsOK, Typed
    <2>3. [row[w.n] EXCEPT !.file = TRUE, !.upload = "url_requested"] \in Row
        BY <2>1, RowUpdates
    <2>4. QED
        BY <1>11, <2>1, <2>2, <2>3 DEF MarkFile, RowsOK, Typed
<1>12. CASE UploadBytes
    BY <1>12 DEF UploadBytes, outbox, RowsOK, Typed
<1>13. CASE MarkBytes
    <2>1. w.n \in Notice /\ row[w.n] \in Row /\ "bytes_uploaded" \in UploadStage
        BY <1>13 DEF MarkBytes, At, Held, RowsOK, Typed, UploadStage
    <2>2. \/ UNCHANGED row
          \/ row' = [row EXCEPT ![w.n] = [row[w.n] EXCEPT !.upload = "bytes_uploaded"]]
        BY <1>13, <2>1 DEF MarkBytes, SetUpload, RowsOK, Typed
    <2>3. QED
        BY <1>13, <2>1, <2>2, RowUpdates DEF MarkBytes, RowsOK, Typed
<1>14. CASE CompleteUpload
    BY <1>14 DEF CompleteUpload, outbox, RowsOK, Typed
<1>15. CASE MarkCompleted
    <2>1. w.n \in Notice /\ row[w.n] \in Row /\ "completed" \in UploadStage
        BY <1>15 DEF MarkCompleted, At, Held, RowsOK, Typed, UploadStage
    <2>2. \/ UNCHANGED row
          \/ row' = [row EXCEPT ![w.n] = [row[w.n] EXCEPT !.upload = "completed"]]
        BY <1>15, <2>1 DEF MarkCompleted, SetUpload, RowsOK, Typed
    <2>3. QED
        BY <1>15, <2>1, <2>2, RowUpdates DEF MarkCompleted, RowsOK, Typed
<1>16. CASE Post
    BY <1>16 DEF Post, outbox, RowsOK, Typed
<1>17. CASE PostFails
    BY <1>17 DEF PostFails, outbox, RowsOK, Typed
<1>18. CASE PostRefused
    BY <1>18 DEF PostRefused, outbox, RowsOK, Typed
<1>19. CASE MarkPublished
    BY <1>19, RowUpdates DEF MarkPublished, At, Held, RowsOK, Typed
<1>20. CASE MarkPublishedFails
    BY <1>20 DEF MarkPublishedFails, outbox, RowsOK, Typed
<1>21. CASE RecordRetry
    <2> DEFINE stage == IF InFile(w.n) /\ w.code = "upload_unknown"
                        THEN "unknown" ELSE row[w.n].upload
    <2>1. stage \in UploadStage /\ w.code \in Code /\ w.n \in Notice /\ row[w.n] \in Row
        BY <1>21 DEF RecordRetry, At, Held, Typed, RowsOK, WorkerOK, Worker, Row,
               UploadStage
    <2>2. row' = [row EXCEPT ![w.n] = [row[w.n] EXCEPT !.state = "pending",
                                         !.code = w.code, !.upload = stage]]
        BY <1>21, <2>1 DEF RecordRetry, Typed, RowsOK
    <2>3. [row[w.n] EXCEPT !.state = "pending", !.code = w.code, !.upload = stage] \in Row
        <3> HIDE DEF stage
        <3> QED  BY <2>1, RowUpdates
    <2> HIDE DEF stage
    <2>4. QED
        BY <1>21, <2>1, <2>2, <2>3 DEF RecordRetry, RowsOK, Typed
<1>22. CASE RecordRetryFails
    BY <1>22 DEF RecordRetryFails, outbox, RowsOK, Typed
<1>23. CASE RecordUnknown
    <2> DEFINE stage == IF InFile(w.n) THEN "unknown" ELSE row[w.n].upload
               rows  == [row EXCEPT ![w.n] = [row[w.n] EXCEPT !.state = "unknown",
                                                !.code = FinalCode, !.upload = stage]]
    <2>1. stage \in UploadStage /\ FinalCode \in Code /\ w.n \in Notice /\ row[w.n] \in Row
        BY <1>23, Codes
           DEF RecordUnknown, RecordsUnknown, At, Held, Typed, RowsOK, WorkerOK, Worker, Row,
               UploadStage, FinalCode
    <2>2. row' = WithFailureNotice(rows, w.n)
        BY <1>23, <2>1 DEF RecordUnknown, Typed, RowsOK
    <2>3. rows \in [Notice -> Row]
        <3> HIDE DEF stage
        <3> QED  BY <2>1, RowUpdates DEF RowsOK, Typed
    <2>4. WithFailureNotice(rows, w.n) \in [Notice -> Row]
        <3> HIDE DEF rows
        <3> QED  BY <2>1, <2>3, RowUpdates, FailureIsNotice DEF WithFailureNotice
    <2>5. QED
        BY <1>23, <2>2, <2>4 DEF RecordUnknown, RowsOK, Typed
<1>24. CASE RecordUnknownFails
    BY <1>24 DEF RecordUnknownFails, outbox, RowsOK, Typed
<1>25. ASSUME NEW m \in flight, Land(m)
      PROVE  RowsOK'
    BY <1>25 DEF Land, outbox, RowsOK, Typed
<1>26. CASE CloseChannel \/ StopAdmission \/ CancelContext \/ Restart \/ Crash
         \/ Exit
    BY <1>26 DEF CloseChannel, StopAdmission, CancelContext, Restart, Crash, Exit,
           ProcessEnds, outbox, RowsOK, Typed
<1>27. QED
    BY <1>1, <1>2, <1>3, <1>4, <1>5, <1>6, <1>7, <1>8, <1>9, <1>10, <1>11, <1>12,
           <1>13, <1>14, <1>15, <1>16, <1>17, <1>18, <1>19, <1>20, <1>21, <1>22, <1>23,
           <1>24, <1>25, <1>26, Steps

\* The messages that the outbox can post.
LEMMA Messages ==
    ASSUME Typed, Held, w.pc # "idle"
    PROVE  /\ ThisPart \in Message
           /\ [n |-> w.n, part |-> 0] \in Message
BY PartCountPositive, NumbersAssumption DEF Held, ThisPart, Message

\* A message is appended to the conversation.
LEMMA Grows ==
    ASSUME thread \in Seq(Message), NEW m \in Message, thread' = Append(thread, m)
    PROVE  /\ thread' \in Seq(Message)
           /\ DOMAIN thread' = DOMAIN thread \cup {Len(thread) + 1}
           /\ thread'[Len(thread) + 1] = m
           /\ \A i \in DOMAIN thread : /\ thread'[i] = thread[i]
                                       /\ i \in Nat /\ i < Len(thread) + 1
BY AppendProperties

\* what Slack shows,
LEMMA SlackStaysTyped ==
    ASSUME Typed, Held, Next
    PROVE  SlackOK'
<1>1. ASSUME NEW n \in Notice, Enqueue(n)
      PROVE  SlackOK'
    BY <1>1 DEF Enqueue, slack, SlackOK, Typed
<1>2. ASSUME NEW n \in Notice, Claim(n)
      PROVE  SlackOK'
    BY <1>2 DEF Claim, slack, SlackOK, Typed
<1>3. CASE LookupWithoutFile
    BY <1>3 DEF LookupWithoutFile, slack, SlackOK, Typed
<1>4. ASSUME NEW n \in Notice, LookupFails(n)
      PROVE  SlackOK'
    BY <1>4 DEF LookupFails, slack, SlackOK, Typed
<1>5. ASSUME NEW n \in Notice, LookupRefuses(n)
      PROVE  SlackOK'
    BY <1>5 DEF LookupRefuses, slack, SlackOK, Typed
<1>6. ASSUME NEW n \in Notice, LookupAnswers(n)
      PROVE  SlackOK'
    BY <1>6 DEF LookupAnswers, SlackOK, Typed
<1>7. CASE Verify
    BY <1>7 DEF Verify, slack, SlackOK, Typed
<1>8. CASE ResumeFile
    BY <1>8 DEF ResumeFile, slack, SlackOK, Typed
<1>9. CASE Inspect
    BY <1>9 DEF Inspect, slack, SlackOK, Typed
<1>10. CASE RequestURL
    <2>1. w.n \in Notice /\ granted[w.n] + 1 \in Nat
        BY <1>10 DEF RequestURL, At, Held, SlackOK, Typed
    <2>2. /\ slackFile' = slackFile \/ Stage("reserved")
          /\ granted' = granted \/ granted' = [granted EXCEPT ![w.n] = @ + 1]
          /\ UNCHANGED <<thread, flight, missed>>
        BY <1>10 DEF RequestURL
    <2>3. slackFile' \in [Notice -> {"none", "reserved", "uploaded", "shared"}]
        BY <2>2 DEF Stage, SlackOK, Typed
    <2>4. granted' \in [Notice -> Nat]
        BY <2>1, <2>2 DEF SlackOK, Typed
    <2>5. QED
        BY <2>2, <2>3, <2>4 DEF SlackOK, Typed
<1>11. CASE MarkFile
    BY <1>11 DEF MarkFile, slack, SlackOK, Typed
<1>12. CASE UploadBytes
    BY <1>12 DEF UploadBytes, At, Held, Stage, SlackOK, Typed
<1>13. CASE MarkBytes
    BY <1>13 DEF MarkBytes, slack, SlackOK, Typed
<1>14. CASE CompleteUpload
    BY <1>14, Messages, Grows DEF CompleteUpload, At, Stage, Share, SlackOK, Typed
<1>15. CASE MarkCompleted
    BY <1>15 DEF MarkCompleted, slack, SlackOK, Typed
<1>16. CASE Post
    BY <1>16, Messages, Grows DEF Post, At, SlackOK, Typed
<1>17. CASE PostFails
    BY <1>17, Messages, Grows DEF PostFails, At, SlackOK, Typed
<1>18. CASE PostRefused
    BY <1>18 DEF PostRefused, slack, SlackOK, Typed
<1>19. CASE MarkPublished
    BY <1>19 DEF MarkPublished, slack, SlackOK, Typed
<1>20. CASE MarkPublishedFails
    BY <1>20 DEF MarkPublishedFails, slack, SlackOK, Typed
<1>21. CASE RecordRetry
    BY <1>21 DEF RecordRetry, slack, SlackOK, Typed
<1>22. CASE RecordRetryFails
    BY <1>22 DEF RecordRetryFails, slack, SlackOK, Typed
<1>23. CASE RecordUnknown
    BY <1>23 DEF RecordUnknown, slack, SlackOK, Typed
<1>24. CASE RecordUnknownFails
    BY <1>24 DEF RecordUnknownFails, slack, SlackOK, Typed
<1>25. ASSUME NEW m \in flight, Land(m)
      PROVE  SlackOK'
    BY <1>25, Grows DEF Land, SlackOK, Typed
<1>26. CASE CloseChannel \/ StopAdmission \/ CancelContext \/ Restart \/ Crash
         \/ Exit
    BY <1>26 DEF CloseChannel, StopAdmission, CancelContext, Restart, Crash, Exit,
           ProcessEnds, slack, SlackOK, Typed
<1>27. QED
    BY <1>1, <1>2, <1>3, <1>4, <1>5, <1>6, <1>7, <1>8, <1>9, <1>10, <1>11, <1>12,
           <1>13, <1>14, <1>15, <1>16, <1>17, <1>18, <1>19, <1>20, <1>21, <1>22, <1>23,
           <1>24, <1>25, <1>26, Steps

\* A call costs at most one of the failures that are left.
LEMMA Calls ==
    ASSUME WorldOK
    PROVE  CallWorks \/ CallFails \/ Fault \/ faults' = faults =>
               faults' \in 0 .. MaxFaults
BY NumbersAssumption DEF WorldOK, CallWorks, CallFails, Fault

\* and the process, the channel and the counters.
LEMMA WorldStaysTyped ==
    ASSUME Typed, Held, Next
    PROVE  WorldOK'
<1>1. ASSUME NEW n \in Notice, Enqueue(n)
      PROVE  WorldOK'
    BY <1>1, Calls DEF Enqueue, world, WorldOK, Typed
<1>2. ASSUME NEW n \in Notice, Claim(n)
      PROVE  WorldOK'
    BY <1>2, Calls DEF Claim, world, WorldOK, Typed
<1>3. CASE LookupWithoutFile
    BY <1>3, Calls DEF LookupWithoutFile, world, WorldOK, Typed
<1>4. ASSUME NEW n \in Notice, LookupFails(n)
      PROVE  WorldOK'
    BY <1>4, Calls DEF LookupFails, world, WorldOK, Typed
<1>5. ASSUME NEW n \in Notice, LookupRefuses(n)
      PROVE  WorldOK'
    BY <1>5, Calls DEF LookupRefuses, world, WorldOK, Typed
<1>6. ASSUME NEW n \in Notice, LookupAnswers(n)
      PROVE  WorldOK'
    BY <1>6, Calls DEF LookupAnswers, world, WorldOK, Typed
<1>7. CASE Verify
    BY <1>7, Calls DEF Verify, WorldOK, Typed
<1>8. CASE ResumeFile
    BY <1>8, Calls DEF ResumeFile, world, WorldOK, Typed
<1>9. CASE Inspect
    BY <1>9, Calls DEF Inspect, world, WorldOK, Typed
<1>10. CASE RequestURL
    BY <1>10, Calls DEF RequestURL, world, WorldOK, Typed
<1>11. CASE MarkFile
    BY <1>11, Calls DEF MarkFile, world, WorldOK, Typed
<1>12. CASE UploadBytes
    BY <1>12, Calls DEF UploadBytes, world, WorldOK, Typed
<1>13. CASE MarkBytes
    BY <1>13, Calls DEF MarkBytes, world, WorldOK, Typed
<1>14. CASE CompleteUpload
    BY <1>14, Calls DEF CompleteUpload, world, WorldOK, Typed
<1>15. CASE MarkCompleted
    BY <1>15, Calls DEF MarkCompleted, world, WorldOK, Typed
<1>16. CASE Post
    BY <1>16, Calls DEF Post, world, WorldOK, Typed
<1>17. CASE PostFails
    BY <1>17, Calls DEF PostFails, world, WorldOK, Typed
<1>18. CASE PostRefused
    BY <1>18, Calls DEF PostRefused, world, WorldOK, Typed
<1>19. CASE MarkPublished
    BY <1>19, Calls DEF MarkPublished, world, WorldOK, Typed
<1>20. CASE MarkPublishedFails
    BY <1>20, Calls DEF MarkPublishedFails, world, WorldOK, Typed
<1>21. CASE RecordRetry
    BY <1>21, Calls DEF RecordRetry, world, WorldOK, Typed
<1>22. CASE RecordRetryFails
    BY <1>22, Calls DEF RecordRetryFails, world, WorldOK, Typed
<1>23. CASE RecordUnknown
    BY <1>23, Calls DEF RecordUnknown, world, WorldOK, Typed
<1>24. CASE RecordUnknownFails
    BY <1>24, Calls DEF RecordUnknownFails, world, WorldOK, Typed
<1>25. ASSUME NEW m \in flight, Land(m)
      PROVE  WorldOK'
    BY <1>25, Calls DEF Land, world, WorldOK, Typed
<1>26. CASE CloseChannel
    BY <1>26, Calls DEF CloseChannel, world, WorldOK, Typed
<1>27. CASE StopAdmission
    BY <1>27, Calls DEF StopAdmission, world, WorldOK, Typed
<1>28. CASE CancelContext
    BY <1>28, Calls DEF CancelContext, world, WorldOK, Typed
<1>29. CASE Crash \/ Exit
    BY <1>29, NumbersAssumption DEF Crash, Exit, ProcessEnds, WorldOK, Typed
<1>30. CASE Restart
    BY <1>30, Calls DEF Restart, world, WorldOK, Typed
<1>31. QED
    BY <1>1, <1>2, <1>3, <1>4, <1>5, <1>6, <1>7, <1>8, <1>9, <1>10, <1>11, <1>12,
           <1>13, <1>14, <1>15, <1>16, <1>17, <1>18, <1>19, <1>20, <1>21, <1>22, <1>23,
           <1>24, <1>25, <1>26, <1>27, <1>28, <1>29, <1>30, Steps

-----------------------------------------------------------------------------
(* The worker and its row.                                                 *)

Early == {"lookup", "verify", "file", "inspect", "request"}

\* A step that leaves the rows alone keeps the worker with its row.
LEMMA HeldMoves ==
    ASSUME Typed, Held, row' = row, kind' = kind
    PROVE  /\ w' = w => Held'
           /\ w' = Idle => Held'
           /\ w.pc # "idle" =>
                 /\ \A pc : Goto(pc) /\ (pc \in Early => w.pc \in Early) => Held'
                 /\ \A code, amb, retry : FailWith(code, amb, retry) => Held'
<1>1. \A n : PartCount(n)' = PartCount(n)
    BY SameKinds
<1>2. CASE w' = w
    BY <1>1, <1>2 DEF Held
<1>3. CASE w' = Idle
    BY <1>3 DEF Held, Idle
<1>4. ASSUME w.pc # "idle", NEW pc, Goto(pc), pc \in Early => w.pc \in Early
      PROVE  Held'
    <2>1. /\ w'.n = w.n /\ w'.part = w.part /\ w'.file = w.file
          /\ w'.upload = w.upload /\ w'.pc = pc
        BY <1>4 DEF Goto, Typed, WorkerOK, Worker
    <2>2. QED
        BY <1>1, <1>4, <2>1 DEF Held, Early
<1>5. ASSUME w.pc # "idle", NEW code, NEW amb, NEW retry, FailWith(code, amb, retry)
      PROVE  Held'
    <2>1. /\ w'.n = w.n /\ w'.part = w.part /\ w'.file = w.file
          /\ w'.pc = "fail"
        BY <1>5 DEF FailWith, Typed, WorkerOK, Worker
    <2>2. QED
        BY <1>1, <1>5, <2>1 DEF Held
<1>6. QED
    BY <1>2, <1>3, <1>4, <1>5

\* The worker keeps its row while it works on it.
LEMMA HeldStep ==
    ASSUME Typed, Held, Next
    PROVE  Held'
<1>1. ASSUME NEW n \in Notice, Enqueue(n)
      PROVE  Held'
    <2>1. w' = w /\ row' = [row EXCEPT ![n] = Enqueued(n)] /\ row[n].state = "absent"
        BY <1>1 DEF Enqueue
    <2>2. w.pc # "idle" => row'[w.n] = row[w.n]
        BY <2>1 DEF Held, Typed, RowsOK
    <2>3. QED
        BY <2>1, <2>2, SameKinds, KindIsKept DEF Held
<1>2. ASSUME NEW n \in Notice, Claim(n)
      PROVE  Held'
    <2>1. PICK pc \in {"lookup", "verify"} :
              w' = [Idle EXCEPT !.pc = pc, !.n = n, !.part = 1,
                                !.upload = row[n].upload, !.file = row[n].file]
        BY <1>2 DEF Claim
    <2>2. /\ w'.n = n /\ w'.part = 1 /\ w'.upload = row[n].upload
          /\ w'.file = row[n].file
        BY <2>1 DEF Idle
    <2>3. /\ row'[n].state = "publishing" /\ row'[n].upload = row[n].upload
          /\ row'[n].file = row[n].file
        BY <1>2 DEF Claim, Typed, RowsOK, Row
    <2>4. 1 \in 1 .. PartCount(n)
        BY PartCountPositive, NumbersAssumption
    <2>5. QED
        BY <2>2, <2>3, <2>4, SameKinds, KindIsKept DEF Held
<1>3. CASE LookupWithoutFile
    BY <1>3, HeldMoves, KindIsKept DEF LookupWithoutFile, At, Early, outbox
<1>4. ASSUME NEW n \in Notice, LookupFails(n)
      PROVE  Held'
    BY <1>4, HeldMoves, KindIsKept DEF LookupFails, LooksUp, At, Early, outbox
<1>5. ASSUME NEW n \in Notice, LookupRefuses(n)
      PROVE  Held'
    BY <1>5, HeldMoves, KindIsKept DEF LookupRefuses, LooksUp, At, Early, outbox
<1>6. ASSUME NEW n \in Notice, LookupAnswers(n)
      PROVE  Held'
    BY <1>6, HeldMoves, KindIsKept DEF LookupAnswers, LooksUp, At, Early, outbox
<1>7. CASE Verify
    BY <1>7, HeldMoves, KindIsKept DEF Verify, At, Early, outbox
<1>8. CASE ResumeFile
    BY <1>8, HeldMoves, KindIsKept DEF ResumeFile, At, Early, outbox
<1>9. CASE Inspect
    BY <1>9, HeldMoves, KindIsKept DEF Inspect, At, Early, outbox
<1>10. CASE RequestURL
    BY <1>10, HeldMoves, KindIsKept DEF RequestURL, At, Early, outbox
<1>11. CASE MarkFile
    <2>1. CASE UNCHANGED row /\ FailWith("upload_unknown", FALSE, FALSE)
        BY <1>11, <2>1, HeldMoves, KindIsKept DEF MarkFile, At, Early
    <2>2. CASE /\ row' = [row EXCEPT ![w.n].file = TRUE, ![w.n].upload = "url_requested"]
               /\ w' = [w EXCEPT !.pc = "upload", !.file = TRUE]
        <3>1. /\ w'.pc = "upload" /\ w'.n = w.n /\ w'.part = w.part /\ w'.file = TRUE
              /\ w.pc # "idle"
            BY <1>11, <2>2 DEF MarkFile, At, Typed, WorkerOK, Worker
        <3>2. row'[w.n].state = row[w.n].state /\ row'[w.n].file = TRUE
            BY <2>2, <3>1 DEF Held, Typed, RowsOK, Row
        <3>3. QED
            BY <3>1, <3>2, SameKinds, KindIsKept DEF Held
    <2>3. QED
        BY <1>11, <2>1, <2>2 DEF MarkFile
<1>12. CASE UploadBytes
    BY <1>12, HeldMoves, KindIsKept DEF UploadBytes, At, Early, outbox
<1>13. CASE MarkBytes \/ MarkCompleted
    <2>1. CASE UNCHANGED row
        BY <1>13, <2>1, HeldMoves, KindIsKept DEF MarkBytes, MarkCompleted, At, Early
    <2>2. ASSUME NEW stage, SetUpload(stage), NEW pc \in {"complete", "post"}, Goto(pc),
                 w.pc # "idle"
          PROVE  Held'
        <3>1. /\ w'.pc \notin Early \cup {"idle"} /\ w'.n = w.n /\ w'.part = w.part
              /\ w'.file = w.file
            BY <2>2 DEF Goto, Early, Typed, WorkerOK, Worker
        <3>2. row'[w.n].state = row[w.n].state /\ row'[w.n].file = row[w.n].file
            BY <2>2, <3>1 DEF SetUpload, Held, Typed, RowsOK, Row
        <3>3. QED
            BY <2>2, <3>1, <3>2, SameKinds, KindIsKept DEF Held, Early
    <2>3. QED
        BY <1>13, <2>1, <2>2 DEF MarkBytes, MarkCompleted, At
<1>14. CASE CompleteUpload
    BY <1>14, HeldMoves, KindIsKept DEF CompleteUpload, At, Early, outbox
<1>15. CASE Post
    <2>1. CASE LastPart(w.part)
        <3>1. Goto("mark_published")
            BY <1>15, <2>1 DEF Post, Goto
        <3>2. QED
            BY <1>15, <3>1, HeldMoves, KindIsKept DEF Post, At, Early, outbox
    <2>2. CASE ~LastPart(w.part)
        <3>1. w' = [w EXCEPT !.part = @ + 1] /\ row' = row /\ w.pc = "post"
            BY <1>15, <2>2 DEF Post, At, outbox
        <3>2. /\ w'.pc = "post" /\ w'.n = w.n /\ w'.part = w.part + 1
              /\ w'.file = w.file
            BY <3>1 DEF Typed, WorkerOK, Worker
        <3>3. w.n \in Notice /\ w.part + 1 \in 1 .. PartCount(w.n)
            BY <2>2, <3>1, PartCountPositive, NumbersAssumption DEF Held, LastPart
        <3>4. QED
            BY <3>1, <3>2, <3>3, SameKinds, KindIsKept DEF Held
    <2>3. QED
        BY <2>1, <2>2
<1>16. CASE PostFails
    BY <1>16, HeldMoves, KindIsKept DEF PostFails, At, Early, outbox
<1>17. CASE PostRefused
    BY <1>17, HeldMoves, KindIsKept DEF PostRefused, At, Early, outbox
<1>18. CASE MarkPublished
    BY <1>18 DEF MarkPublished, Held, Idle
<1>19. CASE MarkPublishedFails
    BY <1>19, HeldMoves, KindIsKept DEF MarkPublishedFails, At, Early, outbox
<1>20. CASE RecordRetry
    BY <1>20 DEF RecordRetry, Held, Idle
<1>21. CASE RecordRetryFails
    BY <1>21, HeldMoves, KindIsKept DEF RecordRetryFails, At, Early, outbox
<1>22. CASE RecordUnknown
    BY <1>22 DEF RecordUnknown, Held, Idle
<1>23. CASE RecordUnknownFails
    BY <1>23, HeldMoves, KindIsKept DEF RecordUnknownFails, RecordsUnknown, At, Early,
           outbox
<1>24. ASSUME NEW m \in flight, Land(m)
      PROVE  Held'
    BY <1>24, HeldMoves, KindIsKept DEF Land, At, Early, outbox
<1>25. CASE CloseChannel \/ StopAdmission \/ CancelContext \/ Restart \/ Crash
         \/ Exit
    BY <1>25, HeldMoves, KindIsKept DEF CloseChannel, StopAdmission, CancelContext,
           Restart, Crash, Exit, ProcessEnds, outbox
<1>26. QED
    BY <1>1, <1>2, <1>3, <1>4, <1>5, <1>6, <1>7, <1>8, <1>9, <1>10, <1>11, <1>12,
           <1>13, <1>14, <1>15, <1>16, <1>17, <1>18, <1>19, <1>20, <1>21, <1>22, <1>23,
           <1>24, <1>25, Steps

-----------------------------------------------------------------------------
(* What becomes of a row.                                                  *)

\* The rows a step writes: the row of the worker, one it claims, or rows that
\* were absent; a row never becomes absent again.
RowsMove ==
    \A n \in Notice :
        /\ row[n].state # "absent" => row'[n].state # "absent"
        /\ row'[n] # row[n] =>
              \/ w.pc # "idle" /\ n = w.n
              \/ Claimable(n)
              \/ row[n].state = "absent"
        /\ row'[n].state = "unknown" =>
              \/ row'[n] = row[n]
              \/ row'[n].code \in Permanent => row'[FailureOf(n)].state # "absent"

\* The worker moves its own row, other than to give it up.
LEMMA OwnRowMoves ==
    ASSUME Typed, Held, w.pc # "idle",
           \A n \in Notice \ {w.n} : row'[n] = row[n],
           row'[w.n].state \notin {"absent", "unknown"}
    PROVE  RowsMove
BY DEF RowsMove, Held

\* Every step moves the rows so.
LEMMA RowsMoveSo ==
    ASSUME Typed, Held, Next
    PROVE  RowsMove
<1>1. ASSUME NEW n \in Notice, Enqueue(n)
      PROVE  RowsMove
    BY <1>1 DEF Enqueue, RowsMove, Typed, RowsOK, Enqueued, Absent
<1>2. ASSUME NEW n \in Notice, Claim(n)
      PROVE  RowsMove
    BY <1>2 DEF Claim, RowsMove, Typed, RowsOK, Row
<1>3. CASE LookupWithoutFile
    BY <1>3 DEF LookupWithoutFile, outbox, RowsMove
<1>4. ASSUME NEW n \in Notice, LookupFails(n)
      PROVE  RowsMove
    BY <1>4 DEF LookupFails, outbox, RowsMove
<1>5. ASSUME NEW n \in Notice, LookupRefuses(n)
      PROVE  RowsMove
    BY <1>5 DEF LookupRefuses, outbox, RowsMove
<1>6. ASSUME NEW n \in Notice, LookupAnswers(n)
      PROVE  RowsMove
    BY <1>6 DEF LookupAnswers, outbox, RowsMove
<1>7. CASE Verify
    BY <1>7 DEF Verify, outbox, RowsMove
<1>8. CASE ResumeFile
    BY <1>8 DEF ResumeFile, outbox, RowsMove
<1>9. CASE Inspect
    BY <1>9 DEF Inspect, outbox, RowsMove
<1>10. CASE RequestURL
    BY <1>10 DEF RequestURL, outbox, RowsMove
<1>11. CASE MarkFile
    <2>1. /\ w.pc # "idle" /\ w.n \in Notice
          /\ \A n \in Notice \ {w.n} : row'[n] = row[n]
        BY <1>11 DEF MarkFile, At, SetUpload, Typed, RowsOK, Held
    <2>2. CASE row' = row
        BY <2>1, <2>2, OwnRowMoves DEF Held
    <2>3. CASE row' = [row EXCEPT ![w.n].file = TRUE, ![w.n].upload = "url_requested"]
        <3>1. row'[w.n].state = row[w.n].state
            BY <2>1, <2>3 DEF SetUpload, Typed, RowsOK, Row
        <3>2. QED
            BY <2>1, <3>1, OwnRowMoves DEF Held
    <2>4. QED
        BY <1>11, <2>2, <2>3 DEF MarkFile
<1>12. CASE UploadBytes
    BY <1>12 DEF UploadBytes, outbox, RowsMove
<1>13. CASE MarkBytes
    <2>1. /\ w.pc # "idle" /\ w.n \in Notice
          /\ \A n \in Notice \ {w.n} : row'[n] = row[n]
        BY <1>13 DEF MarkBytes, At, SetUpload, Typed, RowsOK, Held
    <2>2. CASE row' = row
        BY <2>1, <2>2, OwnRowMoves DEF Held
    <2>3. CASE SetUpload("bytes_uploaded")
        <3>1. row'[w.n].state = row[w.n].state
            BY <2>1, <2>3 DEF SetUpload, Typed, RowsOK, Row
        <3>2. QED
            BY <2>1, <3>1, OwnRowMoves DEF Held
    <2>4. QED
        BY <1>13, <2>2, <2>3 DEF MarkBytes
<1>14. CASE CompleteUpload
    BY <1>14 DEF CompleteUpload, outbox, RowsMove
<1>15. CASE MarkCompleted
    <2>1. /\ w.pc # "idle" /\ w.n \in Notice
          /\ \A n \in Notice \ {w.n} : row'[n] = row[n]
        BY <1>15 DEF MarkCompleted, At, SetUpload, Typed, RowsOK, Held
    <2>2. CASE row' = row
        BY <2>1, <2>2, OwnRowMoves DEF Held
    <2>3. CASE SetUpload("completed")
        <3>1. row'[w.n].state = row[w.n].state
            BY <2>1, <2>3 DEF SetUpload, Typed, RowsOK, Row
        <3>2. QED
            BY <2>1, <3>1, OwnRowMoves DEF Held
    <2>4. QED
        BY <1>15, <2>2, <2>3 DEF MarkCompleted
<1>16. CASE Post
    BY <1>16 DEF Post, outbox, RowsMove
<1>17. CASE PostFails
    BY <1>17 DEF PostFails, outbox, RowsMove
<1>18. CASE PostRefused
    BY <1>18 DEF PostRefused, outbox, RowsMove
<1>19. CASE MarkPublished
    <2>1. /\ w.pc # "idle" /\ w.n \in Notice
          /\ \A n \in Notice \ {w.n} : row'[n] = row[n]
        BY <1>19 DEF MarkPublished, At, SetUpload, Typed, RowsOK, Held
    <2>2. row'[w.n].state \notin {"absent", "unknown"}
        BY <1>19, <2>1 DEF MarkPublished, At, SetUpload, Typed, RowsOK, Row, Held
    <2>3. QED
        BY <2>1, <2>2, OwnRowMoves
<1>20. CASE MarkPublishedFails
    BY <1>20 DEF MarkPublishedFails, outbox, RowsMove
<1>21. CASE RecordRetry
    <2>1. /\ w.pc # "idle" /\ w.n \in Notice
          /\ \A n \in Notice \ {w.n} : row'[n] = row[n]
        BY <1>21 DEF RecordRetry, At, SetUpload, Typed, RowsOK, Held
    <2>2. row'[w.n].state \notin {"absent", "unknown"}
        BY <1>21, <2>1 DEF RecordRetry, At, SetUpload, Typed, RowsOK, Row, Held
    <2>3. QED
        BY <2>1, <2>2, OwnRowMoves
<1>22. CASE RecordRetryFails
    BY <1>22 DEF RecordRetryFails, outbox, RowsMove
<1>23. CASE RecordUnknown
    <2> DEFINE rows == [row EXCEPT ![w.n].state = "unknown", ![w.n].code = FinalCode,
                             ![w.n].upload = IF InFile(w.n) THEN "unknown" ELSE @]
    <2>1. row' = WithFailureNotice(rows, w.n) /\ w.pc # "idle"
        BY <1>23 DEF RecordUnknown, RecordsUnknown, At
    <2>2. /\ w.n \in Notice /\ FailureOf(w.n) \in Notice /\ rows[w.n].state = "unknown"
          /\ DOMAIN rows = Notice /\ rows[w.n].code = FinalCode
        BY <2>1, FailureIsNotice DEF Held, Typed, RowsOK, Row
    <2>3. \A n \in Notice : n # w.n => rows[n] = row[n]
        BY DEF Typed, RowsOK
    <2> HIDE DEF rows
    <2>4. CASE /\ row' = rows
               /\ rows[w.n].code \in Permanent => rows[FailureOf(w.n)].state # "absent"
        BY <2>1, <2>2, <2>3, <2>4 DEF RowsMove
    <2>5. CASE /\ rows[FailureOf(w.n)].state = "absent"
               /\ row' = [rows EXCEPT ![FailureOf(w.n)] = Enqueued(FailureOf(w.n))]
        <3>1. FailureOf(w.n) # w.n
            BY <2>2, <2>5
        <3>2. Enqueued(FailureOf(w.n)).state = "pending"
            BY DEF Enqueued, Absent
        <3>3. QED
            BY <2>1, <2>2, <2>3, <2>5, <3>1, <3>2 DEF RowsMove
    <2>6. QED
        BY <2>1, <2>4, <2>5 DEF WithFailureNotice
<1>24. CASE RecordUnknownFails
    BY <1>24 DEF RecordUnknownFails, outbox, RowsMove
<1>25. ASSUME NEW m \in flight, Land(m)
      PROVE  RowsMove
    BY <1>25 DEF Land, outbox, RowsMove
<1>26. CASE CloseChannel \/ StopAdmission \/ CancelContext \/ Restart \/ Crash
         \/ Exit
    BY <1>26 DEF CloseChannel, StopAdmission, CancelContext, Restart, Crash, Exit,
           ProcessEnds, outbox, RowsMove
<1>27. QED
    BY <1>1, <1>2, <1>3, <1>4, <1>5, <1>6, <1>7, <1>8, <1>9, <1>10, <1>11, <1>12,
           <1>13, <1>14, <1>15, <1>16, <1>17, <1>18, <1>19, <1>20, <1>21, <1>22, <1>23,
           <1>24, <1>25, <1>26, Steps

\* A settled row is neither claimed nor the worker's.
LEMMA SettledRowsStay ==
    ASSUME Typed, Held, RowsMove, NEW n \in Notice, Settled(n)
    PROVE  row'[n] = row[n]
BY DEF RowsMove, Settled, Condemned, Claimable, Permanent, Held

\* A row is given up for good in one transaction with its report.
LEMMA ReportedStep ==
    ASSUME Typed, Held, GivenUpIsReported, Next
    PROVE  GivenUpIsReported'
<1> SUFFICES ASSUME NEW n \in Notice, Condemned(n)'
             PROVE  row'[FailureOf(n)].state # "absent"
    BY DEF GivenUpIsReported
<1>1. RowsMove
    BY RowsMoveSo
<1>2. FailureOf(n) \in Notice
    BY FailureIsNotice
<1>3. CASE row'[n] = row[n]
    BY <1>1, <1>2, <1>3 DEF GivenUpIsReported, RowsMove, Condemned
<1>4. CASE row'[n] # row[n]
    BY <1>1, <1>4 DEF RowsMove, Condemned
<1>5. QED
    BY <1>3, <1>4

-----------------------------------------------------------------------------
(* The result file.                                                        *)

\* A file is granted once; a grant without a stored file id leaves a row that
\* is looked up before anything else; a completed upload was shared.
UploadOf(n) ==
    /\ row[n].state = "absent" => row[n].code = "" /\ ~row[n].file
    /\ granted[n] <= 1
    /\ granted[n] = 1 => InFile(n) /\ (row[n].file \/ NeedsReconciliation(n))
    /\ row[n].upload = "completed" => slackFile[n] = "shared"

Uploads == \A n \in Notice : UploadOf(n)

FileSteps == {"file", "inspect", "request", "mark_file", "upload", "mark_bytes",
              "complete", "mark_completed"}

\* Where the worker may be with a grant whose file id is not stored.
Gone == w.pc \in {"lookup", "mark_file", "fallback"} \/ (w.pc = "fail" /\ ~w.retry)

Uploading ==
    w.pc # "idle" =>
        /\ w.pc \in FileSteps => InFile(w.n)
        /\ w.pc = "request" => ~w.file /\ row[w.n].upload = "pending"
        /\ w.pc = "upload" => row[w.n].upload = "url_requested"
        /\ w.pc = "mark_completed" => slackFile[w.n] = "shared"
        /\ granted[w.n] = 1 /\ ~w.file => Gone

\* Nothing changes for the files when only the stage advances.
LEMMA UploadsKept ==
    ASSUME Uploads, row' = row, granted' = granted, kind' = kind,
           \A n \in Notice : slackFile[n] = "shared" => slackFile'[n] = "shared"
    PROVE  Uploads'
BY SameKinds DEF Uploads, UploadOf, NeedsReconciliation

\* However a step goes on or fails, the worker's place agrees with the file.
LEMMA UploadingMoves ==
    ASSUME Typed, Held, Uploading, row' = row, granted' = granted, kind' = kind
    PROVE  /\ w' = w /\ slackFile' = slackFile => Uploading'
           /\ w' = Idle => Uploading'
           /\ w.pc # "idle" =>
                 /\ \A code, amb, retry :
                       /\ FailWith(code, amb, retry)
                       /\ retry => granted[w.n] # 1 \/ w.file
                       => Uploading'
                 /\ \A pc :
                       /\ Goto(pc)
                       /\ pc \notin {"request", "upload"}
                       /\ pc = "mark_completed" => slackFile'[w.n] = "shared"
                       /\ pc \in FileSteps => InFile(w.n)
                       /\ pc \notin {"lookup", "mark_file", "fallback"} =>
                              granted[w.n] # 1 \/ w.file
                       => Uploading'
<1>1. \A n : InFile(n)' <=> InFile(n)
    BY SameKinds
<1>2. ASSUME w' = w, slackFile' = slackFile
      PROVE  Uploading'
    BY <1>1, <1>2 DEF Uploading, Gone
<1>3. CASE w' = Idle
    BY <1>3 DEF Uploading, Idle
<1>4. ASSUME w.pc # "idle", NEW code, NEW amb, NEW retry, FailWith(code, amb, retry),
             retry => granted[w.n] # 1 \/ w.file
      PROVE  Uploading'
    <2>1. /\ w'.n = w.n /\ w'.file = w.file /\ w'.pc = "fail" /\ w'.retry = retry
        BY <1>4 DEF FailWith, Typed, WorkerOK, Worker
    <2>2. QED
        BY <1>1, <1>4, <2>1 DEF Uploading, Gone, FileSteps
<1>5. ASSUME w.pc # "idle", NEW pc, Goto(pc), pc \notin {"request", "upload"},
             pc = "mark_completed" => slackFile'[w.n] = "shared",
             pc \in FileSteps => InFile(w.n),
             pc \notin {"lookup", "mark_file", "fallback"} => granted[w.n] # 1 \/ w.file
      PROVE  Uploading'
    <2>1. /\ w'.n = w.n /\ w'.file = w.file /\ w'.pc = pc
        BY <1>5 DEF Goto, Typed, WorkerOK, Worker
    <2>2. QED
        BY <1>1, <1>5, <2>1 DEF Uploading, Gone
<1>6. QED
    BY <1>2, <1>3, <1>4, <1>5

\* The worker changes its own row, or a row is enqueued: the others are as before.
LEMMA UploadsOfOthers ==
    ASSUME Uploads, granted' = granted, slackFile' = slackFile, kind' = kind,
           NEW n \in Notice, UploadOf(n)',
           \A k \in Notice \ {n} : row'[k] = row[k]
    PROVE  Uploads'
<1>1. ASSUME NEW k \in Notice, k # n
      PROVE  UploadOf(k)'
    BY <1>1, SameKinds DEF Uploads, UploadOf, NeedsReconciliation
<1>2. QED
    BY <1>1 DEF Uploads

\* Every step keeps what the rows say of the files,
LEMMA UploadsStep ==
    ASSUME Typed, Held, Uploads, Uploading, Next
    PROVE  Uploads'
<1>1. ASSUME NEW n \in Notice, Enqueue(n)
      PROVE  Uploads'
    <2>1. kind' = kind /\ \A k \in Notice \ {n} : row'[k] = row[k]
        BY <1>1, KindIsKept DEF Enqueue, Typed, RowsOK
    <2>2. row'[n].state = "pending" /\ row'[n].upload # "completed"
        BY <1>1 DEF Enqueue, Typed, RowsOK, Row, Enqueued, Absent
    <2>3. UploadOf(n)'
        BY <1>1, <2>1, <2>2, SameKinds
           DEF Enqueue, slack, Uploads, UploadOf, NeedsReconciliation, Claimable
    <2>4. QED
        BY <1>1, <2>1, <2>3, UploadsOfOthers DEF Enqueue, slack
<1>2. ASSUME NEW n \in Notice, Claim(n)
      PROVE  Uploads'
    <2>1. kind' = kind /\ \A k \in Notice \ {n} : row'[k] = row[k]
        BY <1>2, KindIsKept DEF Claim, Typed, RowsOK
    <2>2. /\ row'[n].state = "publishing"
          /\ row'[n].upload = row[n].upload /\ row'[n].file = row[n].file
        BY <1>2 DEF Claim, Typed, RowsOK, Row, Enqueued, Absent
    <2>3. UploadOf(n)'
        BY <1>2, <2>1, <2>2, SameKinds
           DEF Claim, slack, Uploads, UploadOf, NeedsReconciliation, Claimable
    <2>4. QED
        BY <1>2, <2>1, <2>3, UploadsOfOthers DEF Claim, slack
<1>3. CASE LookupWithoutFile
    BY <1>3, UploadsKept, KindIsKept DEF LookupWithoutFile, slack, outbox
<1>4. ASSUME NEW n \in Notice, LookupFails(n)
      PROVE  Uploads'
    BY <1>4, UploadsKept, KindIsKept DEF LookupFails, slack, outbox
<1>5. ASSUME NEW n \in Notice, LookupRefuses(n)
      PROVE  Uploads'
    BY <1>5, UploadsKept, KindIsKept DEF LookupRefuses, slack, outbox
<1>6. ASSUME NEW n \in Notice, LookupAnswers(n)
      PROVE  Uploads'
    BY <1>6, UploadsKept, KindIsKept DEF LookupAnswers, outbox
<1>7. CASE Verify
    BY <1>7, UploadsKept, KindIsKept DEF Verify, slack, outbox
<1>8. CASE ResumeFile
    BY <1>8, UploadsKept, KindIsKept DEF ResumeFile, slack, outbox
<1>9. CASE Inspect
    BY <1>9, UploadsKept, KindIsKept DEF Inspect, slack, outbox
<1>10. CASE RequestURL
    <2>1. /\ w.pc = "request" /\ w.n \in Notice /\ kind' = kind /\ row' = row
          /\ row[w.n].state = "publishing"
        BY <1>10, KindIsKept DEF RequestURL, At, Held, outbox
    <2>2. /\ slackFile' = slackFile \/ Stage("reserved")
          /\ granted' = granted \/ granted' = [granted EXCEPT ![w.n] = @ + 1]
        BY <1>10 DEF RequestURL
    <2>3. /\ granted[w.n] = 0
          /\ row[w.n].upload = "pending"
          /\ InFile(w.n)
        <3>1. granted[w.n] # 1 /\ row[w.n].upload = "pending" /\ InFile(w.n)
            BY <2>1 DEF Uploading, Gone, FileSteps
        <3>2. granted[w.n] \in Nat /\ granted[w.n] <= 1
            BY <2>1 DEF Uploads, UploadOf, Typed, SlackOK
        <3>3. QED
            BY <3>1, <3>2
    <2>4. ASSUME NEW n \in Notice
          PROVE  UploadOf(n)'
        <3>1. CASE n = w.n
            <4>1. granted'[n] \in {0, 1}
                BY <2>2, <2>3, <3>1 DEF Typed, SlackOK
            <4>2. /\ NeedsReconciliation(n)' /\ InFile(n)'
                  /\ row'[n].state # "absent" /\ row'[n].upload # "completed"
                BY <2>1, <2>3, <3>1, SameKinds DEF NeedsReconciliation
            <4>3. granted'[n] <= 1
                BY <4>1
            <4>4. QED
                BY <4>2, <4>3 DEF UploadOf
        <3>2. CASE n # w.n
            <4>1. granted'[n] = granted[n] /\ slackFile'[n] = slackFile[n]
                BY <2>2, <3>2 DEF Stage, Typed, SlackOK
            <4>2. QED
                BY <2>1, <4>1, SameKinds DEF Uploads, UploadOf, NeedsReconciliation
        <3>3. QED
            BY <3>1, <3>2
    <2>5. QED
        BY <2>4 DEF Uploads
<1>11. CASE MarkFile
    <2>1. PICK n \in Notice : n = w.n
        BY <1>11 DEF MarkFile, At, Held
    <2>2. kind' = kind
        BY KindIsKept
    <2>3. CASE row' = row
        BY <1>11, <2>2, <2>3, UploadsKept DEF MarkFile, slack
    <2>4. CASE row' = [row EXCEPT ![w.n].file = TRUE, ![w.n].upload = "url_requested"]
        <3>1. \A k \in Notice \ {n} : row'[k] = row[k]
            BY <2>1, <2>4 DEF SetUpload, Typed, RowsOK
        <3>2. /\ row'[n].file /\ row'[n].upload = "url_requested"
              /\ row'[n].state = row[n].state /\ row[n].state = "publishing"
            BY <1>11, <2>1, <2>4 DEF MarkFile, At, SetUpload, Held, Typed, RowsOK, Row
        <3>3. UploadOf(n)'
            BY <1>11, <2>1, <2>2, <3>2, SameKinds
               DEF MarkFile, At, slack, Uploads, UploadOf, Uploading, NeedsReconciliation
        <3>4. QED
            BY <1>11, <2>2, <3>1, <3>3, UploadsOfOthers DEF MarkFile, slack
    <2>5. QED
        BY <1>11, <2>3, <2>4 DEF MarkFile
<1>12. CASE UploadBytes
    <2>1. /\ w.n \in Notice /\ kind' = kind /\ row' = row /\ granted' = granted
          /\ row[w.n].upload # "completed"
          /\ slackFile' = slackFile \/ Stage("uploaded")
        BY <1>12, KindIsKept DEF UploadBytes, At, Held, outbox, Uploading
    <2>2. ASSUME NEW n \in Notice
          PROVE  UploadOf(n)'
        <3>1. n # w.n => slackFile'[n] = slackFile[n]
            BY <2>1 DEF Stage, Typed, SlackOK
        <3>2. QED
            BY <2>1, <3>1, SameKinds DEF Uploads, UploadOf, NeedsReconciliation
    <2>3. QED
        BY <2>2 DEF Uploads
<1>13. CASE MarkBytes
    <2>1. PICK n \in Notice : n = w.n
        BY <1>13 DEF MarkBytes, At, Held
    <2>2. kind' = kind
        BY KindIsKept
    <2>3. CASE row' = row
        BY <1>13, <2>2, <2>3, UploadsKept DEF MarkBytes, slack
    <2>4. CASE SetUpload("bytes_uploaded")
        <3>1. \A k \in Notice \ {n} : row'[k] = row[k]
            BY <2>1, <2>4 DEF SetUpload, Typed, RowsOK
        <3>2. /\ row'[n].file = row[n].file /\ row'[n].upload = "bytes_uploaded"
              /\ row'[n].state = row[n].state /\ row[n].state = "publishing"
            BY <1>13, <2>1, <2>4 DEF MarkBytes, At, SetUpload, Held, Typed, RowsOK, Row
        <3>3. UploadOf(n)'
            BY <1>13, <2>1, <2>2, <3>2, SameKinds
               DEF MarkBytes, At, slack, Uploads, UploadOf, Uploading, NeedsReconciliation
        <3>4. QED
            BY <1>13, <2>2, <3>1, <3>3, UploadsOfOthers DEF MarkBytes, slack
    <2>5. QED
        BY <1>13, <2>3, <2>4 DEF MarkBytes
<1>14. CASE CompleteUpload
    <2>1. /\ kind' = kind /\ row' = row /\ granted' = granted
          /\ slackFile' = slackFile \/ Stage("shared")
        BY <1>14, KindIsKept DEF CompleteUpload, outbox, Share
    <2>2. \A n \in Notice : slackFile[n] = "shared" => slackFile'[n] = "shared"
        BY <2>1 DEF Stage, Typed, SlackOK
    <2>3. QED
        BY <2>1, <2>2, UploadsKept
<1>15. CASE MarkCompleted
    <2>1. PICK n \in Notice : n = w.n
        BY <1>15 DEF MarkCompleted, At, Held
    <2>2. kind' = kind
        BY KindIsKept
    <2>3. CASE row' = row
        BY <1>15, <2>2, <2>3, UploadsKept DEF MarkCompleted, slack
    <2>4. CASE SetUpload("completed")
        <3>1. \A k \in Notice \ {n} : row'[k] = row[k]
            BY <2>1, <2>4 DEF SetUpload, Typed, RowsOK
        <3>2. /\ row'[n].file = row[n].file /\ row'[n].upload = "completed"
              /\ row'[n].state = row[n].state /\ row[n].state = "publishing"
            BY <1>15, <2>1, <2>4 DEF MarkCompleted, At, SetUpload, Held, Typed, RowsOK,
                   Row
        <3>3. UploadOf(n)'
            BY <1>15, <2>1, <2>2, <3>2, SameKinds
               DEF MarkCompleted, At, slack, Uploads, UploadOf, Uploading, NeedsReconciliation
        <3>4. QED
            BY <1>15, <2>2, <3>1, <3>3, UploadsOfOthers DEF MarkCompleted, slack
    <2>5. QED
        BY <1>15, <2>3, <2>4 DEF MarkCompleted
<1>16. CASE Post
    BY <1>16, UploadsKept, KindIsKept DEF Post, slack, outbox
<1>17. CASE PostFails
    BY <1>17, UploadsKept, KindIsKept DEF PostFails, slack, outbox
<1>18. CASE PostRefused
    BY <1>18, UploadsKept, KindIsKept DEF PostRefused, slack, outbox
<1>19. CASE MarkPublished
    <2>1. PICK n \in Notice : n = w.n
        BY <1>19 DEF MarkPublished, At, Held
    <2>2. kind' = kind /\ \A k \in Notice \ {n} : row'[k] = row[k]
        BY <1>19, <2>1, KindIsKept DEF MarkPublished, Typed, RowsOK
    <2>3. /\ row'[n].file = row[n].file /\ row'[n].upload = row[n].upload
          /\ row'[n].state = "published"
        BY <1>19, <2>1 DEF MarkPublished, At, Held, Typed, RowsOK, Row
    <2>4. granted[n] = 1 => row[n].file \/ NeedsReconciliation(n)'
        BY <1>19, <2>1, <2>3 DEF MarkPublished, At, Uploads, UploadOf, Uploading, Gone,
               Held,
               UploadAccepted, CanRetry, NeedsReconciliation
    <2>5. UploadOf(n)'
        BY <1>19, <2>2, <2>3, <2>4, SameKinds DEF MarkPublished, slack, Uploads,
               UploadOf
    <2>6. QED
        BY <1>19, <2>2, <2>5, UploadsOfOthers DEF MarkPublished, slack
<1>20. CASE MarkPublishedFails
    BY <1>20, UploadsKept, KindIsKept DEF MarkPublishedFails, slack, outbox
<1>21. CASE RecordRetry
    <2>1. PICK n \in Notice : n = w.n
        BY <1>21 DEF RecordRetry, At, Held
    <2>2. kind' = kind /\ \A k \in Notice \ {n} : row'[k] = row[k]
        BY <1>21, <2>1, KindIsKept DEF RecordRetry, Typed, RowsOK
    <2>3. /\ row'[n].file = row[n].file
          /\ row'[n].upload \in {row[n].upload, "unknown"}
          /\ row'[n].state = "pending"
        BY <1>21, <2>1 DEF RecordRetry, At, Held, Typed, RowsOK, Row
    <2>4. granted[n] = 1 => row[n].file \/ NeedsReconciliation(n)'
        BY <1>21, <2>1, <2>3 DEF RecordRetry, At, Uploads, UploadOf, Uploading, Gone,
               Held,
               UploadAccepted, CanRetry, NeedsReconciliation
    <2>5. UploadOf(n)'
        BY <1>21, <2>2, <2>3, <2>4, SameKinds DEF RecordRetry, slack, Uploads, UploadOf
    <2>6. QED
        BY <1>21, <2>2, <2>5, UploadsOfOthers DEF RecordRetry, slack
<1>22. CASE RecordRetryFails
    BY <1>22, UploadsKept, KindIsKept DEF RecordRetryFails, slack, outbox
<1>23. CASE RecordUnknown
    <2> DEFINE rows == [row EXCEPT ![w.n].state = "unknown", ![w.n].code = FinalCode,
                             ![w.n].upload = IF InFile(w.n) THEN "unknown" ELSE @]
    <2>1. /\ row' = WithFailureNotice(rows, w.n) /\ w.pc # "idle" /\ w.n \in Notice
          /\ kind' = kind /\ granted' = granted /\ slackFile' = slackFile
          /\ FailureOf(w.n) \in Notice
        BY <1>23, KindIsKept, FailureIsNotice
           DEF RecordUnknown, RecordsUnknown, At, Held, slack
    <2>2. /\ rows[w.n].state = "unknown" /\ rows[w.n].file = row[w.n].file
          /\ rows[w.n].upload \in {row[w.n].upload, "unknown"}
          /\ \A n \in Notice \ {w.n} : rows[n] = row[n]
          /\ DOMAIN rows = Notice
        BY <2>1 DEF Typed, RowsOK, Row
    <2> HIDE DEF rows
    <2>3. ASSUME NEW n \in Notice
          PROVE  UploadOf(n)'
        <3>1. CASE row'[n] = row[n]
            BY <2>1, <3>1, SameKinds DEF Uploads, UploadOf, NeedsReconciliation
        <3>2. CASE n = w.n /\ row'[n] = rows[n]
            <4>1. /\ NeedsReconciliation(n)' /\ row'[n].state # "absent"
                  /\ row'[n].upload = "completed" => row[n].upload = "completed"
                BY <2>2, <3>2 DEF NeedsReconciliation
            <4>2. QED
                BY <2>1, <4>1, SameKinds DEF Uploads, UploadOf
        <3>3. CASE row[n].state = "absent" /\ row'[n] = Enqueued(n)
            <4>1. row'[n].state = "pending" /\ row'[n].upload # "completed"
                BY <3>3 DEF Enqueued, Absent
            <4>2. granted[n] # 1
                BY <3>3 DEF Uploads, UploadOf, NeedsReconciliation
            <4>3. QED
                BY <2>1, <4>1, <4>2, SameKinds DEF Uploads, UploadOf
        <3>4. \/ row'[n] = rows[n]
              \/ rows[n].state = "absent" /\ row'[n] = Enqueued(n)
            BY <2>1, <2>2 DEF WithFailureNotice
        <3>5. QED
            BY <2>2, <3>1, <3>2, <3>3, <3>4
    <2>4. QED
        BY <2>3 DEF Uploads
<1>24. CASE RecordUnknownFails
    BY <1>24, UploadsKept, KindIsKept DEF RecordUnknownFails, slack, outbox
<1>25. ASSUME NEW m \in flight, Land(m)
      PROVE  Uploads'
    BY <1>25, UploadsKept, KindIsKept DEF Land, slack, outbox
<1>26. CASE CloseChannel \/ StopAdmission \/ CancelContext \/ Restart \/ Crash
         \/ Exit
    BY <1>26, UploadsKept, KindIsKept DEF CloseChannel, StopAdmission, CancelContext,
           Restart, Crash, Exit, ProcessEnds, outbox, slack
<1>27. QED
    BY <1>1, <1>2, <1>3, <1>4, <1>5, <1>6, <1>7, <1>8, <1>9, <1>10, <1>11, <1>12,
           <1>13, <1>14, <1>15, <1>16, <1>17, <1>18, <1>19, <1>20, <1>21, <1>22, <1>23,
           <1>24, <1>25, <1>26, Steps

\* and what the worker's place says of its file.
LEMMA UploadingStep ==
    ASSUME Typed, Held, Uploads, Uploading, Next
    PROVE  Uploading'
<1>1. ASSUME NEW n \in Notice, Enqueue(n)
      PROVE  Uploading'
    <2>1. /\ w' = w /\ granted' = granted /\ slackFile' = slackFile /\ kind' = kind
          /\ w.pc # "idle" => row'[w.n] = row[w.n]
        BY <1>1, KindIsKept DEF Enqueue, slack, Held, Typed, RowsOK
    <2>2. QED
        BY <2>1, SameKinds DEF Uploading, Gone
<1>2. ASSUME NEW n \in Notice, Claim(n)
      PROVE  Uploading'
    <2>1. /\ w'.n = n /\ w'.file = row[n].file /\ w'.pc \in {"lookup", "verify"}
          /\ w'.pc = "verify" => ~NeedsReconciliation(n)
          /\ granted' = granted
        BY <1>2 DEF Claim, Idle, slack
    <2>2. granted[n] = 1 /\ ~row[n].file => w'.pc = "lookup"
        BY <2>1 DEF Uploads, UploadOf
    <2>3. QED
        BY <2>1, <2>2 DEF Uploading, Gone, FileSteps
<1>3. CASE LookupWithoutFile
    BY <1>3, UploadingMoves, KindIsKept
       DEF LookupWithoutFile, At, FileSteps, Uploading, Gone, slack, outbox
<1>4. ASSUME NEW n \in Notice, LookupFails(n)
      PROVE  Uploading'
    <2>1. /\ w.pc # "idle" /\ row' = row /\ granted' = granted /\ kind' = kind
          /\ granted[w.n] # 1 \/ w.file
        BY <1>4, KindIsKept DEF LookupFails, LooksUp, At, outbox, slack, Held, Uploads,
               UploadOf
    <2>2. \A code, amb, retry : FailWith(code, amb, retry) => Uploading'
        BY <2>1, UploadingMoves
    <2>3. QED
        BY <1>4, <2>2 DEF LookupFails
<1>5. ASSUME NEW n \in Notice, LookupRefuses(n)
      PROVE  Uploading'
    <2>1. /\ w.pc # "idle" /\ row' = row /\ granted' = granted /\ kind' = kind
          /\ granted[w.n] # 1 \/ w.file
        BY <1>5, KindIsKept DEF LookupRefuses, LooksUp, At, outbox, slack, Held,
               Uploads, UploadOf
    <2>2. \A code, amb, retry : FailWith(code, amb, retry) => Uploading'
        BY <2>1, UploadingMoves
    <2>3. QED
        BY <1>5, <2>2 DEF LookupRefuses
<1>6. ASSUME NEW n \in Notice, LookupAnswers(n)
      PROVE  Uploading'
    <2>1. /\ w.pc # "idle" /\ row' = row /\ granted' = granted /\ kind' = kind
          /\ granted[w.n] # 1 \/ w.file
        BY <1>6, KindIsKept DEF LookupAnswers, LooksUp, At, outbox, slack, Held,
               Uploads, UploadOf
    <2>2. Goto("mark_published") \/ Goto("verify") => Uploading'
        BY <2>1, UploadingMoves DEF FileSteps
    <2>3. QED
        BY <1>6, <2>2 DEF LookupAnswers
<1>7. CASE Verify
    BY <1>7, UploadingMoves, KindIsKept
       DEF Verify, At, FileSteps, Uploading, Gone, slack, outbox
<1>8. CASE ResumeFile
    <2>1. /\ w.pc = "file" /\ row' = row /\ granted' = granted /\ kind' = kind
          /\ w.n \in Notice /\ w.upload = row[w.n].upload
          /\ InFile(w.n)
          /\ granted[w.n] # 1 \/ w.file
        BY <1>8, KindIsKept DEF ResumeFile, At, outbox, slack, Held, Uploading, Gone,
               FileSteps
    <2>2. CASE ~w.file /\ w.upload = "pending" /\ Goto("request")
        <3>1. w'.pc = "request" /\ w'.n = w.n /\ ~w'.file
            BY <2>2 DEF Goto, Typed, WorkerOK, Worker
        <3>2. QED
            BY <2>1, <2>2, <3>1, SameKinds DEF Uploading, Gone, FileSteps
    <2>3. CASE Goto("post") \/ Goto("inspect") \/ FailWith("upload_unknown", FALSE, FALSE)
        BY <2>1, <2>3, UploadingMoves DEF FileSteps
    <2>4. QED
        BY <1>8, <2>2, <2>3 DEF ResumeFile
<1>9. CASE Inspect
    BY <1>9, UploadingMoves, KindIsKept
       DEF Inspect, At, FileProven, ShareProven, FileSteps, Uploading, Gone, slack, outbox
<1>10. CASE RequestURL
    <2>1. /\ w.pc = "request" /\ row' = row /\ kind' = kind /\ InFile(w.n)
          /\ granted[w.n] # 1 \/ w.file
        BY <1>10, KindIsKept DEF RequestURL, At, outbox, Uploading, Gone, FileSteps
    <2>2. CASE Goto("mark_file")
        <3>1. w'.pc = "mark_file" /\ w'.n = w.n
            BY <2>2 DEF Goto, Typed, WorkerOK, Worker
        <3>2. QED
            BY <2>1, <3>1, SameKinds DEF Uploading, Gone
    <2>3. CASE FailWith("upload_unknown", FALSE, FALSE)
        <3>1. w'.pc = "fail" /\ w'.n = w.n /\ ~w'.retry
            BY <2>3 DEF FailWith, Typed, WorkerOK, Worker
        <3>2. QED
            BY <2>1, <3>1, SameKinds DEF Uploading, Gone, FileSteps
    <2>4. CASE FailWith("upload_failed", FALSE, TRUE) /\ UNCHANGED granted
        BY <2>1, <2>4, UploadingMoves
    <2>5. QED
        BY <1>10, <2>2, <2>3, <2>4 DEF RequestURL
<1>11. CASE MarkFile
    <2>1. /\ w.pc # "idle" /\ w.n \in Notice /\ InFile(w.n) /\ kind' = kind
          /\ granted' = granted /\ slackFile' = slackFile
          /\ w.pc = "mark_file"
        BY <1>11, KindIsKept DEF MarkFile, At, Held, slack, Uploading, FileSteps, Gone
    <2>2. CASE UNCHANGED row /\ FailWith("upload_unknown", FALSE, FALSE)
        BY <1>11, <2>1, <2>2, UploadingMoves DEF MarkFile, At
    <2>3. CASE /\ row' = [row EXCEPT ![w.n].file = TRUE, ![w.n].upload = "url_requested"]
               /\ w' = [w EXCEPT !.pc = "upload", !.file = TRUE]
        <3>1. /\ w'.pc = "upload" /\ w'.n = w.n /\ w'.file
            BY <2>3 DEF Goto, Typed, WorkerOK, Worker
        <3>2. QED
            BY <2>1, <2>3, <3>1, SameKinds
               DEF Uploading, Gone, FileSteps, Typed, RowsOK, Row
    <2>4. QED
        BY <1>11, <2>2, <2>3 DEF MarkFile
<1>12. CASE UploadBytes
    BY <1>12, UploadingMoves, KindIsKept
       DEF UploadBytes, At, FileSteps, Uploading, Gone, slack, outbox
<1>13. CASE MarkBytes
    <2>1. /\ w.pc # "idle" /\ w.n \in Notice /\ InFile(w.n) /\ kind' = kind
          /\ granted' = granted /\ slackFile' = slackFile
          /\ granted[w.n] # 1 \/ w.file
        BY <1>13, KindIsKept DEF MarkBytes, At, Held, slack, Uploading, FileSteps, Gone
    <2>2. CASE UNCHANGED row /\ FailWith("upload_unknown", TRUE, TRUE)
        BY <1>13, <2>1, <2>2, UploadingMoves DEF MarkBytes, At
    <2>3. CASE SetUpload("bytes_uploaded") /\ Goto("complete")
        <3>1. /\ w'.pc = "complete" /\ w'.n = w.n /\ w'.file = w.file
            BY <2>3 DEF Goto, Typed, WorkerOK, Worker
        <3>2. QED
            BY <2>1, <2>3, <3>1, SameKinds
               DEF Uploading, Gone, FileSteps, Typed, RowsOK, Row
    <2>4. QED
        BY <1>13, <2>2, <2>3 DEF MarkBytes
<1>14. CASE CompleteUpload
    <2>1. /\ w.pc = "complete" /\ row' = row /\ granted' = granted /\ kind' = kind
          /\ granted[w.n] # 1 \/ w.file
          /\ InFile(w.n)
        BY <1>14, KindIsKept DEF CompleteUpload, At, outbox, Uploading, Gone, FileSteps
    <2>2. CASE Share /\ Goto("mark_completed")
        <3>1. slackFile'[w.n] = "shared"
            BY <2>1, <2>2 DEF Share, Stage, Held, Typed, SlackOK
        <3>2. QED
            BY <2>1, <2>2, <3>1, UploadingMoves
    <2>3. ASSUME NEW amb, FailWith("completion_failed", amb, TRUE)
          PROVE  Uploading'
        BY <2>1, <2>3, UploadingMoves
    <2>4. QED
        BY <1>14, <2>2, <2>3 DEF CompleteUpload
<1>15. CASE MarkCompleted
    <2>1. /\ w.pc # "idle" /\ w.n \in Notice /\ InFile(w.n) /\ kind' = kind
          /\ granted' = granted /\ slackFile' = slackFile
          /\ granted[w.n] # 1 \/ w.file
        BY <1>15, KindIsKept DEF MarkCompleted, At, Held, slack, Uploading, FileSteps,
               Gone
    <2>2. CASE UNCHANGED row /\ FailWith("upload_unknown", TRUE, TRUE)
        BY <1>15, <2>1, <2>2, UploadingMoves DEF MarkCompleted, At
    <2>3. CASE SetUpload("completed") /\ Goto("post")
        <3>1. /\ w'.pc = "post" /\ w'.n = w.n /\ w'.file = w.file
            BY <2>3 DEF Goto, Typed, WorkerOK, Worker
        <3>2. QED
            BY <2>1, <2>3, <3>1, SameKinds
               DEF Uploading, Gone, FileSteps, Typed, RowsOK, Row
    <2>4. QED
        BY <1>15, <2>2, <2>3 DEF MarkCompleted
<1>16. CASE Post
    <2>1. /\ w.pc = "post" /\ row' = row /\ granted' = granted /\ slackFile' = slackFile
          /\ kind' = kind
        BY <1>16, KindIsKept DEF Post, At, outbox
    <2>2. /\ w'.pc \in {"post", "mark_published"} /\ w'.n = w.n /\ w'.file = w.file
        BY <1>16, <2>1 DEF Post, Typed, WorkerOK, Worker
    <2>3. QED
        BY <2>1, <2>2, SameKinds DEF Uploading, Gone, FileSteps
<1>17. CASE PostFails
    BY <1>17, UploadingMoves, KindIsKept
       DEF PostFails, At, FileSteps, Uploading, Gone, slack, outbox
<1>18. CASE PostRefused
    BY <1>18, UploadingMoves, KindIsKept
       DEF PostRefused, At, FileSteps, Uploading, Gone, slack, outbox
<1>19. CASE MarkPublished
    BY <1>19 DEF MarkPublished, Uploading, Idle
<1>20. CASE MarkPublishedFails
    BY <1>20, UploadingMoves, KindIsKept
       DEF MarkPublishedFails, At, FileSteps, Uploading, Gone, slack, outbox
<1>21. CASE RecordRetry
    BY <1>21 DEF RecordRetry, Uploading, Idle
<1>22. CASE RecordRetryFails
    BY <1>22, UploadingMoves, KindIsKept
       DEF RecordRetryFails, At, FileSteps, Uploading, Gone, slack, outbox
<1>23. CASE RecordUnknown
    BY <1>23 DEF RecordUnknown, Uploading, Idle
<1>24. CASE RecordUnknownFails
    BY <1>24, UploadingMoves, KindIsKept
       DEF RecordUnknownFails, RecordsUnknown, At, FileSteps, Uploading, Gone, slack, outbox
<1>25. ASSUME NEW m \in flight, Land(m)
      PROVE  Uploading'
    BY <1>25, UploadingMoves, KindIsKept
       DEF Land, At, FileSteps, Uploading, Gone, slack, outbox
<1>26. CASE CloseChannel \/ StopAdmission \/ CancelContext \/ Restart \/ Crash
         \/ Exit
    BY <1>26, UploadingMoves, KindIsKept DEF CloseChannel, StopAdmission,
           CancelContext, Restart, Crash, Exit, ProcessEnds, outbox, slack
<1>27. QED
    BY <1>1, <1>2, <1>3, <1>4, <1>5, <1>6, <1>7, <1>8, <1>9, <1>10, <1>11, <1>12,
           <1>13, <1>14, <1>15, <1>16, <1>17, <1>18, <1>19, <1>20, <1>21, <1>22, <1>23,
           <1>24, <1>25, <1>26, Steps

-----------------------------------------------------------------------------
(* The conversation.                                                       *)

Posted(n, p) == \E i \in DOMAIN thread : thread[i].n = n /\ thread[i].part = p
Whole(n)     == \A p \in 1 .. PartCount(n) : Posted(n, p)

\* What one step does to the conversation.
SlackMoves ==
    \/ thread' = thread /\ flight' = flight
    \/ w.pc = "post" /\ thread' = thread /\ flight' = flight \cup {ThisPart}
    \/ w.pc = "post" /\ thread' = Append(thread, ThisPart) /\ flight' = flight
    \/ /\ w.pc = "complete" /\ thread' = Append(thread, [n |-> w.n, part |-> 0])
       /\ flight' = flight
    \/ \E m \in flight : thread' = Append(thread, m) /\ flight' = flight \ {m}

\* Every message is a part of its notice.
Posts ==
    /\ \A i \in DOMAIN thread : thread[i].part <= PartCount(thread[i].n)
    /\ \A m \in flight : m.part \in 1 .. PartCount(m.n)

\* Where the worker is tells how much it has posted.
Posting ==
    w.pc # "idle" =>
        /\ w.pc \notin {"post", "mark_published", "fail", "fallback"} => w.part = 1
        /\ w.pc = "post" => \A p \in 1 .. (w.part - 1) : Posted(w.n, p)
        /\ w.pc = "mark_published" => Whole(w.n)

\* A published notice was posted as a whole, its file uploaded.
Outcome ==
    \A n \in Notice :
        /\ row[n].state = "published" =>
               Whole(n) /\ (InFile(n) => row[n].upload = "completed")
        /\ n \in activation => row[n].state = "published"

\* Every step changes the conversation in one of these ways.
LEMMA SlackMovesSo ==
    ASSUME Typed, Held, Next
    PROVE  SlackMoves
<1>1. ASSUME NEW n \in Notice, Enqueue(n)
      PROVE  SlackMoves
    BY <1>1 DEF Enqueue, slack, SlackMoves
<1>2. ASSUME NEW n \in Notice, Claim(n)
      PROVE  SlackMoves
    BY <1>2 DEF Claim, slack, SlackMoves
<1>3. CASE LookupWithoutFile
    BY <1>3 DEF LookupWithoutFile, slack, SlackMoves
<1>4. ASSUME NEW n \in Notice, LookupFails(n)
      PROVE  SlackMoves
    BY <1>4 DEF LookupFails, slack, SlackMoves
<1>5. ASSUME NEW n \in Notice, LookupRefuses(n)
      PROVE  SlackMoves
    BY <1>5 DEF LookupRefuses, slack, SlackMoves
<1>6. ASSUME NEW n \in Notice, LookupAnswers(n)
      PROVE  SlackMoves
    BY <1>6 DEF LookupAnswers, slack, SlackMoves
<1>7. CASE Verify
    BY <1>7 DEF Verify, slack, SlackMoves
<1>8. CASE ResumeFile
    BY <1>8 DEF ResumeFile, slack, SlackMoves
<1>9. CASE Inspect
    BY <1>9 DEF Inspect, slack, SlackMoves
<1>10. CASE RequestURL
    BY <1>10 DEF RequestURL, slack, SlackMoves
<1>11. CASE MarkFile
    BY <1>11 DEF MarkFile, slack, SlackMoves
<1>12. CASE UploadBytes
    BY <1>12 DEF UploadBytes, slack, SlackMoves
<1>13. CASE MarkBytes
    BY <1>13 DEF MarkBytes, slack, SlackMoves
<1>14. CASE CompleteUpload
    BY <1>14 DEF CompleteUpload, Share, At, SlackMoves
<1>15. CASE MarkCompleted
    BY <1>15 DEF MarkCompleted, slack, SlackMoves
<1>16. CASE Post
    BY <1>16 DEF Post, At, SlackMoves
<1>17. CASE PostFails
    BY <1>17 DEF PostFails, At, SlackMoves
<1>18. CASE PostRefused
    BY <1>18 DEF PostRefused, slack, SlackMoves
<1>19. CASE MarkPublished
    BY <1>19 DEF MarkPublished, slack, SlackMoves
<1>20. CASE MarkPublishedFails
    BY <1>20 DEF MarkPublishedFails, slack, SlackMoves
<1>21. CASE RecordRetry
    BY <1>21 DEF RecordRetry, slack, SlackMoves
<1>22. CASE RecordRetryFails
    BY <1>22 DEF RecordRetryFails, slack, SlackMoves
<1>23. CASE RecordUnknown
    BY <1>23 DEF RecordUnknown, slack, SlackMoves
<1>24. CASE RecordUnknownFails
    BY <1>24 DEF RecordUnknownFails, slack, SlackMoves
<1>25. ASSUME NEW m \in flight, Land(m)
      PROVE  SlackMoves
    BY <1>25 DEF Land, slack, SlackMoves
<1>26. CASE CloseChannel \/ StopAdmission \/ CancelContext \/ Restart \/ Crash
         \/ Exit
    BY <1>26 DEF CloseChannel, StopAdmission, CancelContext, Restart, Crash, Exit,
           ProcessEnds, slack, SlackMoves
<1>27. QED
    BY <1>1, <1>2, <1>3, <1>4, <1>5, <1>6, <1>7, <1>8, <1>9, <1>10, <1>11, <1>12,
           <1>13, <1>14, <1>15, <1>16, <1>17, <1>18, <1>19, <1>20, <1>21, <1>22, <1>23,
           <1>24, <1>25, <1>26, Steps

\* What was posted stays posted.
LEMMA PostedStays ==
    ASSUME Typed, Held, SlackMoves, kind' = kind
    PROVE  /\ \A n, p : Posted(n, p) => Posted(n, p)'
           /\ \A n : Whole(n) => Whole(n)'
<1>1. CASE thread' = thread
    BY <1>1, SameKinds DEF Posted, Whole
<1>2. ASSUME NEW m \in Message, thread' = Append(thread, m)
      PROVE  \A n, p : Posted(n, p) => Posted(n, p)'
    BY <1>2, Grows DEF Posted, Typed, SlackOK
<1>3. \/ thread' = thread
      \/ \E m \in Message : thread' = Append(thread, m)
    BY Messages DEF SlackMoves, Typed, SlackOK
<1>4. \A n, p : Posted(n, p) => Posted(n, p)'
    <2>1. CASE thread' = thread
        BY <2>1 DEF Posted
    <2>2. QED
        BY <1>2, <1>3, <2>1
<1>5. QED
    BY <1>4, SameKinds DEF Whole

\* Messages stay parts of their notices.
LEMMA PostsStep ==
    ASSUME Typed, Held, Posts, SlackMoves, kind' = kind
    PROVE  Posts'
<1>1. \A n : PartCount(n)' = PartCount(n)
    BY SameKinds
<1>2. w.pc # "idle" => /\ ThisPart.n = w.n /\ ThisPart.part \in 1 .. PartCount(w.n)
                       /\ 0 <= PartCount(w.n)
    BY PartCountPositive, NumbersAssumption DEF Held, ThisPart
<1>3. \A m \in flight' : m.part \in 1 .. PartCount(m.n)
    BY <1>2 DEF SlackMoves, Posts
<1>4. ASSUME NEW m \in Message, thread' = Append(thread, m), m.part <= PartCount(m.n)
      PROVE  \A i \in DOMAIN thread' : thread'[i].part <= PartCount(thread'[i].n)
    BY <1>4, Grows DEF Posts, Typed, SlackOK
<1>5. \/ thread' = thread
      \/ \E m \in Message : thread' = Append(thread, m) /\ m.part <= PartCount(m.n)
    <2>1. CASE thread' = thread
        BY <2>1
    <2>2. CASE w.pc = "post" /\ thread' = Append(thread, ThisPart)
        BY <1>2, <2>2, Messages, PartCountPositive, NumbersAssumption DEF Held
    <2>3. CASE w.pc = "complete" /\ thread' = Append(thread, [n |-> w.n, part |-> 0])
        BY <1>2, <2>3, Messages
    <2>4. ASSUME NEW m \in flight, thread' = Append(thread, m)
          PROVE  \E k \in Message : thread' = Append(thread, k) /\ k.part <= PartCount(k.n)
        <3>1. m \in Message /\ m.part <= PartCount(m.n)
            BY PartCountPositive, NumbersAssumption DEF Posts, Message, Typed, SlackOK
        <3>2. QED
            BY <2>4, <3>1
    <2>5. QED
        BY <2>1, <2>2, <2>3, <2>4 DEF SlackMoves
<1>6. \A i \in DOMAIN thread' : thread'[i].part <= PartCount(thread'[i].n)
    BY <1>4, <1>5 DEF Posts
<1>7. QED
    BY <1>1, <1>3, <1>6 DEF Posts

\* However a step goes on or fails, the worker's place tells what it posted.
LEMMA PostingMoves ==
    ASSUME Typed, Held, Posting, SlackMoves, kind' = kind
    PROVE  /\ w' = w => Posting'
           /\ w' = Idle => Posting'
           /\ w.pc # "idle" =>
                 /\ \A code, amb, retry : FailWith(code, amb, retry) => Posting'
                 /\ \A pc :
                       /\ Goto(pc)
                       /\ w.pc \notin {"post", "mark_published", "fail", "fallback"}
                          \/ pc = "fallback"
                       /\ pc = "mark_published" => Whole(w.n)
                       => Posting'
<1>1. /\ \A n, p : Posted(n, p) => Posted(n, p)'
      /\ \A n : Whole(n) => Whole(n)'
    BY PostedStays
<1>2. CASE w' = w
    <2>1. ASSUME NEW n, n = w.n, NEW p \in 1 .. (w.part - 1), w.pc = "post"
          PROVE  Posted(n, p)'
        BY <1>1, <2>1 DEF Posting
    <2>2. ASSUME NEW n, n = w.n, w.pc = "mark_published"
          PROVE  Whole(n)'
        BY <1>1, <2>2 DEF Posting
    <2>3. QED
        BY <1>2, <2>1, <2>2 DEF Posting
<1>3. CASE w' = Idle
    BY <1>3 DEF Posting, Idle
<1>4. ASSUME NEW code, NEW amb, NEW retry, FailWith(code, amb, retry)
      PROVE  Posting'
    <2>1. w'.pc = "fail"
        BY <1>4 DEF FailWith, Typed, WorkerOK, Worker
    <2>2. QED
        BY <2>1 DEF Posting
<1>5. ASSUME w.pc # "idle", NEW pc, Goto(pc),
             w.pc \notin {"post", "mark_published", "fail", "fallback"} \/ pc = "fallback",
             pc = "mark_published" => Whole(w.n)
      PROVE  Posting'
    <2>1. /\ w'.pc = pc /\ w'.n = w.n /\ w'.part = w.part
        BY <1>5 DEF Goto, Typed, WorkerOK, Worker
    <2>2. CASE pc = "fallback"
        BY <2>1, <2>2 DEF Posting
    <2>3. CASE pc # "fallback"
        <3>1. w.part = 1 /\ w.part - 1 = 0
            BY <1>5, <2>3 DEF Posting
        <3>2. ASSUME NEW n, n = w.n, pc = "mark_published"
              PROVE  Whole(n)'
            BY <1>1, <1>5, <3>2
        <3>3. QED
            BY <2>1, <3>1, <3>2 DEF Posting
    <2>4. QED
        BY <2>2, <2>3
<1>6. QED
    BY <1>2, <1>3, <1>4, <1>5

\* Every step keeps what the worker's place tells of what it posted.
LEMMA PostingStep ==
    ASSUME Typed, Held, Posts, Posting, Next
    PROVE  Posting'
<1>1. ASSUME NEW n \in Notice, Enqueue(n)
      PROVE  Posting'
    BY <1>1, PostingMoves, SlackMovesSo, KindIsKept DEF Enqueue
<1>2. ASSUME NEW n \in Notice, Claim(n)
      PROVE  Posting'
    <2>1. w'.part = 1 /\ w'.pc \in {"lookup", "verify"}
        BY <1>2 DEF Claim, Idle
    <2>2. QED
        BY <2>1 DEF Posting
<1>3. CASE LookupWithoutFile
    BY <1>3, PostingMoves, SlackMovesSo, KindIsKept DEF LookupWithoutFile, At
<1>4. ASSUME NEW n \in Notice, LookupFails(n)
      PROVE  Posting'
    BY <1>4, PostingMoves, SlackMovesSo, KindIsKept DEF LookupFails, At, LooksUp
<1>5. ASSUME NEW n \in Notice, LookupRefuses(n)
      PROVE  Posting'
    BY <1>5, PostingMoves, SlackMovesSo, KindIsKept DEF LookupRefuses, At, LooksUp
<1>6. ASSUME NEW n \in Notice, LookupAnswers(n)
      PROVE  Posting'
    <2>1. w.pc = "lookup" /\ n = w.n
        BY <1>6 DEF LookupAnswers, LooksUp, At
    <2>2. CASE Goto("mark_published") /\ ReadsMessages(n) /\ PostsSeen(n) # {}
        <3>1. PartsSeen(n) = 1 .. PartCount(n)
            BY <1>6, <2>2 DEF LookupAnswers, PostsInconsistent, PartsSeen
        <3>2. Whole(n)
            BY <3>1 DEF Whole, Posted, PartsSeen, PostsSeen, Seen
        <3>3. QED
            BY <2>1, <2>2, <3>2, PostingMoves, SlackMovesSo, KindIsKept
    <2>3. CASE Goto("verify")
        BY <2>1, <2>3, PostingMoves, SlackMovesSo, KindIsKept
    <2>4. QED
        BY <1>6, <2>2, <2>3 DEF LookupAnswers
<1>7. CASE Verify
    BY <1>7, PostingMoves, SlackMovesSo, KindIsKept DEF Verify, At
<1>8. CASE ResumeFile
    BY <1>8, PostingMoves, SlackMovesSo, KindIsKept DEF ResumeFile, At
<1>9. CASE Inspect
    BY <1>9, PostingMoves, SlackMovesSo, KindIsKept DEF Inspect, At
<1>10. CASE RequestURL
    BY <1>10, PostingMoves, SlackMovesSo, KindIsKept DEF RequestURL, At
<1>11. CASE MarkFile
    <2>1. CASE w' = [w EXCEPT !.pc = "upload", !.file = TRUE]
        <3>1. w'.pc = "upload" /\ w'.part = 1
            BY <1>11, <2>1 DEF MarkFile, At, Posting, Typed, WorkerOK, Worker
        <3>2. QED
            BY <3>1 DEF Posting
    <2>2. QED
        BY <1>11, <2>1, PostingMoves, SlackMovesSo, KindIsKept DEF MarkFile, At
<1>12. CASE UploadBytes
    BY <1>12, PostingMoves, SlackMovesSo, KindIsKept DEF UploadBytes, At
<1>13. CASE MarkBytes
    BY <1>13, PostingMoves, SlackMovesSo, KindIsKept DEF MarkBytes, At
<1>14. CASE CompleteUpload
    BY <1>14, PostingMoves, SlackMovesSo, KindIsKept DEF CompleteUpload, At
<1>15. CASE MarkCompleted
    BY <1>15, PostingMoves, SlackMovesSo, KindIsKept DEF MarkCompleted, At
<1>16. CASE Post
    <2>1. /\ w.pc = "post" /\ thread' = Append(thread, ThisPart) /\ kind' = kind
          /\ w.n \in Notice /\ w.part \in 1 .. PartCount(w.n)
          /\ PartCount(w.n) \in Nat
        BY <1>16, KindIsKept, PartCountPositive, NumbersAssumption DEF Post, At, Held
    <2>2. PICK n \in Notice : n = w.n
        BY <2>1
    <2>3. \A p \in 1 .. w.part : Posted(n, p)'
        <3>1. PICK p \in 1 .. PartCount(n) : p = w.part
            BY <2>1, <2>2
        <3>2. Posted(n, p)'
            BY <2>1, <2>2, <3>1, Messages, Grows, SMTT(60) DEF Posted, ThisPart, Typed, SlackOK
        <3>3. \A q \in 1 .. (w.part - 1) : Posted(n, q)'
            BY <2>1, <2>2, PostedStays, SlackMovesSo DEF Posting
        <3>4. QED
            BY <2>1, <2>2, <3>1, <3>2, <3>3
    <2>4. CASE LastPart(w.part) /\ w' = [w EXCEPT !.pc = "mark_published"]
        <3>1. w'.pc = "mark_published" /\ w'.n = n
            BY <2>2, <2>4 DEF Typed, WorkerOK, Worker
        <3>2. Whole(n)'
            BY <2>1, <2>2, <2>3, <2>4, SameKinds DEF Whole, LastPart
        <3>3. QED
            BY <3>1, <3>2 DEF Posting
    <2>5. CASE w' = [w EXCEPT !.part = @ + 1]
        <3>1. w'.pc = "post" /\ w'.n = n /\ w'.part - 1 = w.part
            BY <2>1, <2>2, <2>5 DEF Typed, WorkerOK, Worker
        <3>2. QED
            BY <2>3, <3>1 DEF Posting
    <2>6. QED
        BY <1>16, <2>4, <2>5 DEF Post
<1>17. CASE PostFails
    BY <1>17, PostingMoves, SlackMovesSo, KindIsKept DEF PostFails, At
<1>18. CASE PostRefused
    BY <1>18, PostingMoves, SlackMovesSo, KindIsKept DEF PostRefused, At
<1>19. CASE MarkPublished
    BY <1>19 DEF MarkPublished, Posting, Idle
<1>20. CASE MarkPublishedFails
    BY <1>20, PostingMoves, SlackMovesSo, KindIsKept DEF MarkPublishedFails, At
<1>21. CASE RecordRetry
    BY <1>21 DEF RecordRetry, Posting, Idle
<1>22. CASE RecordRetryFails
    BY <1>22, PostingMoves, SlackMovesSo, KindIsKept DEF RecordRetryFails, At
<1>23. CASE RecordUnknown
    BY <1>23 DEF RecordUnknown, Posting, Idle
<1>24. CASE RecordUnknownFails
    BY <1>24, PostingMoves, SlackMovesSo, KindIsKept DEF RecordUnknownFails,
           RecordsUnknown, At
<1>25. ASSUME NEW m \in flight, Land(m)
      PROVE  Posting'
    BY <1>25, PostingMoves, SlackMovesSo, KindIsKept DEF Land, At
<1>26. CASE CloseChannel \/ StopAdmission \/ CancelContext \/ Restart \/ Crash
         \/ Exit
    BY <1>26, PostingMoves, SlackMovesSo, KindIsKept DEF CloseChannel, StopAdmission,
           CancelContext, Restart, Crash, Exit, ProcessEnds, outbox, slack
<1>27. QED
    BY <1>1, <1>2, <1>3, <1>4, <1>5, <1>6, <1>7, <1>8, <1>9, <1>10, <1>11, <1>12,
           <1>13, <1>14, <1>15, <1>16, <1>17, <1>18, <1>19, <1>20, <1>21, <1>22, <1>23,
           <1>24, <1>25, <1>26, Steps

\* A row becomes published, and a notice activates the root, in one transaction.
Publishes ==
    \A n \in Notice :
        /\ row'[n].state = "published" =>
              \/ row'[n] = row[n]
              \/ /\ w.pc = "mark_published" /\ n = w.n
                 /\ UploadAccepted(n) /\ row'[n].upload = row[n].upload
        /\ n \in activation' => n \in activation \/ row'[n].state = "published"

\* The worker changes its own row, other than to publish it.
LEMMA OwnRowPublishes ==
    ASSUME Typed, Held, w.pc # "idle", activation' = activation,
           \A n \in Notice \ {w.n} : row'[n] = row[n],
           row'[w.n].state # "published"
    PROVE  Publishes
BY DEF Publishes, Held

\* Only MarkPublished publishes a row or activates the root.
LEMMA PublishesSo ==
    ASSUME Typed, Held, Next
    PROVE  Publishes
<1>1. ASSUME NEW n \in Notice, Enqueue(n)
      PROVE  Publishes
    BY <1>1 DEF Enqueue, Publishes, Typed, RowsOK, Enqueued, Absent
<1>2. ASSUME NEW n \in Notice, Claim(n)
      PROVE  Publishes
    BY <1>2 DEF Claim, Publishes, Typed, RowsOK, Row
<1>3. CASE LookupWithoutFile
    BY <1>3 DEF LookupWithoutFile, outbox, Publishes
<1>4. ASSUME NEW n \in Notice, LookupFails(n)
      PROVE  Publishes
    BY <1>4 DEF LookupFails, outbox, Publishes
<1>5. ASSUME NEW n \in Notice, LookupRefuses(n)
      PROVE  Publishes
    BY <1>5 DEF LookupRefuses, outbox, Publishes
<1>6. ASSUME NEW n \in Notice, LookupAnswers(n)
      PROVE  Publishes
    BY <1>6 DEF LookupAnswers, outbox, Publishes
<1>7. CASE Verify
    BY <1>7 DEF Verify, outbox, Publishes
<1>8. CASE ResumeFile
    BY <1>8 DEF ResumeFile, outbox, Publishes
<1>9. CASE Inspect
    BY <1>9 DEF Inspect, outbox, Publishes
<1>10. CASE RequestURL
    BY <1>10 DEF RequestURL, outbox, Publishes
<1>11. CASE MarkFile
    <2>1. /\ w.pc # "idle" /\ w.n \in Notice /\ activation' = activation
          /\ row[w.n].state = "publishing"
          /\ \A n \in Notice \ {w.n} : row'[n] = row[n]
        BY <1>11 DEF MarkFile, At, SetUpload, Typed, RowsOK, Held
    <2>2. row' = row \/ row'[w.n].state = row[w.n].state
        <3>1. ASSUME row' = [row EXCEPT ![w.n].file = TRUE, ![w.n].upload = "url_requested"]
              PROVE  row'[w.n].state = row[w.n].state
            BY <2>1, <3>1 DEF Typed, RowsOK, Row
        <3>2. QED
            BY <1>11, <3>1 DEF MarkFile
    <2>3. QED
        BY <2>1, <2>2, OwnRowPublishes
<1>12. CASE UploadBytes
    BY <1>12 DEF UploadBytes, outbox, Publishes
<1>13. CASE MarkBytes
    <2>1. /\ w.pc # "idle" /\ w.n \in Notice /\ activation' = activation
          /\ row[w.n].state = "publishing"
          /\ \A n \in Notice \ {w.n} : row'[n] = row[n]
        BY <1>13 DEF MarkBytes, At, SetUpload, Typed, RowsOK, Held
    <2>2. row' = row \/ row'[w.n].state = row[w.n].state
        BY <1>13, <2>1, ZenonT(60) DEF MarkBytes, SetUpload, Typed, RowsOK, Row
    <2>3. QED
        BY <2>1, <2>2, OwnRowPublishes
<1>14. CASE CompleteUpload
    BY <1>14 DEF CompleteUpload, outbox, Publishes
<1>15. CASE MarkCompleted
    <2>1. /\ w.pc # "idle" /\ w.n \in Notice /\ activation' = activation
          /\ row[w.n].state = "publishing"
          /\ \A n \in Notice \ {w.n} : row'[n] = row[n]
        BY <1>15 DEF MarkCompleted, At, SetUpload, Typed, RowsOK, Held
    <2>2. row' = row \/ row'[w.n].state = row[w.n].state
        BY <1>15, <2>1, ZenonT(60) DEF MarkCompleted, SetUpload, Typed, RowsOK, Row
    <2>3. QED
        BY <2>1, <2>2, OwnRowPublishes
<1>16. CASE Post
    BY <1>16 DEF Post, outbox, Publishes
<1>17. CASE PostFails
    BY <1>17 DEF PostFails, outbox, Publishes
<1>18. CASE PostRefused
    BY <1>18 DEF PostRefused, outbox, Publishes
<1>19. CASE MarkPublished
    <2>1. w.pc = "mark_published" /\ UploadAccepted(w.n) /\ w.n \in Notice
        BY <1>19 DEF MarkPublished, At, Held
    <2>2. /\ row'[w.n].upload = row[w.n].upload /\ row'[w.n].state = "published"
          /\ \A n \in Notice \ {w.n} : row'[n] = row[n]
          /\ activation' \subseteq activation \cup {w.n}
        BY <1>19, <2>1 DEF MarkPublished, Typed, RowsOK, Row
    <2>3. QED
        BY <2>1, <2>2 DEF Publishes
<1>20. CASE MarkPublishedFails
    BY <1>20 DEF MarkPublishedFails, outbox, Publishes
<1>21. CASE RecordRetry
    <2>1. /\ w.pc # "idle" /\ w.n \in Notice /\ activation' = activation
          /\ row[w.n].state = "publishing"
          /\ \A n \in Notice \ {w.n} : row'[n] = row[n]
        BY <1>21 DEF RecordRetry, At, SetUpload, Typed, RowsOK, Held
    <2>2. row' = row \/ row'[w.n].state = "pending"
        BY <1>21, <2>1 DEF RecordRetry, SetUpload, Typed, RowsOK, Row
    <2>3. QED
        BY <2>1, <2>2, OwnRowPublishes
<1>22. CASE RecordRetryFails
    BY <1>22 DEF RecordRetryFails, outbox, Publishes
<1>23. CASE RecordUnknown
    <2> DEFINE rows == [row EXCEPT ![w.n].state = "unknown", ![w.n].code = FinalCode,
                             ![w.n].upload = IF InFile(w.n) THEN "unknown" ELSE @]
    <2>1. /\ row' = WithFailureNotice(rows, w.n) /\ w.pc # "idle"
          /\ activation' = activation
        BY <1>23 DEF RecordUnknown, RecordsUnknown, At
    <2>2. /\ w.n \in Notice /\ FailureOf(w.n) \in Notice /\ rows[w.n].state = "unknown"
          /\ DOMAIN rows = Notice
          /\ \A n \in Notice \ {w.n} : rows[n] = row[n]
        BY <2>1, FailureIsNotice DEF Held, Typed, RowsOK, Row
    <2> HIDE DEF rows
    <2>3. Enqueued(FailureOf(w.n)).state = "pending"
        BY DEF Enqueued, Absent
    <2>4. QED
        BY <2>1, <2>2, <2>3 DEF Publishes, WithFailureNotice
<1>24. CASE RecordUnknownFails
    BY <1>24 DEF RecordUnknownFails, outbox, Publishes
<1>25. ASSUME NEW m \in flight, Land(m)
      PROVE  Publishes
    BY <1>25 DEF Land, outbox, Publishes
<1>26. CASE CloseChannel \/ StopAdmission \/ CancelContext \/ Restart \/ Crash
         \/ Exit
    BY <1>26 DEF CloseChannel, StopAdmission, CancelContext, Restart, Crash, Exit,
           ProcessEnds, outbox, Publishes
<1>27. QED
    BY <1>1, <1>2, <1>3, <1>4, <1>5, <1>6, <1>7, <1>8, <1>9, <1>10, <1>11, <1>12,
           <1>13, <1>14, <1>15, <1>16, <1>17, <1>18, <1>19, <1>20, <1>21, <1>22, <1>23,
           <1>24, <1>25, <1>26, Steps

\* A published notice was posted as a whole, and stays so.
LEMMA OutcomeStep ==
    ASSUME Typed, Held, Posting, Outcome, Next
    PROVE  Outcome'
<1>1. kind' = kind /\ RowsMove /\ Publishes /\ \A n : Whole(n) => Whole(n)'
    BY KindIsKept, RowsMoveSo, PublishesSo, SlackMovesSo, PostedStays
<1>2. ASSUME NEW n \in Notice, n \in activation'
      PROVE  row'[n].state = "published"
    <2>1. CASE n \in activation
        BY <1>1, <2>1, SettledRowsStay DEF Outcome, Settled
    <2>2. QED
        BY <1>1, <1>2, <2>1 DEF Publishes
<1>3. ASSUME NEW n \in Notice, row'[n].state = "published"
      PROVE  Whole(n)' /\ (InFile(n)' => row'[n].upload = "completed")
    <2>1. CASE row'[n] = row[n]
        BY <1>1, <1>3, <2>1, SameKinds DEF Outcome
    <2>2. CASE /\ w.pc = "mark_published" /\ n = w.n
               /\ UploadAccepted(n) /\ row'[n].upload = row[n].upload
        BY <1>1, <2>2, SameKinds DEF Posting, UploadAccepted
    <2>3. QED
        BY <1>1, <1>3, <2>1, <2>2 DEF Publishes
<1>4. QED
    BY <1>2, <1>3 DEF Outcome

\* All parts and no others are in the conversation.
LEMMA WholeIsDelivered ==
    ASSUME Typed, Posts, NEW n \in Notice, Whole(n)
    PROVE  Delivered(n)
<1>1. PartCount(n) \in 1 .. Parts
    BY PartCountPositive
<1>2. \A i \in PositionsOf(n) : thread[i].part \in 1 .. PartCount(n)
    <2>1. TAKE i \in PositionsOf(n)
    <2>2. i \in DOMAIN thread /\ thread[i].n = n /\ thread[i].part > 0
        BY DEF PositionsOf
    <2>3. thread[i].part \in Nat /\ thread[i].part <= PartCount(n)
        <3>1. thread[i] \in Message
            BY <2>2 DEF Typed, SlackOK
        <3>2. QED
            BY <2>2, <3>1, NumbersAssumption DEF Posts, Message
    <2>4. QED
        BY <1>1, <2>2, <2>3, NumbersAssumption
<1>3. ASSUME NEW p \in 1 .. PartCount(n)
      PROVE  \E i \in PositionsOf(n) : thread[i].part = p
    BY <1>1, NumbersAssumption DEF Whole, Posted, PositionsOf
<1>4. QED
    BY <1>2, <1>3 DEF Delivered

-----------------------------------------------------------------------------
(* The order of the messages.                                              *)

\* Nothing of the notice was posted or may still appear.
Clean(n) == PositionsOf(n) = {} /\ \A m \in flight : m.n # n

InSequence(n) ==
    /\ \A i, k \in PositionsOf(n) : i < k => thread[i].part < thread[k].part
    /\ \A m \in flight : m.n = n => \A i \in PositionsOf(n) : thread[i].part < m.part
    /\ \A m, k \in flight : m.n = n /\ k.n = n => m = k

\* Nothing was posted where a row can be claimed and posted without a lookup
\* of the messages.
CleanWhereDue(n) ==
    /\ row[n].state = "absent" => Clean(n)
    /\ row[n].state = "pending" /\ Claimable(n) /\ ~NeedsReconciliation(n) => Clean(n)
    /\ InFile(n) /\ row[n].upload \notin {"unknown", "completed"} => Clean(n)

Order == \A n \in Notice \ missed : InSequence(n) /\ CleanWhereDue(n)

LookedUp  == {"publish_ambiguous", "upload_unknown"} \cup Undeliverable
BeforePost == {"verify"} \cup FileSteps

\* Before it posts, the worker's notice was not posted; while it posts, only the
\* parts before the present one were; and a retry of what was posted is recorded
\* with a code that asks for a lookup.
Attempt ==
    w.pc # "idle" /\ w.n \notin missed =>
        /\ w.pc \in BeforePost => Clean(w.n)
        /\ w.pc = "post" =>
              /\ \A m \in flight : m.n # w.n
              /\ \A i \in PositionsOf(w.n) : thread[i].part < w.part
              /\ InFile(w.n) => row[w.n].upload = "completed"
        /\ w.pc = "fail" /\ w.retry => Clean(w.n) \/ w.code \in LookedUp

\* The positions of a notice in a longer conversation.
LEMMA PositionsGrow ==
    ASSUME thread \in Seq(Message), NEW m \in Message, thread' = Append(thread, m), NEW n
    PROVE  /\ PositionsOf(n)' \subseteq PositionsOf(n) \cup {Len(thread) + 1}
           /\ Len(thread) + 1 \in PositionsOf(n)' => m.n = n /\ m.part > 0
           /\ thread'[Len(thread) + 1] = m
           /\ \A i \in PositionsOf(n) : /\ thread'[i] = thread[i]
                                        /\ i \in Nat /\ i < Len(thread) + 1
BY Grows DEF PositionsOf

\* Messages in the conversation and in flight have part numbers.
LEMMA PartsAreNumbers ==
    ASSUME Typed
    PROVE  /\ \A i \in DOMAIN thread : thread[i] \in Message /\ thread[i].part \in Nat
           /\ \A m \in flight : m \in Message /\ m.part \in Nat
<1>1. \A m \in Message : m.part \in Nat
    BY NumbersAssumption DEF Message
<1>2. QED
    BY <1>1 DEF Typed, SlackOK

\* Only the post of the notice itself spoils a clean notice.
LEMMA CleanStays ==
    ASSUME Typed, Held, SlackMoves, NEW n, Clean(n), ~(w.pc = "post" /\ w.n = n)
    PROVE  Clean(n)'
<1>1. CASE thread' = thread /\ flight' = flight
    BY <1>1 DEF Clean, PositionsOf
<1>2. CASE w.pc = "post" /\ thread' = thread /\ flight' = flight \cup {ThisPart}
    BY <1>2 DEF Clean, PositionsOf, ThisPart
<1>3. ASSUME NEW m \in Message, thread' = Append(thread, m), m.n # n \/ ~(m.part > 0),
             flight' \subseteq flight
      PROVE  Clean(n)'
    BY <1>3, PositionsGrow DEF Clean, Typed, SlackOK
<1>4. CASE w.pc = "post" /\ thread' = Append(thread, ThisPart) /\ flight' = flight
    BY <1>3, <1>4, Messages DEF ThisPart
<1>5. CASE /\ w.pc = "complete" /\ thread' = Append(thread, [n |-> w.n, part |-> 0])
           /\ flight' = flight
    BY <1>3, <1>5, Messages
<1>6. CASE \E m \in flight : thread' = Append(thread, m) /\ flight' = flight \ {m}
    BY <1>3, <1>6, PartsAreNumbers DEF Clean
<1>7. QED
    BY <1>1, <1>2, <1>4, <1>5, <1>6 DEF SlackMoves

\* The order of a notice's messages survives every step that posts the next part.
LEMMA SequenceStays ==
    ASSUME Typed, Held, SlackMoves, NEW n, InSequence(n),
           w.pc = "post" /\ w.n = n =>
               /\ \A m \in flight : m.n # n
               /\ \A i \in PositionsOf(n) : thread[i].part < w.part
    PROVE  InSequence(n)'
<1>1. CASE thread' = thread /\ flight' = flight
    BY <1>1 DEF InSequence, PositionsOf
<1>2. CASE w.pc = "post" /\ thread' = thread /\ flight' = flight \cup {ThisPart}
    <2>1. PositionsOf(n)' = PositionsOf(n)
        BY <1>2 DEF PositionsOf
    <2>2. ThisPart.n = w.n /\ ThisPart.part = w.part
        BY DEF ThisPart
    <2>3. QED
        BY <1>2, <2>1, <2>2 DEF InSequence
<1>3. ASSUME NEW m \in Message, thread' = Append(thread, m), flight' \subseteq flight,
             m.n = n /\ m.part > 0 =>
                 /\ \A i \in PositionsOf(n) : thread[i].part < m.part
                 /\ \A k \in flight' : k.n # n
      PROVE  InSequence(n)'
    <2> DEFINE last == Len(thread) + 1
    <2>1. /\ PositionsOf(n)' \subseteq PositionsOf(n) \cup {last}
          /\ last \in PositionsOf(n)' => m.n = n /\ m.part > 0
          /\ thread'[last] = m
          /\ \A i \in PositionsOf(n) : thread'[i] = thread[i] /\ i \in Nat /\ i < last
        BY <1>3, PositionsGrow DEF Typed, SlackOK
    <2>2. last \in Nat
        BY LenProperties DEF Typed, SlackOK
    <2> HIDE DEF last
    <2>3. ASSUME NEW i \in PositionsOf(n)', NEW k \in PositionsOf(n)', i < k
          PROVE  thread'[i].part < thread'[k].part
        <3>1. CASE k = last
            <4>1. i # last
                BY <2>2, <2>3, <3>1
            <4>2. i \in PositionsOf(n) /\ m.n = n /\ m.part > 0
                BY <2>1, <3>1, <4>1
            <4>3. QED
                BY <1>3, <2>1, <3>1, <4>2
        <3>2. CASE k # last
            <4>1. i # last
                BY <2>1, <2>2, <2>3, <3>2
            <4>2. QED
                BY <2>1, <2>3, <3>2, <4>1 DEF InSequence
        <3>3. QED
            BY <3>1, <3>2
    <2>4. ASSUME NEW k \in flight', k.n = n, NEW i \in PositionsOf(n)'
          PROVE  thread'[i].part < k.part
        BY <1>3, <2>1, <2>4 DEF InSequence
    <2>5. \A k, l \in flight' : k.n = n /\ l.n = n => k = l
        BY <1>3 DEF InSequence
    <2>6. QED
        BY <2>3, <2>4, <2>5 DEF InSequence
<1>4. CASE w.pc = "post" /\ thread' = Append(thread, ThisPart) /\ flight' = flight
    <2>1. ThisPart \in Message /\ ThisPart.n = w.n /\ ThisPart.part = w.part
        BY <1>4, Messages DEF ThisPart
    <2>2. QED
        BY <1>3, <1>4, <2>1
<1>5. CASE /\ w.pc = "complete" /\ thread' = Append(thread, [n |-> w.n, part |-> 0])
           /\ flight' = flight
    BY <1>3, <1>5, Messages
<1>6. ASSUME NEW m \in flight, thread' = Append(thread, m), flight' = flight \ {m}
      PROVE  InSequence(n)'
    <2>1. m \in Message
        BY PartsAreNumbers
    <2>2. m.n = n => /\ \A i \in PositionsOf(n) : thread[i].part < m.part
                     /\ \A k \in flight' : k.n # n
        BY <1>6 DEF InSequence
    <2>3. QED
        BY <1>3, <1>6, <2>1, <2>2
<1>7. QED
    BY <1>1, <1>2, <1>4, <1>5, <1>6 DEF SlackMoves

\* How a row becomes one that may be posted without a lookup.
RowsTell ==
    \A n \in Notice :
        /\ row'[n].state = "pending" =>
              \/ row'[n] = row[n]
              \/ row[n].state = "absent"
              \/ w.pc = "fail" /\ w.retry /\ n = w.n /\ row'[n].code = w.code
        /\ InFile(n) /\ row'[n].upload \notin {"unknown", "completed"} =>
              \/ row'[n].upload = row[n].upload
              \/ row[n].state = "absent"
              \/ w.pc \in FileSteps /\ n = w.n

\* The worker changes its own row.
LEMMA OwnRowTells ==
    ASSUME Typed, Held, w.pc # "idle",
           \A n \in Notice \ {w.n} : row'[n] = row[n],
           row'[w.n].state = "pending" =>
               w.pc = "fail" /\ w.retry /\ row'[w.n].code = w.code,
           \/ row'[w.n].upload = row[w.n].upload
           \/ row'[w.n].upload \in {"unknown", "completed"}
           \/ w.pc \in FileSteps
    PROVE  RowsTell
BY DEF RowsTell, Held

\* Every step changes the rows so.
LEMMA RowsTellSo ==
    ASSUME Typed, Held, Next
    PROVE  RowsTell
<1>1. ASSUME NEW n \in Notice, Enqueue(n)
      PROVE  RowsTell
    BY <1>1 DEF Enqueue, RowsTell, Typed, RowsOK
<1>2. ASSUME NEW n \in Notice, Claim(n)
      PROVE  RowsTell
    BY <1>2 DEF Claim, RowsTell, Typed, RowsOK, Row
<1>3. CASE LookupWithoutFile
    BY <1>3 DEF LookupWithoutFile, outbox, RowsTell
<1>4. ASSUME NEW n \in Notice, LookupFails(n)
      PROVE  RowsTell
    BY <1>4 DEF LookupFails, outbox, RowsTell
<1>5. ASSUME NEW n \in Notice, LookupRefuses(n)
      PROVE  RowsTell
    BY <1>5 DEF LookupRefuses, outbox, RowsTell
<1>6. ASSUME NEW n \in Notice, LookupAnswers(n)
      PROVE  RowsTell
    BY <1>6 DEF LookupAnswers, outbox, RowsTell
<1>7. CASE Verify
    BY <1>7 DEF Verify, outbox, RowsTell
<1>8. CASE ResumeFile
    BY <1>8 DEF ResumeFile, outbox, RowsTell
<1>9. CASE Inspect
    BY <1>9 DEF Inspect, outbox, RowsTell
<1>10. CASE RequestURL
    BY <1>10 DEF RequestURL, outbox, RowsTell
<1>11. CASE MarkFile
    <2>1. /\ w.pc \in FileSteps \cup {"idle"} /\ w.pc # "idle" /\ w.n \in Notice
          /\ row[w.n].state = "publishing"
          /\ \A n \in Notice \ {w.n} : row'[n] = row[n]
        BY <1>11 DEF MarkFile, At, SetUpload, Typed, RowsOK, Held, FileSteps
    <2>2. ASSUME row' = [row EXCEPT ![w.n].file = TRUE, ![w.n].upload = "url_requested"]
          PROVE  row'[w.n].state = row[w.n].state
        BY <2>1, <2>2 DEF SetUpload, Typed, RowsOK, Row
    <2>3. row'[w.n].state = "publishing"
        BY <1>11, <2>1, <2>2 DEF MarkFile
    <2>4. QED
        BY <2>1, <2>3, OwnRowTells
<1>12. CASE UploadBytes
    BY <1>12 DEF UploadBytes, outbox, RowsTell
<1>13. CASE MarkBytes
    <2>1. /\ w.pc \in FileSteps \cup {"idle"} /\ w.pc # "idle" /\ w.n \in Notice
          /\ row[w.n].state = "publishing"
          /\ \A n \in Notice \ {w.n} : row'[n] = row[n]
        BY <1>13 DEF MarkBytes, At, SetUpload, Typed, RowsOK, Held, FileSteps
    <2>2. ASSUME SetUpload("bytes_uploaded")
          PROVE  row'[w.n].state = row[w.n].state
        BY <2>1, <2>2 DEF SetUpload, Typed, RowsOK, Row
    <2>3. row'[w.n].state = "publishing"
        BY <1>13, <2>1, <2>2 DEF MarkBytes
    <2>4. QED
        BY <2>1, <2>3, OwnRowTells
<1>14. CASE CompleteUpload
    BY <1>14 DEF CompleteUpload, outbox, RowsTell
<1>15. CASE MarkCompleted
    <2>1. /\ w.pc \in FileSteps \cup {"idle"} /\ w.pc # "idle" /\ w.n \in Notice
          /\ row[w.n].state = "publishing"
          /\ \A n \in Notice \ {w.n} : row'[n] = row[n]
        BY <1>15 DEF MarkCompleted, At, SetUpload, Typed, RowsOK, Held, FileSteps
    <2>2. ASSUME SetUpload("completed")
          PROVE  row'[w.n].state = row[w.n].state
        BY <2>1, <2>2 DEF SetUpload, Typed, RowsOK, Row
    <2>3. row'[w.n].state = "publishing"
        BY <1>15, <2>1, <2>2 DEF MarkCompleted
    <2>4. QED
        BY <2>1, <2>3, OwnRowTells
<1>16. CASE Post
    BY <1>16 DEF Post, outbox, RowsTell
<1>17. CASE PostFails
    BY <1>17 DEF PostFails, outbox, RowsTell
<1>18. CASE PostRefused
    BY <1>18 DEF PostRefused, outbox, RowsTell
<1>19. CASE MarkPublished
    <2>1. /\ w.pc # "idle" /\ w.n \in Notice
          /\ \A n \in Notice \ {w.n} : row'[n] = row[n]
        BY <1>19 DEF MarkPublished, At, Typed, RowsOK, Held
    <2>2. row'[w.n].state = "published" /\ row'[w.n].upload = row[w.n].upload
        <3>1. row' = [row EXCEPT ![w.n].state = "published", ![w.n].code = ""]
            BY <1>19 DEF MarkPublished
        <3>2. row[w.n] \in Row
            BY <2>1 DEF Typed, RowsOK
        <3>3. row'[w.n] = [row[w.n] EXCEPT !.state = "published", !.code = ""]
            BY <2>1, <3>1 DEF Typed, RowsOK
        <3>4. QED
            BY <3>2, <3>3 DEF Row
    <2>3. QED
        BY <2>1, <2>2, OwnRowTells
<1>20. CASE MarkPublishedFails
    BY <1>20 DEF MarkPublishedFails, outbox, RowsTell
<1>21. CASE RecordRetry
    <2>1. /\ w.pc = "fail" /\ w.retry /\ w.n \in Notice
          /\ \A n \in Notice \ {w.n} : row'[n] = row[n]
        BY <1>21 DEF RecordRetry, At, CanRetry, Typed, RowsOK, Held
    <2>2. row'[w.n].upload \in {row[w.n].upload, "unknown"} /\ row'[w.n].code = w.code
        BY <1>21, <2>1 DEF RecordRetry, Typed, RowsOK, Row
    <2>3. QED
        BY <2>1, <2>2, OwnRowTells
<1>22. CASE RecordRetryFails
    BY <1>22 DEF RecordRetryFails, outbox, RowsTell
<1>23. CASE RecordUnknown
    <2> DEFINE rows == [row EXCEPT ![w.n].state = "unknown", ![w.n].code = FinalCode,
                             ![w.n].upload = IF InFile(w.n) THEN "unknown" ELSE @]
    <2>1. row' = WithFailureNotice(rows, w.n) /\ w.pc # "idle"
        BY <1>23 DEF RecordUnknown, RecordsUnknown, At
    <2>2. /\ w.n \in Notice /\ FailureOf(w.n) \in Notice /\ rows[w.n].state = "unknown"
          /\ rows[w.n].upload \in {row[w.n].upload, "unknown"}
          /\ DOMAIN rows = Notice
          /\ \A n \in Notice \ {w.n} : rows[n] = row[n]
        BY <2>1, FailureIsNotice DEF Held, Typed, RowsOK, Row
    <2> HIDE DEF rows
    <2>3. ASSUME NEW n \in Notice, row'[n] # rows[n]
          PROVE  row[n].state = "absent"
        BY <2>1, <2>2, <2>3 DEF WithFailureNotice
    <2>4. QED
        BY <2>2, <2>3 DEF RowsTell
<1>24. CASE RecordUnknownFails
    BY <1>24 DEF RecordUnknownFails, outbox, RowsTell
<1>25. ASSUME NEW m \in flight, Land(m)
      PROVE  RowsTell
    BY <1>25 DEF Land, outbox, RowsTell
<1>26. CASE CloseChannel \/ StopAdmission \/ CancelContext \/ Restart \/ Crash
         \/ Exit
    BY <1>26 DEF CloseChannel, StopAdmission, CancelContext, Restart, Crash, Exit,
           ProcessEnds, outbox, RowsTell
<1>27. QED
    BY <1>1, <1>2, <1>3, <1>4, <1>5, <1>6, <1>7, <1>8, <1>9, <1>10, <1>11, <1>12,
           <1>13, <1>14, <1>15, <1>16, <1>17, <1>18, <1>19, <1>20, <1>21, <1>22, <1>23,
           <1>24, <1>25, <1>26, Steps

\* What a lookup missed is not forgotten.
LEMMA MissedStays ==
    ASSUME Next
    PROVE  missed \subseteq missed'
<1>1. ASSUME NEW n \in Notice, Enqueue(n)
      PROVE  missed \subseteq missed'
    BY <1>1 DEF Enqueue, slack
<1>2. ASSUME NEW n \in Notice, Claim(n)
      PROVE  missed \subseteq missed'
    BY <1>2 DEF Claim, slack
<1>3. CASE LookupWithoutFile
    BY <1>3 DEF LookupWithoutFile, slack
<1>4. ASSUME NEW n \in Notice, LookupFails(n)
      PROVE  missed \subseteq missed'
    BY <1>4 DEF LookupFails, slack
<1>5. ASSUME NEW n \in Notice, LookupRefuses(n)
      PROVE  missed \subseteq missed'
    BY <1>5 DEF LookupRefuses, slack
<1>6. ASSUME NEW n \in Notice, LookupAnswers(n)
      PROVE  missed \subseteq missed'
    BY <1>6 DEF LookupAnswers, slack
<1>7. CASE Verify
    BY <1>7 DEF Verify, slack
<1>8. CASE ResumeFile
    BY <1>8 DEF ResumeFile, slack
<1>9. CASE Inspect
    BY <1>9 DEF Inspect, slack
<1>10. CASE RequestURL
    BY <1>10 DEF RequestURL, slack
<1>11. CASE MarkFile
    BY <1>11 DEF MarkFile, slack
<1>12. CASE UploadBytes
    BY <1>12 DEF UploadBytes, slack
<1>13. CASE MarkBytes
    BY <1>13 DEF MarkBytes, slack
<1>14. CASE CompleteUpload
    BY <1>14 DEF CompleteUpload, slack
<1>15. CASE MarkCompleted
    BY <1>15 DEF MarkCompleted, slack
<1>16. CASE Post
    BY <1>16 DEF Post, slack
<1>17. CASE PostFails
    BY <1>17 DEF PostFails, slack
<1>18. CASE PostRefused
    BY <1>18 DEF PostRefused, slack
<1>19. CASE MarkPublished
    BY <1>19 DEF MarkPublished, slack
<1>20. CASE MarkPublishedFails
    BY <1>20 DEF MarkPublishedFails, slack
<1>21. CASE RecordRetry
    BY <1>21 DEF RecordRetry, slack
<1>22. CASE RecordRetryFails
    BY <1>22 DEF RecordRetryFails, slack
<1>23. CASE RecordUnknown
    BY <1>23 DEF RecordUnknown, slack
<1>24. CASE RecordUnknownFails
    BY <1>24 DEF RecordUnknownFails, slack
<1>25. ASSUME NEW m \in flight, Land(m)
      PROVE  missed \subseteq missed'
    BY <1>25 DEF Land, slack
<1>26. CASE CloseChannel \/ StopAdmission \/ CancelContext \/ Restart \/ Crash
         \/ Exit
    BY <1>26 DEF CloseChannel, StopAdmission, CancelContext, Restart, Crash, Exit,
           ProcessEnds, slack
<1>27. QED
    BY <1>1, <1>2, <1>3, <1>4, <1>5, <1>6, <1>7, <1>8, <1>9, <1>10, <1>11, <1>12,
           <1>13, <1>14, <1>15, <1>16, <1>17, <1>18, <1>19, <1>20, <1>21, <1>22, <1>23,
           <1>24, <1>25, <1>26, Steps

\* Every step keeps the messages in order and clean where they must be.
LEMMA OrderStep ==
    ASSUME Typed, Held, Order, Attempt, Next
    PROVE  Order'
<1>1. kind' = kind /\ SlackMoves /\ RowsMove /\ RowsTell /\ missed \subseteq missed'
    BY KindIsKept, SlackMovesSo, RowsMoveSo, RowsTellSo, MissedStays
<1> SUFFICES ASSUME NEW n \in Notice, n \notin missed
             PROVE  InSequence(n)' /\ CleanWhereDue(n)'
    BY <1>1 DEF Order
<1>2. InSequence(n) /\ CleanWhereDue(n)
    BY DEF Order
<1>3. w.pc = "post" /\ w.n = n =>
          /\ \A m \in flight : m.n # n
          /\ \A i \in PositionsOf(n) : thread[i].part < w.part
          /\ InFile(n) => row[n].upload = "completed"
    BY DEF Attempt
<1>4. InSequence(n)'
    BY <1>1, <1>2, <1>3, SequenceStays
<1>5. Clean(n) /\ ~(w.pc = "post" /\ w.n = n) => Clean(n)'
    BY <1>1, CleanStays
<1>6. w.pc # "idle" /\ w.n = n => row[n].state = "publishing"
    BY DEF Held
<1>7. row[n].state = "absent" => Clean(n)'
    BY <1>2, <1>5, <1>6 DEF CleanWhereDue
<1>8. row'[n].state = "absent" => Clean(n)'
    BY <1>1, <1>7 DEF RowsMove
<1>9. ASSUME row'[n].state = "pending", Claimable(n)', ~NeedsReconciliation(n)'
      PROVE  Clean(n)'
    <2>1. CASE row'[n] = row[n]
        <3>1. Claimable(n) /\ ~NeedsReconciliation(n) /\ row[n].state = "pending"
            BY <1>9, <2>1 DEF Claimable, NeedsReconciliation
        <3>2. QED
            BY <1>2, <1>5, <1>6, <3>1 DEF CleanWhereDue
    <2>2. CASE w.pc = "fail" /\ w.retry /\ n = w.n /\ row'[n].code = w.code
        <3>1. w.code \notin LookedUp
            BY <1>9, <2>2 DEF Claimable, NeedsReconciliation, LookedUp
        <3>2. Clean(n)
            BY <2>2, <3>1 DEF Attempt
        <3>3. QED
            BY <1>5, <2>2, <3>2
    <2>3. QED
        BY <1>1, <1>7, <1>9, <2>1, <2>2 DEF RowsTell
<1>10. ASSUME InFile(n), row'[n].upload \notin {"unknown", "completed"}
       PROVE  Clean(n)'
    <2>1. CASE row'[n].upload = row[n].upload
        BY <1>2, <1>3, <1>5, <1>10, <2>1 DEF CleanWhereDue
    <2>2. CASE w.pc \in FileSteps /\ n = w.n
        <3>1. w.pc \notin {"idle", "post"}
            BY <2>2 DEF FileSteps
        <3>2. QED
            BY <1>5, <2>2, <3>1 DEF Attempt, BeforePost
    <2>3. QED
        BY <1>1, <1>7, <1>10, <2>1, <2>2 DEF RowsTell
<1>11. QED
    BY <1>1, <1>4, <1>8, <1>9, <1>10, SameKinds DEF CleanWhereDue

\* However a step goes on or fails, the worker knows what was posted.
LEMMA AttemptMoves ==
    ASSUME Typed, Held, Attempt, SlackMoves, kind' = kind, missed \subseteq missed',
           w.pc # "idle", row' = row
    PROVE  /\ \A code, amb : FailWith(code, amb, FALSE) => Attempt'
           /\ \A code, amb :
                 FailWith(code, amb, TRUE) /\ (code \in LookedUp \/ w.pc \in BeforePost)
                 => Attempt'
           /\ \A pc :
                 /\ Goto(pc)
                 /\ pc \in BeforePost \cup {"post"} => w.pc \in BeforePost
                 /\ pc = "post" /\ InFile(w.n) => row[w.n].upload = "completed"
                 /\ pc # "fail"
                 => Attempt'
<1>1. PICK n \in Notice : n = w.n
    BY DEF Held
<1>2. n \notin missed' /\ w.pc \in BeforePost => Clean(n)'
    BY <1>1, CleanStays DEF Attempt, BeforePost, FileSteps
<1>3. ASSUME NEW code, NEW amb, FailWith(code, amb, FALSE)
      PROVE  Attempt'
    <2>1. w'.pc = "fail" /\ ~w'.retry
        BY <1>3 DEF FailWith, Typed, WorkerOK, Worker
    <2>2. QED
        BY <2>1 DEF Attempt, BeforePost, FileSteps
<1>4. ASSUME NEW code, NEW amb, FailWith(code, amb, TRUE),
             code \in LookedUp \/ w.pc \in BeforePost
      PROVE  Attempt'
    <2>1. w'.pc = "fail" /\ w'.n = n /\ w'.code = code
        BY <1>1, <1>4 DEF FailWith, Typed, WorkerOK, Worker
    <2>2. QED
        BY <1>2, <1>4, <2>1 DEF Attempt, BeforePost, FileSteps
<1>5. ASSUME NEW pc, Goto(pc), pc \in BeforePost \cup {"post"} => w.pc \in BeforePost,
             pc = "post" /\ InFile(w.n) => row[w.n].upload = "completed", pc # "fail"
      PROVE  Attempt'
    <2>1. w'.pc = pc /\ w'.n = n
        BY <1>1, <1>5 DEF Goto, Typed, WorkerOK, Worker
    <2>2. n \notin missed' /\ pc \in BeforePost \cup {"post"} => Clean(n)'
        BY <1>2, <1>5
    <2>3. pc = "post" /\ InFile(n)' => row'[n].upload = "completed"
        BY <1>1, <1>5, SameKinds
    <2>4. QED
        BY <1>5, <2>1, <2>2, <2>3 DEF Attempt, Clean
<1>6. QED
    BY <1>3, <1>4, <1>5

\* Nobody but the worker disturbs what the worker knows of its notice.
LEMMA AttemptStays ==
    ASSUME Typed, Held, Attempt, SlackMoves, kind' = kind, missed \subseteq missed',
           w' = w, w.pc # "idle" => row'[w.n] = row[w.n],
           w.pc \in {"post", "complete"} =>
               \/ thread' = thread /\ flight' = flight
               \/ \E m \in flight : thread' = Append(thread, m) /\ flight' = flight \ {m}
    PROVE  Attempt'
<1> SUFFICES ASSUME w.pc # "idle", w.n \notin missed
             PROVE  Attempt'
    BY DEF Attempt
<1>1. PICK n \in Notice : n = w.n
    BY DEF Held
<1>2. w.pc # "post" /\ Clean(n) => Clean(n)'
    BY <1>1, CleanStays
<1>3. ASSUME w.pc = "post"
      PROVE  /\ \A m \in flight' : m.n # n
             /\ \A i \in PositionsOf(n)' : thread'[i].part < w.part
    <2>1. CASE thread' = thread /\ flight' = flight
        BY <1>1, <1>3, <2>1 DEF Attempt, PositionsOf
    <2>2. ASSUME NEW m \in flight, thread' = Append(thread, m), flight' = flight \ {m}
          PROVE  /\ \A k \in flight' : k.n # n
                 /\ \A i \in PositionsOf(n)' : thread'[i].part < w.part
        <3>1. m \in Message /\ m.n # n
            BY <1>1, <1>3, PartsAreNumbers DEF Attempt
        <3>2. /\ PositionsOf(n)' \subseteq PositionsOf(n)
              /\ \A i \in PositionsOf(n) : thread'[i] = thread[i]
            BY <2>2, <3>1, PositionsGrow, ZenonT(60) DEF Typed, SlackOK
        <3>3. QED
            BY <1>1, <1>3, <2>2, <3>2 DEF Attempt
    <2>3. QED
        BY <1>3, <2>1, <2>2
<1>4. QED
    BY <1>1, <1>2, <1>3, SameKinds DEF Attempt, BeforePost, FileSteps

\* Every step keeps what the worker knows of what was posted.
LEMMA AttemptStep ==
    ASSUME Typed, Held, Order, Uploading, Attempt, Next
    PROVE  Attempt'
<1>1. ASSUME NEW n \in Notice, Enqueue(n)
      PROVE  Attempt'
    <2>1. w.pc # "idle" => row'[w.n] = row[w.n]
        BY <1>1 DEF Enqueue, Held, Typed, RowsOK
    <2>2. w' = w /\ thread' = thread /\ flight' = flight
        BY <1>1 DEF Enqueue, slack
    <2>3. QED
        BY <2>1, <2>2, AttemptStays, SlackMovesSo, MissedStays, KindIsKept
<1>2. ASSUME NEW n \in Notice, Claim(n)
      PROVE  Attempt'
    <2>1. /\ w'.n = n /\ w'.pc \in {"lookup", "verify"}
          /\ w'.pc = "verify" => ~NeedsReconciliation(n)
          /\ w.pc = "idle" /\ Claimable(n) /\ missed' = missed
          /\ thread' = thread /\ flight' = flight
        BY <1>2 DEF Claim, Idle, slack
    <2>2. w'.pc = "verify" /\ n \notin missed => Clean(n)
        BY <2>1 DEF Order, CleanWhereDue, Claimable, NeedsReconciliation
    <2>3. Clean(n) => Clean(n)'
        BY <2>1 DEF Clean, PositionsOf
    <2>4. QED
        BY <2>1, <2>2, <2>3 DEF Attempt, BeforePost, FileSteps
<1>3. CASE LookupWithoutFile
    BY <1>3, AttemptMoves, SlackMovesSo, MissedStays, KindIsKept
       DEF LookupWithoutFile, At, outbox, BeforePost, FileSteps, LookedUp, Undeliverable
<1>4. ASSUME NEW n \in Notice, LookupFails(n)
      PROVE  Attempt'
    BY <1>4, AttemptMoves, SlackMovesSo, MissedStays, KindIsKept
       DEF LookupFails, At, LooksUp, EvidenceCode, outbox, BeforePost, FileSteps,
           LookedUp, Undeliverable
<1>5. ASSUME NEW n \in Notice, LookupRefuses(n)
      PROVE  Attempt'
    BY <1>5, AttemptMoves, SlackMovesSo, MissedStays, KindIsKept
       DEF LookupRefuses, At, LooksUp, EvidenceCode, outbox, BeforePost, FileSteps,
           LookedUp, Undeliverable
<1>6. ASSUME NEW n \in Notice, LookupAnswers(n)
      PROVE  Attempt'
    <2>1. /\ w.pc = "lookup" /\ n = w.n /\ row' = row /\ kind' = kind
          /\ missed \subseteq missed' /\ thread' = thread /\ flight' = flight
        BY <1>6, KindIsKept DEF LookupAnswers, LooksUp, At, outbox
    <2>2. CASE Goto("mark_published")
        BY <2>1, <2>2, AttemptMoves, SlackMovesSo DEF BeforePost, FileSteps
    <2>3. CASE /\ Goto("verify") /\ ~(ReadsMessages(n) /\ PostsSeen(n) # {})
               /\ missed' = IF Unseen(n) THEN missed \cup {n} ELSE missed
        <3>1. w'.pc = "verify" /\ w'.n = n
            BY <2>1, <2>3 DEF Goto, Typed, WorkerOK, Worker
        <3>2. ASSUME n \notin missed', PostsSeen(n) = {}
              PROVE  Clean(n)
            BY <2>3, <3>2 DEF Unseen, PostsSeen, Seen, Clean, PositionsOf
        <3>3. ASSUME n \notin missed', ~ReadsMessages(n)
              PROVE  Clean(n)
            <4>1. InFile(n) /\ row[n].upload \notin {"unknown", "completed"}
                BY <2>1, <3>3 DEF ReadsMessages, Held
            <4>2. QED
                BY <2>1, <3>3, <4>1 DEF Order, CleanWhereDue
        <3>4. n \notin missed' => Clean(n)'
            BY <2>1, <2>3, <3>2, <3>3 DEF Clean, PositionsOf
        <3>5. QED
            BY <3>1, <3>4 DEF Attempt
    <2>4. QED
        BY <1>6, <2>2, <2>3 DEF LookupAnswers
<1>7. CASE Verify
    BY <1>7, AttemptMoves, SlackMovesSo, MissedStays, KindIsKept
       DEF Verify, At, outbox, BeforePost, FileSteps, LookedUp, Undeliverable
<1>8. CASE ResumeFile
    <2>1. /\ w.pc = "file" /\ row' = row
          /\ w.upload = row[w.n].upload
        BY <1>8 DEF ResumeFile, At, outbox, Held
    <2>2. QED
        BY <1>8, <2>1, AttemptMoves, SlackMovesSo, MissedStays, KindIsKept
           DEF ResumeFile, BeforePost, FileSteps
<1>9. CASE Inspect
    BY <1>9, AttemptMoves, SlackMovesSo, MissedStays, KindIsKept
       DEF Inspect, At, outbox, BeforePost, FileSteps, LookedUp, Undeliverable
<1>10. CASE RequestURL
    BY <1>10, AttemptMoves, SlackMovesSo, MissedStays, KindIsKept
       DEF RequestURL, At, outbox, BeforePost, FileSteps, LookedUp, Undeliverable
<1>11. CASE MarkFile
    <2>1. PICK n \in Notice : n = w.n /\ w.pc # "idle"
        BY <1>11 DEF MarkFile, At, Held
    <2>2. kind' = kind /\ SlackMoves /\ missed \subseteq missed'
        BY KindIsKept, SlackMovesSo, MissedStays
    <2>3. CASE row' = row /\ FailWith("upload_unknown", FALSE, FALSE)
        BY <1>11, <2>1, <2>2, <2>3, AttemptMoves DEF LookedUp
    <2>4. CASE w' = [w EXCEPT !.pc = "upload", !.file = TRUE]
        <3>1. w'.pc = "upload" /\ w'.n = n
            BY <2>1, <2>4 DEF Goto, Typed, WorkerOK, Worker
        <3>2. n \notin missed' => Clean(n)'
            BY <1>11, <2>1, <2>2, CleanStays DEF MarkFile, At, Attempt, BeforePost,
                   FileSteps
        <3>3. QED
            BY <3>1, <3>2 DEF Attempt
    <2>5. QED
        BY <1>11, <2>3, <2>4 DEF MarkFile
<1>12. CASE UploadBytes
    BY <1>12, AttemptMoves, SlackMovesSo, MissedStays, KindIsKept
       DEF UploadBytes, At, outbox, BeforePost, FileSteps, LookedUp, Undeliverable
<1>13. CASE MarkBytes
    <2>1. PICK n \in Notice : n = w.n /\ w.pc # "idle"
        BY <1>13 DEF MarkBytes, At, Held
    <2>2. kind' = kind /\ SlackMoves /\ missed \subseteq missed'
        BY KindIsKept, SlackMovesSo, MissedStays
    <2>3. CASE row' = row /\ FailWith("upload_unknown", TRUE, TRUE)
        BY <1>13, <2>1, <2>2, <2>3, AttemptMoves DEF LookedUp
    <2>4. CASE SetUpload("bytes_uploaded") /\ Goto("complete")
        <3>1. w'.pc = "complete" /\ w'.n = n
            BY <2>1, <2>4 DEF Goto, Typed, WorkerOK, Worker
        <3>2. n \notin missed' => Clean(n)'
            BY <1>13, <2>1, <2>2, CleanStays DEF MarkBytes, At, Attempt, BeforePost,
                   FileSteps
        <3>3. QED
            BY <3>1, <3>2 DEF Attempt
    <2>5. QED
        BY <1>13, <2>3, <2>4 DEF MarkBytes
<1>14. CASE CompleteUpload
    BY <1>14, AttemptMoves, SlackMovesSo, MissedStays, KindIsKept
       DEF CompleteUpload, At, outbox, BeforePost, FileSteps, LookedUp, Undeliverable
<1>15. CASE MarkCompleted
    <2>1. PICK n \in Notice : n = w.n /\ w.pc # "idle"
        BY <1>15 DEF MarkCompleted, At, Held
    <2>2. kind' = kind /\ SlackMoves /\ missed \subseteq missed'
        BY KindIsKept, SlackMovesSo, MissedStays
    <2>3. CASE row' = row /\ FailWith("upload_unknown", TRUE, TRUE)
        BY <1>15, <2>1, <2>2, <2>3, AttemptMoves DEF LookedUp
    <2>4. CASE SetUpload("completed") /\ Goto("post")
        <3>1. w'.pc = "post" /\ w'.n = n
            BY <2>1, <2>4 DEF Goto, Typed, WorkerOK, Worker
        <3>2. n \notin missed' => Clean(n)'
            BY <1>15, <2>1, <2>2, CleanStays DEF MarkCompleted, At, Attempt,
                   BeforePost, FileSteps
        <3>3. row'[n].upload = "completed"
            BY <2>1, <2>4 DEF SetUpload, Typed, RowsOK, Row
        <3>4. QED
            BY <3>1, <3>2, <3>3 DEF Attempt, Clean, BeforePost, FileSteps
    <2>5. QED
        BY <1>15, <2>3, <2>4 DEF MarkCompleted
<1>16. CASE Post
    <2>1. /\ w.pc = "post" /\ thread' = Append(thread, ThisPart) /\ flight' = flight
          /\ row' = row /\ kind' = kind /\ missed' = missed
        BY <1>16, KindIsKept DEF Post, At, outbox
    <2>2. PICK n \in Notice : n = w.n
        BY <2>1 DEF Held
    <2>3. CASE w' = [w EXCEPT !.pc = "mark_published"]
        <3>1. w'.pc = "mark_published"
            BY <2>3 DEF Typed, WorkerOK, Worker
        <3>2. QED
            BY <3>1 DEF Attempt, BeforePost, FileSteps
    <2>4. CASE w' = [w EXCEPT !.part = @ + 1]
        <3>1. w'.pc = "post" /\ w'.n = n /\ w'.part = w.part + 1
            BY <2>1, <2>2, <2>4 DEF Typed, WorkerOK, Worker
        <3>2. SUFFICES ASSUME n \notin missed
              PROVE  Attempt'
            BY <2>1, <3>1 DEF Attempt
        <3>3. /\ \A m \in flight : m.n # n
              /\ \A i \in PositionsOf(n) : thread[i].part < w.part
              /\ InFile(n) => row[n].upload = "completed"
            BY <2>1, <2>2, <3>2 DEF Attempt
        <3>4. /\ w.part \in Nat
              /\ \A i \in PositionsOf(n) : thread[i].part \in Nat
            BY <2>1, PartCountPositive, NumbersAssumption, PartsAreNumbers
               DEF Typed, WorkerOK, Worker, PositionsOf
        <3>5. \A i \in PositionsOf(n)' : thread'[i].part < w.part + 1
            <4>1. ThisPart \in Message /\ ThisPart.part = w.part
                BY <2>1, Messages DEF ThisPart
            <4>2. /\ PositionsOf(n)' \subseteq PositionsOf(n) \cup {Len(thread) + 1}
                  /\ thread'[Len(thread) + 1] = ThisPart
                  /\ \A i \in PositionsOf(n) : thread'[i] = thread[i]
                BY <2>1, <4>1, PositionsGrow DEF Typed, SlackOK
            <4>3. ASSUME NEW i \in PositionsOf(n)
                  PROVE  thread'[i].part < w.part + 1
                BY <3>3, <3>4, <4>2
            <4>4. thread'[Len(thread) + 1].part < w.part + 1
                BY <3>4, <4>1, <4>2
            <4>5. QED
                BY <4>2, <4>3, <4>4
        <3>6. QED
            BY <2>1, <3>1, <3>3, <3>5, SameKinds DEF Attempt, BeforePost, FileSteps
    <2>5. QED
        BY <1>16, <2>3, <2>4 DEF Post
<1>17. CASE PostFails
    BY <1>17, AttemptMoves, SlackMovesSo, MissedStays, KindIsKept
       DEF PostFails, At, outbox, BeforePost, FileSteps, LookedUp, Undeliverable
<1>18. CASE PostRefused
    BY <1>18, AttemptMoves, SlackMovesSo, MissedStays, KindIsKept
       DEF PostRefused, At, outbox, BeforePost, FileSteps, LookedUp, Undeliverable
<1>19. CASE MarkPublished
    BY <1>19 DEF MarkPublished, Attempt, Idle
<1>20. CASE MarkPublishedFails
    BY <1>20 DEF MarkPublishedFails, Attempt, Idle
<1>21. CASE RecordRetry
    BY <1>21 DEF RecordRetry, Attempt, Idle
<1>22. CASE RecordRetryFails
    BY <1>22, AttemptMoves, SlackMovesSo, MissedStays, KindIsKept
       DEF RecordRetryFails, At, outbox, BeforePost, FileSteps, LookedUp, Undeliverable
<1>23. CASE RecordUnknown
    BY <1>23 DEF RecordUnknown, Attempt, Idle
<1>24. CASE RecordUnknownFails
    BY <1>24 DEF RecordUnknownFails, Attempt, Idle
<1>25. ASSUME NEW m \in flight, Land(m)
      PROVE  Attempt'
    <2>1. w' = w /\ row' = row /\ thread' = Append(thread, m) /\ flight' = flight \ {m}
        BY <1>25 DEF Land, outbox
    <2>2. QED
        BY <2>1, AttemptStays, SlackMovesSo, MissedStays, KindIsKept
<1>26. CASE CloseChannel \/ StopAdmission \/ CancelContext \/ Restart
    <2>1. w' = w /\ row' = row /\ thread' = thread /\ flight' = flight
        BY <1>26 DEF CloseChannel, StopAdmission, CancelContext, Restart, outbox, slack
    <2>2. QED
        BY <2>1, AttemptStays, SlackMovesSo, MissedStays, KindIsKept
<1>27. CASE Crash \/ Exit
    <2>1. w' = Idle
        BY <1>27 DEF Crash, Exit, ProcessEnds
    <2>2. QED
        BY <2>1 DEF Attempt, Idle
<1>28. QED
    BY <1>1, <1>2, <1>3, <1>4, <1>5, <1>6, <1>7, <1>8, <1>9, <1>10, <1>11, <1>12,
           <1>13, <1>14, <1>15, <1>16, <1>17, <1>18, <1>19, <1>20, <1>21, <1>22, <1>23,
           <1>24, <1>25, <1>26, <1>27, Steps

-----------------------------------------------------------------------------
(* The invariant and the theorems.                                         *)

IInv == /\ Typed /\ Held
        /\ Uploads /\ Uploading
        /\ Posts /\ Posting /\ Outcome
        /\ Order /\ Attempt
        /\ GivenUpIsReported

\* The invariant holds at the start,
LEMMA InvInit ==
    ASSUME Init
    PROVE  IInv
<1>1. /\ w.pc = "idle" /\ thread = <<>> /\ flight = {} /\ missed = {} /\ activation = {}
      /\ \A n \in Notice : granted[n] = 0
    BY DEF Init, Idle
<1>2. Absent \in Row /\ Absent.state = "absent" /\ Absent.upload = "not_applicable"
    <2>1. 0 \in 0 .. ReconcileMaxAttempts /\ "" \in Code
        BY NumbersAssumption DEF Code
    <2>2. QED
        BY <2>1 DEF Absent, Row, UploadStage
<1>3. \A n \in Notice : row[n].state = "absent" /\ row[n].upload = "not_applicable"
    BY <1>2 DEF Init
<1>4. \A n \in Notice : row[n].code = "" /\ ~row[n].file
    <2>1. Absent.code = "" /\ Absent.file = FALSE
        BY DEF Absent
    <2>2. QED
        BY <2>1 DEF Init
<1>5. Typed
    <2>1. Idle \in Worker
        BY NumbersAssumption DEF Idle, Worker, WorkerPc, UploadStage, Code
    <2>2. SlackOK
        BY <1>1 DEF Init, SlackOK
    <2>3. WorldOK
        <3>1. 0 \in 0 .. MaxFaults /\ 0 \in 0 .. MaxRestarts
            BY NumbersAssumption
        <3>2. QED
            BY <3>1 DEF Init, WorldOK
    <2>4. RowsOK
        BY <1>1, <1>2 DEF Init, RowsOK
    <2>5. QED
        BY <2>1, <2>2, <2>3, <2>4 DEF Init, Typed, KindOK, WorkerOK
<1>6. Held /\ Uploading /\ Posting /\ Attempt
    BY <1>1 DEF Held, Uploading, Posting, Attempt
<1>7. Uploads
    <2>1. \A n \in Notice : granted[n] <= 1 /\ granted[n] # 1
        BY <1>1
    <2>2. QED
        BY <2>1, <1>3, <1>4 DEF Uploads, UploadOf
<1>8. Posts
    BY <1>1 DEF Posts
<1>9. Outcome
    BY <1>1, <1>3 DEF Outcome
<1>10. Order
    <2>1. \A n : PositionsOf(n) = {} /\ Clean(n)
        BY <1>1 DEF PositionsOf, Clean
    <2>2. QED
        BY <1>1, <2>1 DEF Order, InSequence, CleanWhereDue
<1>11. GivenUpIsReported
    BY <1>3 DEF GivenUpIsReported, Condemned
<1>12. QED
    BY <1>5, <1>6, <1>7, <1>8, <1>9, <1>10, <1>11 DEF IInv

\* every step keeps it,
LEMMA InvStep ==
    ASSUME IInv, [Next]_<<vars, kind>>
    PROVE  IInv'
<1>1. CASE Next
    <2>1. Typed'
        BY <1>1, RowsStayTyped, WorkerStaysTyped, SlackStaysTyped, WorldStaysTyped, KindIsKept
           DEF IInv, Typed, KindOK
    <2>2. Held' /\ Uploads' /\ Uploading'
        BY <1>1, HeldStep, UploadsStep, UploadingStep DEF IInv
    <2>3. Posts' /\ Posting' /\ Outcome'
        BY <1>1, SlackMovesSo, KindIsKept, PostsStep, PostingStep, OutcomeStep DEF IInv
    <2>4. Order' /\ Attempt'
        BY <1>1, OrderStep, AttemptStep DEF IInv
    <2>5. GivenUpIsReported'
        BY <1>1, ReportedStep DEF IInv
    <2>6. QED
        BY <2>1, <2>2, <2>3, <2>4, <2>5 DEF IInv
<1>2. CASE UNCHANGED <<vars, kind>>
    <2>1. /\ \A n : /\ InFile(n)' <=> InFile(n)
                    /\ PartCount(n)' = PartCount(n)
          /\ UNCHANGED vars /\ kind' = kind
        BY <1>2, SameKinds
    <2>2. Typed' /\ Held' /\ Uploads' /\ Uploading'
        BY <2>1, ZenonT(60) DEF IInv, vars, Typed, KindOK, RowsOK, WorkerOK, SlackOK, WorldOK, Held,
               Uploads, UploadOf, NeedsReconciliation, Uploading, Gone
    <2>3. Posts' /\ Posting' /\ Outcome'
        BY <2>1 DEF IInv, vars, Posts, Posting, Outcome, Whole, Posted
    <2>4. Order' /\ Attempt'
        BY <2>1 DEF IInv, vars, Order, InSequence, CleanWhereDue, Clean, PositionsOf,
               Claimable, NeedsReconciliation, Attempt
    <2>5. GivenUpIsReported'
        BY <2>1 DEF IInv, vars, GivenUpIsReported, Condemned
    <2>6. QED
        BY <2>2, <2>3, <2>4, <2>5 DEF IInv
<1>3. QED
    BY <1>1, <1>2

\* so it holds always.
LEMMA Invariant == Spec => []IInv
BY InvInit, InvStep, PTL DEF Spec

\* Every variable has the values the columns, the codes and Slack allow.
THEOREM TypeCorrect == Spec => []TypeOK
<1>1. IInv => TypeOK
    BY TypedIsTypeOK DEF IInv
<1>2. QED
    BY <1>1, Invariant, PTL

\* A notice that was published or given up is not claimed or written again.
THEOREM SettledStays == Spec => SettledIsFinal
<1>1. ASSUME IInv, [Next]_<<vars, kind>>
      PROVE  [\A n \in Notice : Settled(n) => row'[n] = row[n]]_vars
    <2>1. CASE Next
        BY <1>1, <2>1, RowsMoveSo, SettledRowsStay DEF IInv
    <2>2. CASE UNCHANGED vars
        BY <2>2
    <2>3. QED
        BY <1>1, <2>1, <2>2
<1>2. QED
    BY <1>1, Invariant, PTL DEF Spec, SettledIsFinal

\* However often an upload is interrupted, one file is asked for per result.
THEOREM OneFile == Spec => []OneFilePerResult
<1>1. IInv => OneFilePerResult
    BY DEF IInv, Uploads, UploadOf, OneFilePerResult
<1>2. QED
    BY <1>1, Invariant, PTL

\* A published notice was delivered, and one given up is reported.
THEOREM TrueOutcome == Spec => []OutcomeIsTrue
<1>1. ASSUME IInv
      PROVE  PublishedWasDelivered
    <2> SUFFICES ASSUME NEW n \in Notice, row[n].state = "published" \/ n \in activation
                 PROVE  Delivered(n) /\ (InFile(n) => slackFile[n] = "shared")
        BY DEF PublishedWasDelivered
    <2>3. row[n].state = "published"
        BY <1>1 DEF IInv, Outcome
    <2>4. Delivered(n)
        BY <1>1, <2>3, WholeIsDelivered DEF IInv, Outcome
    <2>5. InFile(n) => slackFile[n] = "shared"
        BY <1>1, <2>3 DEF IInv, Outcome, Uploads, UploadOf
    <2>6. QED
        BY <2>4, <2>5
<1>2. IInv => OutcomeIsTrue
    BY <1>1 DEF IInv, OutcomeIsTrue
<1>3. QED
    BY <1>2, Invariant, PTL

\* Nothing is posted twice or out of order, unless a lookup could not see it.
THEOREM OnceInOrder == Spec => []PostedOnceInOrder
<1>1. IInv => PostedOnceInOrder
    BY DEF IInv, Uploads, UploadOf, OneFilePerResult, Order, InSequence, PostedOnceInOrder
<1>2. QED
    BY <1>1, Invariant, PTL
=============================================================================

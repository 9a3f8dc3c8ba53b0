---------------------------- MODULE JobNotifications ----------------------------
(***************************************************************************)
(* The outbox that announces the end of a job in Slack: the rows of        *)
(* external_agent_job_notifications, the worker of                         *)
(* internal/usecase/externalagent/notifications.go that claims them, and   *)
(* the publisher of internal/adapter/slack/job_notification.go that posts  *)
(* messages, uploads the result file and looks for what was posted before. *)
(*                                                                         *)
(* One action is one store transaction or one Slack call with its answer;  *)
(* the process may die between any two.  There is one worker goroutine in  *)
(* one process, so a row in "publishing" that the worker does not hold is  *)
(* left over from an earlier attempt and its lease lapses; leases and      *)
(* next_attempt_at only delay a claim and are not kept.                    *)
(*                                                                         *)
(* Slack is external: a message, a share or uploaded bytes take effect     *)
(* when the call is made or never, except a post without an answer, which  *)
(* may appear later.  Nobody edits or deletes the messages.                *)
(***************************************************************************)
EXTENDS Naturals, FiniteSets, Sequences

CONSTANTS
    Job,                   \* jobs of one conversation
    Kinds,                 \* the kinds of job there may be, members of JobKind
    Parts,                 \* Markdown messages of a result that needs several
    ReconcileMaxAttempts,
    Threaded,              \* the conversation is a thread (a plain DM is not)
    Page,                  \* messages of the outbox on the page a lookup reads
    NoNotice,
    MaxFaults,             \* bound: failed Slack and store calls
    MaxRestarts            \* bound: ends of the process

\* Was its outcome first completion_unknown, how is its result delivered, and
\* does its completion activate the root agent?
JobKind == [uncertain : BOOLEAN, delivery : {"none", "markdown", "file"}, root : BOOLEAN]

ASSUME KindsAssumption ==
    /\ Kinds \subseteq JobKind
    /\ \A k \in Kinds : k.root => k.delivery # "none"
ASSUME NumbersAssumption ==
    /\ Parts \in Nat \ {0}
    /\ ReconcileMaxAttempts \in Nat \ {0}
    /\ Page \in Nat
    /\ MaxFaults \in Nat
    /\ MaxRestarts \in Nat
ASSUME ThreadedAssumption == Threaded \in BOOLEAN

VARIABLES
    kind,       \* the kind of each job; it never changes
    row,        \* the outbox row of each notice
    activation, \* notices whose publication inserted a root activation
    w,          \* the worker goroutine and the publisher call it is in
    thread,     \* what Slack shows in the conversation, oldest first
    flight,     \* posts without an answer that may still appear
    slackFile,  \* stage of the result file at Slack
    granted,    \* history: upload URLs Slack granted for the notice
    missed,     \* history: notices with a post that a lookup did not see
    closed,     \* the channel was archived or the app removed
    proc,       \* "up", "draining" (StopAdmission), "cancelled" (ctx done), "down"
    faults, restarts

outbox == <<row, activation>>
slack  == <<thread, flight, slackFile, granted, missed>>
world  == <<closed, proc, faults, restarts>>
vars   == <<row, activation, w, thread, flight, slackFile, granted, missed,
            closed, proc, faults, restarts>>

-----------------------------------------------------------------------------
(* Notices.  A job has one for each terminal status it passes through, and *)
(* one more for each of these that could not be delivered.                 *)

Notice == [job : Job, rev : {"uncertain", "final"}, kind : {"terminal", "failure"}]

FailureOf(n) == [n EXCEPT !.kind = "failure"]

\* policy_version = delivery_v1: the notice carries the result of the job.
CarriesResult(n) ==
    n.kind = "terminal" /\ n.rev = "final" /\ kind[n.job].delivery # "none"

InFile(n)     == CarriesResult(n) /\ kind[n.job].delivery = "file"
Activates(n)  == CarriesResult(n) /\ kind[n.job].root

\* A completion that activates the root is announced by one short marker.
PartCount(n) ==
    IF CarriesResult(n) /\ ~InFile(n) /\ ~Activates(n) THEN Parts ELSE 1

UploadStage == {"not_applicable", "pending", "url_requested", "bytes_uploaded",
                "completed", "unknown"}

\* result_* and notification_* error codes; artifact_invalid stands for all
\* codes of a result that cannot be read back.
Undeliverable == {"artifact_invalid", "destination_mismatch", "delivery_invalid"}
Permanent     == Undeliverable \cup {"upload_unknown"}
Code          == Permanent \cup {"", "publish_ambiguous", "upload_failed",
                                 "completion_failed"}

Absent == [state |-> "absent", code |-> "", upload |-> "not_applicable",
           file |-> FALSE, attempts |-> 0]

Enqueued(n) == [Absent EXCEPT !.state = "pending",
                              !.upload = IF InFile(n) THEN "pending" ELSE @]

\* Given up for good: the row is in "unknown" with a code that is never claimed.
Condemned(n) == row[n].state = "unknown" /\ row[n].code \in Permanent
Settled(n)   == row[n].state = "published" \/ Condemned(n)

Idle == [pc |-> "idle", n |-> NoNotice, part |-> 0, upload |-> "not_applicable",
         file |-> FALSE, code |-> "", amb |-> FALSE, retry |-> FALSE]

At(pc)   == proc # "down" /\ w.pc = pc
Goto(pc) == w' = [w EXCEPT !.pc = pc]

FailWith(code, amb, retry) ==
    w' = [w EXCEPT !.pc = "fail", !.code = code, !.amb = amb, !.retry = retry]

\* A call under the worker's context fails by itself or because the context
\* was cancelled.
CallWorks == proc # "cancelled" /\ UNCHANGED faults
Fault     == faults < MaxFaults /\ faults' = faults + 1
CallFails == \/ proc # "cancelled" /\ Fault
             \/ proc = "cancelled" /\ UNCHANGED faults

-----------------------------------------------------------------------------
(* What a lookup reads in the conversation, and what it concludes.          *)

\* conversations.replies answers with the oldest messages of a thread,
\* conversations.history with the newest ones of a channel; one page is read.
Seen == {i \in DOMAIN thread :
           IF Threaded THEN i <= Page ELSE i + Page > Len(thread)}

\* Part 0 is the message that shares the file; it has no job metadata.
SharesSeen(n) == {i \in Seen : thread[i].n = n /\ thread[i].part = 0}
PostsSeen(n)  == {i \in Seen : thread[i].n = n /\ thread[i].part > 0}
PartsSeen(n)  == {thread[i].part : i \in PostsSeen(n)}

\* A message of the same job that is not this notice is taken for a
\* corrupted copy of it.
OtherOfJobSeen(n) ==
    \E i \in Seen : thread[i].n.job = n.job /\ thread[i].n # n /\ thread[i].part > 0

\* Mutation: some of the parts are enough.
PostsInconsistentUnlessPartial(n) ==
    \/ OtherOfJobSeen(n)
    \/ \E i, k \in PostsSeen(n) : i < k /\ thread[i].part >= thread[k].part

PostsInconsistent(n) ==
    \/ OtherOfJobSeen(n)
    \/ PartsSeen(n) \notin {{}, 1 .. PartCount(n)}
    \/ \E i, k \in PostsSeen(n) : i < k /\ thread[i].part >= thread[k].part

\* Outside a thread the share counts as seen beforehand, so the message that
\* shares the file is one too many.
SharesInconsistent(n) == InFile(n) /\ ~Threaded /\ SharesSeen(n) # {}

ShareProven(n) == slackFile[n] = "shared" /\ (Threaded => SharesSeen(n) # {})

\* Mutation: the file need not be visible in the conversation.
FileProvenUnshared(n, upload) == slackFile[n] \in {"uploaded", "shared"}

\* files.info shows the exact file; before the upload is known to be complete
\* it need not be visible in the channel yet.
FileProven(n, upload) ==
    IF upload \in {"url_requested", "bytes_uploaded"}
    THEN slackFile[n] \in {"uploaded", "shared"}
    ELSE ShareProven(n)

EvidenceCode(upload) ==
    IF upload = "completed" THEN "destination_mismatch" ELSE "upload_unknown"

\* Messages are read unless the file has yet to be shared.
ReadsMessages(n) == InFile(n) => w.upload \in {"unknown", "completed"}

\* History: something was posted for n that this lookup does not show.
Unseen(n) ==
    \/ \E m \in flight : m.n = n
    \/ \E i \in DOMAIN thread \ Seen : thread[i].n = n /\ thread[i].part > 0

-----------------------------------------------------------------------------
(* Jobs reach a terminal status, in a transaction that inserts the notice.  *)

Enqueue(n) ==
    /\ proc # "down"
    /\ n.kind = "terminal"
    /\ row[n].state = "absent"
    /\ n.rev = "uncertain" => kind[n.job].uncertain
    /\ (n.rev = "final" /\ kind[n.job].uncertain)
         => row[[n EXCEPT !.rev = "uncertain"]].state # "absent"
    /\ row' = [row EXCEPT ![n] = Enqueued(n)]
    /\ UNCHANGED <<activation, w, slack, world>>

-----------------------------------------------------------------------------
(* The worker claims a row.                                                *)

\* Mutation: a row left in "publishing" is never taken over.
ClaimableIfReleased(n) ==
    /\ row[n].state \in {"pending", "unknown"}
    /\ row[n].code \notin Undeliverable
    /\ ~(row[n].code = "upload_unknown" /\ row[n].state = "unknown")

Claimable(n) ==
    /\ row[n].state \in {"pending", "unknown", "publishing"}
    /\ row[n].code \notin Undeliverable
    /\ ~(row[n].code = "upload_unknown" /\ row[n].state = "unknown")

\* Mutation: a row found in "publishing" is taken for one never attempted.
NeedsReconciliationUnlessPublishing(n) ==
    row[n].state = "unknown" \/ row[n].code \in {"publish_ambiguous", "upload_unknown"}

NeedsReconciliation(n) ==
    \/ row[n].state \in {"unknown", "publishing"}
    \/ row[n].code \in {"publish_ambiguous", "upload_unknown"}

\* Attempts stop counting at ReconcileMaxAttempts, the only value they are
\* compared with.
Claim(n) ==
    /\ proc = "up"
    /\ w.pc = "idle"
    /\ Claimable(n)
    /\ row' = [row EXCEPT ![n].state = "publishing",
                          ![n].attempts = IF @ < ReconcileMaxAttempts THEN @ + 1 ELSE @]
    /\ w' = [Idle EXCEPT !.pc = IF NeedsReconciliation(n) THEN "lookup" ELSE "verify",
                         !.n = n, !.part = 1,
                         !.upload = row[n].upload, !.file = row[n].file]
    /\ UNCHANGED <<activation, slack, world>>

\* A file was asked for and its identity lost: never ask again.
LookupWithoutFile ==
    /\ At("lookup")
    /\ InFile(w.n) /\ ~w.file
    /\ FailWith("upload_unknown", FALSE, FALSE)
    /\ UNCHANGED <<outbox, slack, world>>

LooksUp(n) == At("lookup") /\ w.n = n /\ (InFile(n) => w.file)

\* files.info or the history call gives no answer; files.info need not know a
\* file whose bytes never arrived.
LookupFails(n) ==
    /\ LooksUp(n)
    /\ \/ /\ CallFails
          /\ \/ InFile(n) /\ FailWith(EvidenceCode(w.upload), TRUE, TRUE)
             \/ ReadsMessages(n) /\ FailWith("publish_ambiguous", TRUE, TRUE)
       \/ /\ CallWorks
          /\ InFile(n) /\ slackFile[n] = "reserved"
          /\ FailWith(EvidenceCode(w.upload), TRUE, TRUE)
    /\ UNCHANGED <<outbox, slack, closed, proc, restarts>>

LookupRefuses(n) ==
    /\ LooksUp(n)
    /\ CallWorks
    /\ \/ InFile(n) /\ ~FileProven(n, w.upload)
          /\ FailWith(EvidenceCode(w.upload), FALSE, FALSE)
       \/ /\ InFile(n) => FileProven(n, w.upload)
          /\ ReadsMessages(n)
          /\ closed \/ PostsInconsistent(n) \/ SharesInconsistent(n)
          /\ FailWith("delivery_invalid", FALSE, FALSE)
    /\ UNCHANGED <<outbox, slack, closed, proc, restarts>>

LookupAnswers(n) ==
    /\ LooksUp(n)
    /\ CallWorks
    /\ InFile(n) => FileProven(n, w.upload)
    /\ ReadsMessages(n) => ~PostsInconsistent(n) /\ ~SharesInconsistent(n)
    /\ IF ReadsMessages(n) /\ PostsSeen(n) # {}
       THEN Goto("mark_published") /\ UNCHANGED missed
       ELSE /\ Goto("verify")
            /\ missed' = IF Unseen(n) THEN missed \cup {n} ELSE missed
    /\ UNCHANGED <<outbox, thread, flight, slackFile, granted, closed, proc, restarts>>

Lookup(n) == LookupFails(n) \/ LookupRefuses(n) \/ LookupAnswers(n)

\* HostCompletionTurn reads the result back; every error but the classified
\* ones, a cancelled context among them, is made permanent.
Verify ==
    /\ At("verify")
    /\ \/ /\ CarriesResult(w.n) => CallWorks
          /\ ~CarriesResult(w.n) => UNCHANGED faults
          /\ Goto(IF InFile(w.n) THEN "file" ELSE "post")
       \/ /\ CarriesResult(w.n)
          /\ CallFails
          /\ FailWith("artifact_invalid", FALSE, FALSE)
    /\ UNCHANGED <<outbox, slack, closed, proc, restarts>>

-----------------------------------------------------------------------------
(* publishFile: upload the result, share it, then post the status message. *)

Stage(to)      == slackFile' = [slackFile EXCEPT ![w.n] = to]
SetUpload(to)  == row' = [row EXCEPT ![w.n].upload = to]

\* Where to go on, from the stage the row recorded.
ResumeFile ==
    /\ At("file")
    /\ \/ /\ ~w.file
          /\ IF w.upload = "pending" THEN Goto("request")
             ELSE FailWith("upload_unknown", FALSE, FALSE)
       \/ w.file /\ w.upload = "completed" /\ Goto("post")
       \/ /\ w.file /\ w.upload \in {"unknown", "url_requested", "bytes_uploaded"}
          /\ Goto("inspect")
    /\ UNCHANGED <<outbox, slack, world>>

\* Exact evidence of the file is the only way to go on with an upload.
Inspect ==
    /\ At("inspect")
    /\ \/ /\ CallFails
          /\ \/ FailWith("upload_unknown", TRUE, TRUE)
             \/ Threaded /\ FailWith("publish_ambiguous", TRUE, TRUE)
       \/ /\ CallWorks
          /\ ~FileProven(w.n, w.upload)
          /\ FailWith("upload_unknown", FALSE, FALSE)
       \/ /\ CallWorks
          /\ slackFile[w.n] = "reserved"
          /\ FailWith("upload_unknown", TRUE, TRUE)
       \/ /\ CallWorks
          /\ FileProven(w.n, w.upload)
          /\ Goto(IF w.upload = "unknown" \/ ShareProven(w.n)
                  THEN "mark_completed" ELSE "complete")
    /\ UNCHANGED <<outbox, slack, closed, proc, restarts>>

\* An upload URL was granted, or the answer was lost, or Slack refused.
RequestURL ==
    /\ At("request")
    /\ \/ /\ CallWorks
          /\ granted' = [granted EXCEPT ![w.n] = @ + 1]
          /\ Stage("reserved")
          /\ Goto("mark_file")
       \/ /\ CallFails
          /\ granted' \in {granted, [granted EXCEPT ![w.n] = @ + 1]}
          /\ FailWith("upload_unknown", FALSE, FALSE)
          /\ UNCHANGED slackFile
       \/ /\ proc # "cancelled" /\ Fault
          /\ FailWith("upload_failed", FALSE, TRUE)
          /\ UNCHANGED <<granted, slackFile>>
    /\ UNCHANGED <<outbox, thread, flight, missed, closed, proc, restarts>>

\* MarkNotificationFileID runs under the worker's context.
MarkFile ==
    /\ At("mark_file")
    /\ \/ /\ CallWorks
          /\ row' = [row EXCEPT ![w.n].file = TRUE, ![w.n].upload = "url_requested"]
          /\ w' = [w EXCEPT !.pc = "upload", !.file = TRUE]
       \/ /\ CallFails
          /\ FailWith("upload_unknown", FALSE, FALSE)
          /\ UNCHANGED row
    /\ UNCHANGED <<activation, slack, closed, proc, restarts>>

UploadBytes ==
    /\ At("upload")
    /\ \/ CallWorks /\ Stage("uploaded") /\ Goto("mark_bytes")
       \/ /\ CallFails
          /\ \/ UNCHANGED slackFile
             \/ Stage("uploaded")
          /\ FailWith("upload_unknown", TRUE, TRUE)
       \/ /\ proc # "cancelled" /\ Fault
          /\ FailWith("upload_unknown", FALSE, TRUE)
          /\ UNCHANGED slackFile
    /\ UNCHANGED <<outbox, thread, flight, granted, missed, closed, proc, restarts>>

MarkBytes ==
    /\ At("mark_bytes")
    /\ \/ CallWorks /\ SetUpload("bytes_uploaded") /\ Goto("complete")
       \/ CallFails /\ FailWith("upload_unknown", TRUE, TRUE) /\ UNCHANGED row
    /\ UNCHANGED <<activation, slack, closed, proc, restarts>>

Share == /\ Stage("shared")
         /\ thread' = Append(thread, [n |-> w.n, part |-> 0])

\* A refusal, even one for good, is retried without a limit.
CompleteUpload ==
    /\ At("complete")
    /\ \/ ~closed /\ CallWorks /\ Share /\ Goto("mark_completed")
       \/ /\ CallFails
          /\ \/ UNCHANGED <<slackFile, thread>>
             \/ ~closed /\ Share
          /\ FailWith("completion_failed", TRUE, TRUE)
       \/ /\ proc # "cancelled"
          /\ Fault \/ (closed /\ UNCHANGED faults)
          /\ FailWith("completion_failed", FALSE, TRUE)
          /\ UNCHANGED <<slackFile, thread>>
    /\ UNCHANGED <<outbox, flight, granted, missed, closed, proc, restarts>>

MarkCompleted ==
    /\ At("mark_completed")
    /\ \/ CallWorks /\ SetUpload("completed") /\ Goto("post")
       \/ CallFails /\ FailWith("upload_unknown", TRUE, TRUE) /\ UNCHANGED row
    /\ UNCHANGED <<activation, slack, closed, proc, restarts>>

-----------------------------------------------------------------------------
(* Post the parts of the message, one after the other.                     *)

ThisPart == [n |-> w.n, part |-> w.part]

\* Mutation: the loop over the parts runs once too often.
LastPartPassed(p) == p > PartCount(w.n)

LastPart(p) == p = PartCount(w.n)

Post ==
    /\ At("post")
    /\ ~closed
    /\ CallWorks
    /\ thread' = Append(thread, ThisPart)
    /\ w' = IF LastPart(w.part) THEN [w EXCEPT !.pc = "mark_published"]
                         ELSE [w EXCEPT !.part = @ + 1]
    /\ UNCHANGED <<outbox, flight, slackFile, granted, missed, closed, proc, restarts>>

\* No answer, or a refusal that is not for good: the message was not posted,
\* was posted, or will be.
PostFails ==
    /\ At("post")
    /\ CallFails
    /\ \/ UNCHANGED <<thread, flight>>
       \/ ~closed /\ thread' = Append(thread, ThisPart) /\ UNCHANGED flight
       \/ ~closed /\ flight' = flight \cup {ThisPart} /\ UNCHANGED thread
    /\ FailWith("publish_ambiguous", TRUE, TRUE)
    /\ UNCHANGED <<outbox, slackFile, granted, missed, closed, proc, restarts>>

PostRefused ==
    /\ At("post")
    /\ closed
    /\ CallWorks
    /\ FailWith("delivery_invalid", FALSE, FALSE)
    /\ UNCHANGED <<outbox, slack, closed, proc, restarts>>

Land(m) ==
    /\ m \in flight
    /\ flight' = flight \ {m}
    /\ thread' = Append(thread, m)
    /\ UNCHANGED <<outbox, w, slackFile, granted, missed, world>>

-----------------------------------------------------------------------------
(* Record the outcome.  These calls outlive a cancelled context.           *)

\* The compare-and-set of a file delivery wants its upload completed.
UploadAccepted(n) == InFile(n) => row[n].upload = "completed" /\ row[n].file

MarkPublished ==
    /\ At("mark_published")
    /\ UploadAccepted(w.n)
    /\ row' = [row EXCEPT ![w.n].state = "published", ![w.n].code = ""]
    /\ activation' = IF Activates(w.n) THEN activation \cup {w.n} ELSE activation
    /\ w' = Idle
    /\ UNCHANGED <<slack, world>>

\* A lost compare-and-set or a store error leaves the row in "publishing".
MarkPublishedFails ==
    /\ At("mark_published")
    /\ \/ Fault
       \/ ~UploadAccepted(w.n) /\ UNCHANGED faults
    /\ w' = Idle
    /\ UNCHANGED <<outbox, slack, closed, proc, restarts>>

CanRetry == w.retry /\ (w.amb => row[w.n].attempts < ReconcileMaxAttempts)

RecordRetry ==
    /\ At("fail")
    /\ CanRetry
    /\ row' = [row EXCEPT ![w.n].state = "pending", ![w.n].code = w.code,
                          ![w.n].upload = IF InFile(w.n) /\ w.code = "upload_unknown"
                                          THEN "unknown" ELSE @]
    /\ w' = Idle
    /\ UNCHANGED <<activation, slack, world>>

RecordRetryFails ==
    /\ At("fail")
    /\ CanRetry
    /\ Fault
    /\ Goto("fallback")
    /\ UNCHANGED <<outbox, slack, closed, proc, restarts>>

FinalCode ==
    IF /\ w.amb /\ w.code = "publish_ambiguous"
       /\ row[w.n].attempts >= ReconcileMaxAttempts
    THEN "delivery_invalid" ELSE w.code

\* Mutation: nobody is told.
WithoutFailureNotice(rows, n) == rows

WithFailureNotice(rows, n) ==
    IF rows[n].code \in Permanent /\ rows[FailureOf(n)].state = "absent"
    THEN [rows EXCEPT ![FailureOf(n)] = Enqueued(FailureOf(n))] ELSE rows

RecordsUnknown == At("fallback") \/ (At("fail") /\ ~CanRetry)

\* A code that is final enqueues the notice of the failure, once, in the same
\* transaction.
RecordUnknown ==
    /\ RecordsUnknown
    /\ row' = WithFailureNotice(
                 [row EXCEPT ![w.n].state = "unknown", ![w.n].code = FinalCode,
                             ![w.n].upload = IF InFile(w.n) THEN "unknown" ELSE @],
                 w.n)
    /\ w' = Idle
    /\ UNCHANGED <<activation, slack, world>>

RecordUnknownFails ==
    /\ RecordsUnknown
    /\ Fault
    /\ w' = Idle
    /\ UNCHANGED <<outbox, slack, closed, proc, restarts>>

-----------------------------------------------------------------------------
(* The channel and the process.                                            *)

CloseChannel ==
    /\ ~closed
    /\ closed' = TRUE
    /\ UNCHANGED <<outbox, w, slack, proc, faults, restarts>>

StopAdmission ==
    /\ proc = "up" /\ restarts < MaxRestarts
    /\ proc' = "draining"
    /\ UNCHANGED <<outbox, w, slack, closed, faults, restarts>>

\* The shutdown grace is over.
CancelContext ==
    /\ proc = "draining"
    /\ proc' = "cancelled"
    /\ UNCHANGED <<outbox, w, slack, closed, faults, restarts>>

ProcessEnds ==
    /\ restarts < MaxRestarts
    /\ proc' = "down"
    /\ restarts' = restarts + 1
    /\ w' = Idle
    /\ UNCHANGED <<outbox, slack, closed, faults>>

Crash == proc # "down" /\ ProcessEnds
Exit  == (proc = "cancelled" \/ (proc = "draining" /\ w.pc = "idle")) /\ ProcessEnds

Restart ==
    /\ proc = "down"
    /\ proc' = "up"
    /\ UNCHANGED <<outbox, w, slack, closed, faults, restarts>>

-----------------------------------------------------------------------------
Init ==
    /\ kind \in [Job -> Kinds]
    /\ row = [n \in Notice |-> Absent]
    /\ activation = {}
    /\ w = Idle
    /\ thread = <<>> /\ flight = {}
    /\ slackFile = [n \in Notice |-> "none"]
    /\ granted = [n \in Notice |-> 0]
    /\ missed = {}
    /\ closed = FALSE
    /\ proc = "up"
    /\ faults = 0 /\ restarts = 0

PublishFile ==
    \/ ResumeFile \/ Inspect \/ RequestURL \/ MarkFile \/ UploadBytes
    \/ MarkBytes \/ CompleteUpload \/ MarkCompleted

RecordFailure ==
    RecordRetry \/ RecordRetryFails \/ RecordUnknown \/ RecordUnknownFails

WorkerStep ==
    \/ LookupWithoutFile
    \/ \E n \in Notice : Lookup(n)
    \/ Verify
    \/ PublishFile
    \/ Post \/ PostFails \/ PostRefused
    \/ MarkPublished \/ MarkPublishedFails
    \/ RecordFailure

ProcessStep == StopAdmission \/ CancelContext \/ Crash \/ Exit \/ Restart

Next ==
    /\ \/ \E n \in Notice : Enqueue(n) \/ Claim(n)
       \/ WorkerStep
       \/ \E m \in flight : Land(m)
       \/ CloseChannel
       \/ ProcessStep
    /\ UNCHANGED kind

Spec == Init /\ [][Next]_<<vars, kind>>

\* The worker's loop polls for ever and takes the row that is due first, so a
\* row that stays claimable gets its turn; a stopped process is started again.
Fairness ==
    /\ WF_vars(WorkerStep)
    /\ \A n \in Notice : SF_vars(Claim(n))
    /\ WF_vars(Exit)
    /\ WF_vars(Restart)

LiveSpec == Spec /\ Fairness

-----------------------------------------------------------------------------
(* Properties.                                                             *)

Message == [n : Notice, part : 0 .. Parts]

WorkerPc == {"idle", "lookup", "verify", "file", "inspect", "request",
             "mark_file", "upload", "mark_bytes", "complete", "mark_completed",
             "post", "mark_published", "fail", "fallback"}

\* Every variable has the values the columns, the codes and Slack allow.
TypeOK ==
    /\ kind \in [Job -> Kinds]
    /\ row \in [Notice -> [state : {"absent", "pending", "publishing",
                                    "published", "unknown"},
                           code : Code, upload : UploadStage, file : BOOLEAN,
                           attempts : 0 .. ReconcileMaxAttempts]]
    /\ activation \subseteq Notice
    /\ w \in [pc : WorkerPc, n : Notice \cup {NoNotice}, part : 0 .. Parts,
              upload : UploadStage, file : BOOLEAN, code : Code,
              amb : BOOLEAN, retry : BOOLEAN]
    /\ thread \in Seq(Message)
    /\ flight \subseteq Message
    /\ slackFile \in [Notice -> {"none", "reserved", "uploaded", "shared"}]
    /\ granted \in [Notice -> Nat]
    /\ missed \subseteq Notice
    /\ closed \in BOOLEAN
    /\ proc \in {"up", "draining", "cancelled", "down"}
    /\ faults \in 0 .. MaxFaults
    /\ restarts \in 0 .. MaxRestarts

PositionsOf(n) == {i \in DOMAIN thread : thread[i].n = n /\ thread[i].part > 0}
Delivered(n)   == {thread[i].part : i \in PositionsOf(n)} = 1 .. PartCount(n)

\* However often an upload is interrupted, Slack is asked for at most one file
\* per result, so no second copy can appear.
OneFilePerResult == \A n \in Notice : granted[n] <= 1

\* Retries, lookups and restarts never post a part twice nor out of order,
\* unless a lookup could not see a post that Slack had accepted, and never ask
\* for a second file.
PostedOnceInOrder ==
    /\ OneFilePerResult
    /\ \A n \in Notice \ missed :
           \A i, k \in PositionsOf(n) : i < k => thread[i].part < thread[k].part

\* A row says published, and the root agent is activated, only when every part
\* of the message is in the conversation and the file, if any, was shared.
PublishedWasDelivered ==
    \A n \in Notice :
        row[n].state = "published" \/ n \in activation
            => Delivered(n) /\ (InFile(n) => slackFile[n] = "shared")

\* When the notice of a status is given up, a second notice that says so is in
\* the outbox.
GivenUpIsReported ==
    \A n \in Notice : Condemned(n) => row[FailureOf(n)].state # "absent"

\* What the row of a notice that is over says is what the conversation got.
OutcomeIsTrue == PublishedWasDelivered /\ GivenUpIsReported

\* Published and given-up rows are never claimed or written again.
SettledIsFinal == [][\A n \in Notice : Settled(n) => row'[n] = row[n]]_vars

Heard(j) == \E i \in DOMAIN thread : thread[i].n.job = j /\ thread[i].part > 0

\* The conversation hears of every job that ended, if only that its result
\* could not be delivered, unless the channel is gone or that failure notice was
\* given up as well (of a file, once its failure has a notice).
EveryJobIsHeard ==
    \A j \in Job :
        (\E n \in Notice : n.job = j /\ row[n].state # "absent" /\ ~InFile(n))
            ~> \/ closed \/ Heard(j)
               \/ \E n \in Notice : n.job = j /\ n.kind = "failure" /\ Condemned(n)

-----------------------------------------------------------------------------
(* Statements of the repository that these models contradict.              *)

\* After a permanent code the failure notice can be claimed
\* (TestPermanentNotificationErrorsAreNotRescheduledOrRetried).
PermanentCodeIsReported ==
    \A n \in Notice :
        /\ n.kind = "terminal"
        /\ row[n].state \in {"pending", "unknown"}
        /\ row[n].code \in Undeliverable
        => row[FailureOf(n)].state # "absent"

\* An ambiguous upload is recoverable when Slack exposes the exact file: what
\* a lookup found can be recorded.
FoundCanBeRecorded == w.pc = "mark_published" => UploadAccepted(w.n)

\* Reconciliation is restart-safe: a notice that was delivered is not given up
\* when no call failed.
DeliveredIsNotGivenUp ==
    (faults = 0 /\ ~closed) => \A n \in Notice : Delivered(n) => ~Condemned(n)

\* Stopping admission lets the current publication finish and leaves a retry:
\* without a failed call no result is given up.
ShutdownGivesNothingUp ==
    (faults = 0 /\ ~closed) => \A n \in Notice : ~Condemned(n)
=============================================================================

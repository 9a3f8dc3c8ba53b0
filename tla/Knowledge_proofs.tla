--------------------------- MODULE Knowledge_proofs ---------------------------
(***************************************************************************)
(* Proofs about Knowledge: each command takes effect once, and every copy  *)
(* that says it is up to date shows the rows, for any number of items,     *)
(* subjects, commands, triggers, failures and restarts.                    *)
(***************************************************************************)
EXTENDS Knowledge, TLAPS, FiniteSetTheorems

ClaimOp == {"correct", "archive", "dispute"}
PrefOp  == {"prefer", "retire"}

-----------------------------------------------------------------------------
\* Types.
Entry == [source : Event, op : {"create", "supersede"} \cup {"archive", "dispute"} \cup PrefOp]

RowType ==
  [status : {"absent", "verified", "disputed", "superseded", "archived", "active", "gone"},
   subject : Subject \cup {None}, prior : Claim \cup {None}, log : Seq(Entry)]

TextType ==
  [op : {"none", "remember", "forget"} \cup ClaimOp \cup PrefOp, on : Item \cup {None}, rev : Nat]

EventType ==
  [text : TextType, step : {"idle", "found", "receipted"},
   target : Item \cup Subject \cup {None}, receipt : Item \cup Subject \cup {None}]

QueueType ==
  [status : {"none", "pending", "processing", "done", "failed"}, gen : Nat, attempts : Nat]

BatchType ==
  [item : Item, gen : Nat, attempts : Nat,
   step : {"claimed", "read", "written", "settled"}, seen : Nat]

TriggerType ==
  [status : {"pending", "delayed", "processing", "done", "failed", "deleted"}, attempts : Nat]

Steps == {"rest", "clear_staging", "clear_backup", "render", "move_aside", "move_in",
          "drop_backup", "complete"}

Typed ==
  /\ copy \in Copies
  /\ row \in [Item -> RowType] /\ tombstone \subseteq Subject
  /\ event \in [Event -> EventType]
  /\ queue \in [Item -> QueueType] /\ index \in [Item -> Nat]
  /\ batch \in Seq(BatchType) /\ todo \subseteq Item
  /\ outbox \in Seq(TriggerType)
  /\ turn \in [step : Steps, for : SUBSET DOMAIN outbox]
  /\ dir \in [{"live", "backup", "staging"} -> {NoDir} \cup [Item -> Nat]]

-----------------------------------------------------------------------------
\* Commands: what a source names once it was delivered, and once it has a
\* receipt.
Worded(e) ==
  LET v == event[e] IN
    /\ v.text.op \in ClaimOp => v.text.on \in Claim
    /\ v.text.op \in PrefOp => v.text.on \in Pref
    /\ v.text.op = "none" <=> v.text = NoText
    /\ v.text = NoText => v.step = "idle" /\ v.receipt = None
    /\ v.step # "idle" => v.target \in Targets(v.text)
    /\ v.receipt # None => v.receipt \in Targets(v.text)
    /\ v.step = "receipted" => v.receipt = v.target

\* A row and its journal: who is stored has one, which starts with its creation.
Kept(i) ==
  LET r == row[i] IN
    /\ i \in Claim => r.status # "active"
    /\ i \in Pref => r.status \in {"absent", "active", "archived"}
    /\ Stored(i) <=> r.log # <<>>
    /\ i \in Claim /\ Stored(i) => r.subject \in Subject
    /\ i \in Claim /\ r.prior # None => Stored(i)
    /\ \A n \in DOMAIN r.log : /\ event[r.log[n].source].receipt # None
                               /\ Commanded(i, r.log[n])
                               /\ i \in Claim => (r.log[n].op = "create" <=> n = 1)
    /\ \A m, n \in DOMAIN r.log : r.log[m].source = r.log[n].source => m = n

\* A claim that replaces another is stored with it, under its subject, and
\* is the only one that does.
Replaces ==
  /\ \A d \in Claim : row[d].prior # None =>
       LET c == row[d].prior IN
         /\ row[c].status = "superseded" /\ row[c].subject = row[d].subject
  /\ \A c \in Claim : row[c].status = "superseded" => \E d \in Claim : row[d].prior = c
  /\ \A d1, d2 \in Claim : row[d1].prior # None /\ row[d1].prior = row[d2].prior => d1 = d2

CreatedOnce ==
  \A c, d \in Claim :
    Stored(c) /\ Stored(d) /\ row[c].log[1].source = row[d].log[1].source => c = d

Buried == \A s \in tombstone : Holding(s) = {}

Truth == (\A e \in Event : Worded(e)) /\ (\A i \in Item : Kept(i)) /\ Replaces /\ CreatedOnce /\ Buried

-----------------------------------------------------------------------------
\* Queues: the worker holds the newest claim of an item's row.
Current(i) == \E k \in DOMAIN batch : batch[k].item = i /\ batch[k].gen = queue[i].gen

\* What the worker read, or wrote, of an item is still so while it holds the
\* newest claim; a row that is done and in the batch is done by that claim.
Reads(k) ==
  LET b == batch[k] IN
    /\ b.gen <= queue[b.item].gen
    /\ queue[b.item].status = "done" => Current(b.item)
    /\ Current(b.item) /\ b.step = "read" => b.seen = Indexable(b.item)
    /\ Current(b.item) /\ b.step = "written" => index[b.item] = Indexable(b.item)

Indexing ==
  /\ ~Indexed => batch = <<>> /\ todo = {} /\ \A i \in Item : queue[i].status = "none"
  /\ \A k \in DOMAIN batch : Reads(k)
  /\ IndexTellsTruth

-----------------------------------------------------------------------------
\* Directories: where the bundle, its backup and the staging are at each step.
Shape ==
  /\ turn.step \in {"clear_backup", "render"} => dir.staging = NoDir
  /\ turn.step \in {"render", "move_aside"} => dir.backup = NoDir
  /\ turn.step = "move_aside" => dir.live # NoDir /\ dir.staging # NoDir
  /\ turn.step = "move_in" => dir.live = NoDir /\ dir.backup # NoDir /\ dir.staging # NoDir
  /\ turn.step \in {"drop_backup", "complete"} => dir.live # NoDir /\ dir.staging = NoDir
  /\ turn.step = "complete" => dir.backup = NoDir

\* The turn that serves the last trigger rendered the rows as they are.
Shows ==
  Len(outbox) \in turn.for =>
    /\ turn.step \in {"move_aside", "move_in"} => dir.staging = Snapshot
    /\ turn.step \in {"drop_backup", "complete"} => dir.live = Snapshot

Projecting ==
  /\ copy # "bundle" => outbox = <<>>
  /\ turn.step = "rest" => turn.for = {}
  /\ Shape /\ Shows /\ BundleTellsTruth /\ BundleSurvives

Inv == Typed /\ Truth /\ Indexing /\ Projecting

-----------------------------------------------------------------------------
\* Types of the parts.

LEMMA NewRowIs ==
  ASSUME NEW e \in Event, NEW st \in {"verified", "active"},
         NEW s \in Subject \cup {None}, NEW p \in Claim \cup {None}
  PROVE  LET r == NewRow(st, s, p, e) IN
           /\ r \in RowType /\ r.status = st /\ r.subject = s /\ r.prior = p
           /\ DOMAIN r.log = {1} /\ r.log # <<>> /\ r.log[1] = [source |-> e, op |-> "create"]
<1> DEFINE x == [source |-> e, op |-> "create"]
<1>1. x \in Entry  BY DEF Entry
<1> HIDE DEF x
<1>2. <<x>> \in Seq(Entry) /\ Len(<<x>>) = 1 /\ <<x>>[1] = x  BY <1>1
<1>3. DOMAIN <<x>> = {1} /\ <<x>> # <<>>  BY <1>2
<1> QED BY <1>2, <1>3 DEF NewRow, RowType, x

LEMMA RevisedIs ==
  ASSUME NEW r \in RowType, NEW e \in Event, NEW op, NEW st,
         [source |-> e, op |-> op] \in Entry,
         st \in {"verified", "disputed", "superseded", "archived", "active"}
  PROVE  LET q == Revised(r, st, e, op) IN
           /\ q \in RowType /\ q.status = st /\ q.subject = r.subject /\ q.prior = r.prior
           /\ q.log # <<>> /\ Len(q.log) = Len(r.log) + 1
           /\ DOMAIN q.log = DOMAIN r.log \cup {Len(r.log) + 1}
           /\ \A n \in DOMAIN r.log : q.log[n] = r.log[n]
           /\ q.log[Len(r.log) + 1] = [source |-> e, op |-> op]
<1> DEFINE x == [source |-> e, op |-> op]
<1>1. x \in Entry  OBVIOUS
<1>2. r.log \in Seq(Entry) /\ Len(r.log) \in Nat  BY DEF RowType
<1> HIDE DEF x
<1>3. Revised(r, st, e, op) = [r EXCEPT !.status = st, !.log = Append(r.log, x)]
  BY DEF Revised, RowType, x
<1>4. /\ Append(r.log, x) \in Seq(Entry) /\ Len(Append(r.log, x)) = Len(r.log) + 1
      /\ \A n \in 1..Len(r.log) : Append(r.log, x)[n] = r.log[n]
      /\ Append(r.log, x)[Len(r.log) + 1] = x
  BY <1>1, <1>2
<1>5. DOMAIN r.log = 1..Len(r.log) /\ DOMAIN Append(r.log, x) = 1..Len(r.log) + 1
  BY <1>2, <1>4
<1>6. Append(r.log, x) # <<>>  BY <1>2, <1>4
<1>7. DOMAIN Append(r.log, x) = DOMAIN r.log \cup {Len(r.log) + 1}  BY <1>2, <1>5
<1> HIDE DEF Entry
<1>8. LET q == [r EXCEPT !.status = st, !.log = Append(r.log, x)] IN
        /\ q \in RowType /\ q.status = st /\ q.subject = r.subject /\ q.prior = r.prior
        /\ q.log = Append(r.log, x)
  BY <1>4 DEF RowType
<1> QED BY <1>3, <1>4, <1>5, <1>6, <1>7, <1>8 DEF x

LEMMA ForgottenIs ==
  ASSUME NEW r
  PROVE  /\ Forgotten(r) \in RowType /\ Forgotten(r).status = "gone"
         /\ Forgotten(r).prior = None /\ Forgotten(r).log = <<>>
BY DEF Forgotten, RowType

LEMMA RequeuedIs ==
  ASSUME NEW q \in QueueType
  PROVE  /\ Requeued(q) \in QueueType /\ Requeued(q).gen = q.gen + 1
         /\ Requeued(q).status = "pending" /\ q.gen \in Nat
BY DEF Requeued, QueueType

LEMMA ChangedTypes ==
  ASSUME Typed, NEW items, Changed(items)
  PROVE  /\ queue' \in [Item -> QueueType]
         /\ outbox' \in Seq(TriggerType)
         /\ DOMAIN outbox \subseteq DOMAIN outbox'
<1>1. queue' \in [Item -> QueueType]  BY RequeuedIs DEF Changed, Typed
<1>2. CASE copy = "bundle"
  <2>1. outbox' = Append(outbox, Trigger)  BY <1>2 DEF Changed
  <2>2. Trigger \in TriggerType  BY DEF Trigger, TriggerType
  <2>3. outbox \in Seq(TriggerType)  BY DEF Typed
  <2> QED BY <1>1, <2>1, <2>2, <2>3
<1>3. CASE copy # "bundle"  BY <1>1, <1>3 DEF Changed, Typed
<1> QED BY <1>2, <1>3

LEMMA TurnTyped ==
  ASSUME Typed, DOMAIN outbox \subseteq DOMAIN outbox', turn' = turn
  PROVE  turn' \in [step : Steps, for : SUBSET DOMAIN outbox']
BY DEF Typed

LEMMA GeneratedIs ==
  ASSUME Unused # {}
  PROVE  Generated \in Claim /\ row[Generated].status = "absent"
BY DEF Generated, Unused

\* What a command finds when it is to take effect.
LEMMA PerformsIs ==
  ASSUME Typed, NEW e \in Event, Worded(e), NEW op \in ClaimOp \cup PrefOp \cup {"remember", "forget"},
         Performs(e, op)
  PROVE  /\ event[e].text.op = op
         /\ event[e].receipt = event[e].target /\ event[e].receipt # None
         /\ op \in {"remember", "forget"} => event[e].target \in Subject
         /\ op \in ClaimOp => event[e].target \in Claim
         /\ op \in PrefOp => event[e].target \in Pref
         /\ event' \in [Event -> EventType]
         /\ \A d \in Event : event'[d].text = event[d].text /\ event'[d].receipt = event[d].receipt
         /\ Worded(e)' /\ \A d \in Event : d # e => event'[d] = event[d]
<1> DEFINE v == [event[e] EXCEPT !.step = "idle", !.target = None]
<1>0. event[e] \in EventType  BY DEF Typed
<1>1. event' = [event EXCEPT ![e] = v] /\ event \in [Event -> EventType]
  BY <1>0 DEF Performs, Typed, EventType
<1>2. v \in EventType /\ v.text = event[e].text /\ v.receipt = event[e].receipt /\ v.step = "idle"
  BY <1>0 DEF EventType
<1> HIDE DEF v
<1>3. event[e].step = "receipted" /\ event[e].text.op = op  BY DEF Performs
<1>4. event[e].target \in Targets(event[e].text) /\ event[e].receipt = event[e].target
  BY <1>3 DEF Worded
<1>5. event' \in [Event -> EventType] /\ event'[e] = v /\ \A d \in Event : d # e => event'[d] = event[d]
  BY <1>1, <1>2
<1>6. /\ op \in {"remember", "forget"} => event[e].target \in Subject
      /\ op \in ClaimOp => event[e].target \in Claim
      /\ op \in PrefOp => event[e].target \in Pref
  BY <1>3, <1>4 DEF Worded, Targets, ClaimOp, PrefOp
<1>7. event[e].target # None  BY <1>6, NoneAssumption
<1>8. Worded(e)'  BY <1>2, <1>5, <1>3, <1>4 DEF Worded, Targets
<1> QED BY <1>2, <1>3, <1>4, <1>5, <1>6, <1>7, <1>8

-----------------------------------------------------------------------------
\* Commands and rows.

\* Receipts, once committed, stay with their texts.
EventsGrow ==
  \A e \in Event : event[e].receipt # None =>
    event'[e].receipt = event[e].receipt /\ event'[e].text = event[e].text

LEMMA CommandedStays ==
  ASSUME NEW i \in Item, NEW x \in Entry, EventsGrow, event[x.source].receipt # None,
         row'[i].prior = row[i].prior, row'[i].subject = row[i].subject, Commanded(i, x)
  PROVE  Commanded(i, x)' /\ event'[x.source].receipt # None
<1>1. x.source \in Event  BY DEF Entry
<1>2. event'[x.source].receipt = event[x.source].receipt /\ event'[x.source].text = event[x.source].text
  BY <1>1 DEF EventsGrow
<1> QED BY <1>2 DEF Commanded

LEMMA EntriesTyped ==
  ASSUME Typed, NEW i \in Item, NEW n \in DOMAIN row[i].log
  PROVE  row[i].log[n] \in Entry /\ row[i].log[n].source \in Event /\ n \in 1..Len(row[i].log)
<1>1. row[i].log \in Seq(Entry)  BY DEF Typed, RowType
<1>2. row[i].log[n] \in Entry /\ n \in 1..Len(row[i].log)  BY <1>1
<1> QED BY <1>2 DEF Entry

LEMMA KeptStays ==
  ASSUME Typed, NEW i \in Item, Kept(i), EventsGrow, row'[i] = row[i]
  PROVE  Kept(i)'
<1>1. ASSUME NEW n \in DOMAIN row[i].log, NEW x \in Entry, x = row[i].log[n]
      PROVE  Commanded(i, x)' /\ event'[x.source].receipt # None
  <2>1. event[x.source].receipt # None /\ Commanded(i, x)  BY <1>1 DEF Kept
  <2> QED BY <2>1, CommandedStays
<1>2. Stored(i)' <=> Stored(i)  BY DEF Stored
<1>3. ASSUME NEW n \in DOMAIN row'[i].log
      PROVE  /\ event'[row'[i].log[n].source].receipt # None
             /\ Commanded(i, row[i].log[n])'
  <2>1. row[i].log[n] \in Entry  BY EntriesTyped
  <2> QED BY <1>1, <2>1 DEF Commanded
<1> QED BY <1>2, <1>3 DEF Kept

LEMMA KeptRevised ==
  ASSUME Typed, NEW i \in Item, Kept(i), EventsGrow, Stored(i),
         NEW e \in Event, NEW op, NEW st, [source |-> e, op |-> op] \in Entry, op # "create",
         st \in (IF i \in Claim THEN {"verified", "disputed", "superseded", "archived"}
                                ELSE {"archived", "active"}),
         e \notin Sources(i), row'[i] = Revised(row[i], st, e, op),
         event[e].receipt # None, Commanded(i, [source |-> e, op |-> op])
  PROVE  Kept(i)'
<1> DEFINE x == [source |-> e, op |-> op]
<1> DEFINE r == row[i]
<1> DEFINE q == row'[i]
<1>1. r \in RowType  BY DEF Typed
<1>2. st \in {"verified", "disputed", "superseded", "archived", "active"}  OBVIOUS
<1>3. /\ q \in RowType /\ q.status = st /\ q.subject = r.subject /\ q.prior = r.prior
      /\ q.log # <<>> /\ DOMAIN q.log = DOMAIN r.log \cup {Len(r.log) + 1}
      /\ \A n \in DOMAIN r.log : q.log[n] = r.log[n]
      /\ q.log[Len(r.log) + 1] = x
  BY <1>1, <1>2, RevisedIs
<1>4. r.log \in Seq(Entry) /\ r.log # <<>>  BY <1>1 DEF RowType, Kept
<1>5. Len(r.log) \in Nat /\ Len(r.log) > 0 /\ DOMAIN r.log = 1..Len(r.log)  BY <1>4
<1>6. Len(r.log) + 1 \notin DOMAIN r.log /\ Len(r.log) + 1 # 1  BY <1>5
<1>7. x \in Entry /\ x.source = e /\ x.op = op  OBVIOUS
<1>8. \A n \in DOMAIN r.log : r.log[n].source # e  BY DEF Sources
<1>9. Commanded(i, x)' /\ event'[e].receipt # None
  BY <1>3, <1>7, CommandedStays
<1>10. ASSUME NEW n \in DOMAIN r.log, NEW y \in Entry, y = r.log[n]
       PROVE  Commanded(i, y)' /\ event'[y.source].receipt # None
  <2>1. event[y.source].receipt # None /\ Commanded(i, y)  BY <1>10 DEF Kept
  <2> QED BY <1>3, <2>1, CommandedStays
<1>11. ASSUME NEW n \in DOMAIN q.log
       PROVE  Commanded(i, row[i].log[n])' /\ event'[q.log[n].source].receipt # None
  <2>1. CASE n \in DOMAIN r.log
    <3>1. q.log[n] = r.log[n] /\ r.log[n] \in Entry  BY <1>3, <2>1, EntriesTyped
    <3> QED BY <1>10, <2>1, <3>1 DEF Commanded
  <2>2. CASE n = Len(r.log) + 1
    <3>1. q.log[n] = x  BY <1>3, <2>2
    <3> QED BY <1>7, <1>9, <3>1 DEF Commanded
  <2> QED BY <1>3, <2>1, <2>2
<1> HIDE DEF x, r, q
<1>12. i \in Claim => \A n \in DOMAIN q.log : (q.log[n].op = "create" <=> n = 1)
  BY <1>3, <1>6, <1>7 DEF Kept, r
<1>13. \A m, n \in DOMAIN q.log : q.log[m].source = q.log[n].source => m = n
  BY <1>3, <1>7, <1>8 DEF Kept, r
<1>14. Stored(i)'  BY <1>2, <1>3 DEF Stored, q
<1>15. Stored(i) => (i \in Claim => r.subject \in Subject)  BY DEF Kept, r
<1>16. (i \in Claim => q.status # "active") /\ (i \in Pref => q.status \in {"absent", "active", "archived"})
  BY <1>3, KindAssumption
<1> QED BY <1>3, <1>11, <1>12, <1>13, <1>14, <1>15, <1>16 DEF Kept, q

LEMMA KeptNew ==
  ASSUME Typed, NEW i \in Item, EventsGrow,
         NEW e \in Event, NEW st, NEW s \in Subject \cup {None}, NEW p \in Claim \cup {None},
         st = (IF i \in Claim THEN "verified" ELSE "active"),
         i \in Claim => s \in Subject,
         row'[i] = NewRow(st, s, p, e), event[e].receipt # None,
         Commanded(i, [source |-> e, op |-> "create"])'
  PROVE  Kept(i)'
<1> DEFINE x == [source |-> e, op |-> "create"]
<1> DEFINE q == row'[i]
<1>1. st \in {"verified", "active"}  OBVIOUS
<1>2. /\ q \in RowType /\ q.status = st /\ q.subject = s /\ q.prior = p
      /\ DOMAIN q.log = {1} /\ q.log # <<>> /\ q.log[1] = x
  BY <1>1, NewRowIs
<1>3. event'[e].receipt # None  BY DEF EventsGrow
<1>4. x.source = e /\ x.op = "create"  OBVIOUS
<1>5. Stored(i)'  BY <1>1, <1>2 DEF Stored
<1>6. Commanded(i, x)'  OBVIOUS
<1>7. ASSUME NEW n \in DOMAIN q.log
      PROVE  /\ event'[q.log[n].source].receipt # None
             /\ Commanded(i, row[i].log[n])'
             /\ q.log[n].op = "create" /\ n = 1
  <2>1. n = 1 /\ q.log[n] = x  BY <1>2
  <2> QED BY <1>3, <1>4, <1>6, <2>1 DEF Commanded
<1> HIDE DEF x, q
<1>8. (i \in Claim => st # "active") /\ (i \in Pref => st \in {"absent", "active", "archived"})
  BY KindAssumption
<1> QED BY <1>2, <1>5, <1>7, <1>8 DEF Kept, q

-----------------------------------------------------------------------------
\* Steps that leave the rows as they are.
LEMMA TruthKeeps ==
  ASSUME Typed, Truth, UNCHANGED truth, EventsGrow, \A e \in Event : Worded(e)'
  PROVE  Truth'
<1>1. row' = row /\ tombstone' = tombstone  BY DEF truth
<1>2. \A i \in Item : Kept(i)'  BY <1>1, KeptStays DEF Truth
<1>3. Replaces' /\ CreatedOnce' /\ Buried'
  BY <1>1 DEF Truth, Replaces, CreatedOnce, Buried, Stored, Holding
<1> QED BY <1>2, <1>3 DEF Truth

LEMMA TruthSame ==
  ASSUME Typed, Truth, UNCHANGED <<truth, event>>
  PROVE  Truth'
<1>1. EventsGrow  BY DEF EventsGrow
<1>2. \A e \in Event : Worded(e)'  BY DEF Truth, Worded
<1> QED BY <1>1, <1>2, TruthKeeps

-----------------------------------------------------------------------------
\* Delivery, receipt and abandonment leave rows alone.
LEMMA TypeableIs ==
  ASSUME Typed, NEW t \in Typeable
  PROVE  /\ t \in TextType /\ t.op # "none"
         /\ t.op \in ClaimOp => t.on \in Claim
         /\ t.op \in PrefOp => t.on \in Pref
<1>1. CASE t \in {Text(op, None, 0) : op \in {"remember", "forget"}}
  BY <1>1 DEF Text, TextType, ClaimOp, PrefOp
<1>2. CASE t \in {Text("correct", c, 0) : c \in {d \in Claim : Stored(d)}}
  BY <1>2 DEF Text, TextType, ClaimOp, PrefOp, Item
<1>3. CASE \E c \in Claim, op \in {"archive", "dispute"} :
             \E n \in DOMAIN row[c].log : t = Text(op, c, n)
  <2> PICK c \in Claim, op \in {"archive", "dispute"} :
             \E n \in DOMAIN row[c].log : t = Text(op, c, n)
    BY <1>3
  <2> PICK n \in DOMAIN row[c].log : t = Text(op, c, n)  OBVIOUS
  <2>1. n \in Nat  BY EntriesTyped DEF Item
  <2> QED BY <2>1 DEF Text, TextType, ClaimOp, PrefOp, Item
<1>4. CASE t \in {Text("prefer", p, 0) : p \in Pref}
  BY <1>4 DEF Text, TextType, ClaimOp, PrefOp, Item
<1>5. CASE \E p \in Pref, op \in {"prefer", "retire"} :
             \E n \in DOMAIN row[p].log : t = Text(op, p, n)
  <2> PICK p \in Pref, op \in {"prefer", "retire"} :
             \E n \in DOMAIN row[p].log : t = Text(op, p, n)
    BY <1>5
  <2> PICK n \in DOMAIN row[p].log : t = Text(op, p, n)  OBVIOUS
  <2>1. n \in Nat  BY EntriesTyped DEF Item
  <2> QED BY <2>1 DEF Text, TextType, ClaimOp, PrefOp, Item
<1> QED BY <1>1, <1>2, <1>3, <1>4, <1>5 DEF Typeable

LEMMA TargetsTyped ==
  ASSUME NEW t \in TextType, t.op \in ClaimOp => t.on \in Claim, t.op \in PrefOp => t.on \in Pref,
         t.op # "none", NEW x \in Targets(t)
  PROVE  x \in Item \cup Subject /\ x # None
<1>1. t.op \in {"remember", "forget"} \cup ClaimOp \cup PrefOp  BY DEF TextType
<1> QED BY <1>1, NoneAssumption DEF Targets, Item

LEMMA DeliverTruth ==
  ASSUME Typed, Truth, NEW e \in Event, NEW t, NEW x \in Targets(t), Deliver(e, t, x)
  PROVE  Truth' /\ event' \in [Event -> EventType]
<1> DEFINE v == [event[e] EXCEPT !.text = t, !.step = "found", !.target = x]
<1>0. event[e] \in EventType /\ Worded(e)  BY DEF Typed, Truth
<1>1. event' = [event EXCEPT ![e] = v]  BY <1>0 DEF Deliver, Typed, EventType
<1>2. t \in TextType /\ t.op # "none" /\ (t.op \in ClaimOp => t.on \in Claim)
        /\ (t.op \in PrefOp => t.on \in Pref)
  BY <1>0, TypeableIs DEF Deliver, Worded, EventType
<1>3. x \in Item \cup Subject /\ x # None  BY <1>2, TargetsTyped
<1>4. v \in EventType /\ v.text = t /\ v.step = "found" /\ v.target = x /\ v.receipt = event[e].receipt
  BY <1>0, <1>2, <1>3 DEF EventType
<1>5. event[e].receipt # None => event[e].text = t  BY <1>0 DEF Deliver, Worded
<1> HIDE DEF v
<1>6. event' \in [Event -> EventType] /\ event'[e] = v /\ \A d \in Event : d # e => event'[d] = event[d]
  BY <1>1, <1>4 DEF Typed
<1>7. t # NoText  BY <1>2 DEF NoText, Text
<1>8. Worded(e)'  BY <1>0, <1>2, <1>4, <1>5, <1>6, <1>7 DEF Worded
<1>9. ASSUME NEW d \in Event PROVE Worded(d)'
  BY <1>6, <1>8 DEF Worded, Truth
<1>10. EventsGrow  BY <1>4, <1>5, <1>6 DEF EventsGrow
<1> QED BY <1>6, <1>9, <1>10, TruthKeeps DEF Deliver

LEMMA ReceiptTruth ==
  ASSUME Typed, Truth, NEW e \in Event, CommitReceipt(e)
  PROVE  Truth' /\ event' \in [Event -> EventType]
<1> DEFINE v == [event[e] EXCEPT !.step = "receipted", !.receipt = event[e].target]
<1>0. event[e] \in EventType /\ Worded(e)  BY DEF Typed, Truth
<1>1. event' = [event EXCEPT ![e] = v]  BY <1>0 DEF CommitReceipt, Typed, EventType
<1>2. /\ v \in EventType /\ v.text = event[e].text /\ v.step = "receipted"
      /\ v.target = event[e].target /\ v.receipt = event[e].target
  BY <1>0 DEF EventType
<1> HIDE DEF v
<1>3. event' \in [Event -> EventType] /\ event'[e] = v /\ \A d \in Event : d # e => event'[d] = event[d]
  BY <1>1, <1>2 DEF Typed
<1>4. event[e].step = "found" /\ event[e].receipt \in {None, event[e].target}  BY DEF CommitReceipt
<1>5. Worded(e)'  BY <1>0, <1>2, <1>3, <1>4 DEF Worded
<1>6. ASSUME NEW d \in Event PROVE Worded(d)'
  BY <1>3, <1>5 DEF Worded, Truth
<1>7. EventsGrow  BY <1>2, <1>3, <1>4 DEF EventsGrow
<1> QED BY <1>3, <1>6, <1>7, TruthKeeps DEF CommitReceipt

LEMMA AbandonTruth ==
  ASSUME Typed, Truth, NEW e \in Event, Abandon(e)
  PROVE  Truth' /\ event' \in [Event -> EventType]
<1> DEFINE v == [event[e] EXCEPT !.step = "idle", !.target = None]
<1>0. event[e] \in EventType /\ Worded(e)  BY DEF Typed, Truth
<1>1. event' = [event EXCEPT ![e] = v]  BY <1>0 DEF Abandon, Typed, EventType
<1>2. /\ v \in EventType /\ v.text = event[e].text /\ v.step = "idle" /\ v.receipt = event[e].receipt
  BY <1>0 DEF EventType
<1> HIDE DEF v
<1>3. event' \in [Event -> EventType] /\ event'[e] = v /\ \A d \in Event : d # e => event'[d] = event[d]
  BY <1>1, <1>2 DEF Typed
<1>5. Worded(e)'  BY <1>0, <1>2, <1>3 DEF Worded
<1>6. ASSUME NEW d \in Event PROVE Worded(d)'
  BY <1>3, <1>5 DEF Worded, Truth
<1>7. EventsGrow  BY <1>2, <1>3 DEF EventsGrow
<1> QED BY <1>3, <1>6, <1>7, TruthKeeps DEF Abandon

-----------------------------------------------------------------------------
\* Commands that change rows.

\* After a command its own event is worded still, and every other one.
LEMMA PerformedWorded ==
  ASSUME Typed, Truth, NEW e \in Event, NEW op \in ClaimOp \cup PrefOp \cup {"remember", "forget"},
         Performs(e, op)
  PROVE  EventsGrow /\ (\A d \in Event : Worded(d)') /\ event' \in [Event -> EventType]
<1>1. /\ event' \in [Event -> EventType]
      /\ \A d \in Event : event'[d].text = event[d].text /\ event'[d].receipt = event[d].receipt
      /\ Worded(e)' /\ \A d \in Event : d # e => event'[d] = event[d]
  BY PerformsIs DEF Truth
<1>2. EventsGrow  BY <1>1 DEF EventsGrow
<1>3. ASSUME NEW d \in Event PROVE Worded(d)'
  BY <1>1 DEF Worded, Truth
<1> QED BY <1>1, <1>2, <1>3

\* A claim's first entry is its creation.
LEMMA FirstEntry ==
  ASSUME Typed, NEW c \in Claim, Kept(c), Stored(c)
  PROVE  /\ 1 \in DOMAIN row[c].log /\ row[c].log[1].op = "create"
         /\ Commanded(c, row[c].log[1])
<1>1. row[c].log \in Seq(Entry) /\ row[c].log # <<>>  BY DEF Typed, RowType, Item, Kept
<1>2. 1 \in DOMAIN row[c].log  BY <1>1
<1> QED BY <1>2 DEF Kept

\* A row is revised that is neither superseded nor becomes so.
LEMMA RevisedTruth ==
  ASSUME Typed, Truth, NEW e \in Event, NEW i \in Item, NEW op, NEW st,
         [source |-> e, op |-> op] \in Entry, op # "create",
         st \in (IF i \in Claim THEN {"verified", "disputed", "archived"}
                                ELSE {"archived", "active"}),
         Stored(i), row[i].status # "superseded", e \notin Sources(i),
         row' = [row EXCEPT ![i] = Revised(@, st, e, op)], tombstone' = tombstone,
         EventsGrow, \A d \in Event : Worded(d)',
         event[e].receipt # None, Commanded(i, [source |-> e, op |-> op])
  PROVE  Truth' /\ row' \in [Item -> RowType]
<1>1. row[i] \in RowType /\ row \in [Item -> RowType]  BY DEF Typed
<1>2. st \in {"verified", "disputed", "superseded", "archived", "active"}  OBVIOUS
<1>3. /\ row'[i] \in RowType /\ row'[i].status = st /\ row'[i].subject = row[i].subject
      /\ row'[i].prior = row[i].prior /\ row'[i] = Revised(row[i], st, e, op)
      /\ \A n \in DOMAIN row[i].log : row'[i].log[n] = row[i].log[n]
  BY <1>1, <1>2, RevisedIs
<1>4. \A j \in Item : j # i => row'[j] = row[j]  BY <1>1
<1>5. row' \in [Item -> RowType]  BY <1>1, <1>3
<1>6. ASSUME NEW j \in Item PROVE Kept(j)'
  <2>1. CASE j = i
    <3>1. st \in (IF i \in Claim THEN {"verified", "disputed", "superseded", "archived"}
                                 ELSE {"archived", "active"})
      OBVIOUS
    <3>2. Kept(i)  BY DEF Truth
    <3> QED BY <1>3, <2>1, <3>1, <3>2, KeptRevised
  <2>2. CASE j # i  BY <1>4, <2>2, KeptStays DEF Truth
  <2> QED BY <2>1, <2>2
<1>7. \A j \in Item : /\ row'[j].prior = row[j].prior /\ row'[j].subject = row[j].subject
                      /\ row'[j].status = "superseded" <=> row[j].status = "superseded"
  BY <1>3, <1>4
<1>8. \A c \in Claim : row[c].prior \in Claim \cup {None}  BY DEF Typed, RowType, Item
<1>9. Replaces'
  BY <1>7, <1>8 DEF Replaces, Truth, Item
<1>10. \A j \in Item : Stored(j)' <=> Stored(j)  BY <1>3, <1>4 DEF Stored
<1>11. \A c \in Claim : Stored(c) => row'[c].log[1] = row[c].log[1]
  <2> TAKE c \in Claim
  <2> HAVE Stored(c)
  <2>1. 1 \in DOMAIN row[c].log  BY FirstEntry DEF Truth, Item
  <2> QED BY <1>3, <1>4, <2>1 DEF Item
<1>12. CreatedOnce'  BY <1>10, <1>11 DEF CreatedOnce, Truth, Item
<1>13. \A s : Holding(s)' = Holding(s)  BY <1>7, <1>10 DEF Holding, Item
<1>14. Buried'  BY <1>13 DEF Buried, Truth
<1> QED BY <1>5, <1>6, <1>9, <1>12, <1>14 DEF Truth

\* A claim is created, or a preference: by a source that created none, under a
\* subject that was not forgotten, in place of no claim.
LEMMA CreatedTruth ==
  ASSUME Typed, Truth, NEW e \in Event, NEW i \in Item, NEW st, NEW s \in Subject \cup {None},
         st = (IF i \in Claim THEN "verified" ELSE "active"),
         i \in Claim => s \in Subject /\ s \notin tombstone,
         i \in Claim => \A c \in Claim : Stored(c) => row[c].log[1].source # e,
         row[i].status = "absent",
         row' = [row EXCEPT ![i] = NewRow(st, s, None, e)], tombstone' = tombstone,
         EventsGrow, \A d \in Event : Worded(d)',
         event[e].receipt # None, Commanded(i, [source |-> e, op |-> "create"])'
  PROVE  Truth' /\ row' \in [Item -> RowType]
<1>1. row \in [Item -> RowType]  BY DEF Typed
<1>2. st \in {"verified", "active"}  OBVIOUS
<1>3. /\ row'[i] \in RowType /\ row'[i].status = st /\ row'[i].subject = s /\ row'[i].prior = None
      /\ row'[i].log[1] = [source |-> e, op |-> "create"] /\ row'[i] = NewRow(st, s, None, e)
  BY <1>1, <1>2, NewRowIs
<1>4. \A j \in Item : j # i => row'[j] = row[j]  BY <1>1
<1>5. row' \in [Item -> RowType]  BY <1>1, <1>3
<1>6. ASSUME NEW j \in Item PROVE Kept(j)'
  <2>1. CASE j = i  BY <1>3, <2>1, KeptNew
  <2>2. CASE j # i  BY <1>4, <2>2, KeptStays DEF Truth
  <2> QED BY <2>1, <2>2
<1>7. ~Stored(i) /\ (i \in Claim => row[i].prior = None)
  BY DEF Stored, Kept, Truth
<1>8. Stored(i)'  BY <1>2, <1>3 DEF Stored
<1>9. \A j \in Item : j # i => (Stored(j)' <=> Stored(j))  BY <1>4 DEF Stored
<1>10. \A d \in Claim : row'[d].prior = row[d].prior  BY <1>3, <1>4, <1>7 DEF Item
<1>11. \A d \in Claim : row[d].prior \in Claim \cup {None}  BY DEF Typed, RowType, Item
<1>12. Replaces'
  <2>1. Replaces  BY DEF Truth
  <2>2. ASSUME NEW d \in Claim, row'[d].prior # None
        PROVE  /\ row'[row'[d].prior].status = "superseded"
               /\ row'[row'[d].prior].subject = row'[d].subject
    <3> DEFINE c == row[d].prior
    <3>1. c \in Claim /\ row'[d].prior = c  BY <1>10, <1>11, <2>2
    <3>2. row[c].status = "superseded" /\ row[c].subject = row[d].subject
      BY <2>1, <3>1, NoneAssumption DEF Replaces
    <3>3. c # i /\ d # i  BY <3>1, <3>2, <1>7, NoneAssumption
    <3> QED BY <1>4, <3>1, <3>2, <3>3 DEF Item
  <2>3. ASSUME NEW c \in Claim, row'[c].status = "superseded"
        PROVE  \E d \in Claim : row'[d].prior = c
    <3>1. c # i  BY <1>2, <1>3, <2>3
    <3>2. row[c].status = "superseded"  BY <1>4, <2>3, <3>1 DEF Item
    <3> QED BY <1>10, <2>1, <3>2 DEF Replaces
  <2>4. \A d1, d2 \in Claim : row'[d1].prior # None /\ row'[d1].prior = row'[d2].prior => d1 = d2
    BY <1>10, <2>1 DEF Replaces
  <2> QED BY <2>2, <2>3, <2>4 DEF Replaces
<1>13. CreatedOnce'
  <2>1. CreatedOnce  BY DEF Truth
  <2>2. \A c \in Claim : c # i => row'[c] = row[c] /\ (Stored(c)' <=> Stored(c))
    BY <1>4, <1>9 DEF Item
  <2>3. i \in Claim => \A c \in Claim : Stored(c) => row[c].log[1].source # e  OBVIOUS
  <2>4. row'[i].log[1].source = e  BY <1>3
  <2> QED BY <2>1, <2>2, <2>3, <2>4 DEF CreatedOnce
<1>14. Buried'
  <2> SUFFICES ASSUME NEW u \in tombstone PROVE Holding(u)' = {}  BY DEF Buried
  <2>1. Holding(u) = {}  BY DEF Truth, Buried
  <2>2. \A c \in Claim : ~(Stored(c)' /\ row'[c].subject = u)
    BY <1>3, <1>4, <1>9, <2>1 DEF Holding, Item
  <2> QED BY <2>2 DEF Holding
<1> QED BY <1>5, <1>6, <1>12, <1>13, <1>14 DEF Truth

LEMMA RememberTruth ==
  ASSUME Typed, Truth, NEW e \in Event, Remember(e)
  PROVE  Truth' /\ row' \in [Item -> RowType] /\ event' \in [Event -> EventType]
<1> PICK s : s = event[e].target  OBVIOUS
<1> PICK g : g = Generated  OBVIOUS
<1>1. Performs(e, "remember") /\ Admissible(s, e) /\ tombstone' = tombstone  BY DEF Remember
<1>2. g \in Claim /\ g \in Item /\ row[g].status = "absent"  BY GeneratedIs DEF Remember, Item
<1>3. row' = [row EXCEPT ![g] = NewRow("verified", s, None, e)]  BY DEF Remember
<1>4. /\ event[e].text.op = "remember" /\ event[e].receipt = s /\ event[e].receipt # None
      /\ s \in Subject
      /\ event'[e].text = event[e].text /\ event'[e].receipt = event[e].receipt
  BY <1>1, PerformsIs DEF Truth
<1>5. EventsGrow /\ (\A d \in Event : Worded(d)') /\ event' \in [Event -> EventType]
  BY <1>1, PerformedWorded
<1>6. ASSUME NEW c \in Claim, Stored(c) PROVE row[c].log[1].source # e
  <2> SUFFICES ASSUME row[c].log[1].source = e PROVE FALSE  OBVIOUS
  <2>1. row[c].log[1].op = "create" /\ Commanded(c, row[c].log[1])
    BY <1>6, FirstEntry DEF Truth, Item
  <2>2. c \notin Pref  BY KindAssumption
  <2>3. row[c].prior = None /\ row[c].subject = s
    BY <1>4, <2>1, <2>2 DEF Commanded
  <2>4. c \in Holding(s)  BY <1>6, <2>3 DEF Holding
  <2> QED BY <1>1, <2>4 DEF Admissible
<1>7. s \notin tombstone  BY <1>1 DEF Admissible
<1>8. row'[g].prior = None /\ row'[g].subject = s
  <2>1. row'[g] = NewRow("verified", s, None, e)  BY <1>2, <1>3 DEF Typed
  <2> QED BY <2>1 DEF NewRow
<1>9. Commanded(g, [source |-> e, op |-> "create"])'
  <2>1. g \notin Pref  BY <1>2, KindAssumption
  <2> QED BY <1>4, <1>8, <2>1 DEF Commanded
<1> QED BY <1>1, <1>2, <1>3, <1>4, <1>5, <1>6, <1>7, <1>9, CreatedTruth

LEMMA PreferTruth ==
  ASSUME Typed, Truth, NEW e \in Event, Prefer(e)
  PROVE  Truth' /\ row' \in [Item -> RowType] /\ event' \in [Event -> EventType]
<1> PICK p : p = event[e].target  OBVIOUS
<1>1. Performs(e, "prefer") /\ row[p].status = "absent" /\ tombstone' = tombstone
  BY DEF Prefer
<1>2. row' = [row EXCEPT ![p] = NewRow("active", None, None, e)]  BY DEF Prefer
<1>3. /\ event[e].receipt = p /\ event[e].receipt # None /\ p \in Pref
      /\ event[e].text.op = "prefer"
      /\ event'[e].text = event[e].text /\ event'[e].receipt = event[e].receipt
  BY <1>1, PerformsIs DEF Truth, PrefOp
<1>4. EventsGrow /\ (\A d \in Event : Worded(d)') /\ event' \in [Event -> EventType]
  BY <1>1, PerformedWorded DEF PrefOp
<1>5. p \notin Claim /\ p \in Item  BY <1>3, KindAssumption DEF Item
<1>6. Commanded(p, [source |-> e, op |-> "create"])'
  BY <1>3 DEF Commanded
<1> QED BY <1>1, <1>2, <1>3, <1>4, <1>5, <1>6, CreatedTruth

LEMMA ChangeStatusTruth ==
  ASSUME Typed, Truth, NEW e \in Event, NEW op \in {"archive", "dispute"}, ChangeStatus(e, op)
  PROVE  Truth' /\ row' \in [Item -> RowType] /\ event' \in [Event -> EventType]
<1> PICK p : p = event[e].target  OBVIOUS
<1>1. /\ Performs(e, op) /\ Live(p) /\ e \notin Sources(p) /\ tombstone' = tombstone
      /\ row' = [row EXCEPT ![p] = Revised(@, Status(op), e, op)]
  BY DEF ChangeStatus
<1>2. op \in ClaimOp \cup PrefOp \cup {"remember", "forget"}  BY DEF ClaimOp
<1>3. /\ event[e].receipt = p /\ event[e].receipt # None /\ p \in Claim /\ event[e].text.op = op
  BY <1>1, <1>2, PerformsIs DEF Truth, ClaimOp
<1>4. EventsGrow /\ (\A d \in Event : Worded(d)') /\ event' \in [Event -> EventType]
  BY <1>1, <1>2, PerformedWorded
<1>5. Stored(p) /\ row[p].status # "superseded" /\ p \in Item  BY <1>1, <1>3 DEF Live, Stored, Item
<1>6. [source |-> e, op |-> op] \in Entry  BY DEF Entry
<1>7. Commanded(p, [source |-> e, op |-> op])  BY <1>3 DEF Commanded
<1>8. Status(op) \in {"verified", "disputed", "archived"}  BY DEF Status
<1>9. op # "create"  OBVIOUS
<1> QED BY <1>1, <1>3, <1>4, <1>5, <1>6, <1>7, <1>8, <1>9, RevisedTruth

LEMMA RevisePrefTruth ==
  ASSUME Typed, Truth, NEW e \in Event, NEW op \in PrefOp, RevisePref(e, op)
  PROVE  Truth' /\ row' \in [Item -> RowType] /\ event' \in [Event -> EventType]
<1> PICK p : p = event[e].target  OBVIOUS
<1> PICK st : st = (IF op = "retire" THEN "archived" ELSE "active")  OBVIOUS
<1>1. /\ Performs(e, op) /\ row[p].status = "active" /\ e \notin Sources(p) /\ tombstone' = tombstone
      /\ row' = [row EXCEPT ![p] = Revised(@, st, e, op)]
  BY DEF RevisePref
<1>2. op \in ClaimOp \cup PrefOp \cup {"remember", "forget"}  OBVIOUS
<1>3. /\ event[e].receipt = p /\ event[e].receipt # None /\ p \in Pref /\ event[e].text.op = op
  BY <1>1, <1>2, PerformsIs DEF Truth
<1>4. EventsGrow /\ (\A d \in Event : Worded(d)') /\ event' \in [Event -> EventType]
  BY <1>1, <1>2, PerformedWorded
<1>5. Stored(p) /\ row[p].status # "superseded" /\ p \in Item /\ p \notin Claim
  BY <1>1, <1>3, KindAssumption DEF Stored, Item
<1>6. [source |-> e, op |-> op] \in Entry  BY DEF Entry
<1>7. Commanded(p, [source |-> e, op |-> op])  BY <1>3 DEF Commanded, PrefOp
<1>8. st \in {"archived", "active"}  OBVIOUS
<1>9. op # "create"  BY DEF PrefOp
<1> QED BY <1>1, <1>3, <1>4, <1>5, <1>6, <1>7, <1>8, <1>9, RevisedTruth

\* A claim is superseded and its successor created in one transaction.
LEMMA CorrectTruth ==
  ASSUME Typed, Truth, NEW e \in Event, Correct(e)
  PROVE  Truth' /\ row' \in [Item -> RowType] /\ event' \in [Event -> EventType]
<1> PICK p : p = event[e].target  OBVIOUS
<1> PICK g : g = Generated  OBVIOUS
<1> PICK s : s = row[p].subject  OBVIOUS
<1>1. /\ Performs(e, "correct") /\ Live(p) /\ e \notin Sources(p) /\ tombstone' = tombstone
      /\ row' = [row EXCEPT ![p] = Revised(@, "superseded", e, "supersede"),
                            ![g] = NewRow("verified", s, p, e)]
  BY DEF Correct, Correctable
<1>2. /\ event[e].receipt = p /\ event[e].receipt # None /\ p \in Claim /\ event[e].text.op = "correct"
      /\ event'[e].text = event[e].text /\ event'[e].receipt = event[e].receipt
  BY <1>1, PerformsIs DEF Truth, ClaimOp
<1>3. EventsGrow /\ (\A d \in Event : Worded(d)') /\ event' \in [Event -> EventType]
  BY <1>1, PerformedWorded DEF ClaimOp
<1>4. g \in Claim /\ row[g].status = "absent"  BY GeneratedIs DEF Correct
<1>5. g \in Item /\ p \in Item /\ g # p /\ p # None /\ g \notin Pref
  BY <1>1, <1>2, <1>4, NoneAssumption, KindAssumption DEF Item, Live
<1>6. row \in [Item -> RowType] /\ row[p] \in RowType  BY <1>5 DEF Typed
<1>7. /\ row'[p] = Revised(row[p], "superseded", e, "supersede")
      /\ row'[g] = NewRow("verified", s, p, e)
      /\ \A j \in Item : j # p /\ j # g => row'[j] = row[j]
  BY <1>1, <1>5, <1>6
<1>8. Stored(p) /\ s \in Subject  BY <1>1, <1>2, <1>5 DEF Live, Stored, Kept, Truth
<1>9. [source |-> e, op |-> "supersede"] \in Entry  BY DEF Entry
<1>10. /\ row'[p] \in RowType /\ row'[p].status = "superseded" /\ row'[p].subject = s
       /\ row'[p].prior = row[p].prior
       /\ \A n \in DOMAIN row[p].log : row'[p].log[n] = row[p].log[n]
  BY <1>6, <1>7, <1>9, RevisedIs
<1>11. /\ row'[g] \in RowType /\ row'[g].status = "verified" /\ row'[g].subject = s
       /\ row'[g].prior = p /\ row'[g].log[1] = [source |-> e, op |-> "create"]
  BY <1>2, <1>7, <1>8, NewRowIs
<1>12. row' \in [Item -> RowType]
  <2>1. row' = [row EXCEPT ![p] = row'[p], ![g] = row'[g]]  BY <1>1, <1>5, <1>6, <1>7
  <2> QED BY <1>6, <1>10, <1>11, <2>1
<1>13. Kept(p)'
  <2>1. Commanded(p, [source |-> e, op |-> "supersede"])  BY <1>2 DEF Commanded
  <2>2. Kept(p)  BY <1>5 DEF Truth
  <2> QED BY <1>1, <1>2, <1>3, <1>5, <1>7, <1>8, <1>9, <2>1, <2>2, KeptRevised
<1>14. Kept(g)'
  <2>1. Commanded(g, [source |-> e, op |-> "create"])'
    BY <1>2, <1>5, <1>11 DEF Commanded
  <2> QED BY <1>2, <1>3, <1>4, <1>5, <1>7, <1>8, <2>1, KeptNew
<1>15. \A j \in Item : Kept(j)'
  <2> TAKE j \in Item
  <2>1. CASE j # p /\ j # g  BY <1>3, <1>7, <2>1, KeptStays DEF Truth
  <2> QED BY <1>13, <1>14, <2>1
<1>16. ~Stored(g) /\ row[g].prior = None  BY <1>4, <1>5 DEF Stored, Kept, Truth
<1>17. \A d \in Claim : row[d].prior \in Claim \cup {None}  BY DEF Typed, RowType, Item
<1>18. \A d \in Claim : d # g => row'[d].prior = row[d].prior /\ row'[d].subject = row[d].subject
  BY <1>7, <1>10 DEF Item
<1>19. \A d \in Claim : row[d].prior # p /\ row[d].prior # g
  <2>1. row[p].status # "superseded" /\ row[g].status # "superseded"  BY <1>1, <1>4 DEF Live
  <2> QED BY <1>2, <1>4, <2>1, NoneAssumption DEF Truth, Replaces
<1>20. Replaces'
  <2>1. ASSUME NEW d \in Claim, row'[d].prior # None
        PROVE  /\ row'[row'[d].prior].status = "superseded"
               /\ row'[row'[d].prior].subject = row'[d].subject
    <3>1. CASE d = g  BY <1>10, <1>11, <3>1
    <3>2. CASE d # g
      <4> PICK c : c = row[d].prior  OBVIOUS
      <4>1. c \in Claim /\ row'[d].prior = c  BY <1>17, <1>18, <2>1, <3>2
      <4>2. row[c].status = "superseded" /\ row[c].subject = row[d].subject
        BY <4>1, NoneAssumption DEF Truth, Replaces
      <4>3. c # p /\ c # g  BY <1>19
      <4> QED BY <1>7, <1>18, <3>2, <4>1, <4>2, <4>3 DEF Item
    <3> QED BY <3>1, <3>2
  <2>2. ASSUME NEW c \in Claim, row'[c].status = "superseded"
        PROVE  \E d \in Claim : row'[d].prior = c
    <3>1. CASE c = p  BY <1>4, <1>11, <3>1
    <3>2. CASE c # p
      <4>1. c # g  BY <1>11, <2>2
      <4>2. row[c].status = "superseded"  BY <1>7, <2>2, <3>2, <4>1 DEF Item
      <4>3. PICK d \in Claim : row[d].prior = c  BY <4>2 DEF Truth, Replaces
      <4>4. d # g  BY <1>16, <4>3, NoneAssumption
      <4> QED BY <1>18, <4>3, <4>4
    <3> QED BY <3>1, <3>2
  <2>3. ASSUME NEW d1 \in Claim, NEW d2 \in Claim, row'[d1].prior # None, row'[d1].prior = row'[d2].prior
        PROVE  d1 = d2
    <3>1. CASE d1 = g \/ d2 = g  BY <1>11, <1>18, <1>19, <2>3, <3>1
    <3>2. CASE d1 # g /\ d2 # g  BY <1>18, <2>3, <3>2 DEF Truth, Replaces
    <3> QED BY <3>1, <3>2
  <2> QED BY <2>1, <2>2, <2>3 DEF Replaces
<1>21. \A j \in Item : j # g => (Stored(j)' <=> Stored(j))
  BY <1>7, <1>8, <1>10 DEF Stored
<1>22. \A c \in Claim : c # g /\ Stored(c) => row'[c].log[1] = row[c].log[1]
  <2> TAKE c \in Claim
  <2> HAVE c # g /\ Stored(c)
  <2>1. 1 \in DOMAIN row[c].log  BY FirstEntry DEF Truth, Item
  <2> QED BY <1>7, <1>10, <2>1 DEF Item
<1>23. ASSUME NEW c \in Claim, Stored(c) PROVE row[c].log[1].source # e
  <2> SUFFICES ASSUME row[c].log[1].source = e PROVE FALSE  OBVIOUS
  <2>1. row[c].log[1].op = "create" /\ Commanded(c, row[c].log[1])
    BY <1>23, FirstEntry DEF Truth, Item
  <2>2. c \notin Pref  BY KindAssumption
  <2>3. row[c].prior = p  BY <1>2, <2>1, <2>2 DEF Commanded
  <2> QED BY <1>19, <2>3
<1>24. CreatedOnce'
  <2>1. CreatedOnce  BY DEF Truth
  <2>2. \A c \in Claim : c # g => (Stored(c)' <=> Stored(c))  BY <1>21 DEF Item
  <2>3. row'[g].log[1].source = e  BY <1>11
  <2> QED BY <1>22, <1>23, <2>1, <2>2, <2>3 DEF CreatedOnce
<1>25. Buried'
  <2> SUFFICES ASSUME NEW u \in tombstone PROVE Holding(u)' = {}  BY <1>1 DEF Buried
  <2>1. Holding(u) = {}  BY DEF Truth, Buried
  <2>2. s # u  BY <1>2, <1>8, <2>1 DEF Holding
  <2>3. \A c \in Claim : ~(Stored(c)' /\ row'[c].subject = u)
    BY <1>11, <1>18, <1>21, <2>1, <2>2 DEF Holding, Item
  <2> QED BY <2>3 DEF Holding
<1> QED BY <1>3, <1>12, <1>15, <1>20, <1>24, <1>25 DEF Truth

LEMMA ForgetTruth ==
  ASSUME Typed, Truth, NEW e \in Event, Forget(e)
  PROVE  /\ Truth' /\ row' \in [Item -> RowType] /\ event' \in [Event -> EventType]
         /\ tombstone' \subseteq Subject
<1> PICK s : s = event[e].target  OBVIOUS
<1>1. /\ Performs(e, "forget") /\ tombstone' = tombstone \cup {s}
      /\ row' = [i \in Item |-> IF i \in Holding(s) THEN Forgotten(row[i]) ELSE row[i]]
  BY DEF Forget
<1>2. s \in Subject  BY <1>1, PerformsIs DEF Truth
<1>3. EventsGrow /\ (\A d \in Event : Worded(d)') /\ event' \in [Event -> EventType]
  BY <1>1, PerformedWorded
<1>4. row \in [Item -> RowType]  BY DEF Typed
<1>5. row' \in [Item -> RowType]  BY <1>1, <1>4, ForgottenIs
<1>6. ASSUME NEW i \in Item, i \in Holding(s)
      PROVE  row'[i].status = "gone" /\ row'[i].prior = None /\ row'[i].log = <<>> /\ i \in Claim
  BY <1>1, <1>6, ForgottenIs DEF Holding
<1>7. \A i \in Item : i \notin Holding(s) => row'[i] = row[i]  BY <1>1
<1>8. \A i \in Item : Kept(i)'
  <2> TAKE i \in Item
  <2>1. CASE i \in Holding(s)
    <3>1. i \notin Pref  BY <1>6, <2>1, KindAssumption
    <3>2. ~Stored(i)'  BY <1>6, <2>1 DEF Stored
    <3>3. DOMAIN row'[i].log = {}  BY <1>6, <2>1
    <3> QED BY <1>6, <2>1, <3>1, <3>2, <3>3 DEF Kept
  <2>2. CASE i \notin Holding(s)  BY <1>3, <1>7, <2>2, KeptStays DEF Truth
  <2> QED BY <2>1, <2>2
<1>9. \A i \in Item : Stored(i)' <=> Stored(i) /\ i \notin Holding(s)
  BY <1>6, <1>7 DEF Stored
<1>10. \A d \in Claim : row[d].prior \in Claim \cup {None}  BY DEF Typed, RowType, Item
<1>11. \A d \in Claim : row'[d].prior # None => d \notin Holding(s) /\ row'[d] = row[d]
  BY <1>6, <1>7 DEF Item
<1>12. Replaces'
  <2>1. ASSUME NEW d \in Claim, row'[d].prior # None
        PROVE  /\ row'[row'[d].prior].status = "superseded"
               /\ row'[row'[d].prior].subject = row'[d].subject
    <3>1. d \notin Holding(s) /\ row'[d] = row[d]  BY <1>11, <2>1
    <3> PICK c : c = row[d].prior  OBVIOUS
    <3>2. c \in Claim /\ row[c].status = "superseded" /\ row[c].subject = row[d].subject
      BY <1>10, <2>1, <3>1 DEF Truth, Replaces
    <3>3. Stored(d)  BY <2>1, <3>1 DEF Truth, Kept, Item
    <3>4. c \notin Holding(s)  BY <3>1, <3>2, <3>3 DEF Holding
    <3> QED BY <1>7, <3>1, <3>2, <3>4 DEF Item
  <2>2. ASSUME NEW c \in Claim, row'[c].status = "superseded"
        PROVE  \E d \in Claim : row'[d].prior = c
    <3>1. c \notin Holding(s) /\ row'[c] = row[c]  BY <1>6, <1>7, <2>2 DEF Item
    <3>2. PICK d \in Claim : row[d].prior = c  BY <2>2, <3>1 DEF Truth, Replaces
    <3>3. row[d].subject = row[c].subject /\ Stored(c)
      BY <2>2, <3>1, <3>2, NoneAssumption DEF Truth, Replaces, Stored
    <3>4. d \notin Holding(s)  BY <3>1, <3>3 DEF Holding
    <3> QED BY <1>7, <3>2, <3>4 DEF Item
  <2>3. \A d1, d2 \in Claim : row'[d1].prior # None /\ row'[d1].prior = row'[d2].prior => d1 = d2
    BY <1>11 DEF Truth, Replaces
  <2> QED BY <2>1, <2>2, <2>3 DEF Replaces
<1>13. CreatedOnce'
  <2>1. \A c \in Claim : Stored(c)' => Stored(c) /\ row'[c] = row[c]  BY <1>7, <1>9 DEF Item
  <2> QED BY <2>1 DEF CreatedOnce, Truth
<1>14. Buried'
  <2> SUFFICES ASSUME NEW u \in tombstone' PROVE Holding(u)' = {}  BY DEF Buried
  <2>1. \A c \in Claim : Stored(c)' => Stored(c) /\ c \notin Holding(s) /\ row'[c] = row[c]
    BY <1>7, <1>9 DEF Item
  <2>2. u \in tombstone => Holding(u) = {}  BY DEF Truth, Buried
  <2>3. \A c \in Claim : ~(Stored(c)' /\ row'[c].subject = u)
    BY <1>1, <2>1, <2>2 DEF Holding
  <2> QED BY <2>3 DEF Holding
<1> QED BY <1>1, <1>2, <1>3, <1>5, <1>8, <1>12, <1>13, <1>14 DEF Truth, Typed

-----------------------------------------------------------------------------
\* Queues and indexes.

LEMMA BatchTyped ==
  ASSUME Typed, NEW k \in DOMAIN batch
  PROVE  batch[k] \in BatchType /\ batch[k].item \in Item /\ batch[k].gen \in Nat
           /\ queue[batch[k].item] \in QueueType
<1>1. batch[k] \in BatchType  BY DEF Typed
<1>2. batch[k].item \in Item /\ batch[k].gen \in Nat  BY <1>1 DEF BatchType
<1> QED BY <1>1, <1>2 DEF Typed

\* Whoever holds a claim of an item that is queued again holds an old one.
LEMMA RequeuedIndexing ==
  ASSUME Typed, Indexing, NEW items, Indexed,
         \A i \in Item : queue'[i] = IF i \in items THEN Requeued(queue[i]) ELSE queue[i],
         \A i \in Item : i \notin items => Indexable(i)' = Indexable(i),
         UNCHANGED <<copy, index, batch>>
  PROVE  Indexing'
<1>1. ASSUME NEW i \in Item, i \in items
      PROVE  queue'[i].status = "pending" /\ queue'[i].gen = queue[i].gen + 1 /\ queue[i].gen \in Nat
  BY <1>1, RequeuedIs DEF Typed
<1>2. \A i \in Item : i \notin items => queue'[i] = queue[i]  OBVIOUS
<1>3. ASSUME NEW k \in DOMAIN batch, batch[k].item \in items PROVE ~Current(batch[k].item)'
  <2>1. \A j \in DOMAIN batch : batch[j].item = batch[k].item =>
          batch[j].gen \in Nat /\ batch[j].gen <= queue[batch[k].item].gen
    BY BatchTyped DEF Indexing, Reads
  <2>2. /\ queue'[batch[k].item].gen = queue[batch[k].item].gen + 1
        /\ queue[batch[k].item].gen \in Nat
    BY <1>1, <1>3, BatchTyped
  <2>3. \A g, q \in Nat : g <= q => g # q + 1  OBVIOUS
  <2> QED BY <2>1, <2>2, <2>3 DEF Current
<1>4. ASSUME NEW k \in DOMAIN batch PROVE Reads(k)'
  <2>1. batch[k].item \in Item /\ batch[k].gen \in Nat /\ Reads(k) /\ batch' = batch /\ index' = index
    BY BatchTyped DEF Indexing
  <2>2. CASE batch[k].item \in items
    <3>1. queue'[batch[k].item].status # "done"  BY <1>1, <2>1, <2>2
    <3>2. batch[k].gen <= queue'[batch[k].item].gen
      <4>1. \A g, q \in Nat : g <= q => g <= q + 1  OBVIOUS
      <4> QED BY <1>1, <2>1, <2>2, <4>1 DEF Reads
    <3> QED BY <1>3, <2>1, <2>2, <3>1, <3>2 DEF Reads
  <2>3. CASE batch[k].item \notin items
    <3> PICK i \in Item : i = batch[k].item  BY <2>1
    <3>1. queue'[i] = queue[i] /\ Indexable(i)' = Indexable(i)  BY <1>2, <2>3
    <3>2. Current(i)' <=> Current(i)  BY <2>1, <3>1 DEF Current
    <3> QED BY <2>1, <3>1, <3>2 DEF Reads, Current, Indexable
  <2> QED BY <2>2, <2>3
<1>5. IndexTellsTruth'
  <2> SUFFICES ASSUME NEW i \in Item, queue'[i].status = "done" PROVE index'[i] = Indexable(i)'
    BY DEF IndexTellsTruth
  <2>1. i \notin items  BY <1>1
  <2> QED BY <1>2, <2>1 DEF Indexing, IndexTellsTruth
<1>6. Indexed' /\ DOMAIN batch' = DOMAIN batch  BY DEF Indexed
<1> QED BY <1>4, <1>5, <1>6 DEF Indexing

\* Steps that leave rows, queues and indexes as they are.
LEMMA IndexingSame ==
  ASSUME Indexing, UNCHANGED <<copy, row, queue, index, batch, todo>>
  PROVE  Indexing'
BY DEF Indexing, Indexed, Reads, Current, IndexTellsTruth, Indexable, Revision

\* Rows change together with their queue rows.
LEMMA ChangedIndexing ==
  ASSUME Typed, Indexing, NEW items, Changed(items),
         \A i \in Item : i \notin items => row'[i] = row[i],
         UNCHANGED <<copy, index, batch, todo>>
  PROVE  Indexing'
<1>1. \A i \in Item : i \notin items => Indexable(i)' = Indexable(i)  BY DEF Indexable, Revision
<1>2. CASE Indexed
  <2>1. \A i \in Item : queue'[i] = IF i \in items THEN Requeued(queue[i]) ELSE queue[i]
    BY <1>2 DEF Changed
  <2> QED BY <1>1, <1>2, <2>1, RequeuedIndexing
<1>3. CASE ~Indexed
  <2>1. \A i \in Item : queue'[i] = queue[i]  BY <1>3 DEF Changed
  <2> QED BY <1>3, <2>1 DEF Indexing, Indexed, IndexTellsTruth
<1> QED BY <1>2, <1>3

LEMMA ClaimIndexing ==
  ASSUME Typed, Indexing, NEW i \in Item, ClaimItem(i)
  PROVE  /\ Indexing' /\ queue' \in [Item -> QueueType] /\ batch' \in Seq(BatchType)
<1> PICK attempt : attempt = Capped(queue[i].attempts + 1, MaxAttempts)  OBVIOUS
<1> DEFINE new == [item |-> i, gen |-> queue[i].gen, attempts |-> attempt, step |-> "claimed", seen |-> 0]
<1> DEFINE q == [queue[i] EXCEPT !.status = "processing", !.attempts = attempt]
<1>1. /\ Indexed /\ \A k \in DOMAIN batch : batch[k].step = "claimed"
      /\ batch' = Append(batch, new)
      /\ UNCHANGED <<copy, row, index, todo>>
  BY DEF ClaimItem, truth
<1>2. queue[i] \in QueueType /\ queue \in [Item -> QueueType] /\ batch \in Seq(BatchType)  BY DEF Typed
<1>3. queue' = [queue EXCEPT ![i] = q]  BY <1>2 DEF ClaimItem, QueueType
<1>4. attempt \in Nat  BY <1>2, BoundAssumption DEF Capped, QueueType
<1>5. q \in QueueType /\ q.status = "processing" /\ q.gen = queue[i].gen /\ queue[i].gen \in Nat
  BY <1>2, <1>4 DEF QueueType
<1>6. new \in BatchType /\ new.item = i /\ new.gen = queue[i].gen /\ new.step = "claimed"
  BY <1>4, <1>5 DEF BatchType
<1> HIDE DEF new, q
<1>7. /\ batch' \in Seq(BatchType) /\ DOMAIN batch' = DOMAIN batch \cup {Len(batch) + 1}
      /\ \A k \in DOMAIN batch : batch'[k] = batch[k]
      /\ batch'[Len(batch) + 1] = new
  BY <1>1, <1>2, <1>6
<1>8. queue' \in [Item -> QueueType] /\ queue'[i] = q /\ \A j \in Item : j # i => queue'[j] = queue[j]
  BY <1>2, <1>3, <1>5
<1>9. \A j \in Item : queue'[j].gen = queue[j].gen
  BY <1>5, <1>8
<1>10. ASSUME NEW k \in DOMAIN batch' PROVE Reads(k)'
  <2>1. batch'[k].step = "claimed"  BY <1>1, <1>6, <1>7
  <2>2. CASE k \in DOMAIN batch
    <3>1. batch[k].item \in Item /\ Reads(k) /\ batch'[k] = batch[k]  BY <1>7, <2>2, BatchTyped DEF Indexing
    <3> PICK j \in Item : j = batch[k].item  BY <3>1
    <3>2. queue'[j].status = "done" => queue[j].status = "done"  BY <1>5, <1>8
    <3>3. Current(j) => Current(j)'  BY <1>7, <1>9 DEF Current
    <3> QED BY <1>9, <2>1, <3>1, <3>2, <3>3 DEF Reads, Current
  <2>3. CASE k = Len(batch) + 1
    <3>1. batch'[k] = new  BY <1>7, <2>3
    <3>2. queue'[i].status # "done" /\ queue'[i].gen = queue[i].gen  BY <1>5, <1>8
    <3> QED BY <1>5, <1>6, <2>1, <3>1, <3>2 DEF Reads
  <2> QED BY <1>7, <2>2, <2>3
<1>11. IndexTellsTruth'
  <2>1. ASSUME NEW j \in Item, queue'[j].status = "done" PROVE index'[j] = Indexable(j)'
    <3>1. j # i /\ queue[j].status = "done"  BY <1>5, <1>8, <2>1
    <3> QED BY <1>1, <3>1 DEF Indexing, IndexTellsTruth, Indexable, Revision
  <2> QED BY <2>1 DEF IndexTellsTruth
<1>12. Indexed'  BY <1>1 DEF Indexed
<1> QED BY <1>7, <1>8, <1>10, <1>11, <1>12 DEF Indexing

\* The batch after a step of one of its items: empty, or as it was but for it.
LEMMA SteppedIs ==
  ASSUME Typed, NEW k \in DOMAIN batch, NEW step \in {"read", "written", "settled"}, Stepped(k, step)
  PROVE  /\ batch' \in Seq(BatchType)
         /\ \/ batch' = <<>>
            \/ /\ DOMAIN batch' = DOMAIN batch /\ batch'[k] = [batch[k] EXCEPT !.step = step]
               /\ \A j \in DOMAIN batch : j # k => batch'[j] = batch[j]
<1> DEFINE b == [batch[k] EXCEPT !.step = step]
<1> DEFINE after == [batch EXCEPT ![k] = b]
<1>1. batch \in Seq(BatchType) /\ batch[k] \in BatchType  BY DEF Typed
<1>2. b \in BatchType  BY <1>1 DEF BatchType
<1>3. [batch EXCEPT ![k].step = step] = after  BY <1>1 DEF BatchType
<1>4. batch' = <<>> \/ batch' = after  BY <1>3 DEF Stepped
<1> HIDE DEF b
<1>5. after \in Seq(BatchType) /\ DOMAIN after = DOMAIN batch /\ after[k] = b
      /\ \A j \in DOMAIN batch : j # k => after[j] = batch[j]
  BY <1>1, <1>2
<1> HIDE DEF after
<1>6. <<>> \in Seq(BatchType)  OBVIOUS
<1> QED BY <1>4, <1>5, <1>6 DEF b

LEMMA ReadIndexing ==
  ASSUME Typed, Indexing, NEW k \in DOMAIN batch, ReadItem(k)
  PROVE  Indexing' /\ batch' \in Seq(BatchType)
<1> PICK seen : seen = Indexable(batch[k].item)  OBVIOUS
<1> DEFINE b == [batch[k] EXCEPT !.step = "read", !.seen = seen]
<1>1. batch \in Seq(BatchType) /\ batch[k] \in BatchType /\ batch[k].item \in Item  BY BatchTyped DEF Typed
<1>2. UNCHANGED <<copy, row, queue, index, todo>>  BY DEF ReadItem, truth
<1>3. batch' = [batch EXCEPT ![k] = b]  BY <1>1 DEF ReadItem, BatchType
<1>4. seen \in Nat
  <2>1. row[batch[k].item].log \in Seq(Entry)  BY <1>1 DEF Typed, RowType
  <2> QED BY <2>1 DEF Indexable, Revision
<1>5. b \in BatchType /\ b.item = batch[k].item /\ b.gen = batch[k].gen /\ b.step = "read" /\ b.seen = seen
  BY <1>1, <1>4 DEF BatchType
<1> HIDE DEF b
<1>6. batch' \in Seq(BatchType) /\ DOMAIN batch' = DOMAIN batch /\ batch'[k] = b
      /\ \A j \in DOMAIN batch : j # k => batch'[j] = batch[j]
  BY <1>1, <1>3, <1>5
<1>7. \A i : Current(i)' <=> Current(i)  BY <1>2, <1>5, <1>6 DEF Current
<1>8. \A i \in Item : Indexable(i)' = Indexable(i)  BY <1>2 DEF Indexable, Revision
<1>9. ASSUME NEW j \in DOMAIN batch' PROVE Reads(j)'
  <2> PICK i \in Item : i = batch[j].item  BY <1>6, BatchTyped
  <2>1. Reads(j) /\ batch'[j].item = i /\ batch'[j].gen = batch[j].gen  BY <1>5, <1>6 DEF Indexing
  <2>2. Current(i)' <=> Current(i)  BY <1>7
  <2>3. CASE j = k
    <3>1. batch'[j].step = "read" /\ batch'[j].seen = Indexable(i)'  BY <1>5, <1>6, <1>8, <2>3
    <3> QED BY <1>2, <2>1, <2>2, <3>1 DEF Reads, Current, Indexable, Revision
  <2>4. CASE j # k
    <3>1. batch'[j] = batch[j]  BY <1>6, <2>4
    <3> QED BY <1>2, <2>1, <2>2, <3>1 DEF Reads, Current, Indexable, Revision
  <2> QED BY <2>3, <2>4
<1>10. IndexTellsTruth'  BY <1>2 DEF Indexing, IndexTellsTruth, Indexable, Revision
<1>11. Indexed' = Indexed  BY <1>2 DEF Indexed
<1>12. batch # <<>>  BY <1>1
<1> QED BY <1>2, <1>6, <1>9, <1>10, <1>11, <1>12 DEF Indexing

\* An empty batch: what is done tells the truth, without an index nothing is.
LEMMA EmptyIndexing ==
  ASSUME Indexing, batch' = <<>>, IndexTellsTruth', UNCHANGED copy,
         Indexed \/ UNCHANGED <<todo, queue>>
  PROVE  Indexing'
<1>1. DOMAIN batch' = {}  OBVIOUS
<1>2. Indexed' <=> Indexed  BY DEF Indexed
<1> QED BY <1>1, <1>2 DEF Indexing

\* The batch moves on: an item is written, or is settled under its claim.
LEMMA SettledIndexing ==
  ASSUME Typed, Indexing, NEW k \in DOMAIN batch, NEW status \in {"pending", "done", "failed"},
         status = "done" => batch[k].step = "written",
         Stepped(k, "settled"), UNCHANGED <<copy, row, index, todo>>,
         queue' = (IF Holds(batch[k]) THEN [queue EXCEPT ![batch[k].item].status = status] ELSE queue)
  PROVE  Indexing' /\ batch' \in Seq(BatchType) /\ queue' \in [Item -> QueueType]
<1> PICK i \in Item : i = batch[k].item  BY BatchTyped
<1> DEFINE q == [queue[i] EXCEPT !.status = status]
<1>1. queue[i] \in QueueType /\ queue \in [Item -> QueueType]  BY DEF Typed
<1>2. q \in QueueType /\ q.gen = queue[i].gen /\ q.status = status  BY <1>1 DEF QueueType
<1>3. queue' = IF Holds(batch[k]) THEN [queue EXCEPT ![i] = q] ELSE queue
  BY <1>1 DEF QueueType
<1> HIDE DEF q
<1>4. /\ queue' \in [Item -> QueueType]
      /\ \A j \in Item : queue'[j].gen = queue[j].gen
      /\ \A j \in Item : j # i => queue'[j] = queue[j]
      /\ queue'[i].status # queue[i].status => Holds(batch[k]) /\ queue'[i].status = status
  BY <1>1, <1>2, <1>3
<1>5. Holds(batch[k]) => Current(i)  BY DEF Holds, Current
<1>6. ASSUME NEW j \in Item, queue'[j].status = "done" PROVE index'[j] = Indexable(j)'
  <2>1. Indexable(j)' = Indexable(j) /\ index' = index  BY DEF Indexable, Revision
  <2>2. CASE queue[j].status = "done"  BY <2>1, <2>2 DEF Indexing, IndexTellsTruth
  <2>3. CASE queue[j].status # "done"
    <3>1. j = i /\ Current(i) /\ batch[k].step = "written"  BY <1>4, <1>5, <1>6, <2>3
    <3> QED BY <2>1, <3>1 DEF Indexing, Reads
  <2> QED BY <2>2, <2>3
<1>7. IndexTellsTruth'  BY <1>6 DEF IndexTellsTruth
<1>8. batch \in Seq(BatchType) /\ batch # <<>>  BY DEF Typed
<1>9. Indexed /\ Indexed'  BY <1>8 DEF Indexing, Indexed
<1>10. batch' \in Seq(BatchType)  BY SteppedIs
<1>11. CASE batch' = <<>>  BY <1>4, <1>7, <1>9, <1>10, <1>11, EmptyIndexing
<1>12. CASE /\ DOMAIN batch' = DOMAIN batch /\ batch'[k] = [batch[k] EXCEPT !.step = "settled"]
            /\ \A j \in DOMAIN batch : j # k => batch'[j] = batch[j]
  <2>1. batch'[k].item = i /\ batch'[k].gen = batch[k].gen /\ batch'[k].step = "settled"
    BY <1>12, BatchTyped DEF BatchType
  <2>2. \A j \in DOMAIN batch : batch'[j].item = batch[j].item /\ batch'[j].gen = batch[j].gen
    BY <1>12, <2>1
  <2>3. \A j \in Item : Current(j)' <=> Current(j)
    BY <1>4, <1>12, <2>2 DEF Current
  <2>4. ASSUME NEW j \in DOMAIN batch' PROVE Reads(j)'
    <3> PICK h \in Item : h = batch[j].item  BY <1>12, BatchTyped
    <3>1. Reads(j) /\ batch'[j].item = h /\ batch'[j].gen = batch[j].gen  BY <1>12, <2>2 DEF Indexing
    <3>2. Current(h)' <=> Current(h)  BY <2>3
    <3>3. queue'[h].status = "done" => Current(h)
      BY <1>4, <1>5, <3>1 DEF Reads
    <3>4. CASE j = k
      BY <1>4, <2>1, <3>1, <3>2, <3>3, <3>4 DEF Reads, Current
    <3>5. CASE j # k
      <4>1. batch'[j] = batch[j]  BY <1>12, <3>5
      <4> QED BY <1>4, <3>1, <3>2, <3>3, <4>1 DEF Reads, Current, Indexable, Revision
    <3> QED BY <3>4, <3>5
  <2> QED BY <1>4, <1>7, <1>9, <1>10, <2>4 DEF Indexing
<1> QED BY <1>11, <1>12, SteppedIs

\* What is written is what was read; if the row is done by this batch, or the
\* claim is still the newest, that is what the row is now.
LEMMA WriteIndexing ==
  ASSUME Typed, Indexing, NEW k \in DOMAIN batch, WriteItem(k)
  PROVE  Indexing' /\ batch' \in Seq(BatchType) /\ index' \in [Item -> Nat]
<1> PICK i \in Item : i = batch[k].item  BY BatchTyped
<1>1. /\ batch[k].step = "read" /\ Stepped(k, "written") /\ index' = [index EXCEPT ![i] = batch[k].seen]
      /\ UNCHANGED <<copy, row, queue, todo>>
  BY DEF WriteItem, truth
<1>2. batch[k].seen \in Nat /\ index \in [Item -> Nat]  BY BatchTyped DEF BatchType, Typed
<1>3. index' \in [Item -> Nat] /\ index'[i] = batch[k].seen /\ \A j \in Item : j # i => index'[j] = index[j]
  BY <1>1, <1>2
<1>4. \A j \in Item : Indexable(j)' = Indexable(j)  BY <1>1 DEF Indexable, Revision
<1>5. Reads(k)  BY DEF Indexing
<1>6. Current(i) => index'[i] = Indexable(i)'  BY <1>1, <1>3, <1>4, <1>5 DEF Reads
<1>7. queue[i].status = "done" => Current(i)  BY <1>5 DEF Reads
<1>8. IndexTellsTruth'
  <2> SUFFICES ASSUME NEW j \in Item, queue'[j].status = "done" PROVE index'[j] = Indexable(j)'
    BY DEF IndexTellsTruth
  <2>1. CASE j = i  BY <1>1, <1>6, <1>7, <2>1
  <2>2. CASE j # i  BY <1>1, <1>3, <1>4, <2>2 DEF Indexing, IndexTellsTruth
  <2> QED BY <2>1, <2>2
<1>9. batch \in Seq(BatchType) /\ batch # <<>>  BY DEF Typed
<1>10. Indexed /\ Indexed'  BY <1>1, <1>9 DEF Indexing, Indexed
<1>11. batch' \in Seq(BatchType)  BY <1>1, SteppedIs
<1>12. CASE batch' = <<>>  BY <1>1, <1>3, <1>8, <1>10, <1>11, <1>12, EmptyIndexing
<1>13. CASE /\ DOMAIN batch' = DOMAIN batch /\ batch'[k] = [batch[k] EXCEPT !.step = "written"]
            /\ \A j \in DOMAIN batch : j # k => batch'[j] = batch[j]
  <2>1. batch'[k].item = i /\ batch'[k].gen = batch[k].gen /\ batch'[k].step = "written"
    BY <1>13, BatchTyped DEF BatchType
  <2>2. \A j \in DOMAIN batch : batch'[j].item = batch[j].item /\ batch'[j].gen = batch[j].gen
    BY <1>13, <2>1
  <2>3. \A j \in Item : Current(j)' <=> Current(j)
    BY <1>1, <1>13, <2>2 DEF Current
  <2>4. ASSUME NEW j \in DOMAIN batch' PROVE Reads(j)'
    <3> PICK h \in Item : h = batch[j].item  BY <1>13, BatchTyped
    <3>1. Reads(j) /\ batch'[j].item = h /\ batch'[j].gen = batch[j].gen  BY <1>13, <2>2 DEF Indexing
    <3>2. (Current(h)' <=> Current(h)) /\ Indexable(h)' = Indexable(h)  BY <1>4, <2>3
    <3>3. CASE j = k
      BY <1>1, <1>6, <2>1, <3>1, <3>2, <3>3 DEF Reads, Current, Indexable, Revision
    <3>4. CASE j # k
      <4>1. batch'[j] = batch[j]  BY <1>13, <3>4
      <4>2. Current(h) /\ batch[j].step = "written" => index'[h] = Indexable(h)'
        BY <1>3, <1>6, <3>1, <3>2 DEF Reads
      <4> QED BY <1>1, <3>1, <3>2, <4>1, <4>2 DEF Reads, Current, Indexable, Revision
    <3> QED BY <3>3, <3>4
  <2> QED BY <1>3, <1>8, <1>10, <1>11, <2>4 DEF Indexing
<1> QED BY <1>1, <1>12, <1>13, SteppedIs

LEMMA LeaveIndexing ==
  ASSUME Typed, Indexing, NEW k \in DOMAIN batch, LeaveItem(k)
  PROVE  Indexing' /\ batch' \in Seq(BatchType)
<1>1. Stepped(k, "settled") /\ UNCHANGED <<copy, row, queue, index, todo>>  BY DEF LeaveItem, truth
<1>2. batch' \in Seq(BatchType)  BY <1>1, SteppedIs
<1>3. IndexTellsTruth'  BY <1>1 DEF Indexing, IndexTellsTruth, Indexable, Revision
<1>4. CASE batch' = <<>>  BY <1>1, <1>2, <1>3, <1>4, EmptyIndexing
<1>5. CASE /\ DOMAIN batch' = DOMAIN batch /\ batch'[k] = [batch[k] EXCEPT !.step = "settled"]
           /\ \A j \in DOMAIN batch : j # k => batch'[j] = batch[j]
  <2>1. batch'[k].item = batch[k].item /\ batch'[k].gen = batch[k].gen /\ batch'[k].step = "settled"
    BY <1>5, BatchTyped DEF BatchType
  <2>2. \A j \in DOMAIN batch : /\ batch'[j].item = batch[j].item /\ batch'[j].gen = batch[j].gen
                                /\ batch'[j].step = "settled" \/ batch'[j] = batch[j]
    BY <1>5, <2>1
  <2>3. \A j : Current(j)' <=> Current(j)
    BY <1>1, <1>5, <2>2 DEF Current
  <2>4. ASSUME NEW j \in DOMAIN batch' PROVE Reads(j)'
    <3> PICK h \in Item : h = batch[j].item  BY <1>5, BatchTyped
    <3>1. Reads(j) /\ batch'[j].item = h /\ batch'[j].gen = batch[j].gen  BY <1>5, <2>2 DEF Indexing
    <3>2. (Current(h)' <=> Current(h)) /\ Indexable(h)' = Indexable(h)  BY <1>1, <2>3 DEF Indexable, Revision
    <3> QED BY <1>1, <1>5, <2>2, <3>1, <3>2 DEF Reads, Current, Indexable, Revision
  <2>5. batch # <<>>  BY DEF Typed
  <2>6. Indexed' <=> Indexed  BY <1>1 DEF Indexed
  <2> QED BY <1>1, <1>2, <1>3, <2>4, <2>5, <2>6 DEF Indexing
<1> QED BY <1>1, <1>4, <1>5, SteppedIs

\* One item is queued again, by reconciliation or by a retrieval.
LEMMA RequeueIndexing ==
  ASSUME Typed, Indexing, NEW i \in Item, Indexed,
         queue' = [queue EXCEPT ![i] = Requeued(@)], UNCHANGED <<copy, row, index, batch>>
  PROVE  Indexing' /\ queue' \in [Item -> QueueType]
<1>1. queue \in [Item -> QueueType]  BY DEF Typed
<1>2. queue' \in [Item -> QueueType]  BY <1>1, RequeuedIs
<1>3. \A j \in Item : queue'[j] = IF j \in {i} THEN Requeued(queue[j]) ELSE queue[j]  BY <1>1
<1>4. \A j \in Item : j \notin {i} => Indexable(j)' = Indexable(j)  BY DEF Indexable, Revision
<1> QED BY <1>2, <1>3, <1>4, RequeuedIndexing

LEMMA RestartIndexing ==
  ASSUME Typed, Indexing, Restart
  PROVE  Indexing' /\ batch' \in Seq(BatchType) /\ todo' \subseteq Item
<1>1. /\ batch' = <<>> /\ UNCHANGED <<copy, row, queue, index>>
      /\ todo' = IF Indexed THEN {i \in Item : Stored(i) \/ index[i] # 0} ELSE {}
  BY DEF Restart, truth
<1>2. IndexTellsTruth'  BY <1>1 DEF Indexing, IndexTellsTruth, Indexable, Revision
<1>3. Indexed \/ UNCHANGED <<todo, queue>>  BY <1>1 DEF Indexing
<1>4. Indexing'  BY <1>1, <1>2, <1>3, EmptyIndexing
<1> QED BY <1>1, <1>4

-----------------------------------------------------------------------------
\* Triggers and directories.

LEMMA SnapshotIs ==
  ASSUME Typed
  PROVE  /\ Snapshot \in [Item -> Nat] /\ Snapshot # NoDir
         /\ Empty \in [Item -> Nat] /\ Empty # NoDir
<1>1. \A i \in Item : Revision(i) \in Nat
  <2> TAKE i \in Item
  <2>1. row[i].log \in Seq(Entry)  BY DEF Typed, RowType
  <2> QED BY <2>1 DEF Revision
<1>2. Item # {}  BY KindAssumption DEF Item
<1>3. DOMAIN NoDir = {} /\ DOMAIN Snapshot = Item /\ DOMAIN Empty = Item
  BY DEF NoDir, Snapshot, Empty
<1> QED BY <1>1, <1>2, <1>3 DEF Snapshot, Empty

LEMMA SnapshotSame ==
  ASSUME UNCHANGED row
  PROVE  Snapshot' = Snapshot
BY DEF Snapshot, Stored, Revision

\* Rows change with a new trigger, which no turn serves yet.
LEMMA ChangedProjecting ==
  ASSUME Typed, Projecting, NEW items, Changed(items), UNCHANGED <<copy, turn, dir>>
  PROVE  Projecting'
<1>1. CASE copy # "bundle"
  <2>1. outbox' = outbox /\ outbox = <<>>  BY <1>1 DEF Changed, Projecting
  <2>2. DOMAIN outbox' = {} /\ Len(outbox') = 0  BY <2>1
  <2>3. Len(outbox') \notin turn.for  BY <2>1, <2>2 DEF Typed
  <2> QED BY <1>1, <2>1, <2>2, <2>3 DEF Projecting, Shape, Shows, BundleTellsTruth, BundleSurvives
<1>2. CASE copy = "bundle"
  <2>1. outbox' = Append(outbox, Trigger) /\ outbox \in Seq(TriggerType)
    BY <1>2 DEF Changed, Typed
  <2>2. Trigger \in TriggerType /\ Trigger.status = "pending"  BY DEF Trigger, TriggerType
  <2>3. /\ Len(outbox') = Len(outbox) + 1 /\ Len(outbox) \in Nat
        /\ DOMAIN outbox = 1..Len(outbox) /\ DOMAIN outbox' = 1..(Len(outbox) + 1)
        /\ outbox'[Len(outbox')].status = "pending"
        /\ \A k \in DOMAIN outbox : outbox'[k] = outbox[k]
    BY <2>1, <2>2
  <2>4. Len(outbox') \notin turn.for
    <3>1. turn.for \subseteq 1..Len(outbox)  BY <2>3 DEF Typed
    <3> QED BY <2>3, <3>1
  <2>5. BundleTellsTruth'  BY <2>3 DEF BundleTellsTruth
  <2>6. BundleSurvives'  BY <2>3 DEF BundleSurvives, Projecting
  <2> QED BY <1>2, <2>4, <2>5, <2>6 DEF Projecting, Shape, Shows
<1> QED BY <1>1, <1>2

LEMMA ProjectingSame ==
  ASSUME Projecting, UNCHANGED <<copy, row, outbox, turn, dir>>
  PROVE  Projecting'
BY SnapshotSame DEF Projecting, Shape, Shows, BundleTellsTruth, BundleSurvives

\* The triggers keep their number, and whoever is done was done before or is
\* so now because the turn that serves the last trigger is complete.
LEMMA BatchIs ==
  ASSUME Typed, NEW f, \A k \in turn.for : f[k] \in TriggerType, outbox' = Batch(f)
  PROVE  /\ outbox' \in Seq(TriggerType) /\ Len(outbox') = Len(outbox)
         /\ DOMAIN outbox' = DOMAIN outbox
         /\ \A k \in DOMAIN outbox : outbox'[k] = IF k \in turn.for THEN f[k] ELSE outbox[k]
<1>1. outbox \in Seq(TriggerType)  BY DEF Typed
<1>2. DOMAIN outbox = 1..Len(outbox) /\ Len(outbox) \in Nat  BY <1>1
<1>3. \A k \in 1..Len(outbox) : (IF k \in turn.for THEN f[k] ELSE outbox[k]) \in TriggerType
  BY <1>1
<1>4. outbox' = [k \in 1..Len(outbox) |-> IF k \in turn.for THEN f[k] ELSE outbox[k]]
  BY <1>2 DEF Batch
<1>5. outbox' \in Seq(TriggerType) /\ Len(outbox') = Len(outbox)  BY <1>2, <1>3, <1>4
<1> QED BY <1>2, <1>4, <1>5

LEMMA TriggersTyped ==
  ASSUME NEW t \in TriggerType
  PROVE  /\ Deferred(t) \in TriggerType /\ Deferred(t).status # "done"
         /\ Spent(t) \in TriggerType /\ Spent(t).status # "done"
         /\ [t EXCEPT !.status = "done"] \in TriggerType
         /\ [t EXCEPT !.status = "deleted"] \in TriggerType
         /\ [t EXCEPT !.status = "deleted"].status = "deleted"
<1>1. t.attempts \in Nat  BY DEF TriggerType
<1>2. (IF t.attempts > 0 THEN t.attempts - 1 ELSE 0) \in Nat  BY <1>1
<1>3. Deferred(t) \in TriggerType /\ Deferred(t).status # "done"  BY <1>2 DEF Deferred, TriggerType
<1>4. (IF t.attempts > MaxRetries THEN "failed" ELSE "delayed") \in {"failed", "delayed"}  OBVIOUS
<1>5. Spent(t) \in TriggerType /\ Spent(t).status # "done"  BY <1>4 DEF Spent, TriggerType
<1>6. /\ [t EXCEPT !.status = "done"] \in TriggerType
      /\ [t EXCEPT !.status = "deleted"] \in TriggerType
      /\ [t EXCEPT !.status = "deleted"].status = "deleted"
  BY DEF TriggerType
<1> QED BY <1>3, <1>5, <1>6

\* The turn ends without success: nothing becomes done, every directory is
\* empty or what some directory was, and the bundle is not lost.
LEMMA EndedProjecting ==
  ASSUME Typed, Projecting, turn' = Rest, UNCHANGED <<copy, row>>,
         outbox' \in Seq(TriggerType), Len(outbox') = Len(outbox),
         DOMAIN outbox' = DOMAIN outbox,
         \A k \in DOMAIN outbox : outbox'[k].status = "done" => outbox[k].status = "done",
         dir' \in [{"live", "backup", "staging"} -> {NoDir} \cup [Item -> Nat]],
         \A d \in DOMAIN dir : dir'[d] = NoDir \/ \E c \in DOMAIN dir : dir'[d] = dir[c],
         dir.live # NoDir \/ dir.backup # NoDir => dir'.live # NoDir \/ dir'.backup # NoDir
  PROVE  /\ Projecting'
         /\ turn' \in [step : Steps, for : SUBSET DOMAIN outbox']
<1>1. turn'.step = "rest" /\ turn'.for = {}  BY DEF Rest
<1>2. turn' \in [step : Steps, for : SUBSET DOMAIN outbox']  BY DEF Rest, Steps
<1>3. Snapshot' = Snapshot  BY SnapshotSame
<1>4. BundleTellsTruth'
  <2> SUFFICES ASSUME NEW k \in DOMAIN outbox', k = Len(outbox'), outbox'[k].status = "done",
                      NEW d \in DOMAIN dir'
               PROVE  dir'[d] \in {NoDir, Snapshot}
    BY <1>3 DEF BundleTellsTruth
  <2>0. DOMAIN dir' = DOMAIN dir  BY DEF Typed
  <2>1. \A c \in DOMAIN dir : dir[c] \in {NoDir, Snapshot}
    BY DEF Projecting, BundleTellsTruth
  <2> QED BY <2>0, <2>1
<1>5. BundleSurvives'  BY DEF Projecting, BundleSurvives
<1>6. Shape' /\ Shows'  BY <1>1 DEF Shape, Shows
<1>7. copy' # "bundle" => outbox' = <<>>
  <2> SUFFICES ASSUME copy # "bundle" PROVE outbox' = <<>>  OBVIOUS
  <2>1. Len(outbox') = 0  BY DEF Projecting
  <2> QED BY <2>1
<1> QED BY <1>1, <1>2, <1>4, <1>5, <1>6, <1>7 DEF Projecting

LEMMA DirTyped ==
  ASSUME Typed
  PROVE  /\ DOMAIN dir = {"live", "backup", "staging"}
         /\ dir \in [{"live", "backup", "staging"} -> {NoDir} \cup [Item -> Nat]]
         /\ dir.live \in {NoDir} \cup [Item -> Nat]
         /\ dir.backup \in {NoDir} \cup [Item -> Nat]
         /\ dir.staging \in {NoDir} \cup [Item -> Nat]
BY DEF Typed

LEMMA MovesIs ==
  ASSUME Typed, NEW from \in {"live", "backup", "staging"}, NEW to \in {"live", "backup", "staging"},
         from # to, Moves(from, to)
  PROVE  /\ dir' \in [{"live", "backup", "staging"} -> {NoDir} \cup [Item -> Nat]]
         /\ dir'[to] = dir[from] /\ dir'[from] = NoDir
         /\ \A d \in DOMAIN dir : d # from /\ d # to => dir'[d] = dir[d]
BY DEF Moves, Typed

LEMMA RemovesIs ==
  ASSUME Typed, NEW r \in {"live", "backup", "staging"}, Removes(r)
  PROVE  /\ dir' \in [{"live", "backup", "staging"} -> {NoDir} \cup [Item -> Nat]]
         /\ dir'[r] = NoDir
         /\ \A d \in DOMAIN dir : d # r => dir'[d] = dir[d]
BY DEF Removes, Typed

\* A turn goes on, or ends with nothing to settle.
LEMMA GoesProjecting ==
  ASSUME Typed, Projecting, UNCHANGED <<copy, row, outbox>>,
         turn'.step \in Steps, turn' \in [step : Steps, for : SUBSET DOMAIN outbox],
         turn'.for = turn.for, turn'.step = "rest" => turn.for = {},
         dir' \in [{"live", "backup", "staging"} -> {NoDir} \cup [Item -> Nat]],
         \A d \in DOMAIN dir : \/ dir'[d] \in {NoDir, Snapshot}
                               \/ \E c \in DOMAIN dir : dir'[d] = dir[c]
                               \/ dir.live = NoDir /\ dir.backup = NoDir,
         dir.live # NoDir \/ dir.backup # NoDir => dir'.live # NoDir \/ dir'.backup # NoDir,
         Shape', Shows'
  PROVE  Projecting' /\ turn' \in [step : Steps, for : SUBSET DOMAIN outbox']
<1>1. Snapshot' = Snapshot  BY SnapshotSame
<1>2. BundleTellsTruth'
  <2> SUFFICES ASSUME NEW k \in DOMAIN outbox, k = Len(outbox), outbox[k].status = "done",
                      NEW d \in DOMAIN dir'
               PROVE  dir'[d] \in {NoDir, Snapshot}
    BY <1>1 DEF BundleTellsTruth
  <2>1. DOMAIN dir' = DOMAIN dir  BY DEF Typed
  <2>2. \A c \in DOMAIN dir : dir[c] \in {NoDir, Snapshot}  BY DEF Projecting, BundleTellsTruth
  <2>3. dir.live # NoDir \/ dir.backup # NoDir  BY DEF Projecting, BundleSurvives
  <2> QED BY <2>1, <2>2, <2>3
<1>3. BundleSurvives'  BY DEF Projecting, BundleSurvives
<1> QED BY <1>2, <1>3 DEF Projecting

LEMMA GoesIs ==
  ASSUME Typed, NEW step \in Steps, Goes(step)
  PROVE  turn' \in [step : Steps, for : SUBSET DOMAIN outbox] /\ turn'.step = step /\ turn'.for = turn.for
BY DEF Goes, Typed

LEMMA ClearStagingProjecting ==
  ASSUME Typed, Projecting, ClearStaging
  PROVE  /\ Projecting' /\ turn' \in [step : Steps, for : SUBSET DOMAIN outbox']
         /\ dir' \in [{"live", "backup", "staging"} -> {NoDir} \cup [Item -> Nat]]
<1>1. /\ turn'.step = "clear_backup" /\ turn'.for = turn.for
      /\ turn' \in [step : Steps, for : SUBSET DOMAIN outbox]
  BY GoesIs DEF ClearStaging, Steps
<1>2. /\ dir' \in [{"live", "backup", "staging"} -> {NoDir} \cup [Item -> Nat]]
      /\ dir'["staging"] = NoDir /\ \A d \in DOMAIN dir : d # "staging" => dir'[d] = dir[d]
  BY RemovesIs DEF ClearStaging
<1>3. dir'.staging = NoDir /\ dir'.live = dir.live /\ dir'.backup = dir.backup
  BY <1>2, DirTyped
<1>4. Shape' /\ Shows'  BY <1>1, <1>3 DEF Shape, Shows
<1>5. \A d \in DOMAIN dir : dir'[d] \in {NoDir, Snapshot} \/ \E c \in DOMAIN dir : dir'[d] = dir[c]
  BY <1>2
<1>6. UNCHANGED <<copy, row, outbox>>  BY DEF ClearStaging, Keeps, truth
<1> QED BY <1>1, <1>2, <1>3, <1>4, <1>5, <1>6, GoesProjecting DEF Steps

LEMMA ClearBackupProjecting ==
  ASSUME Typed, Projecting, ClearBackup
  PROVE  /\ Projecting' /\ turn' \in [step : Steps, for : SUBSET DOMAIN outbox']
         /\ dir' \in [{"live", "backup", "staging"} -> {NoDir} \cup [Item -> Nat]]
<1>1. /\ turn'.step \in {"rest", "render"} /\ turn'.for = turn.for
      /\ turn'.step = "rest" => turn.for = {}
      /\ turn' \in [step : Steps, for : SUBSET DOMAIN outbox]
  <2>1. CASE turn.for = {}
    <3>1. turn' = Rest  BY <2>1 DEF ClearBackup
    <3> QED BY <2>1, <3>1 DEF Rest, Steps
  <2>2. CASE turn.for # {}
    <3>1. Goes("render")  BY <2>2 DEF ClearBackup
    <3> QED BY <3>1, GoesIs DEF Steps
  <2> QED BY <2>1, <2>2
<1>2. turn.step = "clear_backup" /\ dir.staging = NoDir  BY DEF ClearBackup, Projecting, Shape
<1>3. /\ dir' \in [{"live", "backup", "staging"} -> {NoDir} \cup [Item -> Nat]]
      /\ dir'.staging = NoDir /\ dir'.backup = NoDir
      /\ dir'.live = dir.live \/ dir'.live = dir.backup
      /\ dir.live # NoDir \/ dir.backup # NoDir => dir'.live # NoDir
  <2>1. CASE dir.live = NoDir /\ dir.backup # NoDir
    <3>1. Moves("backup", "live")  BY <2>1 DEF ClearBackup, BackupCleared
    <3>2. /\ dir' \in [{"live", "backup", "staging"} -> {NoDir} \cup [Item -> Nat]]
          /\ dir'["live"] = dir["backup"] /\ dir'["backup"] = NoDir /\ dir'["staging"] = dir["staging"]
      BY <3>1, MovesIs, DirTyped
    <3> QED BY <1>2, <2>1, <3>2
  <2>2. CASE ~(dir.live = NoDir /\ dir.backup # NoDir)
    <3>1. Removes("backup")  BY <2>2 DEF ClearBackup, BackupCleared
    <3>2. /\ dir' \in [{"live", "backup", "staging"} -> {NoDir} \cup [Item -> Nat]]
          /\ dir'["live"] = dir["live"] /\ dir'["backup"] = NoDir /\ dir'["staging"] = dir["staging"]
      BY <3>1, RemovesIs, DirTyped
    <3> QED BY <1>2, <2>2, <3>2
  <2> QED BY <2>1, <2>2
<1>4. Shape' /\ Shows'  BY <1>1, <1>3 DEF Shape, Shows
<1>5. \A d \in DOMAIN dir : dir'[d] \in {NoDir, Snapshot} \/ \E c \in DOMAIN dir : dir'[d] = dir[c]
  BY <1>3, DirTyped
<1>6. UNCHANGED <<copy, row, outbox>>  BY DEF ClearBackup, Keeps, truth
<1> QED BY <1>1, <1>3, <1>4, <1>5, <1>6, GoesProjecting DEF Steps

LEMMA RenderProjecting ==
  ASSUME Typed, Projecting, Render
  PROVE  /\ Projecting' /\ turn' \in [step : Steps, for : SUBSET DOMAIN outbox']
         /\ dir' \in [{"live", "backup", "staging"} -> {NoDir} \cup [Item -> Nat]]
<1>1. /\ turn'.step = "move_aside" /\ turn'.for = turn.for
      /\ turn' \in [step : Steps, for : SUBSET DOMAIN outbox]
  BY GoesIs DEF Render, Steps
<1>2. turn.step = "render" /\ dir.backup = NoDir  BY DEF Render, Projecting, Shape
<1> DEFINE live == IF dir.live = NoDir THEN Empty ELSE dir.live
<1>3. dir' = [dir EXCEPT !.live = live, !.staging = Snapshot]  BY DEF Render
<1>4. live \in [Item -> Nat] /\ live # NoDir /\ (live = dir.live \/ dir.live = NoDir)
  BY SnapshotIs, DirTyped
<1> HIDE DEF live
<1>5. /\ dir' \in [{"live", "backup", "staging"} -> {NoDir} \cup [Item -> Nat]]
      /\ dir'.live = live /\ dir'.backup = dir.backup /\ dir'.staging = Snapshot
  BY <1>3, <1>4, SnapshotIs, DirTyped
<1>6. UNCHANGED <<copy, row, outbox>>  BY DEF Render, Keeps, truth
<1>7. Snapshot' = Snapshot  BY <1>6, SnapshotSame
<1>8. Shape' /\ Shows'  BY <1>1, <1>2, <1>4, <1>5, <1>7, SnapshotIs DEF Shape, Shows
<1>9. \A d \in DOMAIN dir : \/ dir'[d] \in {NoDir, Snapshot}
                            \/ \E c \in DOMAIN dir : dir'[d] = dir[c]
                            \/ dir.live = NoDir /\ dir.backup = NoDir
  BY <1>2, <1>4, <1>5, DirTyped
<1> QED BY <1>1, <1>4, <1>5, <1>6, <1>8, <1>9, GoesProjecting DEF Steps

LEMMA MoveAsideProjecting ==
  ASSUME Typed, Projecting, MoveAside
  PROVE  /\ Projecting' /\ turn' \in [step : Steps, for : SUBSET DOMAIN outbox']
         /\ dir' \in [{"live", "backup", "staging"} -> {NoDir} \cup [Item -> Nat]]
<1>1. /\ turn'.step = "move_in" /\ turn'.for = turn.for
      /\ turn' \in [step : Steps, for : SUBSET DOMAIN outbox]
  BY GoesIs DEF MoveAside, Steps
<1>2. turn.step = "move_aside" /\ dir.live # NoDir /\ dir.staging # NoDir
  BY DEF MoveAside, Projecting, Shape
<1>3. /\ dir' \in [{"live", "backup", "staging"} -> {NoDir} \cup [Item -> Nat]]
      /\ dir'["backup"] = dir["live"] /\ dir'["live"] = NoDir /\ dir'["staging"] = dir["staging"]
  BY MovesIs, DirTyped DEF MoveAside
<1>4. UNCHANGED <<copy, row, outbox>>  BY DEF MoveAside, Keeps, truth
<1>5. Snapshot' = Snapshot  BY <1>4, SnapshotSame
<1>6. Shape' /\ Shows'
  BY <1>1, <1>2, <1>3, <1>4, <1>5 DEF Shape, Shows, Projecting
<1>7. \A d \in DOMAIN dir : dir'[d] \in {NoDir, Snapshot} \/ \E c \in DOMAIN dir : dir'[d] = dir[c]
  BY <1>3, DirTyped
<1> QED BY <1>1, <1>2, <1>3, <1>4, <1>6, <1>7, GoesProjecting DEF Steps

LEMMA MoveInProjecting ==
  ASSUME Typed, Projecting, MoveIn
  PROVE  /\ Projecting' /\ turn' \in [step : Steps, for : SUBSET DOMAIN outbox']
         /\ dir' \in [{"live", "backup", "staging"} -> {NoDir} \cup [Item -> Nat]]
<1>1. /\ turn'.step = "drop_backup" /\ turn'.for = turn.for
      /\ turn' \in [step : Steps, for : SUBSET DOMAIN outbox]
  BY GoesIs DEF MoveIn, Steps
<1>2. turn.step = "move_in" /\ dir.live = NoDir /\ dir.backup # NoDir /\ dir.staging # NoDir
  BY DEF MoveIn, Projecting, Shape
<1>3. /\ dir' \in [{"live", "backup", "staging"} -> {NoDir} \cup [Item -> Nat]]
      /\ dir'["live"] = dir["staging"] /\ dir'["staging"] = NoDir /\ dir'["backup"] = dir["backup"]
  BY MovesIs, DirTyped DEF MoveIn
<1>4. UNCHANGED <<copy, row, outbox>>  BY DEF MoveIn, Keeps, truth
<1>5. Snapshot' = Snapshot  BY <1>4, SnapshotSame
<1>6. Shape' /\ Shows'
  BY <1>1, <1>2, <1>3, <1>4, <1>5 DEF Shape, Shows, Projecting
<1>7. \A d \in DOMAIN dir : dir'[d] \in {NoDir, Snapshot} \/ \E c \in DOMAIN dir : dir'[d] = dir[c]
  BY <1>3, DirTyped
<1> QED BY <1>1, <1>2, <1>3, <1>4, <1>6, <1>7, GoesProjecting DEF Steps

LEMMA DropBackupProjecting ==
  ASSUME Typed, Projecting, DropBackup
  PROVE  /\ Projecting' /\ turn' \in [step : Steps, for : SUBSET DOMAIN outbox']
         /\ dir' \in [{"live", "backup", "staging"} -> {NoDir} \cup [Item -> Nat]]
<1>1. /\ turn'.step = "complete" /\ turn'.for = turn.for
      /\ turn' \in [step : Steps, for : SUBSET DOMAIN outbox]
  BY GoesIs DEF DropBackup, Steps
<1>2. turn.step = "drop_backup" /\ dir.live # NoDir /\ dir.staging = NoDir
  BY DEF DropBackup, Projecting, Shape
<1>3. /\ dir' \in [{"live", "backup", "staging"} -> {NoDir} \cup [Item -> Nat]]
      /\ dir'["backup"] = NoDir /\ dir'["live"] = dir["live"] /\ dir'["staging"] = dir["staging"]
  BY RemovesIs, DirTyped DEF DropBackup
<1>4. UNCHANGED <<copy, row, outbox>>  BY DEF DropBackup, Keeps, truth
<1>5. Snapshot' = Snapshot  BY <1>4, SnapshotSame
<1>6. Shape' /\ Shows'
  BY <1>1, <1>2, <1>3, <1>4, <1>5 DEF Shape, Shows, Projecting
<1>7. \A d \in DOMAIN dir : dir'[d] \in {NoDir, Snapshot} \/ \E c \in DOMAIN dir : dir'[d] = dir[c]
  BY <1>3, DirTyped
<1> QED BY <1>1, <1>2, <1>3, <1>4, <1>6, <1>7, GoesProjecting DEF Steps

LEMMA CompleteBatchProjecting ==
  ASSUME Typed, Projecting, CompleteBatch
  PROVE  /\ Projecting' /\ turn' \in [step : Steps, for : SUBSET DOMAIN outbox']
         /\ outbox' \in Seq(TriggerType)
<1> DEFINE f == [k \in turn.for |-> [outbox[k] EXCEPT !.status = "done"]]
<1>1. turn.step = "complete" /\ outbox' = Batch(f) /\ turn' = Rest /\ UNCHANGED <<copy, row, dir>>
  BY DEF CompleteBatch, Keeps, truth
<1>2. \A k \in turn.for : f[k] \in TriggerType
  <2> TAKE k \in turn.for
  <2>1. outbox[k] \in TriggerType  BY DEF Typed
  <2> QED BY <2>1, TriggersTyped
<1> HIDE DEF f
<1>3. /\ outbox' \in Seq(TriggerType) /\ Len(outbox') = Len(outbox) /\ DOMAIN outbox' = DOMAIN outbox
      /\ \A k \in DOMAIN outbox : k \notin turn.for => outbox'[k] = outbox[k]
  BY <1>1, <1>2, BatchIs
<1>4. dir.live # NoDir /\ dir.staging = NoDir /\ dir.backup = NoDir  BY <1>1 DEF Projecting, Shape
<1>5. turn'.step = "rest" /\ turn'.for = {} /\ turn' \in [step : Steps, for : SUBSET DOMAIN outbox']
  BY <1>1 DEF Rest, Steps
<1>6. Snapshot' = Snapshot  BY <1>1, SnapshotSame
<1>7. BundleTellsTruth'
  <2> SUFFICES ASSUME NEW k \in DOMAIN outbox, k = Len(outbox), outbox'[k].status = "done",
                      NEW d \in DOMAIN dir
               PROVE  dir[d] \in {NoDir, Snapshot}
    BY <1>1, <1>3, <1>6 DEF BundleTellsTruth
  <2>1. CASE k \in turn.for
    <3>1. dir.live = Snapshot  BY <1>1, <2>1 DEF Projecting, Shows
    <3> QED BY <1>4, <3>1, DirTyped
  <2>2. CASE k \notin turn.for
    <3>1. outbox[k].status = "done"  BY <1>3, <2>2
    <3> QED BY <3>1 DEF Projecting, BundleTellsTruth
  <2> QED BY <2>1, <2>2
<1>8. BundleSurvives'  BY <1>1, <1>4 DEF BundleSurvives
<1>9. Shape' /\ Shows'  BY <1>5 DEF Shape, Shows
<1>10. copy' # "bundle" => outbox' = <<>>
  <2>1. copy # "bundle" => Len(outbox') = 0  BY <1>3 DEF Projecting
  <2> QED BY <1>1, <1>3, <2>1
<1> QED BY <1>3, <1>5, <1>7, <1>8, <1>9, <1>10 DEF Projecting

\* The triggers of a turn that did not succeed are spent, or deferred.
LEMMA UnsuccessfulBatch ==
  ASSUME Typed,
         \/ outbox' = Batch([k \in turn.for |-> Spent(outbox[k])])
         \/ outbox' = Batch([k \in turn.for |-> Deferred(outbox[k])])
  PROVE  /\ outbox' \in Seq(TriggerType) /\ Len(outbox') = Len(outbox)
         /\ DOMAIN outbox' = DOMAIN outbox
         /\ \A k \in DOMAIN outbox : outbox'[k].status = "done" => outbox[k].status = "done"
<1>1. PICK f : /\ outbox' = Batch(f)
               /\ \A k \in turn.for : f[k] \in TriggerType /\ f[k].status # "done"
  <2>0. \A k \in turn.for : outbox[k] \in TriggerType  BY DEF Typed
  <2>1. CASE outbox' = Batch([k \in turn.for |-> Spent(outbox[k])])
    <3> DEFINE f == [k \in turn.for |-> Spent(outbox[k])]
    <3>1. \A k \in turn.for : f[k] \in TriggerType /\ f[k].status # "done"  BY <2>0, TriggersTyped
    <3>2. outbox' = Batch(f)  BY <2>1
    <3> HIDE DEF f
    <3> QED BY <3>1, <3>2
  <2>2. CASE outbox' = Batch([k \in turn.for |-> Deferred(outbox[k])])
    <3> DEFINE f == [k \in turn.for |-> Deferred(outbox[k])]
    <3>1. \A k \in turn.for : f[k] \in TriggerType /\ f[k].status # "done"  BY <2>0, TriggersTyped
    <3>2. outbox' = Batch(f)  BY <2>2
    <3> HIDE DEF f
    <3> QED BY <3>1, <3>2
  <2> QED BY <2>1, <2>2
<1> QED BY <1>1, BatchIs

\* A turn that fails, wherever it stops.
LEMMA FailsProjecting ==
  ASSUME Typed, Projecting, CleanupFails \/ ProjectFails \/ RollBack
  PROVE  /\ Projecting' /\ turn' \in [step : Steps, for : SUBSET DOMAIN outbox']
         /\ outbox' \in Seq(TriggerType)
         /\ dir' \in [{"live", "backup", "staging"} -> {NoDir} \cup [Item -> Nat]]
<1>1. turn' = Rest /\ UNCHANGED <<copy, row>>
  BY DEF CleanupFails, ProjectFails, RollBack, Keeps, truth
<1>2. \/ outbox' = Batch([k \in turn.for |-> Spent(outbox[k])])
      \/ outbox' = Batch([k \in turn.for |-> Deferred(outbox[k])])
  <2>1. CASE CleanupFails  BY <2>1 DEF CleanupFails
  <2>2. CASE ProjectFails  BY <2>2 DEF ProjectFails, Discard
  <2>3. CASE RollBack  BY <2>3 DEF RollBack
  <2> QED BY <2>1, <2>2, <2>3
<1>3. /\ outbox' \in Seq(TriggerType) /\ Len(outbox') = Len(outbox)
      /\ DOMAIN outbox' = DOMAIN outbox
      /\ \A k \in DOMAIN outbox : outbox'[k].status = "done" => outbox[k].status = "done"
  BY <1>2, UnsuccessfulBatch
<1>4. /\ dir' \in [{"live", "backup", "staging"} -> {NoDir} \cup [Item -> Nat]]
      /\ \A d \in DOMAIN dir : dir'[d] = NoDir \/ \E c \in DOMAIN dir : dir'[d] = dir[c]
      /\ dir.live # NoDir \/ dir.backup # NoDir => dir'.live # NoDir \/ dir'.backup # NoDir
  <2>1. CASE UNCHANGED dir  BY <2>1, DirTyped
  <2>2. CASE dir' = [dir EXCEPT !.staging = NoDir]  BY <2>2, DirTyped
  <2>3. CASE RollBack
    <3>1. turn.step = "move_in" /\ dir.live = NoDir  BY <2>3 DEF RollBack, Projecting, Shape
    <3> PICK live \in {dir.backup, dir.staging, NoDir}, backup \in {dir.backup, dir.staging, NoDir},
             staging \in {dir.backup, dir.staging, NoDir} :
          /\ \/ live = dir.backup /\ backup = NoDir
             \/ live = NoDir /\ backup = dir.backup
          /\ dir' = [live |-> live, backup |-> backup, staging |-> staging]
      BY <2>3 DEF RollBack
    <3>2. dir'.live = live /\ dir'.backup = backup /\ dir'.staging = staging
          /\ dir' \in [{"live", "backup", "staging"} -> {NoDir} \cup [Item -> Nat]]
      BY DirTyped
    <3> QED BY <3>1, <3>2, DirTyped
  <2> QED BY <2>1, <2>2, <2>3 DEF CleanupFails, ProjectFails, Discard
<1> QED BY <1>1, <1>3, <1>4, EndedProjecting

LEMMA LeaveBatchProjecting ==
  ASSUME Typed, Projecting, LeaveBatch
  PROVE  /\ Projecting' /\ turn' \in [step : Steps, for : SUBSET DOMAIN outbox']
<1>1. turn' = Rest /\ UNCHANGED <<copy, row, dir, outbox>>  BY DEF LeaveBatch, Keeps, truth
<1>2. outbox' \in Seq(TriggerType) /\ DOMAIN outbox' = DOMAIN outbox /\ Len(outbox') = Len(outbox)
  BY <1>1 DEF Typed
<1>3. \A d \in DOMAIN dir : dir'[d] = dir[d]  BY <1>1
<1> QED BY <1>1, <1>2, <1>3, DirTyped, EndedProjecting

LEMMA ClaimTriggersProjecting ==
  ASSUME Typed, Projecting, NEW lapsed, ClaimTriggers(lapsed)
  PROVE  /\ Projecting' /\ turn' \in [step : Steps, for : SUBSET DOMAIN outbox']
         /\ outbox' \in Seq(TriggerType)
<1> DEFINE due == With("pending") \cup lapsed
<1>1. /\ lapsed \subseteq With("delayed") \cup With("processing") /\ UNCHANGED <<copy, row, dir>>
      /\ due # {} /\ turn' = [step |-> "clear_staging", for |-> due]
      /\ outbox' = [k \in DOMAIN outbox |->
                      IF k \in due THEN [status |-> "processing",
                                         attempts |-> Capped(outbox[k].attempts + 1, MaxRetries + 1)]
                                   ELSE outbox[k]]
  BY DEF ClaimTriggers, truth
<1>2. due \subseteq DOMAIN outbox /\ \A k \in due : outbox[k].status # "done"
  BY <1>1 DEF With
<1> HIDE DEF due
<1>3. outbox \in Seq(TriggerType) /\ DOMAIN outbox = 1..Len(outbox) /\ Len(outbox) \in Nat
  BY DEF Typed
<1>4. \A k \in DOMAIN outbox : Capped(outbox[k].attempts + 1, MaxRetries + 1) \in Nat
  <2> TAKE k \in DOMAIN outbox
  <2>0. outbox[k] \in TriggerType  BY <1>3
  <2>1. outbox[k].attempts \in Nat  BY <2>0 DEF TriggerType
  <2>2. MaxRetries \in Nat  BY BoundAssumption
  <2>3. PICK n, b : n = outbox[k].attempts + 1 /\ b = MaxRetries + 1  OBVIOUS
  <2>4. n \in Nat /\ b \in Nat  BY <2>1, <2>2, <2>3
  <2>5. Capped(n, b) \in Nat  BY <2>4 DEF Capped
  <2> QED BY <2>3, <2>5
<1>5. \A k \in DOMAIN outbox : outbox'[k] \in TriggerType /\
                               (outbox'[k].status = "done" => outbox[k].status = "done")
  <2> TAKE k \in DOMAIN outbox
  <2>1. CASE k \in due
    <3> DEFINE t == [status |-> "processing", attempts |-> Capped(outbox[k].attempts + 1, MaxRetries + 1)]
    <3>1. outbox'[k] = t  BY <1>1, <2>1
    <3>2. t \in TriggerType /\ t.status = "processing"  BY <1>4 DEF TriggerType
    <3> HIDE DEF t
    <3> QED BY <3>1, <3>2
  <2>2. CASE k \notin due
    <3>1. outbox'[k] = outbox[k]  BY <1>1, <2>2
    <3> QED BY <1>3, <3>1
  <2> QED BY <2>1, <2>2
<1>6. DOMAIN outbox' = DOMAIN outbox  BY <1>1
<1>7. outbox' \in Seq(TriggerType) /\ Len(outbox') = Len(outbox)
  <2>1. outbox' = [k \in 1..Len(outbox) |-> outbox'[k]]  BY <1>1, <1>3
  <2> QED BY <1>3, <1>5, <2>1
<1>8. turn' \in [step : Steps, for : SUBSET DOMAIN outbox'] /\ turn'.step = "clear_staging"
  BY <1>1, <1>2, <1>6 DEF Steps
<1>9. Snapshot' = Snapshot  BY <1>1, SnapshotSame
<1>10. BundleTellsTruth' /\ BundleSurvives'
  BY <1>1, <1>5, <1>6, <1>7, <1>9 DEF Projecting, BundleTellsTruth, BundleSurvives
<1>11. Shape' /\ Shows'  BY <1>8 DEF Shape, Shows
<1>12. copy' # "bundle" => outbox' = <<>>
  <2>1. copy # "bundle" => Len(outbox') = 0  BY <1>7 DEF Projecting
  <2> QED BY <1>1, <1>7, <2>1
<1> QED BY <1>7, <1>8, <1>10, <1>11, <1>12 DEF Projecting

LEMMA PurgeProjecting ==
  ASSUME Typed, Projecting, NEW k \in DOMAIN outbox, Purge(k)
  PROVE  /\ Projecting' /\ turn' \in [step : Steps, for : SUBSET DOMAIN outbox']
         /\ outbox' \in Seq(TriggerType)
<1> DEFINE t == [outbox[k] EXCEPT !.status = "deleted"]
<1>1. outbox \in Seq(TriggerType) /\ outbox[k] \in TriggerType /\ DOMAIN outbox = 1..Len(outbox)
  BY DEF Typed
<1>2. t \in TriggerType /\ t.status = "deleted"  BY <1>1, TriggersTyped
<1>3. outbox' = [outbox EXCEPT ![k] = t] /\ UNCHANGED <<copy, row, turn, dir>> /\ turn = Rest
  BY <1>1 DEF Purge, Keeps, truth, project, TriggerType
<1> HIDE DEF t
<1>4. /\ outbox' \in Seq(TriggerType) /\ Len(outbox') = Len(outbox) /\ DOMAIN outbox' = DOMAIN outbox
      /\ \A j \in DOMAIN outbox : outbox'[j].status = "done" => outbox[j].status = "done"
  BY <1>1, <1>2, <1>3
<1>5. \A d \in DOMAIN dir : dir'[d] = dir[d]  BY <1>3
<1>6. turn' = Rest  BY <1>3
<1> QED BY <1>3, <1>4, <1>5, <1>6, DirTyped, EndedProjecting

LEMMA RestartProjecting ==
  ASSUME Typed, Projecting, Restart
  PROVE  /\ Projecting' /\ turn' \in [step : Steps, for : SUBSET DOMAIN outbox']
<1>1. /\ UNCHANGED <<copy, row, outbox, dir>>
      /\ turn' = IF copy = "bundle" THEN [step |-> "clear_staging", for |-> {}] ELSE turn
  BY DEF Restart, truth
<1>2. CASE copy # "bundle"
  BY <1>1, <1>2, ProjectingSame DEF Typed
<1>3. CASE copy = "bundle"
  <2>1. turn' = [step |-> "clear_staging", for |-> {}]  BY <1>1, <1>3
  <2>2. turn'.step = "clear_staging" /\ turn'.for = {}
        /\ turn' \in [step : Steps, for : SUBSET DOMAIN outbox']
    BY <2>1 DEF Steps
  <2>3. Snapshot' = Snapshot  BY <1>1, SnapshotSame
  <2>4. Shape' /\ Shows'  BY <2>2 DEF Shape, Shows
  <2>5. BundleTellsTruth' /\ BundleSurvives'
    BY <1>1, <2>3 DEF Projecting, BundleTellsTruth, BundleSurvives
  <2> QED BY <1>1, <1>3, <2>2, <2>4, <2>5 DEF Projecting
<1> QED BY <1>2, <1>3

-----------------------------------------------------------------------------
\* Every step keeps the invariant.

LEMMA InitHolds == Init => Inv
<1> SUFFICES ASSUME Init PROVE Inv  OBVIOUS
<1>1. \A i \in Item : /\ row[i].status = "absent" /\ row[i].subject = None /\ row[i].prior = None
                      /\ row[i].log = <<>> /\ DOMAIN row[i].log = {}
  BY DEF Init
<1>2. \A e \in Event : event[e] = NewEvent  BY DEF Init
<1>3. Typed
  <2>1. row \in [Item -> RowType]  BY DEF Init, RowType
  <2>2. event \in [Event -> EventType]
    BY DEF Init, NewEvent, NoText, Text, EventType, TextType
  <2>3. queue \in [Item -> QueueType] /\ index \in [Item -> Nat]  BY DEF Init, QueueType
  <2>4. batch \in Seq(BatchType) /\ outbox \in Seq(TriggerType) /\ todo \subseteq Item
    BY DEF Init
  <2>5. turn \in [step : Steps, for : SUBSET DOMAIN outbox]  BY DEF Init, Rest, Steps
  <2>6. dir \in [{"live", "backup", "staging"} -> {NoDir} \cup [Item -> Nat]]  BY DEF Init
  <2>7. copy \in Copies /\ tombstone \subseteq Subject  BY DEF Init
  <2> QED BY <2>1, <2>2, <2>3, <2>4, <2>5, <2>6, <2>7 DEF Typed
<1>4. Truth
  <2>1. ASSUME NEW e \in Event PROVE Worded(e)
    <3>1. /\ event[e].text = NoText /\ event[e].step = "idle" /\ event[e].target = None
          /\ event[e].receipt = None
      BY <1>2 DEF NewEvent
    <3>2. NoText.op = "none"  BY DEF NoText, Text
    <3> QED BY <3>1, <3>2 DEF Worded, ClaimOp, PrefOp
  <2>2. ASSUME NEW i \in Item PROVE Kept(i) /\ ~Stored(i)
    <3>1. ~Stored(i)  BY <1>1 DEF Stored
    <3> QED BY <1>1, <3>1 DEF Kept
  <2>3. Replaces  BY <1>1 DEF Replaces, Item
  <2>4. CreatedOnce  BY <2>2 DEF CreatedOnce, Item
  <2>5. Buried  BY DEF Buried, Init
  <2> QED BY <2>1, <2>2, <2>3, <2>4, <2>5 DEF Truth
<1>5. Indexing
  BY DEF Init, Indexing, IndexTellsTruth
<1>6. Projecting
  BY DEF Init, Projecting, Shape, Shows, BundleTellsTruth, BundleSurvives, Rest
<1> QED BY <1>3, <1>4, <1>5, <1>6 DEF Inv

\* A command changes rows, their queue rows and the outbox together.
LEMMA ChangeHolds ==
  ASSUME Inv, NEW items, Changed(items), \A i \in Item : i \notin items => row'[i] = row[i],
         UNCHANGED <<copy, indexer, project>>, Truth', row' \in [Item -> RowType],
         event' \in [Event -> EventType], tombstone' \subseteq Subject
  PROVE  Inv'
<1>1. UNCHANGED <<copy, index, batch, todo, turn, dir>>  BY DEF indexer, project
<1>2. Typed /\ Indexing /\ Projecting  BY DEF Inv
<1>3. Indexing' /\ Projecting'  BY <1>1, <1>2, ChangedIndexing, ChangedProjecting
<1>4. /\ queue' \in [Item -> QueueType] /\ outbox' \in Seq(TriggerType)
      /\ DOMAIN outbox \subseteq DOMAIN outbox'
  BY <1>2, ChangedTypes
<1>5. turn' \in [step : Steps, for : SUBSET DOMAIN outbox']  BY <1>1, <1>2, <1>4, TurnTyped
<1>6. Typed'  BY <1>1, <1>2, <1>4, <1>5 DEF Typed
<1> QED BY <1>3, <1>6 DEF Inv

\* Delivery, receipt and abandonment leave all but the event alone.
LEMMA EventHolds ==
  ASSUME Inv, UNCHANGED <<truth, copy, queue, indexer, outbox, project, restarts>>,
         Truth', event' \in [Event -> EventType]
  PROVE  Inv'
<1>1. UNCHANGED <<row, tombstone, copy, queue, index, batch, todo, outbox, turn, dir>>
  BY DEF truth, indexer, project
<1>2. Typed /\ Indexing /\ Projecting  BY DEF Inv
<1>3. Indexing' /\ Projecting'  BY <1>1, <1>2, IndexingSame, ProjectingSame
<1>4. Typed'  BY <1>1, <1>2 DEF Typed
<1> QED BY <1>3, <1>4 DEF Inv

LEMMA CommandHolds ==
  ASSUME Inv, Command
  PROVE  Inv'
<1>0. Typed /\ Truth  BY DEF Inv
<1>1. ASSUME NEW e \in Event, NEW t, NEW x \in Targets(t), Deliver(e, t, x)  PROVE Inv'
  <2>1. Truth' /\ event' \in [Event -> EventType]  BY <1>0, <1>1, DeliverTruth
  <2>2. UNCHANGED <<truth, copy, queue, indexer, outbox, project, restarts>>  BY <1>1 DEF Deliver
  <2> QED BY <2>1, <2>2, EventHolds
<1>2. ASSUME NEW e \in Event, CommitReceipt(e)  PROVE Inv'
  <2>1. Truth' /\ event' \in [Event -> EventType]  BY <1>0, <1>2, ReceiptTruth
  <2>2. UNCHANGED <<truth, copy, queue, indexer, outbox, project, restarts>>
    BY <1>2 DEF CommitReceipt
  <2> QED BY <2>1, <2>2, EventHolds
<1>3. ASSUME NEW e \in Event, Abandon(e)  PROVE Inv'
  <2>1. Truth' /\ event' \in [Event -> EventType]  BY <1>0, <1>3, AbandonTruth
  <2>2. UNCHANGED <<truth, copy, queue, indexer, outbox, project, restarts>>  BY <1>3 DEF Abandon
  <2> QED BY <2>1, <2>2, EventHolds
<1>4. ASSUME NEW e \in Event, Remember(e)  PROVE Inv'
  <2>1. Truth' /\ row' \in [Item -> RowType] /\ event' \in [Event -> EventType]
    BY <1>0, <1>4, RememberTruth
  <2> PICK g : g = Generated  OBVIOUS
  <2>2. /\ Changed({g}) /\ tombstone' = tombstone
        /\ row' = [row EXCEPT ![g] = NewRow("verified", event[e].target, None, e)]
        /\ UNCHANGED <<copy, indexer, project>>
    BY <1>4 DEF Remember, Performs
  <2>3. \A i \in Item : i \notin {g} => row'[i] = row[i]  BY <1>0, <2>2 DEF Typed
  <2>4. tombstone' \subseteq Subject  BY <1>0, <2>2 DEF Typed
  <2> QED BY <2>1, <2>2, <2>3, <2>4, ChangeHolds
<1>5. ASSUME NEW e \in Event, Correct(e)  PROVE Inv'
  <2>1. Truth' /\ row' \in [Item -> RowType] /\ event' \in [Event -> EventType]
    BY <1>0, <1>5, CorrectTruth
  <2> PICK g : g = Generated  OBVIOUS
  <2> PICK p : p = event[e].target  OBVIOUS
  <2>2. /\ Changed({p, g}) /\ tombstone' = tombstone
        /\ row' = [row EXCEPT ![p] = Revised(@, "superseded", e, "supersede"),
                              ![g] = NewRow("verified", row[p].subject, p, e)]
        /\ UNCHANGED <<copy, indexer, project>>
    BY <1>5 DEF Correct, Performs
  <2>3. \A i \in Item : i \notin {p, g} => row'[i] = row[i]  BY <1>0, <2>2 DEF Typed
  <2>4. tombstone' \subseteq Subject  BY <1>0, <2>2 DEF Typed
  <2> QED BY <2>1, <2>2, <2>3, <2>4, ChangeHolds
<1>6. ASSUME NEW e \in Event, Forget(e)  PROVE Inv'
  <2>1. /\ Truth' /\ row' \in [Item -> RowType] /\ event' \in [Event -> EventType]
        /\ tombstone' \subseteq Subject
    BY <1>0, <1>6, ForgetTruth
  <2> PICK h : h = Holding(event[e].target)  OBVIOUS
  <2>2. /\ Changed(h)
        /\ row' = [i \in Item |-> IF i \in h THEN Forgotten(row[i]) ELSE row[i]]
        /\ UNCHANGED <<copy, indexer, project>>
    BY <1>6 DEF Forget, Performs
  <2>3. \A i \in Item : i \notin h => row'[i] = row[i]  BY <2>2
  <2> QED BY <2>1, <2>2, <2>3, ChangeHolds
<1>7. ASSUME NEW e \in Event, Prefer(e)  PROVE Inv'
  <2>1. Truth' /\ row' \in [Item -> RowType] /\ event' \in [Event -> EventType]
    BY <1>0, <1>7, PreferTruth
  <2> PICK p : p = event[e].target  OBVIOUS
  <2>2. /\ Changed({p}) /\ tombstone' = tombstone
        /\ row' = [row EXCEPT ![p] = NewRow("active", None, None, e)]
        /\ UNCHANGED <<copy, indexer, project>>
    BY <1>7 DEF Prefer, Performs
  <2>3. \A i \in Item : i \notin {p} => row'[i] = row[i]  BY <1>0, <2>2 DEF Typed
  <2>4. tombstone' \subseteq Subject  BY <1>0, <2>2 DEF Typed
  <2> QED BY <2>1, <2>2, <2>3, <2>4, ChangeHolds
<1>8. ASSUME NEW e \in Event, NEW op \in {"archive", "dispute"}, ChangeStatus(e, op)  PROVE Inv'
  <2>1. Truth' /\ row' \in [Item -> RowType] /\ event' \in [Event -> EventType]
    BY <1>0, <1>8, ChangeStatusTruth
  <2> PICK p : p = event[e].target  OBVIOUS
  <2>2. /\ Changed({p}) /\ tombstone' = tombstone
        /\ row' = [row EXCEPT ![p] = Revised(@, Status(op), e, op)]
        /\ UNCHANGED <<copy, indexer, project>>
    BY <1>8 DEF ChangeStatus, Performs
  <2>3. \A i \in Item : i \notin {p} => row'[i] = row[i]  BY <1>0, <2>2 DEF Typed
  <2>4. tombstone' \subseteq Subject  BY <1>0, <2>2 DEF Typed
  <2> QED BY <2>1, <2>2, <2>3, <2>4, ChangeHolds
<1>9. ASSUME NEW e \in Event, NEW op \in PrefOp, RevisePref(e, op)  PROVE Inv'
  <2>1. Truth' /\ row' \in [Item -> RowType] /\ event' \in [Event -> EventType]
    BY <1>0, <1>9, RevisePrefTruth
  <2> PICK p : p = event[e].target  OBVIOUS
  <2>2. /\ Changed({p}) /\ tombstone' = tombstone
        /\ row' = [row EXCEPT ![p] = Revised(@, IF op = "retire" THEN "archived" ELSE "active", e, op)]
        /\ UNCHANGED <<copy, indexer, project>>
    BY <1>9 DEF RevisePref, Performs
  <2>3. \A i \in Item : i \notin {p} => row'[i] = row[i]  BY <1>0, <2>2 DEF Typed
  <2>4. tombstone' \subseteq Subject  BY <1>0, <2>2 DEF Typed
  <2> QED BY <2>1, <2>2, <2>3, <2>4, ChangeHolds
<1>10. "prefer" \in PrefOp /\ "retire" \in PrefOp  BY DEF PrefOp
<1> QED BY <1>1, <1>2, <1>3, <1>4, <1>5, <1>6, <1>7, <1>8, <1>9, <1>10
        DEF Command, UpdatePreference, ArchivePreference

\* The index worker reads rows and writes its queue and its index only.
LEMMA IndexHolds ==
  ASSUME Inv, UNCHANGED <<truth, event, copy, outbox, project>>, Indexing',
         queue' \in [Item -> QueueType], index' \in [Item -> Nat],
         batch' \in Seq(BatchType), todo' \subseteq Item
  PROVE  Inv'
<1>1. UNCHANGED <<row, tombstone, event, copy, outbox, turn, dir>>  BY DEF truth, project
<1>2. Typed /\ Truth /\ Projecting  BY DEF Inv
<1>3. Truth'  BY <1>2, TruthSame
<1>4. Projecting'  BY <1>1, <1>2, ProjectingSame
<1>5. Typed'  BY <1>1, <1>2 DEF Typed
<1> QED BY <1>3, <1>4, <1>5 DEF Inv

LEMMA IndexStepHolds ==
  ASSUME Inv, IndexStep
  PROVE  Inv'
<1>0. /\ Typed /\ Indexing
      /\ queue \in [Item -> QueueType] /\ index \in [Item -> Nat]
      /\ batch \in Seq(BatchType) /\ todo \subseteq Item
  BY DEF Inv, Typed
<1>1. ASSUME NEW i \in Item, ClaimItem(i)  PROVE Inv'
  <2>1. Indexing' /\ queue' \in [Item -> QueueType] /\ batch' \in Seq(BatchType)
    BY <1>0, <1>1, ClaimIndexing
  <2>2. UNCHANGED <<truth, event, copy, index, todo, outbox, project>>  BY <1>1 DEF ClaimItem
  <2> QED BY <1>0, <2>1, <2>2, IndexHolds
<1>2. ASSUME NEW i \in Item, Reconcile(i)  PROVE Inv'
  <2>1. /\ i \in todo /\ todo' = todo \ {i} /\ queue' = [queue EXCEPT ![i] = Requeued(@)]
        /\ UNCHANGED <<truth, event, copy, index, batch, outbox, project>>
    BY <1>2 DEF Reconcile
  <2>2. Indexed  BY <1>0, <2>1 DEF Indexing
  <2>3. UNCHANGED <<copy, row, index, batch>>  BY <2>1 DEF truth
  <2>4. Indexing' /\ queue' \in [Item -> QueueType]  BY <1>0, <2>1, <2>2, <2>3, RequeueIndexing
  <2> QED BY <1>0, <2>1, <2>4, IndexHolds
<1>3. ASSUME NEW i \in Item, Repair(i)  PROVE Inv'
  <2>1. /\ copy = "lexical" /\ queue' = [queue EXCEPT ![i] = Requeued(@)]
        /\ UNCHANGED <<truth, event, copy, index, batch, todo, outbox, project>>
    BY <1>3 DEF Repair, indexer
  <2>2. Indexed  BY <2>1 DEF Indexed
  <2>3. UNCHANGED <<copy, row, index, batch>>  BY <2>1 DEF truth
  <2>4. Indexing' /\ queue' \in [Item -> QueueType]  BY <1>0, <2>1, <2>2, <2>3, RequeueIndexing
  <2> QED BY <1>0, <2>1, <2>4, IndexHolds
<1>4. ASSUME NEW k \in DOMAIN batch, ReadItem(k)  PROVE Inv'
  <2>1. Indexing' /\ batch' \in Seq(BatchType)  BY <1>0, <1>4, ReadIndexing
  <2>2. UNCHANGED <<truth, event, copy, queue, index, todo, outbox, project>>
    BY <1>4 DEF ReadItem
  <2> QED BY <1>0, <2>1, <2>2, IndexHolds
<1>5. ASSUME NEW k \in DOMAIN batch, WriteItem(k)  PROVE Inv'
  <2>1. Indexing' /\ batch' \in Seq(BatchType) /\ index' \in [Item -> Nat]
    BY <1>0, <1>5, WriteIndexing
  <2>2. UNCHANGED <<truth, event, copy, queue, todo, outbox, project>>
    BY <1>5 DEF WriteItem
  <2> QED BY <1>0, <2>1, <2>2, IndexHolds
<1>6. ASSUME NEW k \in DOMAIN batch, NEW status \in {"pending", "done", "failed"},
             status = "done" => batch[k].step = "written", Settled(k, status)
      PROVE  Inv'
  <2>1. /\ queue' = (IF Holds(batch[k]) THEN [queue EXCEPT ![batch[k].item].status = status] ELSE queue)
        /\ Stepped(k, "settled")
        /\ UNCHANGED <<truth, event, copy, index, todo, outbox, project>>
    BY <1>6 DEF Settled
  <2>2. UNCHANGED <<copy, row, index, todo>>  BY <2>1 DEF truth
  <2>3. Indexing' /\ batch' \in Seq(BatchType) /\ queue' \in [Item -> QueueType]
    BY <1>0, <1>6, <2>1, <2>2, SettledIndexing
  <2> QED BY <1>0, <2>1, <2>3, IndexHolds
<1>7. ASSUME NEW k \in DOMAIN batch, CompleteItem(k)  PROVE Inv'
  <2>1. batch[k].step = "written" /\ Settled(k, "done")  BY <1>7 DEF CompleteItem
  <2> QED BY <1>6, <2>1
<1>8. ASSUME NEW k \in DOMAIN batch, FailItem(k)  PROVE Inv'
  <2>1. \/ Settled(k, IF batch[k].attempts >= MaxAttempts THEN "failed" ELSE "pending")
        \/ Settled(k, "failed")
    BY <1>8 DEF FailItem
  <2>2. Settled(k, "failed") \/ Settled(k, "pending")  BY <2>1
  <2> QED BY <1>6, <2>2
<1>9. ASSUME NEW k \in DOMAIN batch, LeaveItem(k)  PROVE Inv'
  <2>1. Indexing' /\ batch' \in Seq(BatchType)  BY <1>0, <1>9, LeaveIndexing
  <2>2. UNCHANGED <<truth, event, copy, queue, index, todo, outbox, project>>
    BY <1>9 DEF LeaveItem
  <2> QED BY <1>0, <2>1, <2>2, IndexHolds
<1>10. ASSUME ReconcileFails  PROVE Inv'
  <2>1. todo' = {} /\ UNCHANGED <<truth, event, copy, queue, index, batch, outbox, project>>
    BY <1>10 DEF ReconcileFails
  <2>2. UNCHANGED row  BY <2>1 DEF truth
  <2>3. Indexing'
    BY <1>0, <2>1, <2>2 DEF Indexing, Indexed, Reads, Current, IndexTellsTruth, Indexable, Revision
  <2> QED BY <1>0, <2>1, <2>3, IndexHolds
<1> QED BY <1>1, <1>2, <1>3, <1>4, <1>5, <1>7, <1>8, <1>9, <1>10 DEF IndexStep

\* The projector reads rows and writes its outbox and its directories only.
LEMMA ProjectHolds ==
  ASSUME Inv, UNCHANGED <<truth, event, copy, queue, indexer>>, Projecting',
         outbox' \in Seq(TriggerType), turn' \in [step : Steps, for : SUBSET DOMAIN outbox'],
         dir' \in [{"live", "backup", "staging"} -> {NoDir} \cup [Item -> Nat]]
  PROVE  Inv'
<1>1. UNCHANGED <<row, tombstone, event, copy, queue, index, batch, todo>>  BY DEF truth, indexer
<1>2. Typed /\ Truth /\ Indexing  BY DEF Inv
<1>3. Truth'  BY <1>2, TruthSame
<1>4. Indexing'  BY <1>1, <1>2, IndexingSame
<1>5. Typed'  BY <1>1, <1>2 DEF Typed
<1> QED BY <1>3, <1>4, <1>5 DEF Inv

LEMMA ProjectStepHolds ==
  ASSUME Inv, ProjectStep
  PROVE  Inv'
<1>0. /\ Typed /\ Projecting /\ outbox \in Seq(TriggerType)
      /\ dir \in [{"live", "backup", "staging"} -> {NoDir} \cup [Item -> Nat]]
  BY DEF Inv, Typed
<1>1. ASSUME NEW lapsed, ClaimTriggers(lapsed)  PROVE Inv'
  <2>1. UNCHANGED <<truth, event, copy, queue, indexer, dir>>  BY <1>1 DEF ClaimTriggers
  <2> QED BY <1>0, <1>1, <2>1, ClaimTriggersProjecting, ProjectHolds
<1>2. CASE ClearStaging
  <2>1. UNCHANGED outbox /\ Keeps  BY <1>2 DEF ClearStaging
  <2> QED BY <1>0, <1>2, <2>1, ClearStagingProjecting, ProjectHolds DEF Keeps
<1>3. CASE ClearBackup
  <2>1. UNCHANGED outbox /\ Keeps  BY <1>3 DEF ClearBackup
  <2> QED BY <1>0, <1>3, <2>1, ClearBackupProjecting, ProjectHolds DEF Keeps
<1>4. CASE Render
  <2>1. UNCHANGED outbox /\ Keeps  BY <1>4 DEF Render
  <2> QED BY <1>0, <1>4, <2>1, RenderProjecting, ProjectHolds DEF Keeps
<1>5. CASE MoveAside
  <2>1. UNCHANGED outbox /\ Keeps  BY <1>5 DEF MoveAside
  <2> QED BY <1>0, <1>5, <2>1, MoveAsideProjecting, ProjectHolds DEF Keeps
<1>6. CASE MoveIn
  <2>1. UNCHANGED outbox /\ Keeps  BY <1>6 DEF MoveIn
  <2> QED BY <1>0, <1>6, <2>1, MoveInProjecting, ProjectHolds DEF Keeps
<1>7. CASE DropBackup
  <2>1. UNCHANGED outbox /\ Keeps  BY <1>7 DEF DropBackup
  <2> QED BY <1>0, <1>7, <2>1, DropBackupProjecting, ProjectHolds DEF Keeps
<1>8. CASE CompleteBatch
  <2>1. UNCHANGED dir /\ Keeps  BY <1>8 DEF CompleteBatch
  <2> QED BY <1>0, <1>8, <2>1, CompleteBatchProjecting, ProjectHolds DEF Keeps
<1>9. CASE CleanupFails \/ ProjectFails \/ RollBack
  <2>1. Keeps  BY <1>9 DEF CleanupFails, ProjectFails, RollBack
  <2> QED BY <1>0, <1>9, <2>1, FailsProjecting, ProjectHolds DEF Keeps
<1>10. CASE LeaveBatch
  <2>1. UNCHANGED <<dir, outbox>> /\ Keeps  BY <1>10 DEF LeaveBatch
  <2> QED BY <1>0, <1>10, <2>1, LeaveBatchProjecting, ProjectHolds DEF Keeps
<1>11. ASSUME NEW k \in DOMAIN outbox, Purge(k)  PROVE Inv'
  <2>1. UNCHANGED project /\ Keeps  BY <1>11 DEF Purge
  <2>2. dir' = dir  BY <2>1 DEF project
  <2> QED BY <1>0, <1>11, <2>1, <2>2, PurgeProjecting, ProjectHolds DEF Keeps
<1> QED BY <1>1, <1>2, <1>3, <1>4, <1>5, <1>6, <1>7, <1>8, <1>9, <1>10, <1>11 DEF ProjectStep

LEMMA NextHolds == Inv /\ [Next]_vars => Inv'
<1> SUFFICES ASSUME Inv, [Next]_vars PROVE Inv'  OBVIOUS
<1>1. CASE Command  BY <1>1, CommandHolds
<1>2. CASE IndexStep  BY <1>2, IndexStepHolds
<1>3. CASE ProjectStep  BY <1>3, ProjectStepHolds
<1>4. CASE Restart
  <2>1. Typed /\ Truth /\ Indexing /\ Projecting  BY DEF Inv
  <2>2. UNCHANGED <<truth, event, copy, queue, index, outbox, dir>>  BY <1>4 DEF Restart
  <2>3. UNCHANGED <<row, tombstone>>  BY <2>2 DEF truth
  <2>4. Truth'  BY <2>1, <2>2, TruthSame
  <2>5. Indexing' /\ batch' \in Seq(BatchType) /\ todo' \subseteq Item
    BY <1>4, <2>1, RestartIndexing
  <2>6. Projecting' /\ turn' \in [step : Steps, for : SUBSET DOMAIN outbox']
    BY <1>4, <2>1, RestartProjecting
  <2>7. Typed'  BY <2>1, <2>2, <2>3, <2>5, <2>6 DEF Typed
  <2> QED BY <2>4, <2>5, <2>6, <2>7 DEF Inv
<1>5. CASE UNCHANGED vars
  <2>1. /\ UNCHANGED <<truth, event>> /\ UNCHANGED <<row, tombstone>>
        /\ UNCHANGED <<copy, queue, index, batch, todo, outbox, turn, dir>>
    BY <1>5 DEF vars, truth, indexer, project
  <2>2. Typed /\ Truth /\ Indexing /\ Projecting  BY DEF Inv
  <2>3. Truth'  BY <2>1, <2>2, TruthSame
  <2>4. Indexing' /\ Projecting'  BY <2>1, <2>2, IndexingSame, ProjectingSame
  <2>5. Typed'  BY <2>1, <2>2 DEF Typed
  <2> QED BY <2>3, <2>4, <2>5 DEF Inv
<1> QED BY <1>1, <1>2, <1>3, <1>4, <1>5 DEF Next

LEMMA Invariance == Spec => []Inv
<1>1. Init => Inv  BY InitHolds
<1>2. Inv /\ [Next]_vars => Inv'  BY NextHolds
<1> QED BY <1>1, <1>2, PTL DEF Spec

-----------------------------------------------------------------------------
\* What follows.

\* Rows, revisions, receipts, queue rows, triggers and directories always have
\* the shape of their tables and files, and a forgotten claim keeps nothing
\* (knowledge_store.go).
THEOREM TypeCorrect == Spec => []TypeOK
<1>1. Inv => TypeOK
  <2> SUFFICES ASSUME Inv PROVE TypeOK  OBVIOUS
  <2>1. Typed /\ Truth  BY DEF Inv
  <2>2. copy \in Copies /\ tombstone \subseteq Subject  BY <2>1 DEF Typed
  <2>3. ASSUME NEW i \in Item
        PROVE  /\ row[i].status \in (IF i \in Claim
                                       THEN {"absent", "verified", "disputed", "superseded", "archived", "gone"}
                                       ELSE {"absent", "active", "archived"})
               /\ Stored(i) <=> row[i].log # <<>>
               /\ i \in Claim /\ Stored(i) => row[i].subject \in Subject
    <3>1. Kept(i)  BY <2>1 DEF Truth
    <3>2. row[i].status \in {"absent", "verified", "disputed", "superseded", "archived", "active", "gone"}
      BY <2>1 DEF Typed, RowType
    <3>3. i \in Claim \/ i \in Pref  BY DEF Item
    <3> QED BY <3>1, <3>2, <3>3 DEF Kept
  <2>4. ASSUME NEW e \in Event
        PROVE  /\ event[e].step \in {"idle", "found", "receipted"}
               /\ event[e].step = "receipted" => event[e].receipt = event[e].target
    <3>1. event[e] \in EventType /\ Worded(e)  BY <2>1 DEF Typed, Truth
    <3> QED BY <3>1 DEF EventType, Worded
  <2>5. \A i \in Item : queue[i].status \in {"none", "pending", "processing", "done", "failed"}
    BY <2>1 DEF Typed, QueueType
  <2>6. \A k \in DOMAIN outbox :
          outbox[k].status \in {"pending", "delayed", "processing", "done", "failed", "deleted"}
    <3> TAKE k \in DOMAIN outbox
    <3>1. outbox[k] \in TriggerType  BY <2>1 DEF Typed
    <3> QED BY <3>1 DEF TriggerType
  <2>7. DOMAIN dir = {"live", "backup", "staging"}  BY <2>1, DirTyped
  <2> QED BY <2>2, <2>3, <2>4, <2>5, <2>6, <2>7 DEF TypeOK
<1> QED BY <1>1, Invariance, PTL

\* However commands interleave, fail between their steps and are delivered
\* again, every revision of a claim or preference was made by the command its
\* source committed a receipt for, and by each source once; a claim is replaced
\* by one correction; nothing stays stored under a forgotten subject
\* (service.go, knowledge_store.go).
THEOREM OneEffect == Spec => []TakesEffectOnce
<1>1. Inv => TakesEffectOnce
  <2> SUFFICES ASSUME Inv PROVE TakesEffectOnce  OBVIOUS
  <2>1. Typed /\ Truth  BY DEF Inv
  <2>2. \A i \in Item : \A m, n \in DOMAIN row[i].log :
          /\ Commanded(i, row[i].log[n])
          /\ row[i].log[m].source = row[i].log[n].source => m = n
    BY <2>1 DEF Truth, Kept
  <2>3. ASSUME NEW c \in Claim
        PROVE  Cardinality({d \in Claim : row[d].prior = c}) =
                 IF row[c].status = "superseded" THEN 1 ELSE 0
    <3>1. c # None  BY NoneAssumption
    <3>2. CASE row[c].status = "superseded"
      <4>1. PICK d \in Claim : row[d].prior = c  BY <2>1, <3>2 DEF Truth, Replaces
      <4>2. \A f \in Claim : row[f].prior = c => f = d
        BY <2>1, <3>1, <4>1 DEF Truth, Replaces
      <4>3. {f \in Claim : row[f].prior = c} = {d}  BY <4>1, <4>2
      <4>4. Cardinality({d}) = 1  BY FS_Singleton
      <4> QED BY <3>2, <4>3, <4>4
    <3>3. CASE row[c].status # "superseded"
      <4>1. \A f \in Claim : row[f].prior # c  BY <2>1, <3>1, <3>3 DEF Truth, Replaces
      <4>2. {f \in Claim : row[f].prior = c} = {}  BY <4>1
      <4>3. Cardinality({}) = 0  BY FS_EmptySet
      <4> QED BY <3>3, <4>2, <4>3
    <3> QED BY <3>2, <3>3
  <2> QED BY <2>1, <2>2, <2>3 DEF TakesEffectOnce, Truth, CreatedOnce, Buried
<1> QED BY <1>1, Invariance, PTL

\* An item whose queue row is done is indexed at its current revision, or not at
\* all when it is out of use, whatever changed while a worker held an older
\* read; once the last trigger is done the bundle and what is left of its
\* promotion show exactly the rows; and a bundle once promoted survives every
\* failure and interruption (the index workers, projection.go).
THEOREM CopiesTrue == Spec => []CopiesTellTruth
<1>1. Inv => CopiesTellTruth  BY DEF Inv, Indexing, Projecting, CopiesTellTruth
<1> QED BY <1>1, Invariance, PTL

-----------------------------------------------------------------------------
\* What a step may never do to the history of an item.

\* The revisions there were are kept as they were, behind them new ones.
Extends(i) == \A n \in DOMAIN row[i].log : n \in DOMAIN row'[i].log /\ row'[i].log[n] = row[i].log[n]

RowMoves(i) ==
  \/ /\ Extends(i)
     /\ row[i].status \in {"superseded", "archived", "gone"} => row'[i].status = row[i].status
     /\ row[i].status = "gone" => row'[i] = row[i]
     /\ Stored(i) => row'[i].subject = row[i].subject /\ row'[i].prior = row[i].prior
  \/ Stored(i) /\ row'[i].status = "gone" /\ row[i].subject \in tombstone'

\* Revisions are never rewritten; an item that is superseded, archived or gone
\* never comes back to use; subject and ancestor stay; only the forgetting of its
\* subject removes a claim, and a subject is forgotten for good; a committed
\* receipt names one command and one target for ever.
HistoryStays ==
  [][/\ \A i \in Item : RowMoves(i)
     /\ tombstone \subseteq tombstone'
     /\ EventsGrow]_vars

LEMMA SameMoves ==
  ASSUME NEW i \in Item, row'[i] = row[i]
  PROVE  RowMoves(i)
BY DEF RowMoves, Extends

LEMMA RevisedMoves ==
  ASSUME Typed, NEW i \in Item, NEW e \in Event, NEW op, NEW st,
         [source |-> e, op |-> op] \in Entry,
         st \in {"verified", "disputed", "superseded", "archived", "active"},
         row[i].status \in {"verified", "disputed", "active"},
         row'[i] = Revised(row[i], st, e, op)
  PROVE  RowMoves(i)
<1>1. row[i] \in RowType  BY DEF Typed
<1>2. /\ row'[i].subject = row[i].subject /\ row'[i].prior = row[i].prior
      /\ DOMAIN row'[i].log = DOMAIN row[i].log \cup {Len(row[i].log) + 1}
      /\ \A n \in DOMAIN row[i].log : row'[i].log[n] = row[i].log[n]
  BY <1>1, RevisedIs
<1>3. Extends(i)  BY <1>2 DEF Extends
<1> QED BY <1>2, <1>3 DEF RowMoves

LEMMA NewMoves ==
  ASSUME Truth, NEW i \in Item, row[i].status = "absent"
  PROVE  RowMoves(i)
<1>1. ~Stored(i) /\ row[i].log = <<>>  BY DEF Truth, Kept, Stored
<1>2. Extends(i)  BY <1>1 DEF Extends
<1> QED BY <1>1, <1>2 DEF RowMoves

LEMMA CommandMoves ==
  ASSUME Inv, Command
  PROVE  (\A i \in Item : RowMoves(i)) /\ tombstone \subseteq tombstone' /\ EventsGrow
<1>0. Typed /\ Truth /\ row \in [Item -> RowType]  BY DEF Inv, Typed
<1>1. ASSUME NEW e \in Event, NEW t, NEW x \in Targets(t), Deliver(e, t, x)
      PROVE  UNCHANGED truth /\ EventsGrow
  <2>1. UNCHANGED truth /\ (event[e].text = NoText \/ t = event[e].text)
    BY <1>1 DEF Deliver
  <2>2. event \in [Event -> EventType] /\ Worded(e)  BY <1>0 DEF Typed, Truth
  <2>3. event[e].receipt # None => t = event[e].text  BY <2>1, <2>2, <1>1 DEF Worded, Deliver
  <2>4. event' = [event EXCEPT ![e].text = t, ![e].step = "found", ![e].target = x]
    BY <1>1 DEF Deliver
  <2>5. \A d \in Event : event[d] \in EventType  BY <2>2
  <2>6. \A d \in Event : /\ event'[d].receipt = event[d].receipt
                         /\ event[d].receipt # None => event'[d].text = event[d].text
    BY <2>2, <2>3, <2>4, <2>5 DEF EventType
  <2> QED BY <1>1, <2>6 DEF Deliver, EventsGrow
<1>2. ASSUME NEW e \in Event, CommitReceipt(e)  PROVE UNCHANGED truth /\ EventsGrow
  <2>1. /\ event[e].receipt \in {None, event[e].target}
        /\ event' = [event EXCEPT ![e].step = "receipted", ![e].receipt = event[e].target]
    BY <1>2 DEF CommitReceipt
  <2>2. event \in [Event -> EventType] /\ \A d \in Event : event[d] \in EventType
    BY <1>0 DEF Typed
  <2>3. \A d \in Event : /\ event'[d].text = event[d].text
                         /\ event[d].receipt # None => event'[d].receipt = event[d].receipt
    BY <2>1, <2>2 DEF EventType
  <2> QED BY <1>2, <2>3 DEF CommitReceipt, EventsGrow
<1>3. ASSUME NEW e \in Event, Abandon(e)  PROVE UNCHANGED truth /\ EventsGrow
  <2>1. event' = [event EXCEPT ![e].step = "idle", ![e].target = None]  BY <1>3 DEF Abandon
  <2>2. event \in [Event -> EventType] /\ \A d \in Event : event[d] \in EventType
    BY <1>0 DEF Typed
  <2>3. \A d \in Event : event'[d].text = event[d].text /\ event'[d].receipt = event[d].receipt
    BY <2>1, <2>2 DEF EventType
  <2> QED BY <1>3, <2>3 DEF Abandon, EventsGrow
<1>4. UNCHANGED truth => (\A i \in Item : RowMoves(i)) /\ tombstone \subseteq tombstone'
  BY SameMoves DEF truth
<1>5. ASSUME NEW e \in Event, Remember(e)
      PROVE  (\A i \in Item : RowMoves(i)) /\ tombstone' = tombstone /\ EventsGrow
  <2> PICK g : g = Generated  OBVIOUS
  <2>1. /\ Performs(e, "remember") /\ tombstone' = tombstone /\ Unused # {}
        /\ row' = [row EXCEPT ![g] = NewRow("verified", event[e].target, None, e)]
    BY <1>5 DEF Remember
  <2>2. row[g].status = "absent"  BY <2>1, GeneratedIs
  <2>3. \A i \in Item : i # g => row'[i] = row[i]  BY <1>0, <2>1
  <2>4. \A i \in Item : RowMoves(i)  BY <1>0, <2>2, <2>3, NewMoves, SameMoves
  <2> QED BY <1>0, <2>1, <2>4, PerformedWorded
<1>6. ASSUME NEW e \in Event, Correct(e)
      PROVE  (\A i \in Item : RowMoves(i)) /\ tombstone' = tombstone /\ EventsGrow
  <2> PICK g : g = Generated  OBVIOUS
  <2> PICK p : p = event[e].target  OBVIOUS
  <2>1. /\ Performs(e, "correct") /\ tombstone' = tombstone /\ Unused # {} /\ Live(p)
        /\ row' = [row EXCEPT ![p] = Revised(@, "superseded", e, "supersede"),
                              ![g] = NewRow("verified", row[p].subject, p, e)]
    BY <1>6 DEF Correct, Correctable
  <2>2. row[g].status = "absent" /\ row[p].status \in {"verified", "disputed"} /\ p # g
    BY <2>1, GeneratedIs DEF Live
  <2>3. \A i \in Item : /\ i # g /\ i # p => row'[i] = row[i]
                        /\ i = p => row'[i] = Revised(row[i], "superseded", e, "supersede")
    BY <1>0, <2>1, <2>2
  <2>4. [source |-> e, op |-> "supersede"] \in Entry  BY DEF Entry
  <2>5. ASSUME NEW i \in Item PROVE RowMoves(i)
    <3>1. CASE i = g  BY <1>0, <2>2, <3>1, NewMoves
    <3>2. CASE i = p
      <4>1. row'[i] = Revised(row[i], "superseded", e, "supersede")  BY <2>3, <3>2
      <4>2. row[i].status \in {"verified", "disputed", "active"}  BY <2>2, <3>2
      <4> QED BY <1>0, <2>4, <4>1, <4>2, RevisedMoves
    <3>3. CASE i # g /\ i # p  BY <2>3, <3>3, SameMoves
    <3> QED BY <3>1, <3>2, <3>3
  <2> QED BY <1>0, <2>1, <2>5, PerformedWorded DEF ClaimOp
<1>7. ASSUME NEW e \in Event, Forget(e)
      PROVE  (\A i \in Item : RowMoves(i)) /\ tombstone \subseteq tombstone' /\ EventsGrow
  <2> PICK s : s = event[e].target  OBVIOUS
  <2>1. /\ Performs(e, "forget") /\ tombstone' = tombstone \cup {s}
        /\ row' = [i \in Item |-> IF i \in Holding(s) THEN Forgotten(row[i]) ELSE row[i]]
    BY <1>7 DEF Forget
  <2>2. ASSUME NEW i \in Item, i \in Holding(s) PROVE RowMoves(i)
    <3>1. Stored(i) /\ row[i].subject = s  BY <2>2 DEF Holding
    <3>2. row'[i].status = "gone"  BY <2>1, <2>2 DEF Forgotten
    <3> QED BY <2>1, <3>1, <3>2 DEF RowMoves
  <2>3. \A i \in Item : i \notin Holding(s) => RowMoves(i)  BY <2>1, SameMoves
  <2> QED BY <1>0, <2>1, <2>2, <2>3, PerformedWorded
<1>8. ASSUME NEW e \in Event, Prefer(e)
      PROVE  (\A i \in Item : RowMoves(i)) /\ tombstone' = tombstone /\ EventsGrow
  <2> PICK p : p = event[e].target  OBVIOUS
  <2>1. /\ Performs(e, "prefer") /\ tombstone' = tombstone /\ row[p].status = "absent"
        /\ row' = [row EXCEPT ![p] = NewRow("active", None, None, e)]
    BY <1>8 DEF Prefer
  <2>2. \A i \in Item : i # p => row'[i] = row[i]  BY <1>0, <2>1
  <2>3. \A i \in Item : RowMoves(i)  BY <1>0, <2>1, <2>2, NewMoves, SameMoves
  <2> QED BY <1>0, <2>1, <2>3, PerformedWorded DEF PrefOp
<1>9. ASSUME NEW e \in Event, NEW op \in {"archive", "dispute"} \cup PrefOp, NEW st, NEW p,
             Performs(e, op), tombstone' = tombstone,
             st \in {"verified", "disputed", "superseded", "archived", "active"},
             row[p].status \in {"verified", "disputed", "active"},
             row' = [row EXCEPT ![p] = Revised(@, st, e, op)]
      PROVE  (\A i \in Item : RowMoves(i)) /\ EventsGrow
  <2>1. [source |-> e, op |-> op] \in Entry  BY DEF Entry
  <2>2. ASSUME NEW i \in Item PROVE RowMoves(i)
    <3>1. CASE i = p
      <4>1. row'[i] = Revised(row[i], st, e, op)  BY <1>0, <1>9, <3>1
      <4> QED BY <1>0, <1>9, <2>1, <3>1, <4>1, RevisedMoves
    <3>2. CASE i # p
      <4>1. row'[i] = row[i]  BY <1>0, <1>9, <3>2
      <4> QED BY <4>1, SameMoves
    <3> QED BY <3>1, <3>2
  <2> QED BY <1>0, <1>9, <2>2, PerformedWorded DEF ClaimOp, PrefOp
<1>10. ASSUME NEW e \in Event, NEW op \in {"archive", "dispute"}, ChangeStatus(e, op)
       PROVE  (\A i \in Item : RowMoves(i)) /\ tombstone' = tombstone /\ EventsGrow
  <2> PICK p : p = event[e].target  OBVIOUS
  <2> PICK st : st = Status(op)  OBVIOUS
  <2>1. /\ Performs(e, op) /\ tombstone' = tombstone /\ Live(p)
        /\ row' = [row EXCEPT ![p] = Revised(@, st, e, op)]
    BY <1>10 DEF ChangeStatus
  <2>2. st \in {"disputed", "archived"}  BY DEF Status
  <2> QED BY <1>9, <2>1, <2>2 DEF Live
<1>11. ASSUME NEW e \in Event, NEW op \in PrefOp, RevisePref(e, op)
       PROVE  (\A i \in Item : RowMoves(i)) /\ tombstone' = tombstone /\ EventsGrow
  <2> PICK p : p = event[e].target  OBVIOUS
  <2> PICK st : st = (IF op = "retire" THEN "archived" ELSE "active")  OBVIOUS
  <2>1. /\ Performs(e, op) /\ tombstone' = tombstone /\ row[p].status = "active"
        /\ row' = [row EXCEPT ![p] = Revised(@, st, e, op)]
    BY <1>11 DEF RevisePref
  <2>2. st \in {"active", "archived"}  OBVIOUS
  <2> QED BY <1>9, <2>1, <2>2
<1>12. "prefer" \in PrefOp /\ "retire" \in PrefOp  BY DEF PrefOp
<1> QED BY <1>1, <1>2, <1>3, <1>4, <1>5, <1>6, <1>7, <1>8, <1>10, <1>11, <1>12
        DEF Command, UpdatePreference, ArchivePreference

\* The store never rewrites a revision and never brings a superseded, archived or
\* forgotten item back; a tombstone and a receipt are for ever
\* (knowledge_store.go: transitions, ForgetSubject, CommitCommandReceipt).
THEOREM HistoryIsFinal == Spec => HistoryStays
<1>1. Inv /\ [Next]_vars =>
        [/\ \A i \in Item : RowMoves(i)
         /\ tombstone \subseteq tombstone'
         /\ EventsGrow]_vars
  <2> SUFFICES ASSUME Inv, Next
               PROVE  (\A i \in Item : RowMoves(i)) /\ tombstone \subseteq tombstone' /\ EventsGrow
    BY DEF vars
  <2>1. CASE Command  BY <2>1, CommandMoves
  <2>2. CASE UNCHANGED <<truth, event>>
    <3>1. row' = row /\ tombstone' = tombstone /\ event' = event  BY <2>2 DEF truth
    <3> QED BY <3>1, SameMoves DEF EventsGrow
  <2>3. IndexStep => UNCHANGED <<truth, event>>
    BY DEF IndexStep, ClaimItem, Reconcile, Repair, ReadItem, WriteItem, CompleteItem, FailItem,
           Settled, LeaveItem, ReconcileFails
  <2>4. ProjectStep => UNCHANGED <<truth, event>>
    BY DEF ProjectStep, Keeps, ClaimTriggers, ClearStaging, ClearBackup, Render, MoveAside, MoveIn,
           DropBackup, CompleteBatch, CleanupFails, ProjectFails, RollBack, LeaveBatch, Purge
  <2>5. Restart => UNCHANGED <<truth, event>>  BY DEF Restart
  <2> QED BY <2>1, <2>2, <2>3, <2>4, <2>5 DEF Next
<1> QED BY <1>1, Invariance, PTL DEF Spec, HistoryStays
=============================================================================

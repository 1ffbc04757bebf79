---------------------------- MODULE RelayDeskProofs ----------------------------
(***************************************************************************)
(* For any tasks, callers, calls in flight and posts: a task names its     *)
(* last writer.  The stamps are written in the transaction that writes, so *)
(* the property is inductive with little more than the types.              *)
(*                                                                         *)
(* For any members, labels, calls and messages, and however labels change  *)
(* hands: mail stays with whom it was sent to, and is in an inbox once.    *)
(* An address is written when a message is pushed and never again, and     *)
(* what a call is about to put back into an inbox was once all of it.      *)
(*                                                                         *)
(* For any shifts, sessions, skills, pairs and tasks, whichever replies    *)
(* are lost: what a completed task says was written is in Cortex.  And,    *)
(* if no reply to a nightly post is lost, a finding has one task at most.  *)
(***************************************************************************)
EXTENDS RelayTasks, RelayMail, NightShift, FiniteSetTheorems, TLAPS

-------------------------------------------------------------------------------
(* Tasks *)

\* A call under way is about a task.
Targeted == \A u \in Updates : ucall[u].pc # "idle" => ucall[u].task \in Tasks

TasksInv == TasksTypeOK /\ Targeted /\ CompletedByLastWriter

-------------------------------------------------------------------------------
(* Records of tasks and calls *)

TaskCalls == [pc : {"idle", "created", "found", "read", "deleted"}, task : Tasks \cup {Nil},
          by : Writer, status : Statuses \cup {Nil}, ends : Statuses \cup {Nil}]

NamesLast(x) == x.completed \in {Nil, x.wrote} /\ x.updated \in {Nil, x.wrote}

OnTask(c) == c.pc # "idle" => c.task \in Tasks

LEMMA NewRecords ==
  /\ NoUpdate \in TaskCalls /\ OnTask(NoUpdate)
  /\ Bare \in TaskRecord
  /\ \A w \in Writer :
       LET x == [status |-> "pending", created |-> w, updated |-> Nil,
                 completed |-> Nil, expires |-> FALSE, wrote |-> w]
       IN x \in TaskRecord /\ NamesLast(x)
BY DEF NoUpdate, OnTask, TaskCalls, Bare, TaskRecord, Writer, Statuses, NamesLast

LEMMA CallUpdates ==
  ASSUME NEW t \in Tasks, NEW w \in Writer, NEW s \in Statuses \cup {Nil}
  PROVE  LET c1 == [NoUpdate EXCEPT !.pc = "created", !.task = t]
             c2 == [NoUpdate EXCEPT !.pc = "deleted", !.task = t]
             c3 == [NoUpdate EXCEPT !.pc = "found", !.task = t, !.by = w, !.status = s]
         IN /\ {c1, c2, c3} \subseteq TaskCalls
            /\ OnTask(c1) /\ OnTask(c2) /\ OnTask(c3)
BY DEF NoUpdate, OnTask, TaskCalls, Writer, Statuses

LEMMA ReadUpdates ==
  ASSUME NEW c \in TaskCalls, c.task \in Tasks, NEW s \in Statuses \cup {Nil}
  PROVE  LET d == [c EXCEPT !.pc = "read", !.ends = s]
         IN d \in TaskCalls /\ OnTask(d)
BY DEF OnTask, TaskCalls, Statuses

\* What a writer leaves names that writer.
LEMMA Written ==
  ASSUME NEW x \in TaskRecord, NEW c \in TaskCalls
  PROVE  LET stamps == Stamps(x, c.by, c.ends)
             y == [x EXCEPT !.updated = stamps.updated, !.completed = stamps.completed,
                            !.wrote = c.by,
                            !.status = IF c.status = Nil THEN x.status ELSE c.status]
         IN y \in TaskRecord /\ NamesLast(y)
BY DEF Stamps, Terminal, TaskRecord, TaskCalls, Writer, NamesLast

LEMMA Expiring ==
  ASSUME NEW x \in TaskRecord
  PROVE  /\ [x EXCEPT !.expires = TRUE] \in TaskRecord
         /\ NamesLast(x) => NamesLast([x EXCEPT !.expires = TRUE])
BY DEF TaskRecord, NamesLast

-------------------------------------------------------------------------------
(* Steps of tasks *)

LEMMA TasksStep ==
  ASSUME TasksInv, TaskNext
  PROVE  TasksInv'
<1> SUFFICES /\ task' \in [Tasks -> TaskRecord \cup {Nil}]
             /\ index' \subseteq Tasks
             /\ ucall' \in [Updates -> TaskCalls]
             /\ \A u \in Updates : OnTask(ucall'[u])
             /\ deleted' \subseteq Tasks
             /\ \A t \in Tasks : task'[t] # Nil => NamesLast(task'[t])
             /\ UNCHANGED <<post, board>>
  BY DEF TasksInv, TasksTypeOK, Targeted, OnTask, CompletedByLastWriter, NamesLast, TaskCalls
<1>0. /\ task \in [Tasks -> TaskRecord \cup {Nil}]
      /\ index \subseteq Tasks
      /\ ucall \in [Updates -> TaskCalls]
      /\ \A u \in Updates : OnTask(ucall[u])
      /\ deleted \subseteq Tasks
      /\ \A t \in Tasks : task[t] # Nil => NamesLast(task[t])
  BY DEF TasksInv, TasksTypeOK, Targeted, OnTask, CompletedByLastWriter, NamesLast, TaskCalls
<1>1. ASSUME NEW u \in Updates, NEW t \in Tasks, NEW w \in Writer, CreateHash(u, t, w)
      PROVE  /\ task' \in [Tasks -> TaskRecord \cup {Nil}]
             /\ ucall' \in [Updates -> TaskCalls] /\ \A v \in Updates : OnTask(ucall'[v])
             /\ \A v \in Tasks : task'[v] # Nil => NamesLast(task'[v])
  <2>1. ucall' \in [Updates -> TaskCalls] /\ \A v \in Updates : OnTask(ucall'[v])
    BY <1>0, <1>1, CallUpdates, Nil \in Statuses \cup {Nil} DEF CreateHash
  <2> QED
    BY <1>0, <1>1, <2>1, NewRecords DEF CreateHash
<1>2. ASSUME NEW u \in Updates, NEW t \in Tasks, NEW w \in Writer, NEW s \in Statuses \cup {Nil},
             UpdateFinds(u, t, w, s)
      PROVE  ucall' \in [Updates -> TaskCalls] /\ \A v \in Updates : OnTask(ucall'[v])
  BY <1>0, <1>2, CallUpdates DEF UpdateFinds
<1>3. ASSUME NEW u \in Updates, NEW t \in Tasks, DeleteHash(u, t)
      PROVE  /\ task' \in [Tasks -> TaskRecord \cup {Nil}]
             /\ ucall' \in [Updates -> TaskCalls] /\ \A v \in Updates : OnTask(ucall'[v])
             /\ \A v \in Tasks : task'[v] # Nil => NamesLast(task'[v])
  <2>1. ucall' \in [Updates -> TaskCalls] /\ \A v \in Updates : OnTask(ucall'[v])
    BY <1>0, <1>3, CallUpdates DEF DeleteHash, Writer
  <2> QED
    BY <1>0, <1>3, <2>1 DEF DeleteHash
<1>4. ASSUME NEW u \in Updates, CreateIndex(u)
      PROVE  /\ task' \in [Tasks -> TaskRecord \cup {Nil}]
             /\ index' \subseteq Tasks
             /\ ucall' \in [Updates -> TaskCalls] /\ \A v \in Updates : OnTask(ucall'[v])
             /\ \A v \in Tasks : task'[v] # Nil => NamesLast(task'[v])
  <2> DEFINE t == ucall[u].task
  <2>1. t \in Tasks
    BY <1>0, <1>4 DEF CreateIndex, OnTask
  <2>2. ucall' \in [Updates -> TaskCalls] /\ \A v \in Updates : OnTask(ucall'[v])
    BY <1>0, <1>4, NewRecords DEF CreateIndex, Finish
  <2>3. CASE task[t] = Nil
    BY <1>0, <1>4, <2>1, <2>2, <2>3 DEF CreateIndex
  <2>4. CASE task[t] # Nil
    <3>1. task' = [task EXCEPT ![t] = [task[t] EXCEPT !.expires = TRUE]]
      BY <1>0, <1>4, <2>4 DEF CreateIndex
    <3> QED
      BY <1>0, <1>4, <2>1, <2>2, <2>4, <3>1, Expiring DEF CreateIndex
  <2> QED
    BY <2>3, <2>4
<1>5. ASSUME NEW u \in Updates, UpdateReads(u)
      PROVE  ucall' \in [Updates -> TaskCalls] /\ \A v \in Updates : OnTask(ucall'[v])
  <2>1. ucall[u] \in TaskCalls /\ ucall[u].task \in Tasks
    BY <1>0, <1>5 DEF UpdateReads, OnTask
  <2> DEFINE x == task[ucall[u].task]
             s == ucall[u].status
             ends == IF s # Nil THEN s ELSE IF x = Nil THEN Nil ELSE x.status
  <2>2. ends \in Statuses \cup {Nil}
    BY <1>0, <2>1 DEF TaskCalls, TaskRecord
  <2>3. ucall' = [ucall EXCEPT ![u] = [ucall[u] EXCEPT !.pc = "read", !.ends = ends]]
    BY <1>0, <1>5 DEF UpdateReads
  <2> HIDE DEF ends
  <2> QED
    BY <1>0, <2>1, <2>2, <2>3, ReadUpdates
<1>6. ASSUME NEW u \in Updates, UpdateWrites(u)
      PROVE  /\ task' \in [Tasks -> TaskRecord \cup {Nil}]
             /\ ucall' \in [Updates -> TaskCalls] /\ \A v \in Updates : OnTask(ucall'[v])
             /\ \A v \in Tasks : task'[v] # Nil => NamesLast(task'[v])
  BY <1>0, <1>6, Written, NewRecords DEF UpdateWrites, Finish
<1>7. ASSUME NEW u \in Updates, DeleteIndex(u) \/ UpdateFails(u)
      PROVE  /\ index' \subseteq Tasks
             /\ ucall' \in [Updates -> TaskCalls] /\ \A v \in Updates : OnTask(ucall'[v])
             /\ UNCHANGED <<task, deleted>>
  BY <1>0, <1>7, NewRecords DEF DeleteIndex, UpdateFails, Finish
<1>8. ASSUME NEW t \in Tasks, TaskExpires(t)
      PROVE  /\ task' \in [Tasks -> TaskRecord \cup {Nil}]
             /\ \A v \in Tasks : task'[v] # Nil => NamesLast(task'[v])
  BY <1>0, <1>8 DEF TaskExpires
<1>9. CASE List
  BY <1>0, <1>9 DEF List, Others
<1> QED
  BY <1>0, <1>1, <1>2, <1>3, <1>4, <1>5, <1>6, <1>7, <1>8, <1>9
     DEF TaskNext, CreateHash, UpdateFinds, DeleteHash, CreateIndex, UpdateReads,
         UpdateWrites, DeleteIndex, UpdateFails, TaskExpires, Others

LEMMA BoardStep ==
  ASSUME TasksInv, BoardNext
  PROVE  TasksInv'
<1> USE LifeAssumption DEF TasksInv, TasksTypeOK
<1>1. UNCHANGED <<task, index, ucall, deleted>>
  BY DEF BoardNext, PostBulletin, Hour, ReadBulletin
<1>2. CompletedByLastWriter' /\ Targeted'
  BY <1>1 DEF CompletedByLastWriter, Targeted
<1>3. ASSUME NEW p \in Posts, NEW life \in 1 .. MaxLife, PostBulletin(p, life)
      PROVE  TasksTypeOK'
  BY <1>1, <1>3 DEF PostBulletin
<1>4. CASE Hour
  <2>1. post' \in [Posts -> 0 .. MaxLife \cup {Nil}]
    BY <1>4 DEF Hour
  <2>2. board' \in [posts : SUBSET Posts, life : 0 .. MaxLife]
    BY <1>4 DEF Hour
  <2> QED
    BY <1>1, <1>2, <2>1, <2>2
<1>5. CASE ReadBulletin
  <2>1. board' \in [posts : SUBSET Posts, life : 0 .. MaxLife]
    BY <1>5 DEF ReadBulletin
  <2> QED
    BY <1>1, <1>2, <1>5, <2>1 DEF ReadBulletin
<1> QED
  BY <1>2, <1>3, <1>4, <1>5 DEF BoardNext

\* What the proof keeps of the queue: its types, and that a task names its last
\* writer; update_task writes the fields and both stamps in one transaction.
THEOREM TasksInvariant == TasksSpec => []TasksInv
<1>1. TasksInit => TasksInv
  BY LifeAssumption, NewRecords DEF TasksInit, TasksInv, Targeted, OnTask, TasksTypeOK, CompletedByLastWriter, TaskCalls
<1>2. TasksInv /\ [TasksNext]_taskVars => TasksInv'
  <2> SUFFICES ASSUME TasksInv, [TasksNext]_taskVars PROVE TasksInv'
    OBVIOUS
  <2>1. CASE UNCHANGED taskVars
    BY <2>1 DEF taskVars, TasksInv, Targeted, TasksTypeOK, CompletedByLastWriter
  <2> QED
    BY <2>1, TasksStep, BoardStep DEF TasksNext
<1> QED
  BY <1>1, <1>2, PTL DEF TasksSpec

\* The types of the task queue and the board.
THEOREM TasksTypeCorrect == TasksSpec => []TasksTypeOK
BY TasksInvariant, PTL DEF TasksInv

\* No reader sees a write under an earlier writer's name, whatever calls overlap
\* (tasks.py, update_task).
THEOREM LastWriterNamed == TasksSpec => []CompletedByLastWriter
BY TasksInvariant, PTL DEF TasksInv

-------------------------------------------------------------------------------
(* Mail *)

\* A list of messages that were sent, n of them, none of them twice.
Sent(list, n) ==
  /\ list \in Seq(Mail)
  /\ \A i \in DOMAIN list : list[i].id \in 1 .. n
  /\ \A i, j \in DOMAIN list : list[i].id = list[j].id => i = j

\* Inboxes, and the lists that calls hold, are of messages that were sent.
ListInv ==
  /\ \A l \in Names : Sent(inbox[l], Len(addressee))
  /\ \A w \in Writers : Sent(wcall[w].list, Len(addressee))
  /\ \A x \in readers : x[1] \in 1 .. Len(addressee)

\* A call under way has a caller and a label.
CallInv ==
  \A w \in Writers : wcall[w].pc # "idle" => wcall[w].by \in MailMembers /\ wcall[w].label \in Names

MailInv == MailTypeOK /\ ListInv /\ CallInv /\ MailStaysPrivate

-------------------------------------------------------------------------------
(* Lists and calls *)

Pcs == {"idle", "register", "heartbeat", "deregister", "dm", "push", "mark"}
MailCalls == [pc : Pcs, by : MailMembers \cup {Absent}, label : Names \cup {Absent},
          saw : Holders, list : Seq(Mail)]

LEMMA Nothing == \A n \in Nat : Sent(<<>>, n)
BY DEF Sent

LEMMA NewMail ==
  ASSUME NEW n \in Nat, n < MaxMail
  PROVE  [id |-> n + 1, read |-> FALSE] \in Mail
BY BoundAssumption DEF Mail

LEMMA Pushed ==
  ASSUME NEW n \in Nat, n < MaxMail, NEW list, Sent(list, n)
  PROVE  Sent(<<[id |-> n + 1, read |-> FALSE]>> \o list, n + 1)
<1> DEFINE x == [id |-> n + 1, read |-> FALSE]
           q == <<x>> \o list
<1>1. x \in Mail /\ x.id = n + 1 /\ list \in Seq(Mail)
  BY NewMail DEF Sent
<1> HIDE DEF x
<1>2. q \in Seq(Mail) /\ Len(q) = Len(list) + 1 /\ DOMAIN q = 1 .. Len(list) + 1
  BY <1>1
<1>3. /\ q[1] = x
      /\ \A i \in DOMAIN q : i # 1 => i - 1 \in DOMAIN list /\ q[i] = list[i - 1]
  BY <1>1, <1>2
<1>4. \A i \in DOMAIN q : i # 1 => q[i].id \in 1 .. n
  BY <1>3 DEF Sent
<1>5. \A i, j \in DOMAIN q : q[i].id = q[j].id => i = j
  <2> SUFFICES ASSUME NEW i \in DOMAIN q, NEW j \in DOMAIN q, q[i].id = q[j].id
               PROVE  i = j
    OBVIOUS
  <2>1. CASE i = 1
    BY <1>1, <1>3, <1>4, <2>1
  <2>2. CASE j = 1
    BY <1>1, <1>3, <1>4, <2>2
  <2>3. CASE i # 1 /\ j # 1
    <3>1. i - 1 = j - 1
      BY <1>3, <2>3 DEF Sent
    <3> QED
      BY <1>2, <3>1
  <2> QED
    BY <2>1, <2>2, <2>3
<1>6. \A i \in DOMAIN q : q[i].id \in 1 .. n + 1
  BY <1>1, <1>3, <1>4
<1> QED
  BY <1>2, <1>5, <1>6 DEF Sent, x

LEMMA Later ==
  ASSUME NEW n \in Nat, NEW list, Sent(list, n)
  PROVE  Sent(list, n + 1)
BY DEF Sent

LEMMA MarkedOne ==
  ASSUME NEW x \in Mail
  PROVE  [x EXCEPT !.read = TRUE] \in Mail /\ [x EXCEPT !.read = TRUE].id = x.id
BY DEF Mail

LEMMA Marked ==
  ASSUME NEW n \in Nat, NEW list, Sent(list, n), NEW mine
  PROVE  Sent([i \in DOMAIN list |-> IF i \in mine THEN [list[i] EXCEPT !.read = TRUE]
                                     ELSE list[i]], n)
<1> DEFINE q == [i \in DOMAIN list |-> IF i \in mine THEN [list[i] EXCEPT !.read = TRUE]
                                       ELSE list[i]]
<1>1. list \in Seq(Mail) /\ DOMAIN list = 1 .. Len(list) /\ Len(list) \in Nat
  BY DEF Sent
<1>2. \A i \in DOMAIN list : q[i] \in Mail /\ q[i].id = list[i].id
  <2> SUFFICES ASSUME NEW i \in DOMAIN list PROVE q[i] \in Mail /\ q[i].id = list[i].id
    OBVIOUS
  <2>1. list[i] \in Mail
    BY <1>1
  <2> QED
    BY <2>1, MarkedOne
<1>3. q \in [1 .. Len(list) -> Mail]
  BY <1>1, <1>2
<1>4. q \in Seq(Mail)
  BY <1>1, <1>3
<1> QED
  BY <1>1, <1>2, <1>4 DEF Sent

LEMMA NoCall == NoWCall \in MailCalls /\ NoWCall.pc = "idle" /\ NoWCall.list = <<>>
BY DEF NoWCall, MailCalls, Pcs, Holders

-------------------------------------------------------------------------------
(* Steps of mail *)

\* What a step leaves of the calls, which most only begin or end.
CallsKept ==
  /\ wcall' \in [Writers -> MailCalls]
  /\ \A w \in Writers : wcall'[w].pc # "idle" => wcall'[w].by \in MailMembers /\ wcall'[w].label \in Names
  /\ \A w \in Writers : Sent(wcall'[w].list, Len(addressee))

LEMMA CallKnown ==
  ASSUME MailInv
  PROVE  /\ Len(addressee) \in Nat
         /\ row \in [Names -> Holders]
         /\ inbox \in [Names -> Seq(Mail)]
         /\ wcall \in [Writers -> MailCalls]
         /\ CallInv
         /\ \A w \in Writers : Sent(wcall[w].list, Len(addressee))
         /\ \A l \in Names : Sent(inbox[l], Len(addressee))
BY DEF MailInv, MailTypeOK, ListInv, MailCalls, Pcs

LEMMA CallIs ==
  ASSUME MailInv, NEW w \in Writers, NEW c \in MailCalls, Sent(c.list, Len(addressee)),
         c.pc # "idle" => c.by \in MailMembers /\ c.label \in Names,
         wcall' = [wcall EXCEPT ![w] = c]
  PROVE  CallsKept
BY CallKnown DEF CallsKept, CallInv

LEMMA Begins ==
  ASSUME MailInv, NEW w \in Writers, NEW m \in MailMembers, NEW l \in Names, NEW p \in Pcs,
         Begin(w, m, l, p)
  PROVE  CallsKept
<1>1. row[l] \in Holders
  BY CallKnown
<1> DEFINE c == [NoWCall EXCEPT !.pc = p, !.by = m, !.label = l, !.saw = row[l]]
<1>2. c \in MailCalls /\ c.by = m /\ c.label = l /\ c.list = <<>>
  BY <1>1, <<>> \in Seq(Mail) DEF NoWCall, MailCalls
<1>3. wcall' = [wcall EXCEPT ![w] = c]
  BY DEF Begin
<1> HIDE DEF c
<1> QED
  BY <1>2, <1>3, CallKnown, Nothing, CallIs

LEMMA Ends ==
  ASSUME MailInv, NEW w \in Writers, End(w)
  PROVE  CallsKept
BY CallKnown, Nothing, NoCall, CallIs DEF End

\* Only a push sends, only reading and marking show.
LEMMA Unsent ==
  ASSUME MailInv, CallsKept, UNCHANGED <<inbox, addressee, readers>>, row' \in [Names -> Holders]
  PROVE  MailInv'
BY DEF MailInv, MailTypeOK, ListInv, CallInv, CallsKept, MailStaysPrivate, MailCalls, Pcs

LEMMA StepPush ==
  ASSUME MailInv, NEW w \in Writers, Push(w)
  PROVE  MailInv'
<1> DEFINE n == Len(addressee)
           l == wcall[w].label
<1>1. /\ n \in Nat /\ n < MaxMail /\ l \in Names /\ wcall[w].saw \in Holders
      /\ addressee \in Seq(MailMembers \cup {Unbound})
  BY CallKnown DEF Push, CallInv, MailCalls, MailInv, MailTypeOK
<1>2. Address(wcall[w].saw) \in MailMembers \cup {Unbound}
  BY DEF Address, Bound
<1>3. /\ addressee' \in Seq(MailMembers \cup {Unbound})
      /\ Len(addressee') = n + 1
      /\ \A i \in 1 .. n : addressee'[i] = addressee[i]
  BY <1>1, <1>2 DEF Push
<1>4. CallsKept
  BY Ends DEF Push
<1>5. /\ \A k \in Writers : Sent(wcall'[k].list, n + 1)
      /\ \A k \in Names : Sent(inbox[k], n + 1)
  BY <1>1, <1>4, CallKnown, Later DEF CallsKept
<1>6. Sent(<<[id |-> n + 1, read |-> FALSE]>> \o inbox[l], n + 1)
  BY <1>1, CallKnown, Pushed
<1>7. \A k \in Names : Sent(inbox'[k], n + 1)
  BY <1>1, <1>5, <1>6, CallKnown DEF Push
<1>8. inbox' \in [Names -> Seq(Mail)]
  BY <1>1, <1>6, CallKnown DEF Push, Sent
<1>9. ListInv'
  <2>1. \A x \in readers' : x[1] \in 1 .. n + 1
    BY <1>1 DEF Push, MailInv, ListInv
  <2> QED
    BY <1>3, <1>5, <1>7, <2>1 DEF ListInv
<1>10. MailStaysPrivate'
  BY <1>3 DEF MailStaysPrivate, MailInv, ListInv, Push, Administers, Bound
<1> QED
  BY <1>3, <1>4, <1>8, <1>9, <1>10
     DEF MailInv, MailTypeOK, CallInv, CallsKept, MailCalls, Pcs, Push

LEMMA ShownAreSent ==
  ASSUME MailInv, NEW list, Sent(list, Len(addressee)), NEW l, NEW m,
         NEW S \in SUBSET DOMAIN list, \A i \in S : VisibleTo(list[i], l, m)
  PROVE  \A id \in {list[i].id : i \in S} :
            /\ id \in 1 .. Len(addressee) /\ id \in 1 .. MaxMail
            /\ Administers(m, addressee[id])
<1>1. \A i \in DOMAIN list : list[i] \in Mail /\ list[i].id \in 1 .. Len(addressee)
  BY DEF Sent
<1> QED
  BY <1>1 DEF VisibleTo, Mail

LEMMA StepShow ==
  ASSUME MailInv, NEW m \in MailMembers, NEW ids,
         \A id \in ids : /\ id \in 1 .. Len(addressee) /\ id \in 1 .. MaxMail
                         /\ Administers(m, addressee[id]),
         readers' = readers \cup (ids \X {m}), UNCHANGED addressee
  PROVE  /\ readers' \subseteq (1 .. MaxMail) \X MailMembers
         /\ \A x \in readers' : x[1] \in 1 .. Len(addressee)
         /\ MailStaysPrivate'
<1>1. \A x \in readers' : x \in readers \/ (x[1] \in ids /\ x[2] = m /\ x = <<x[1], x[2]>>)
  OBVIOUS
<1>2. UNCHANGED addressee => \A x : Administers(x[2], addressee[x[1]])' <=> Administers(x[2], addressee[x[1]])
  BY DEF Administers, Bound
<1> QED
  BY <1>1, <1>2 DEF MailInv, MailTypeOK, ListInv, MailStaysPrivate, Administers, Bound

LEMMA StepGet ==
  ASSUME MailInv, NEW m \in MailMembers, NEW l \in Names, GetDms(m, l)
  PROVE  MailInv'
<1>1. \A id \in Shown(inbox[l], l, m) :
         /\ id \in 1 .. Len(addressee) /\ id \in 1 .. MaxMail
         /\ Administers(m, addressee[id])
  BY CallKnown, ShownAreSent DEF Shown
<1> QED
  BY <1>1, StepShow DEF GetDms, MailInv, MailTypeOK, ListInv, CallInv

LEMMA StepMark ==
  ASSUME MailInv, NEW w \in Writers, MarkWrite(w)
  PROVE  MailInv'
<1> DEFINE l == wcall[w].label
           m == wcall[w].by
           list == wcall[w].list
           mine == {i \in DOMAIN list : VisibleTo(list[i], l, m) /\ ~list[i].read}
           marked == [i \in DOMAIN list |-> IF i \in mine THEN [list[i] EXCEPT !.read = TRUE]
                                            ELSE list[i]]
<1>1. /\ l \in Names /\ m \in MailMembers /\ Sent(list, Len(addressee))
      /\ CallsKept /\ UNCHANGED <<row, addressee>>
  BY CallKnown, Ends DEF MarkWrite, CallInv
<1>2. CASE mine = {}
  BY <1>1, <1>2, Unsent, CallKnown DEF MarkWrite
<1>3. CASE mine # {}
  <2>1. /\ inbox' = [inbox EXCEPT ![l] = marked]
        /\ readers' = readers \cup ({list[i].id : i \in mine} \X {m})
    BY <1>3 DEF MarkWrite
  <2>2. Sent(marked, Len(addressee))
    BY <1>1, Marked, CallKnown
  <2>3. \A id \in {list[i].id : i \in mine} :
           /\ id \in 1 .. Len(addressee) /\ id \in 1 .. MaxMail
           /\ Administers(m, addressee[id])
    BY <1>1, ShownAreSent
  <2> HIDE DEF marked, mine, list
  <2>4. /\ readers' \subseteq (1 .. MaxMail) \X MailMembers
        /\ \A x \in readers' : x[1] \in 1 .. Len(addressee)
        /\ MailStaysPrivate'
    BY <1>1, <2>1, <2>3, StepShow
  <2>5. /\ inbox' \in [Names -> Seq(Mail)]
        /\ \A k \in Names : Sent(inbox'[k], Len(addressee))
    BY <1>1, <2>1, <2>2, CallKnown DEF Sent
  <2> QED
    BY <1>1, <2>4, <2>5 DEF MailInv, MailTypeOK, ListInv, CallInv, CallsKept, MailCalls, Pcs
<1> QED
  BY <1>2, <1>3

LEMMA MailStep ==
  ASSUME MailInv, [MailNext]_mailVars
  PROVE  MailInv'
<1>1. CASE UNCHANGED mailVars
  BY <1>1 DEF mailVars, MailInv, MailTypeOK, ListInv, CallInv, MailStaysPrivate, Administers, Bound
<1>2. ASSUME NEW w \in Writers, NEW m \in MailMembers, NEW l \in Names, NEW p \in Pcs,
             Begin(w, m, l, p)
      PROVE  MailInv'
  BY <1>2, Begins, Unsent, CallKnown DEF Begin
<1>3. ASSUME NEW w \in Writers, NEW m \in MailMembers, NEW l \in Names, MarkRead(w, m, l)
      PROVE  MailInv'
  <2>1. Sent(inbox[l], Len(addressee)) /\ inbox[l] \in Seq(Mail)
    BY CallKnown
  <2> DEFINE c == [NoWCall EXCEPT !.pc = "mark", !.by = m, !.label = l, !.list = inbox[l]]
  <2>2. c \in MailCalls /\ c.by = m /\ c.label = l /\ c.list = inbox[l]
    BY <2>1 DEF NoWCall, MailCalls, Pcs, Holders
  <2>3. wcall' = [wcall EXCEPT ![w] = c]
    BY <1>3 DEF MarkRead
  <2> HIDE DEF c
  <2>4. CallsKept
    BY <2>1, <2>2, <2>3, CallIs
  <2> QED
    BY <1>3, <2>4, Unsent, CallKnown DEF MarkRead
<1>4. ASSUME NEW w \in Writers, RegisterWrite(w) \/ HeartbeatWrite(w) \/ DeregisterWrite(w) \/ CallFails(w)
      PROVE  MailInv'
  <2>1. CallsKept /\ UNCHANGED <<inbox, addressee, readers>>
    BY <1>4, Ends DEF RegisterWrite, HeartbeatWrite, DeregisterWrite, CallFails
  <2>2. row' \in [Names -> Holders]
    BY <1>4, CallKnown DEF RegisterWrite, HeartbeatWrite, DeregisterWrite, CallFails, CallInv, Holders
  <2> QED
    BY <2>1, <2>2, Unsent
<1>5. ASSUME NEW w \in Writers, ReadAddressee(w)
      PROVE  MailInv'
  <2>1. /\ wcall[w] \in MailCalls /\ wcall[w].by \in MailMembers /\ wcall[w].label \in Names
        /\ row[wcall[w].label] \in Holders
    BY <1>5, CallKnown DEF ReadAddressee, CallInv
  <2> DEFINE c == [wcall[w] EXCEPT !.pc = "push", !.saw = row[wcall[w].label]]
  <2>2. /\ c \in MailCalls /\ c.by = wcall[w].by /\ c.label = wcall[w].label
        /\ c.list = wcall[w].list
    BY <2>1 DEF MailCalls, Pcs
  <2>3. wcall' = [wcall EXCEPT ![w] = c]
    BY <1>5, CallKnown DEF ReadAddressee
  <2> HIDE DEF c
  <2>4. CallsKept
    BY <2>1, <2>2, <2>3, CallKnown, CallIs
  <2> QED
    BY <1>5, <2>4, Unsent, CallKnown DEF ReadAddressee
<1>6. ASSUME NEW l \in Names, InboxExpires(l)
      PROVE  MailInv'
  <2>1. /\ inbox' \in [Names -> Seq(Mail)]
        /\ \A k \in Names : Sent(inbox'[k], Len(addressee))
    BY <1>6, CallKnown, Nothing DEF InboxExpires
  <2> QED
    BY <1>6, <2>1 DEF InboxExpires, MailInv, MailTypeOK, ListInv, CallInv, MailStaysPrivate,
                      Administers, Bound
<1> QED
  BY <1>1, <1>2, <1>3, <1>4, <1>5, <1>6, StepPush, StepGet, StepMark
     DEF MailNext, RegisterRead, HeartbeatRead, DeregisterRead, PostDm, Pcs

\* What the proof keeps of mail: lists of messages that were sent, each at most
\* once, and readers who were addressed (dm.py, get_dms and mark_read).
THEOREM MailInvariant == MailSpec => []MailInv
<1>1. MailInit => MailInv
  <2> SUFFICES ASSUME MailInit PROVE MailInv
    OBVIOUS
  <2>1. wcall \in [Writers -> MailCalls] /\ \A w \in Writers : wcall[w].pc = "idle" /\ wcall[w].list = <<>>
    BY NoCall DEF MailInit
  <2> QED
    BY <2>1, Nothing DEF MailInit, MailInv, MailTypeOK, ListInv, CallInv, MailStaysPrivate, Holders,
                         MailCalls, Pcs
<1> QED
  BY <1>1, MailStep, PTL DEF MailSpec

\* The types of rows, inboxes and calls.
THEOREM MailTypeCorrect == MailSpec => []MailTypeOK
BY MailInvariant, PTL DEF MailInv

\* Rebinding a label exposes nothing that was sent to its previous holder
\* (dm.py, _visible_to).
THEOREM MailPrivate == MailSpec => []MailStaysPrivate
BY MailInvariant, PTL DEF MailInv

\* MailCalls that replace an inbox at the same time leave no message in it twice
\* (dm.py, mark_read).
THEOREM MailIsOnce == MailSpec => []MailOnce
<1>1. MailInv => MailOnce
  BY DEF MailInv, ListInv, Sent, MailOnce
<1> QED
  BY <1>1, MailInvariant, PTL

-------------------------------------------------------------------------------
(* The fleet *)

ShiftRecord == [pc : {"off", "list", "next", "model", "write", "complete", "fail", "release"},
                job : 1 .. 3, todo : Seq(TaskIds), seen : SUBSET Sessions,
                held : BOOLEAN, result : Results, stop : BOOLEAN]

NightTypeOK ==
  /\ posted \in Seq(RelayTask) /\ Len(posted) <= MaxPosted
  /\ stored \in [TaskIds -> Nat]
  /\ shift \in [Shifts -> ShiftRecord]

\* Of the tasks ps, with st results stored: one about s has a result.
Has(s, ps, st) == \E m \in DOMAIN ps : ps[m].subject = s /\ st[m] > 0

\* What a shift knows: its tasks exist, what it is about to report of the first
\* is so, and what it takes to be distilled is.
Work(r, ps, st) ==
  /\ \A i \in DOMAIN r.todo : r.todo[i] \in DOMAIN ps
  /\ r.pc \notin {"off", "list"} => r.todo # <<>>
  /\ r.pc = "complete" => \/ r.result = "written" /\ st[Head(r.todo)] > 0
                          \/ r.result = "noop" /\ ps[Head(r.todo)].subject \in Skills
  /\ \A s \in r.seen : Has(s, ps, st)

\* What the result of a completed task says.
Honest(n, ps, st) ==
  ps[n].status = "completed" =>
    CASE ps[n].result = "written"   -> st[n] > 0
      [] ps[n].result = "duplicate" -> Has(ps[n].subject, ps, st)
      [] OTHER -> ps[n].subject \in Skills \cup {NoOne}

WorkInv   == \A w \in Shifts : Work(shift[w], posted, stored)
HonestInv == \A n \in DOMAIN posted : Honest(n, posted, stored)

IInv == NightTypeOK /\ WorkInv /\ HonestInv

-------------------------------------------------------------------------------
(* Tasks only become more, keep their subjects, and gain results *)

More(ps, st, qs, tt) ==
  /\ DOMAIN ps \subseteq DOMAIN qs /\ DOMAIN ps \subseteq TaskIds
  /\ \A n \in DOMAIN ps : qs[n].subject = ps[n].subject
  /\ st \in [TaskIds -> Nat] /\ tt \in [TaskIds -> Nat]
  /\ \A n \in TaskIds : st[n] <= tt[n]

LEMMA HasKept ==
  ASSUME NEW ps, NEW st, NEW qs, NEW tt, More(ps, st, qs, tt), NEW s, Has(s, ps, st)
  PROVE  Has(s, qs, tt)
<1>1. PICK m \in DOMAIN ps : ps[m].subject = s /\ st[m] > 0
  BY DEF Has
<1>2. m \in DOMAIN qs /\ qs[m].subject = s /\ m \in TaskIds
  BY <1>1 DEF More
<1>3. tt[m] > 0
  BY <1>1, <1>2 DEF More
<1> QED
  BY <1>2, <1>3 DEF Has

LEMMA WorkKept ==
  ASSUME NEW ps, NEW st, NEW qs, NEW tt, More(ps, st, qs, tt),
         NEW r \in ShiftRecord, Work(r, ps, st)
  PROVE  Work(r, qs, tt)
<1>1. \A s \in r.seen : Has(s, qs, tt)
  BY HasKept DEF Work
<1>2. \A i \in DOMAIN r.todo : r.todo[i] \in DOMAIN qs
  BY DEF Work, More
<1>3. ASSUME r.pc = "complete"
      PROVE  \/ r.result = "written" /\ tt[Head(r.todo)] > 0
             \/ r.result = "noop" /\ qs[Head(r.todo)].subject \in Skills
  <2>1. r.todo \in Seq(TaskIds) /\ r.todo # <<>>
    BY <1>3 DEF Work, ShiftRecord
  <2>2. Head(r.todo) = r.todo[1] /\ 1 \in DOMAIN r.todo
    BY <2>1
  <2>3. Head(r.todo) \in DOMAIN ps /\ Head(r.todo) \in TaskIds
    BY <2>2 DEF Work, More
  <2> QED
    BY <1>3, <2>3 DEF Work, More
<1> QED
  BY <1>1, <1>2, <1>3 DEF Work

LEMMA HonestKept ==
  ASSUME NEW ps, NEW st, NEW qs, NEW tt, More(ps, st, qs, tt),
         NEW n \in DOMAIN ps, Honest(n, ps, st), qs[n] = ps[n]
  PROVE  Honest(n, qs, tt)
<1>1. n \in TaskIds /\ st[n] \in Nat /\ tt[n] \in Nat /\ st[n] <= tt[n]
  BY DEF More
<1>2. Has(ps[n].subject, ps, st) => Has(ps[n].subject, qs, tt)
  BY HasKept
<1> QED
  BY <1>1, <1>2 DEF Honest

-------------------------------------------------------------------------------
(* What becomes of the tasks *)

Kept(qs) == /\ qs \in Seq(RelayTask) /\ Len(qs) = Len(posted)
            /\ \A k \in DOMAIN posted : qs[k].subject = posted[k].subject

LEMMA Known ==
  ASSUME IInv
  PROVE  /\ posted \in Seq(RelayTask) /\ DOMAIN posted = 1 .. Len(posted)
         /\ Len(posted) \in Nat /\ DOMAIN posted \subseteq TaskIds
         /\ \A n \in DOMAIN posted : posted[n] \in RelayTask
         /\ MaxPosted \in Nat
BY FleetAssumption DEF IInv, NightTypeOK, TaskIds

LEMMA StatusIs ==
  ASSUME NEW x \in RelayTask, NEW s \in {"pending", "completed", "failed", "gone"}, NEW v \in Results
  PROVE  /\ [x EXCEPT !.status = s] \in RelayTask
         /\ [x EXCEPT !.status = s].subject = x.subject
         /\ [x EXCEPT !.status = s].status = s
         /\ [[x EXCEPT !.status = s] EXCEPT !.result = v] \in RelayTask
         /\ [[x EXCEPT !.status = s] EXCEPT !.result = v].subject = x.subject
         /\ [[x EXCEPT !.status = s] EXCEPT !.result = v].status = s
         /\ [[x EXCEPT !.status = s] EXCEPT !.result = v].result = v
BY DEF RelayTask

LEMMA UpdatedIs ==
  ASSUME IInv, NEW n \in DOMAIN posted, NEW s \in {"completed", "failed"}, NEW v \in Results
  PROVE  LET qs == Updated(n, s, v) IN
         /\ Kept(qs) /\ qs[n].status = s /\ qs[n].result = v
         /\ \A k \in DOMAIN posted : k # n => qs[k] = posted[k]
<1> DEFINE x == [[posted[n] EXCEPT !.status = s] EXCEPT !.result = v]
           qs == [posted EXCEPT ![n] = x]
<1>1. Updated(n, s, v) = qs
  BY Known DEF Updated
<1>2. x \in RelayTask /\ x.subject = posted[n].subject /\ x.status = s /\ x.result = v
  <2>1. posted[n] \in RelayTask
    BY Known
  <2> QED
    BY <2>1 DEF RelayTask
<1> HIDE DEF x
<1>3. Kept(qs)
  BY <1>2, Known DEF Kept
<1> QED
  BY <1>1, <1>2, <1>3, Known

LEMMA GoneIs ==
  ASSUME IInv, NEW n \in DOMAIN posted
  PROVE  LET qs == [posted EXCEPT ![n].status = "gone"] IN
         /\ Kept(qs) /\ qs[n].status = "gone"
         /\ \A k \in DOMAIN posted : k # n => qs[k] = posted[k]
<1> DEFINE x == [posted[n] EXCEPT !.status = "gone"]
           qs == [posted EXCEPT ![n] = x]
<1>1. [posted EXCEPT ![n].status = "gone"] = qs
  BY Known
<1>2. x \in RelayTask /\ x.subject = posted[n].subject /\ x.status = "gone"
  BY Known, StatusIs DEF Results
<1> HIDE DEF x
<1>3. Kept(qs)
  BY <1>2, Known DEF Kept
<1> QED
  BY <1>1, <1>2, <1>3, Known

LEMMA PostedIs ==
  ASSUME IInv, NEW s \in Sessions \cup Subjects \cup {NoOne}, Len(posted) < MaxPosted
  PROVE  LET qs == Posted(s) IN
         /\ qs \in Seq(RelayTask) /\ Len(qs) = Len(posted) + 1 /\ Len(qs) <= MaxPosted
         /\ qs[Len(posted) + 1].status = "pending" /\ qs[Len(posted) + 1].subject = s
         /\ \A k \in DOMAIN posted : qs[k] = posted[k]
<1> DEFINE x == [subject |-> s, status |-> "pending", result |-> ""]
<1>1. x \in RelayTask /\ x.status = "pending" /\ x.subject = s
  BY DEF RelayTask, Results
<1>2. Posted(s) = Append(posted, x)
  BY DEF Posted
<1> HIDE DEF x
<1> QED
  BY <1>1, <1>2, Known

LEMMA KeptIsMore ==
  ASSUME IInv, NEW qs, Kept(qs), NEW tt \in [TaskIds -> Nat], \A n \in TaskIds : stored[n] <= tt[n]
  PROVE  /\ More(posted, stored, qs, tt) /\ DOMAIN qs = DOMAIN posted
         /\ qs \in Seq(RelayTask) /\ Len(qs) <= MaxPosted
BY Known DEF Kept, More, IInv, NightTypeOK

LEMMA Same ==
  ASSUME IInv
  PROVE  /\ Kept(posted) /\ stored \in [TaskIds -> Nat] /\ \A n \in TaskIds : stored[n] <= stored[n]
BY Known DEF Kept, IInv, NightTypeOK
-------------------------------------------------------------------------------
(* Steps *)

\* A step that leaves the shifts alone.
LEMMA ShiftsKept ==
  ASSUME IInv, UNCHANGED shift,
         posted' \in Seq(RelayTask), Len(posted') <= MaxPosted,
         More(posted, stored, posted', stored'), HonestInv'
  PROVE  IInv'
<1>1. shift \in [Shifts -> ShiftRecord] /\ WorkInv
  BY DEF IInv, NightTypeOK
<1>2. \A w \in Shifts : Work(shift[w], posted', stored')
  BY <1>1, WorkKept DEF WorkInv
<1> QED
  BY <1>1, <1>2 DEF IInv, NightTypeOK, WorkInv, More

\* A step of a shift that goes on with r.
LEMMA ShiftIs ==
  ASSUME IInv, NEW w \in Shifts, NEW r \in ShiftRecord, shift' = [shift EXCEPT ![w] = r],
         posted' \in Seq(RelayTask), Len(posted') <= MaxPosted,
         More(posted, stored, posted', stored'), HonestInv', Work(r, posted', stored')
  PROVE  IInv'
<1>1. shift \in [Shifts -> ShiftRecord] /\ WorkInv
  BY DEF IInv, NightTypeOK
<1>2. \A v \in Shifts : Work(shift'[v], posted', stored')
  BY <1>1, WorkKept DEF WorkInv
<1>3. shift' \in [Shifts -> ShiftRecord]
  BY <1>1
<1> QED
  BY <1>2, <1>3 DEF IInv, NightTypeOK, WorkInv, More

\* ... and leaves the tasks alone.
LEMMA OnlyShiftIs ==
  ASSUME IInv, NEW w \in Shifts, NEW r \in ShiftRecord, shift' = [shift EXCEPT ![w] = r],
         UNCHANGED <<posted, stored>>, Work(r, posted, stored)
  PROVE  IInv'
<1>1. /\ posted' \in Seq(RelayTask) /\ Len(posted') <= MaxPosted
      /\ More(posted, stored, posted', stored')
  BY Same, KeptIsMore
<1>2. HonestInv' /\ Work(r, posted', stored')
  BY DEF IInv, HonestInv
<1> QED
  BY <1>1, <1>2, ShiftIs

\* The first task of a shift.
LEMMA CurIs ==
  ASSUME IInv, NEW w \in Shifts, shift[w].pc \notin {"off", "list"}
  PROVE  /\ shift[w] \in ShiftRecord /\ Work(shift[w], posted, stored)
         /\ shift[w].todo \in Seq(TaskIds) /\ shift[w].todo # <<>>
         /\ Cur(w) \in DOMAIN posted /\ Cur(w) \in TaskIds
         /\ About(w) \in Sessions \cup Subjects \cup {NoOne}
<1>1. shift[w] \in ShiftRecord /\ Work(shift[w], posted, stored)
  BY DEF IInv, NightTypeOK, WorkInv
<1>2. shift[w].todo \in Seq(TaskIds) /\ shift[w].todo # <<>>
  BY <1>1 DEF Work, ShiftRecord
<1>3. Head(shift[w].todo) = shift[w].todo[1] /\ 1 \in DOMAIN shift[w].todo
  BY <1>2
<1>4. Cur(w) \in DOMAIN posted
  BY <1>1, <1>3 DEF Work, Cur
<1> QED
  BY <1>1, <1>2, <1>4, Known DEF About, RelayTask

LEMMA OffDutyIs == OffDuty \in ShiftRecord /\ \A ps, st : Work(OffDuty, ps, st)
BY DEF OffDuty, ShiftRecord, Work, Results, JobTitles

\* A shift that has taken another turn with the same tasks.
LEMMA TurnIs ==
  ASSUME NEW r \in ShiftRecord, NEW ps, NEW st, Work(r, ps, st), r.pc \notin {"off", "list"},
         NEW p \in {"next", "model", "write", "fail", "release"}
  PROVE  /\ [r EXCEPT !.pc = p] \in ShiftRecord /\ Work([r EXCEPT !.pc = p], ps, st)
         /\ [r EXCEPT !.pc = p, !.held = TRUE] \in ShiftRecord
         /\ Work([r EXCEPT !.pc = p, !.held = TRUE], ps, st)
         /\ [r EXCEPT !.pc = p, !.stop = TRUE] \in ShiftRecord
         /\ Work([r EXCEPT !.pc = p, !.stop = TRUE], ps, st)
BY DEF ShiftRecord, Work

LEMMA OnwardIs ==
  ASSUME NEW r \in ShiftRecord, NEW ps, NEW st, Work(r, ps, st), r.todo # <<>>
  PROVE  Onward(r) \in ShiftRecord /\ Work(Onward(r), ps, st)
<1>1. CASE r.stop \/ Len(r.todo) <= 1
  BY <1>1, OffDutyIs DEF Onward
<1>2. CASE ~(r.stop \/ Len(r.todo) <= 1)
  <2> DEFINE q == Tail(r.todo)
             o == [r EXCEPT !.pc = "next", !.todo = q, !.held = FALSE, !.result = ""]
  <2>1. r.todo \in Seq(TaskIds) /\ Len(r.todo) \in Nat /\ Len(r.todo) > 1
    BY <1>2 DEF ShiftRecord
  <2>2. /\ q \in Seq(TaskIds) /\ Len(q) = Len(r.todo) - 1 /\ q # <<>>
        /\ \A i \in DOMAIN q : i + 1 \in DOMAIN r.todo /\ q[i] = r.todo[i + 1]
    <3>1. q \in Seq(TaskIds) /\ Len(q) = Len(r.todo) - 1
      BY <2>1
    <3>2. DOMAIN q = 1 .. Len(r.todo) - 1 /\ DOMAIN r.todo = 1 .. Len(r.todo)
      BY <2>1, <3>1
    <3>3. \A i \in 1 .. Len(r.todo) - 1 : q[i] = r.todo[i + 1]
      BY <2>1
    <3> HIDE DEF q
    <3> QED
      BY <2>1, <3>1, <3>2, <3>3
  <2> HIDE DEF q
  <2>3. o \in ShiftRecord /\ o.pc = "next" /\ o.todo = q /\ o.seen = r.seen
    BY <2>2 DEF ShiftRecord, Results
  <2>4. Onward(r) = o
    BY <1>2 DEF Onward, q
  <2> HIDE DEF o
  <2> QED
    BY <2>2, <2>3, <2>4 DEF Work
<1> QED
  BY <1>1, <1>2

\* A task is posted.
LEMMA StepPosts ==
  ASSUME IInv, NEW s \in Sessions \cup Subjects \cup {NoOne}, Len(posted) < MaxPosted,
         posted' = Posted(s), UNCHANGED <<stored, shift>>
  PROVE  IInv'
<1>1. /\ posted' \in Seq(RelayTask) /\ Len(posted') = Len(posted) + 1 /\ Len(posted') <= MaxPosted
      /\ posted'[Len(posted) + 1].status = "pending"
      /\ \A k \in DOMAIN posted : posted'[k] = posted[k]
  BY PostedIs
<1>2. DOMAIN posted' = DOMAIN posted \cup {Len(posted) + 1}
  BY <1>1, Known
<1>3. More(posted, stored, posted', stored')
  BY <1>1, <1>2, Known, Same DEF More
<1>4. \A n \in DOMAIN posted' : Honest(n, posted', stored')
  <2> SUFFICES ASSUME NEW n \in DOMAIN posted' PROVE Honest(n, posted', stored')
    OBVIOUS
  <2>1. CASE n \in DOMAIN posted
    BY <1>1, <1>3, <2>1, HonestKept DEF IInv, HonestInv
  <2>2. CASE n = Len(posted) + 1
    BY <1>1, <2>2 DEF Honest
  <2> QED
    BY <1>2, <2>1, <2>2
<1> QED
  BY <1>1, <1>3, <1>4, ShiftsKept DEF HonestInv

\* A task ends its life.
LEMMA StepGone ==
  ASSUME IInv, NEW n \in TaskIds, TaskGone(n)
  PROVE  IInv'
<1>1. n \in DOMAIN posted /\ UNCHANGED <<stored, shift>>
  BY DEF TaskGone, Cortex
<1>2. /\ Kept(posted') /\ posted'[n].status = "gone"
      /\ \A k \in DOMAIN posted : k # n => posted'[k] = posted[k]
  BY <1>1, GoneIs DEF TaskGone
<1>3. /\ More(posted, stored, posted', stored') /\ DOMAIN posted' = DOMAIN posted
      /\ posted' \in Seq(RelayTask) /\ Len(posted') <= MaxPosted
  BY <1>1, <1>2, Same, KeptIsMore
<1>4. \A k \in DOMAIN posted' : Honest(k, posted', stored')
  <2> SUFFICES ASSUME NEW k \in DOMAIN posted PROVE Honest(k, posted', stored')
    BY <1>3
  <2>1. CASE k = n
    BY <1>2, <2>1 DEF Honest
  <2>2. CASE k # n
    BY <1>2, <1>3, <2>2, HonestKept DEF IInv, HonestInv
  <2> QED
    BY <2>1, <2>2
<1> QED
  BY <1>1, <1>3, <1>4, ShiftsKept DEF HonestInv

\* What may be said of a task when it is completed.
Deserves(n, v) ==
  \/ v = "written" /\ stored[n] > 0
  \/ v = "duplicate" /\ Has(posted[n].subject, posted, stored)
  \/ v \notin {"written", "duplicate"} /\ posted[n].subject \in Skills \cup {NoOne}

LEMMA Closed ==
  ASSUME IInv, NEW n \in DOMAIN posted, NEW s \in {"completed", "failed"}, NEW v \in Results,
         s = "completed" => Deserves(n, v),
         posted' = Updated(n, s, v), UNCHANGED stored
  PROVE  /\ posted' \in Seq(RelayTask) /\ Len(posted') <= MaxPosted
         /\ More(posted, stored, posted', stored') /\ HonestInv'
<1>1. /\ Kept(posted') /\ posted'[n].status = s /\ posted'[n].result = v
      /\ \A k \in DOMAIN posted : k # n => posted'[k] = posted[k]
  BY UpdatedIs
<1>2. /\ More(posted, stored, posted', stored') /\ DOMAIN posted' = DOMAIN posted
      /\ posted' \in Seq(RelayTask) /\ Len(posted') <= MaxPosted
  BY <1>1, Same, KeptIsMore
<1>3. \A k \in DOMAIN posted' : Honest(k, posted', stored')
  <2> SUFFICES ASSUME NEW k \in DOMAIN posted PROVE Honest(k, posted', stored')
    BY <1>2
  <2>1. CASE k = n
    <3>1. posted'[n].subject = posted[n].subject
      BY <1>1 DEF Kept
    <3>2. Has(posted[n].subject, posted, stored) => Has(posted[n].subject, posted', stored')
      BY <1>2, HasKept
    <3>3. stored' = stored
      OBVIOUS
    <3> QED
      BY <1>1, <2>1, <3>1, <3>2, <3>3 DEF Honest, Deserves
  <2>2. CASE k # n
    BY <1>1, <1>2, <2>2, HonestKept DEF IInv, HonestInv
  <2> QED
    BY <2>1, <2>2
<1> QED
  BY <1>2, <1>3 DEF HonestInv

\* A step of a shift that closes its first task, or leaves it.
LEMMA StepCloses ==
  ASSUME IInv, NEW w \in Shifts, NEW n \in DOMAIN posted, NEW s \in {"completed", "failed"},
         NEW v \in Results, s = "completed" => Deserves(n, v),
         posted' \in {posted, Updated(n, s, v)}, UNCHANGED stored,
         NEW r \in ShiftRecord, shift' = [shift EXCEPT ![w] = r], Work(r, posted, stored)
  PROVE  IInv'
<1>1. CASE posted' = posted
  BY <1>1, OnlyShiftIs
<1>2. CASE posted' = Updated(n, s, v)
  <2>1. /\ posted' \in Seq(RelayTask) /\ Len(posted') <= MaxPosted
        /\ More(posted, stored, posted', stored') /\ HonestInv'
    BY <1>2, Closed
  <2>2. Work(r, posted', stored')
    BY <2>1, WorkKept
  <2> QED
    BY <2>1, <2>2, ShiftIs
<1> QED
  BY <1>1, <1>2

LEMMA StepSpare ==
  ASSUME IInv, NEW w \in Shifts, CloseSpare(w)
  PROVE  IInv'
<1> DEFINE r == shift[w]
           v == Spare(w)
<1>1. r.pc = "next"
  BY DEF CloseSpare, OnDuty
<1>2. /\ r \in ShiftRecord /\ Work(r, posted, stored) /\ r.todo # <<>>
      /\ Cur(w) \in DOMAIN posted
  BY <1>1, CurIs
<1>3. v \in Results /\ Deserves(Cur(w), v)
  BY <1>2 DEF CloseSpare, Spare, Results, Deserves, About, Work
<1>4. Onward(r) \in ShiftRecord /\ Work(Onward(r), posted, stored)
  BY <1>2, OnwardIs
<1>5. shift' = [shift EXCEPT ![w] = Onward(r)]
  BY DEF CloseSpare, Leave, IInv, NightTypeOK
<1>6. posted' \in {posted, Updated(Cur(w), "completed", v)} /\ UNCHANGED stored
  BY DEF CloseSpare, Cortex
<1> HIDE DEF r, v
<1> QED
  BY <1>2, <1>3, <1>4, <1>5, <1>6, StepCloses

LEMMA StepComplete ==
  ASSUME IInv, NEW w \in Shifts, Complete(w)
  PROVE  IInv'
<1> DEFINE r == shift[w]
           v == r.result
           done == [r EXCEPT !.pc = "release", !.seen = r.seen \cup (Sessions \cap {About(w)})]
<1>1. r.pc = "complete"
  BY DEF Complete, OnDuty
<1>2. /\ r \in ShiftRecord /\ Work(r, posted, stored) /\ r.todo # <<>>
      /\ Cur(w) \in DOMAIN posted
  BY <1>1, CurIs
<1>3. /\ v \in Results /\ Deserves(Cur(w), v)
      /\ (v = "written" /\ stored[Cur(w)] > 0) \/ About(w) \in Skills
  BY <1>1, <1>2 DEF Work, Deserves, Results, Cur, About
<1>4. /\ done \in ShiftRecord /\ done.pc = "release" /\ done.todo = r.todo
      /\ done.seen = r.seen \cup (Sessions \cap {About(w)})
  BY <1>2 DEF ShiftRecord
<1>5. \A s \in Sessions \cap {About(w)} : Has(s, posted, stored)
  BY <1>2, <1>3, FleetAssumption DEF Has, About
<1>6. Work(done, posted, stored)
  BY <1>2, <1>4, <1>5 DEF Work
<1>7. \A p \in {"release", "fail"} :
         [r EXCEPT !.pc = p] \in ShiftRecord /\ Work([r EXCEPT !.pc = p], posted, stored)
  BY <1>1, <1>2, TurnIs
<1>8. \/ shift' = [shift EXCEPT ![w] = done]
      \/ shift' = [shift EXCEPT ![w] = [r EXCEPT !.pc = "release"]]
      \/ shift' = [shift EXCEPT ![w] = [r EXCEPT !.pc = "fail"]]
  BY DEF Complete, Turn, IInv, NightTypeOK
<1>9. posted' \in {posted, Updated(Cur(w), "completed", v)} /\ UNCHANGED stored
  BY DEF Complete, Cortex
<1>10. ASSUME NEW q \in ShiftRecord, shift' = [shift EXCEPT ![w] = q], Work(q, posted, stored)
       PROVE  IInv'
  BY <1>2, <1>3, <1>9, <1>10, StepCloses
<1>11. CASE shift' = [shift EXCEPT ![w] = done]
  BY <1>4, <1>6, <1>10, <1>11
<1>12. ASSUME NEW p \in {"release", "fail"}, shift' = [shift EXCEPT ![w] = [r EXCEPT !.pc = p]]
       PROVE  IInv'
  BY <1>7, <1>10, <1>12
<1> QED
  BY <1>8, <1>11, <1>12

LEMMA StepFailed ==
  ASSUME IInv, NEW w \in Shifts, MarkFailed(w)
  PROVE  IInv'
<1> DEFINE r == [shift[w] EXCEPT !.pc = "release"]
<1>1. shift[w].pc = "fail"
  BY DEF MarkFailed, OnDuty
<1>2. /\ shift[w] \in ShiftRecord /\ Work(shift[w], posted, stored)
      /\ Cur(w) \in DOMAIN posted
  BY <1>1, CurIs
<1>3. r \in ShiftRecord /\ Work(r, posted, stored)
  BY <1>1, <1>2, TurnIs
<1>4. shift' = [shift EXCEPT ![w] = r]
  BY DEF MarkFailed, Turn, IInv, NightTypeOK
<1>5. posted' \in {posted, Updated(Cur(w), "failed", "error")} /\ UNCHANGED stored
  BY DEF MarkFailed, Cortex
<1>6. "error" \in Results
  BY DEF Results
<1> HIDE DEF r
<1> QED
  BY <1>2, <1>3, <1>4, <1>5, <1>6, StepCloses

\* A result is written, and confirmed or not.
LEMMA StepWrite ==
  ASSUME IInv, NEW w \in Shifts, WriteResult(w)
  PROVE  IInv'
<1> DEFINE r == shift[w]
           n == Cur(w)
           done == [r EXCEPT !.pc = "complete", !.result = "written"]
<1>1. r.pc = "write" /\ UNCHANGED posted
  BY DEF WriteResult, OnDuty
<1>2. /\ r \in ShiftRecord /\ Work(r, posted, stored) /\ r.todo # <<>>
      /\ n \in DOMAIN posted /\ n \in TaskIds
  BY <1>1, CurIs
<1>3. PICK reply \in {"stored", "error", "lost"}, kept \in BOOLEAN :
         /\ reply = "stored" => kept
         /\ stored' = IF kept THEN [stored EXCEPT ![n] = @ + 1] ELSE stored
         /\ shift' = IF Confirmed(reply)
                     THEN [shift EXCEPT ![w].pc = "complete", ![w].result = "written"]
                     ELSE IF reply = "lost" /\ About(w) \in Skills
                     THEN [shift EXCEPT ![w].pc = "release", ![w].stop = TRUE]
                     ELSE [shift EXCEPT ![w].pc = "fail"]
  BY DEF WriteResult
<1>4. stored \in [TaskIds -> Nat] /\ shift \in [Shifts -> ShiftRecord]
  BY DEF IInv, NightTypeOK
<1>5. /\ stored' \in [TaskIds -> Nat] /\ \A k \in TaskIds : stored[k] <= stored'[k]
      /\ kept => stored'[n] > 0
  BY <1>2, <1>3, <1>4
<1>6. /\ More(posted, stored, posted', stored')
      /\ posted' \in Seq(RelayTask) /\ Len(posted') <= MaxPosted
  BY <1>1, <1>5, Same, KeptIsMore
<1>7. HonestInv'
  <2>1. \A k \in DOMAIN posted : Honest(k, posted, stored)
    BY DEF IInv, HonestInv
  <2>2. \A k \in DOMAIN posted : Honest(k, posted', stored')
    BY <1>1, <1>6, <2>1, HonestKept
  <2> QED
    BY <1>1, <2>2 DEF HonestInv
<1>8. ASSUME NEW q \in ShiftRecord, shift' = [shift EXCEPT ![w] = q], Work(q, posted', stored')
      PROVE  IInv'
  BY <1>6, <1>7, <1>8, ShiftIs
<1>9. CASE Confirmed(reply)
  <2>1. kept /\ shift' = [shift EXCEPT ![w] = done]
    BY <1>3, <1>4, <1>9 DEF Confirmed
  <2>2. /\ done \in ShiftRecord /\ done.pc = "complete" /\ done.result = "written"
        /\ done.todo = r.todo /\ done.seen = r.seen
    BY <1>2 DEF ShiftRecord, Results
  <2>3. Work(r, posted', stored')
    BY <1>2, <1>6, WorkKept
  <2>4. Work(done, posted', stored')
    BY <1>1, <1>5, <2>1, <2>2, <2>3 DEF Work, Cur
  <2> QED
    BY <1>8, <2>1, <2>2, <2>4
<1>10. CASE ~Confirmed(reply)
  <2>1. Work(r, posted', stored') /\ r.pc \notin {"off", "list"}
    BY <1>1, <1>2, <1>6, WorkKept
  <2>2. /\ [r EXCEPT !.pc = "release", !.stop = TRUE] \in ShiftRecord
        /\ Work([r EXCEPT !.pc = "release", !.stop = TRUE], posted', stored')
        /\ [r EXCEPT !.pc = "fail"] \in ShiftRecord
        /\ Work([r EXCEPT !.pc = "fail"], posted', stored')
    BY <1>2, <2>1, TurnIs
  <2>3. \/ shift' = [shift EXCEPT ![w] = [r EXCEPT !.pc = "release", !.stop = TRUE]]
        \/ shift' = [shift EXCEPT ![w] = [r EXCEPT !.pc = "fail"]]
    BY <1>3, <1>4, <1>10
  <2> QED
    BY <1>8, <2>2, <2>3
<1> QED
  BY <1>9, <1>10

\* Sequences by their elements.
LEMMA ElementsIn ==
  ASSUME NEW S, NEW T, NEW q \in Seq(S), \A i \in DOMAIN q : q[i] \in T
  PROVE  q \in Seq(T)
<1>1. Len(q) \in Nat /\ q \in [1 .. Len(q) -> S]
  OBVIOUS
<1>2. q \in [1 .. Len(q) -> T]
  BY <1>1
<1> QED
  BY <1>1, <1>2

LEMMA FunctionIsSeq ==
  ASSUME NEW S, NEW n \in Nat, NEW q \in [1 .. n -> S]
  PROVE  q \in Seq(S)
OBVIOUS

LEMMA FirstFew ==
  ASSUME NEW S, NEW q \in Seq(S), NEW k \in Nat, k > 0, Len(q) > k
  PROVE  SubSeq(q, 1, k) \in Seq(S) /\ SubSeq(q, 1, k) # <<>>
<1>1. Len(q) \in Nat
  OBVIOUS
<1>2. SubSeq(q, 1, k) \in Seq(S) /\ Len(SubSeq(q, 1, k)) = k
  BY <1>1
<1> QED
  BY <1>2

LEMMA ListedIs ==
  ASSUME NEW r \in ShiftRecord, NEW q \in Seq(TaskIds), NEW j \in 1 .. 3
  PROVE  /\ [r EXCEPT !.job = j, !.todo = q] \in ShiftRecord
         /\ [r EXCEPT !.job = j, !.todo = q].pc = r.pc
         /\ [r EXCEPT !.job = j, !.todo = q].todo = q
         /\ [r EXCEPT !.job = j, !.todo = q].seen = r.seen
BY DEF ShiftRecord

LEMMA Lists ==
  ASSUME IInv, NEW w \in Shifts, shift[w].pc = "list", UNCHANGED <<posted, stored>>,
         NEW q \in Seq(TaskIds), \A i \in DOMAIN q : q[i] \in DOMAIN posted,
         NEW j \in 1 .. 3
  PROVE  /\ shift' = [shift EXCEPT ![w] = [shift[w] EXCEPT !.job = j, !.todo = q]] => IInv'
         /\ q # <<>> /\ shift' = [shift EXCEPT ![w] = [shift[w] EXCEPT !.pc = "next", !.job = j,
                                                                     !.todo = q]] => IInv'
<1>1. shift[w] \in ShiftRecord /\ Work(shift[w], posted, stored)
  BY DEF IInv, NightTypeOK, WorkInv
<1> DEFINE more == [shift[w] EXCEPT !.job = j, !.todo = q]
           go   == [shift[w] EXCEPT !.pc = "next", !.job = j, !.todo = q]
<1>2. more \in ShiftRecord /\ more.pc = "list" /\ more.todo = q /\ more.seen = shift[w].seen
  BY <1>1, ListedIs
<1>3. go \in ShiftRecord /\ go.pc = "next" /\ go.todo = q /\ go.seen = shift[w].seen
  BY <1>1 DEF ShiftRecord
<1> HIDE DEF more, go
<1>4. Work(more, posted, stored) /\ (q # <<>> => Work(go, posted, stored))
  BY <1>1, <1>2, <1>3 DEF Work
<1>5. /\ shift' = [shift EXCEPT ![w] = more] => IInv'
      /\ q # <<>> /\ shift' = [shift EXCEPT ![w] = go] => IInv'
  BY <1>2, <1>3, <1>4, OnlyShiftIs
<1> QED
  BY <1>5 DEF more, go

\* The listings of a shift are of tasks that exist.
LEMMA StepList ==
  ASSUME IInv, NEW w \in Shifts, ListJob(w)
  PROVE  IInv'
<1> DEFINE r == shift[w]
<1>1. /\ r \in ShiftRecord /\ Work(r, posted, stored) /\ r.pc = "list"
      /\ shift \in [Shifts -> ShiftRecord] /\ UNCHANGED <<posted, stored>>
  BY DEF IInv, NightTypeOK, WorkInv, ListJob, OnDuty, Cortex
<1>2. PICK found \in OldestFirst(PendingOf(JobTitles[r.job]))
                        \cup (IF r.job = 1 THEN {} ELSE {<<>>}) :
         LET all == r.todo \o found IN
         shift' = [shift EXCEPT ![w] =
             IF r.job < Len(JobTitles) THEN [@ EXCEPT !.job = r.job + 1, !.todo = all]
             ELSE IF all = <<>> THEN OffDuty
             ELSE [@ EXCEPT !.pc = "next", !.job = 1,
                            !.todo = IF Len(all) > MaxTasks THEN SubSeq(all, 1, MaxTasks) ELSE all]]
  BY DEF ListJob
<1> DEFINE S == PendingOf(JobTitles[r.job])
           all == r.todo \o found
           some == IF Len(all) > MaxTasks THEN SubSeq(all, 1, MaxTasks) ELSE all
<1>3. found \in Seq(DOMAIN posted)
  <2>1. S \subseteq DOMAIN posted
    BY DEF PendingOf
  <2>2. Cardinality(S) \in Nat
    <3>1. IsFiniteSet(1 .. Len(posted))
      BY Known, FS_Interval
    <3> QED
      BY <2>1, <3>1, Known, FS_Subset, FS_CardinalityType
  <2>3. found = <<>> \/ found \in [1 .. Cardinality(S) -> S]
    BY <1>2 DEF OldestFirst
  <2>4. CASE found \in [1 .. Cardinality(S) -> S]
    <3>1. found \in [1 .. Cardinality(S) -> DOMAIN posted]
      BY <2>1, <2>4
    <3> QED
      BY <2>2, <3>1, FunctionIsSeq
  <2>5. <<>> \in Seq(DOMAIN posted)
    OBVIOUS
  <2> QED
    BY <2>3, <2>4, <2>5, Zenon
<1>4. /\ r.todo \in Seq(DOMAIN posted) /\ DOMAIN posted \subseteq TaskIds
      /\ MaxTasks \in Nat /\ MaxTasks > 0
  <2>1. r.todo \in Seq(TaskIds) /\ \A i \in DOMAIN r.todo : r.todo[i] \in DOMAIN posted
    BY <1>1 DEF ShiftRecord, Work
  <2>2. r.todo \in Seq(DOMAIN posted)
    BY <2>1, ElementsIn
  <2> QED
    BY <2>2, Known, FleetAssumption
<1>5. all \in Seq(DOMAIN posted) /\ Len(all) \in Nat
  BY <1>3, <1>4
<1> HIDE DEF all
<1>6. some \in Seq(DOMAIN posted) /\ (all # <<>> => some # <<>>)
  BY <1>4, <1>5, FirstFew
<1>7. all \in Seq(TaskIds) /\ some \in Seq(TaskIds)
  <2>1. \A q \in Seq(DOMAIN posted) : q \in Seq(TaskIds)
    BY <1>4
  <2> QED
    BY <1>5, <1>6, <2>1
<1> HIDE DEF some
<1>8. CASE r.job < Len(JobTitles)
  <2>1. PICK j \in 1 .. 3 : j = r.job + 1
    BY <1>1, <1>8 DEF ShiftRecord, JobTitles
  <2>2. shift' = [shift EXCEPT ![w] = [shift[w] EXCEPT !.job = j, !.todo = all]]
    BY <1>1, <1>2, <1>8, <2>1 DEF all
  <2>3. shift[w].pc = "list" /\ \A i \in DOMAIN all : all[i] \in DOMAIN posted
    BY <1>1, <1>5
  <2>4. shift' = [shift EXCEPT ![w] = [shift[w] EXCEPT !.job = j, !.todo = all]] => IInv'
    BY <1>1, <1>7, <2>1, <2>3, Lists, Zenon
  <2> QED
    BY <2>2, <2>4
<1>9. CASE ~(r.job < Len(JobTitles)) /\ all = <<>>
  <2>1. shift' = [shift EXCEPT ![w] = OffDuty]
    BY <1>1, <1>2, <1>9 DEF all
  <2> QED
    BY <1>1, <2>1, OffDutyIs, OnlyShiftIs
<1>10. CASE ~(r.job < Len(JobTitles)) /\ all # <<>>
  <2>1. PICK j \in 1 .. 3 : j = 1
    OBVIOUS
  <2>2. shift' = [shift EXCEPT ![w] = [shift[w] EXCEPT !.pc = "next", !.job = j, !.todo = some]]
    BY <1>1, <1>2, <1>10, <2>1 DEF all, some
  <2>3. /\ shift[w].pc = "list" /\ \A i \in DOMAIN some : some[i] \in DOMAIN posted
        /\ some # <<>>
    BY <1>1, <1>6, <1>10
  <2>4. some # <<>> /\ shift' = [shift EXCEPT ![w] = [shift[w] EXCEPT !.pc = "next", !.job = j,
                                                                     !.todo = some]] => IInv'
    BY <1>1, <1>7, <2>1, <2>3, Lists, Zenon
  <2> QED
    BY <2>2, <2>3, <2>4
<1> QED
  BY <1>8, <1>9, <1>10

\* The other steps of a shift take another turn with the same tasks.
LEMMA StepTurn ==
  ASSUME IInv, NEW w \in Shifts,
         GoOnDuty(w) \/ LeaseTask(w) \/ AskModel(w) \/ Release(w) \/ ShiftDies(w)
  PROVE  IInv'
<1> DEFINE r == shift[w]
<1>1. /\ r \in ShiftRecord /\ Work(r, posted, stored)
      /\ shift \in [Shifts -> ShiftRecord] /\ UNCHANGED <<posted, stored>>
  BY DEF IInv, NightTypeOK, WorkInv, GoOnDuty, LeaseTask, AskModel, Release, ShiftDies, Cortex
<1>2. ASSUME NEW q \in ShiftRecord, shift' = [shift EXCEPT ![w] = q], Work(q, posted, stored)
      PROVE  IInv'
  BY <1>1, <1>2, OnlyShiftIs
<1>3. ASSUME shift' = [shift EXCEPT ![w] = Onward(r)], r.pc \notin {"off", "list"}
      PROVE  IInv'
  BY <1>1, <1>2, <1>3, OnwardIs DEF Work
<1>4. ASSUME NEW p \in {"next", "model", "write", "fail", "release"}, r.pc \notin {"off", "list"},
             \/ shift' = [shift EXCEPT ![w] = [r EXCEPT !.pc = p]]
             \/ shift' = [shift EXCEPT ![w] = [r EXCEPT !.pc = p, !.held = TRUE]]
             \/ shift' = [shift EXCEPT ![w] = [r EXCEPT !.pc = p, !.stop = TRUE]]
      PROVE  IInv'
  <2> DEFINE q1 == [r EXCEPT !.pc = p]
             q2 == [r EXCEPT !.pc = p, !.held = TRUE]
             q3 == [r EXCEPT !.pc = p, !.stop = TRUE]
  <2>1. /\ q1 \in ShiftRecord /\ Work(q1, posted, stored)
        /\ q2 \in ShiftRecord /\ Work(q2, posted, stored)
        /\ q3 \in ShiftRecord /\ Work(q3, posted, stored)
    BY <1>1, <1>4, TurnIs
  <2>2. \/ shift' = [shift EXCEPT ![w] = q1]
        \/ shift' = [shift EXCEPT ![w] = q2]
        \/ shift' = [shift EXCEPT ![w] = q3]
    BY <1>4
  <2> HIDE DEF q1, q2, q3
  <2> QED
    BY <1>2, <2>1, <2>2
<1>5. CASE GoOnDuty(w)
  <2> DEFINE q == [r EXCEPT !.pc = "list"]
  <2>1. shift' = [shift EXCEPT ![w] = q] /\ r.pc = "off"
    BY <1>1, <1>5 DEF GoOnDuty, Turn, OnDuty
  <2>2. q \in ShiftRecord /\ q.pc = "list" /\ q.todo = r.todo /\ q.seen = r.seen
    BY <1>1 DEF ShiftRecord
  <2> HIDE DEF q
  <2>3. Work(q, posted, stored)
    BY <1>1, <2>2 DEF Work
  <2> QED
    BY <1>2, <2>1, <2>2, <2>3
<1>6. CASE LeaseTask(w)
  <2>1. r.pc \notin {"off", "list"}
    BY <1>6 DEF LeaseTask, OnDuty
  <2>2. \/ shift' = [shift EXCEPT ![w] = [r EXCEPT !.pc = "model", !.held = TRUE]]
        \/ shift' = [shift EXCEPT ![w] = [r EXCEPT !.pc = "fail"]]
        \/ shift' = [shift EXCEPT ![w] = Onward(r)]
    BY <1>1, <1>6 DEF LeaseTask, Turn, Leave
  <2> QED
    BY <1>3, <1>4, <2>1, <2>2
<1>7. CASE AskModel(w)
  <2>1. r.pc = "model"
    BY <1>7 DEF AskModel, OnDuty
  <2> DEFINE q == [r EXCEPT !.pc = "complete", !.result = "noop"]
  <2>2. \/ shift' = [shift EXCEPT ![w] = [r EXCEPT !.pc = "write"]]
        \/ shift' = [shift EXCEPT ![w] = [r EXCEPT !.pc = "fail"]]
        \/ shift' = [shift EXCEPT ![w] = [r EXCEPT !.pc = "release", !.stop = TRUE]]
        \/ About(w) \in Skills /\ shift' = [shift EXCEPT ![w] = q]
    BY <1>1, <1>7 DEF AskModel, Turn
  <2>3. CASE About(w) \in Skills /\ shift' = [shift EXCEPT ![w] = q]
    <3>1. /\ q \in ShiftRecord /\ q.pc = "complete" /\ q.result = "noop"
          /\ q.todo = r.todo /\ q.seen = r.seen
      BY <1>1 DEF ShiftRecord, Results
    <3> HIDE DEF q
    <3>2. Work(q, posted, stored)
      BY <1>1, <2>1, <2>3, <3>1 DEF Work, About, Cur
    <3> QED
      BY <1>2, <2>3, <3>1, <3>2
  <2> QED
    BY <1>4, <2>1, <2>2, <2>3
<1>8. CASE Release(w)
  BY <1>1, <1>3, <1>8 DEF Release, Leave, OnDuty
<1>9. CASE ShiftDies(w)
  BY <1>1, <1>2, <1>9, OffDutyIs DEF ShiftDies
<1> QED
  BY <1>5, <1>6, <1>7, <1>8, <1>9

\* What goes on around the tasks.
LEMMA StepAround ==
  ASSUME IInv, UNCHANGED <<posted, stored, shift>>
  PROVE  IInv'
<1>1. More(posted, stored, posted', stored')
  BY Same, KeptIsMore
<1> QED
  BY <1>1, ShiftsKept DEF IInv, HonestInv, NightTypeOK

LEMMA NightStep ==
  ASSUME IInv, [NightNext]_nightVars
  PROVE  IInv'
<1>1. CASE UNCHANGED nightVars
  BY <1>1, StepAround DEF nightVars
<1>2. ASSUME NEW s \in Sessions \cup {NoOne}, SessionEnds(s)
      PROVE  IInv'
  BY <1>2, StepPosts DEF SessionEnds, Cortex
<1>3. CASE Gather \/ PassDies
  BY <1>3, StepAround DEF Gather, PassDies, Cortex
<1>4. ASSUME NEW s \in Subjects, PostTask(s)
      PROVE  IInv'
  BY <1>4, StepPosts, StepAround DEF PostTask, Cortex
<1>5. ASSUME NEW s \in Subjects, Claim(s) \/ MarkerGone(s) \/ RejectDraft(s) \/ Settle(s)
      PROVE  IInv'
  BY <1>5, StepAround DEF Claim, MarkerGone, RejectDraft, Settle, Cortex
<1>6. ASSUME NEW n \in TaskIds, LeaseLapses(n)
      PROVE  IInv'
  BY <1>6, StepAround DEF LeaseLapses, Cortex
<1> QED
  BY <1>1, <1>2, <1>3, <1>4, <1>5, <1>6, StepGone, StepSpare, StepComplete, StepFailed,
     StepWrite, StepList, StepTurn DEF NightNext

\* What the proof keeps of the fleet: what each shift knows of its tasks, and that
\* results are what they say (nightshift.py, run).
THEOREM NightInvariant == NightSpec => []IInv
<1>1. NightInit => IInv
  BY OffDutyIs, FleetAssumption
     DEF NightInit, IInv, NightTypeOK, WorkInv, HonestInv, Posted, TaskIds
<1> QED
  BY <1>1, NightStep, PTL DEF NightSpec

\* No distillation is lost to a completion, whatever replies are lost and leases
\* lapse (nightshift.py, run).
THEOREM CompletedWasWritten == NightSpec => []CompletedIsWritten
<1>1. IInv => CompletedIsWritten
  BY DEF IInv, HonestInv, Honest, Has, CompletedIsWritten
<1> QED
  BY <1>1, NightInvariant, PTL

-------------------------------------------------------------------------------
(* One task for a finding *)

Alive(n) == posted[n].subject \in Subjects /\ posted[n].status # "gone"

\* The marker of a subject lives while a task of it does, or while the pass is
\* about to post one; there is one of these.
MarkInv ==
  /\ pass \in [todo : SUBSET Subjects, subject : Subjects \cup {NoOne}] /\ open \subseteq Subjects
  /\ pass.subject # NoOne => pass.subject \in marker
  /\ \A n \in DOMAIN posted : Alive(n) => /\ posted[n].subject \in marker
                                          /\ posted[n].subject # pass.subject
  /\ \A m, n \in DOMAIN posted :
        Alive(m) /\ Alive(n) /\ posted[m].subject = posted[n].subject => m = n

\* A step that makes no task live.
LEMMA MarkKept ==
  ASSUME IInv, MarkInv, UNCHANGED <<marker, pass>>, open' \subseteq Subjects, Kept(posted'),
         \A n \in DOMAIN posted : posted'[n].status # "gone" => posted[n].status # "gone"
  PROVE  MarkInv'
<1>1. DOMAIN posted' = DOMAIN posted
  BY Known DEF Kept
<1>2. \A n \in DOMAIN posted : Alive(n)' => Alive(n) /\ posted'[n].subject = posted[n].subject
  BY DEF Alive, Kept
<1> QED
  BY <1>1, <1>2 DEF MarkInv

\* A step of a shift, or of what surrounds the tasks.
LEMMA MarkedElsewhere ==
  ASSUME IInv, MarkInv, open' \subseteq Subjects,
         \/ UNCHANGED <<posted, marker, pass>>
         \/ \E n \in TaskIds : TaskGone(n)
         \/ \E w \in Shifts : CloseSpare(w) \/ Complete(w) \/ MarkFailed(w)
  PROVE  MarkInv'
<1>1. CASE UNCHANGED <<posted, marker, pass>>
  BY <1>1, Same, MarkKept
<1>2. ASSUME NEW n \in TaskIds, TaskGone(n)
      PROVE  MarkInv'
  <2>1. n \in DOMAIN posted /\ UNCHANGED <<marker, pass>>
    BY <1>2 DEF TaskGone
  <2>2. /\ Kept(posted') /\ posted'[n].status = "gone"
        /\ \A k \in DOMAIN posted : k # n => posted'[k] = posted[k]
    BY <1>2, <2>1, GoneIs DEF TaskGone
  <2> QED
    BY <2>1, <2>2, MarkKept
<1>3. ASSUME NEW w \in Shifts, CloseSpare(w) \/ Complete(w) \/ MarkFailed(w)
      PROVE  MarkInv'
  <2> DEFINE n == Cur(w)
  <2>1. n \in DOMAIN posted /\ shift[w] \in ShiftRecord
    BY <1>3, CurIs DEF CloseSpare, Complete, MarkFailed, OnDuty
  <2>2. shift[w].result \in Results /\ Spare(w) \in Results /\ "error" \in Results
    BY <2>1 DEF ShiftRecord, Spare, Results
  <2>3. UNCHANGED <<marker, pass>>
    BY <1>3 DEF CloseSpare, Complete, MarkFailed
  <2>4. \/ posted' = posted
        \/ /\ posted[n].status # "gone"
           /\ \E s \in {"completed", "failed"}, v \in Results : posted' = Updated(n, s, v)
    BY <1>3, <2>2 DEF CloseSpare, Complete, MarkFailed, Live
  <2>5. CASE posted' = posted
    BY <2>3, <2>5, Same, MarkKept
  <2>6. ASSUME posted[n].status # "gone",
               NEW s \in {"completed", "failed"}, NEW v \in Results, posted' = Updated(n, s, v)
        PROVE  MarkInv'
    <3>1. Kept(posted') /\ \A k \in DOMAIN posted : k # n => posted'[k] = posted[k]
      BY <2>1, <2>6, UpdatedIs
    <3> HIDE DEF n
    <3> QED
      BY <2>3, <2>6, <3>1, MarkKept
  <2> QED
    BY <2>4, <2>5, <2>6
<1> QED
  BY <1>1, <1>2, <1>3

\* A task is posted, and the marker stays.
LEMMA MarkPosts ==
  ASSUME IInv, MarkInv, NEW s \in Sessions \cup Subjects \cup {NoOne}, Len(posted) < MaxPosted,
         posted' = Posted(s), UNCHANGED <<marker, open>>,
         pass' \in [todo : SUBSET Subjects, subject : Subjects \cup {NoOne}],
         s \in Subjects => pass.subject = s /\ pass'.subject = NoOne,
         s \notin Subjects => pass' = pass
  PROVE  MarkInv'
<1> DEFINE z == Len(posted) + 1
<1>1. /\ posted' \in Seq(RelayTask) /\ Len(posted') = z
      /\ posted'[z].subject = s
      /\ \A k \in DOMAIN posted : posted'[k] = posted[k]
  BY PostedIs
<1>2. DOMAIN posted' = DOMAIN posted \cup {z} /\ z \notin DOMAIN posted
  BY <1>1, Known
<1>3. \A k \in DOMAIN posted : Alive(k)' <=> Alive(k)
  BY <1>1 DEF Alive
<1>4. NoOne \notin Subjects
  BY FleetAssumption DEF Subjects
<1> HIDE DEF z
<1>5. CASE s \in Subjects
  <2>1. s \in marker /\ \A k \in DOMAIN posted : Alive(k) => posted[k].subject # s
    BY <1>4, <1>5 DEF MarkInv
  <2>2. \A k \in DOMAIN posted' : Alive(k)' => /\ posted'[k].subject \in marker'
                                               /\ posted'[k].subject # pass'.subject
    BY <1>1, <1>2, <1>3, <1>4, <1>5, <2>1 DEF MarkInv, Alive
  <2>3. \A m, n \in DOMAIN posted' :
           Alive(m)' /\ Alive(n)' /\ posted'[m].subject = posted'[n].subject => m = n
    BY <1>1, <1>2, <1>3, <2>1 DEF MarkInv
  <2> QED
    BY <1>5, <2>2, <2>3 DEF MarkInv
<1>6. CASE s \notin Subjects
  <2>1. \A k \in DOMAIN posted' : Alive(k)' => k \in DOMAIN posted
    BY <1>1, <1>2, <1>6 DEF Alive
  <2>2. \A k \in DOMAIN posted' : Alive(k)' => /\ posted'[k].subject \in marker'
                                               /\ posted'[k].subject # pass'.subject
    BY <1>1, <1>3, <1>6, <2>1 DEF MarkInv
  <2>3. \A m, n \in DOMAIN posted' :
           Alive(m)' /\ Alive(n)' /\ posted'[m].subject = posted'[n].subject => m = n
    BY <1>1, <1>3, <2>1 DEF MarkInv
  <2> QED
    BY <1>6, <2>2, <2>3 DEF MarkInv
<1> QED
  BY <1>5, <1>6

LEMMA MarkStep ==
  ASSUME IInv, MarkInv, [NightNext]_nightVars, "post" \notin Lost
  PROVE  MarkInv'
<1> USE DEF Cortex
<1>0. open \subseteq Subjects /\ NoOne \notin Subjects /\ pass.todo \subseteq Subjects
  BY FleetAssumption DEF MarkInv, Subjects
<1>1. CASE UNCHANGED nightVars
  BY <1>0, <1>1, MarkedElsewhere DEF nightVars
<1>2. ASSUME NEW s \in Sessions \cup {NoOne}, SessionEnds(s)
      PROVE  MarkInv'
  <2>1. s \notin Subjects
    BY FleetAssumption DEF Subjects
  <2> QED
    BY <1>2, <2>1, MarkPosts DEF SessionEnds, MarkInv
<1>3. CASE Gather
  <2>1. pass = NoPass /\ UNCHANGED <<posted, marker, open>>
    BY <1>3 DEF Gather
  <2>2. pass'.subject = NoOne /\ pass' \in [todo : SUBSET Subjects, subject : Subjects \cup {NoOne}]
    BY <1>0, <1>3 DEF Gather, NoPass, Wanted
  <2> QED
    BY <1>0, <2>1, <2>2 DEF MarkInv, Alive
<1>4. CASE PassDies
  BY <1>0, <1>4 DEF PassDies, NoPass, MarkInv, Alive
<1>5. ASSUME NEW s \in Subjects, Claim(s)
      PROVE  MarkInv'
  <2>1. /\ pass.subject = NoOne /\ UNCHANGED <<posted, open>>
        /\ \/ s \notin marker /\ marker' = marker \cup {s} /\ pass'.subject = s
           \/ marker' = marker /\ pass'.subject = NoOne
        /\ pass' \in [todo : SUBSET Subjects, subject : Subjects \cup {NoOne}]
    BY <1>5 DEF Claim, Free, MarkInv
  <2> QED
    BY <1>0, <2>1 DEF MarkInv, Alive
<1>6. ASSUME NEW s \in Subjects, PostTask(s)
      PROVE  MarkInv'
  <2>1. /\ pass.subject = s /\ pass'.subject = NoOne /\ UNCHANGED open
        /\ pass' \in [todo : SUBSET Subjects, subject : Subjects \cup {NoOne}]
    BY <1>6 DEF PostTask, MarkInv
  <2>2. \/ Len(posted) < MaxPosted /\ posted' = Posted(s) /\ marker' = marker
        \/ UNCHANGED posted /\ marker' = marker \ {s}
    BY <1>6 DEF PostTask
  <2>3. CASE Len(posted) < MaxPosted /\ posted' = Posted(s) /\ marker' = marker
    BY <2>1, <2>3, MarkPosts
  <2>4. CASE UNCHANGED posted /\ marker' = marker \ {s}
    BY <1>0, <2>1, <2>4 DEF MarkInv, Alive
  <2> QED
    BY <2>2, <2>3, <2>4
<1>7. ASSUME NEW s \in Subjects, MarkerGone(s)
      PROVE  MarkInv'
  <2>1. /\ UNCHANGED <<posted, pass, open>> /\ marker' = marker \ {s} /\ pass.subject # s
        /\ \A n \in DOMAIN posted : posted[n].subject = s => posted[n].status = "gone"
    BY <1>7 DEF MarkerGone
  <2> QED
    BY <2>1 DEF MarkInv, Alive
<1>8. ASSUME NEW s \in Subjects, RejectDraft(s) \/ Settle(s)
      PROVE  MarkInv'
  BY <1>0, <1>8, MarkedElsewhere DEF RejectDraft, Settle
<1>9. ASSUME NEW n \in TaskIds, TaskGone(n) \/ LeaseLapses(n)
      PROVE  MarkInv'
  <2>1. UNCHANGED open
    BY <1>9 DEF TaskGone, LeaseLapses
  <2> QED
    BY <1>0, <1>9, <2>1, MarkedElsewhere DEF LeaseLapses
<1>10. ASSUME NEW w \in Shifts,
              GoOnDuty(w) \/ ListJob(w) \/ LeaseTask(w) \/ AskModel(w) \/ WriteResult(w)
                \/ Release(w) \/ ShiftDies(w)
       PROVE  MarkInv'
  <2>1. UNCHANGED <<posted, marker, pass, open>>
    BY <1>10 DEF GoOnDuty, ListJob, LeaseTask, AskModel, WriteResult, Release, ShiftDies
  <2> QED
    BY <1>0, <2>1, MarkedElsewhere
<1>11. ASSUME NEW w \in Shifts, CloseSpare(w) \/ Complete(w) \/ MarkFailed(w)
       PROVE  MarkInv'
  <2>1. UNCHANGED open
    BY <1>11 DEF CloseSpare, Complete, MarkFailed
  <2> QED
    BY <1>0, <1>11, <2>1, MarkedElsewhere
<1> QED
  BY <1>1, <1>2, <1>3, <1>4, <1>5, <1>6, <1>7, <1>8, <1>9, <1>10, <1>11 DEF NightNext

\* As long as Cortex hears of every task it posts, the marker it claims before a
\* post keeps a stale skill to one task (enqueue.py, _claim and _send).
THEOREM OneTaskPerFinding ==
  ASSUME "post" \notin Lost
  PROVE  NightSpec => []OneLiveRewrite
<1>1. NightInit => MarkInv
  BY FleetAssumption DEF NightInit, MarkInv, NoPass, Subjects, Alive
<1>2. IInv /\ MarkInv /\ [NightNext]_nightVars => MarkInv'
  BY MarkStep
<1>3. IInv /\ MarkInv => OneLiveRewrite
  <2> SUFFICES ASSUME IInv, MarkInv, NEW s \in Skills
               PROVE  Cardinality({n \in DOMAIN posted :
                         posted[n].subject = s /\ posted[n].status = "pending"}) <= 1
    BY DEF OneLiveRewrite
  <2> DEFINE T == {n \in DOMAIN posted : posted[n].subject = s /\ posted[n].status = "pending"}
  <2>1. \A m, n \in T : m = n
    BY DEF MarkInv, Alive, Subjects
  <2>2. CASE T = {}
    BY <2>2, FS_EmptySet
  <2>3. CASE T # {}
    <3>1. PICK n \in T : T = {n}
      BY <2>1, <2>3
    <3> QED
      BY <3>1, FS_Singleton
  <2> QED
    BY <2>2, <2>3
<1> QED
  BY <1>1, <1>2, <1>3, NightInvariant, PTL DEF NightSpec
================================================================================

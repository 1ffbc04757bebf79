--------------------------- MODULE HandsPermitsProofs --------------------------
(***************************************************************************)
(* The approval broker for every number of permits, challenges, relay      *)
(* tasks and credentials: that permits keep the rules of PermitRules, and  *)
(* what an answer on the dashboard can decide.  And its announcer, for     *)
(* every number of threads: what pending.json and the toasts show.         *)
(***************************************************************************)
EXTENDS HandsPermits, HandsAnnounce, TLAPS

IInv == /\ PermitTypeOK /\ StoreInv /\ VisitInv /\ TaskInv
        /\ SpentInv /\ HandInv /\ EndorsedInv /\ TrackInv
        /\ PhoneApprovalIsAnothers /\ OneTapOnePermit

-------------------------------------------------------------------------------
(* What the methods of the store do to permits.                             *)

\* A held permit was made, and is held under its own challenge.
LEMMA HeldIsMade ==
  ASSUME PermitTypeOK, StoreInv, NEW p \in Held
  PROVE  /\ p \in Permits /\ Made(p) /\ p # NoPermit
         /\ permit[p].challenge \in Challenges /\ book[permit[p].challenge] = p
<1>1. PICK c \in Challenges : book[c] = p
  BY DEF Held
<1> QED
  BY <1>1, PermitConstants DEF Held, StoreInv

\* A sweep changes the state of permits that are held and due, and nothing else.
LEMMA SweptIs ==
  ASSUME PermitTypeOK, StoreInv
  PROVE  /\ Swept \in [Permits -> PermitRecords \cup {NoPermit}]
         /\ \A p \in Permits :
              \/ Swept[p] = permit[p]
              \/ /\ p \in Held /\ Made(p) /\ permit[p].state \in LiveStates
                 /\ now >= Deadline(p)
                 /\ Swept[p] = [permit[p] EXCEPT !.state = "expired"]
<1>1. ASSUME NEW p \in Permits, Expires(p)
      PROVE  /\ Made(p) /\ p \in Held /\ now >= Deadline(p)
             /\ permit[p] \in PermitRecords /\ permit[p].state \in LiveStates
             /\ [permit[p] EXCEPT !.state = "expired"] \in PermitRecords
  <2>1. Made(p) /\ permit[p] \in PermitRecords
    BY <1>1, HeldIsMade DEF Expires, Made, PermitTypeOK
  <2> QED
    BY <1>1, <2>1 DEF Expires, PermitRecords, States
<1> QED
  BY <1>1 DEF Swept, PermitTypeOK

\* The same, field by field.
LEMMA SweptFields ==
  ASSUME PermitTypeOK, StoreInv, NEW p \in Permits
  PROVE  /\ Made(p) <=> Swept[p] # NoPermit
         /\ Made(p) =>
              /\ permit[p] \in PermitRecords /\ Swept[p] \in PermitRecords
              /\ Swept[p].challenge = permit[p].challenge
              /\ Swept[p].created = permit[p].created
              /\ Swept[p].via = permit[p].via
              /\ Swept[p].tap = permit[p].tap
              /\ Swept[p].phone_task_id = permit[p].phone_task_id
              /\ Swept[p].state \in {permit[p].state, "expired"}
<1>1. CASE Swept[p] = permit[p]
  BY <1>1 DEF Made, PermitTypeOK
<1>2. CASE /\ Made(p) /\ permit[p].state \in LiveStates
           /\ Swept[p] = [permit[p] EXCEPT !.state = "expired"]
  <2>1. permit[p] \in PermitRecords /\ Swept[p] \in PermitRecords
    BY <1>2, SweptIs, NothingIsARecord DEF Made, PermitTypeOK, PermitRecords, States
  <2> QED
    BY <1>2, <2>1, NothingIsARecord DEF PermitRecords, Made
<1> QED
  BY <1>1, <1>2, SweptIs

LEMMA SweptBookIs ==
  ASSUME PermitTypeOK
  PROVE  /\ SweptBook \in [Challenges -> Permits \cup {NoPermit}]
         /\ \A c \in Challenges : SweptBook[c] \in {book[c], NoPermit}
BY DEF SweptBook, PermitTypeOK

\* Every step makes at most one permit, decides at most one, spends at most one,
\* shows at most one, or leaves them to a sweep.
MadeNow(c, p) ==
  /\ permit[p] = NoPermit
  /\ permit' = [Swept EXCEPT ![p] =
       [challenge |-> c, created |-> now, state |-> "pending",
        via |-> "none", phone_task_id |-> NoTask, tap |-> NoTask]]
  /\ book' = [SweptBook EXCEPT ![c] = p]
SpentNow(c) == /\ Spendable(c) /\ book' = SweptBook
               /\ permit' = [Swept EXCEPT ![SweptBook[c]].state = "consumed"]
ShownNow(p, t) == /\ bridge.pc = "post" /\ p \in bridge.todo
                  /\ Made(p) /\ permit[p].phone_task_id = NoTask
                  /\ task[t] = NoTask /\ task'[t] # NoTask
                  /\ bridge' = [bridge EXCEPT !.todo = @ \ {p}]
                  /\ permit' = [permit EXCEPT ![p].phone_task_id = t]
                  /\ opened' = [opened EXCEPT ![permit[p].challenge] = t]
                  /\ UNCHANGED book

Vias == {"chord", "phone", "phone-refused"}
DecidedNow(c, d, v, t) ==
  /\ Decidable(c) /\ Decided(c, d, v, t)
  /\ \/ v = "chord" /\ t = NoTask
     \/ /\ Decide /\ c = bridge.challenge /\ t = bridge.tap
        /\ \/ v = "phone" /\ d = bridge.verdict
           \/ v = "phone-refused" /\ d = "deny"

\* What the bridge posts it puts in its table, unless the reply is lost.
LEMMA PostIs ==
  ASSUME IInv, NEW p \in Permits, Post(p)
  PROVE  \/ UNCHANGED <<permit, book, opened>>
         \/ \E t \in Tasks : ShownNow(p, t)
<1>1. Made(p)
  BY DEF Post, IInv, VisitInv
<1>2. permit[p].challenge \in Challenges
  BY <1>1 DEF IInv, PermitTypeOK, Made, PermitRecords
<1>3. task \in [Tasks -> TaskRecords \cup {NoTask}]
  BY DEF IInv, PermitTypeOK
<1>4. [challenge |-> permit[p].challenge, answer |-> "pending",
       completed_by |-> NoCred, endorsed |-> FALSE] \in TaskRecords
  BY <1>2 DEF TaskRecords
<1> QED
  BY <1>1, <1>3, <1>4, NothingIsARecord DEF Post, Step, ShownNow

LEMMA StepKinds ==
  ASSUME IInv, PermitNext
  PROVE  \/ Look
         \/ \E c \in Challenges, p \in Permits : MadeNow(c, p)
         \/ \E c \in Challenges, d \in Answers, v \in Vias, t \in Tasks \cup {NoTask} :
              DecidedNow(c, d, v, t)
         \/ \E c \in Challenges : SpentNow(c)
         \/ \E p \in Permits, t \in Tasks : ShownNow(p, t)
         \/ UNCHANGED <<permit, book>>
         \/ UNCHANGED permit /\ book' = [c \in Challenges |-> NoPermit]
<1>1. ASSUME NEW c \in Challenges, Request(c)
      PROVE  Look \/ \E p \in Permits : MadeNow(c, p)
  BY <1>1 DEF Request, MadeNow
<1>2. ASSUME NEW c \in Challenges, Consume(c)
      PROVE  Look \/ SpentNow(c)
  BY <1>2 DEF Consume, SpentNow
<1>3. ASSUME NEW d \in Answers, Chord(d)
      PROVE  \E c \in Challenges : DecidedNow(c, d, "chord", NoTask)
  <2>1. PICK p \in Pending : Decided(permit[p].challenge, d, "chord", NoTask)
    BY <1>3 DEF Chord
  <2>2. p \in Permits /\ Made(p) /\ permit[p].challenge \in Challenges
        /\ book[permit[p].challenge] = p /\ Swept[p].state = "pending"
    BY HeldIsMade DEF Pending, IInv
  <2>3. Decidable(permit[p].challenge)
    BY <2>2, PermitConstants DEF Decidable, SweptBook, LiveStates
  <2> QED
    BY <2>1, <2>2, <2>3 DEF DecidedNow
<1>4. CASE Decide
  <2>1. bridge.challenge \in Challenges /\ bridge.tap \in Tasks
        /\ bridge.verdict \in Answers \cup {"refuse"}
    BY <1>4 DEF Decide, IInv, HandInv
  <2> QED
    BY <1>4, <2>1 DEF Decide, Answers, Vias, DecidedNow
<1>5. ASSUME NEW p \in Permits, Post(p)
      PROVE  UNCHANGED <<permit, book>> \/ \E t \in Tasks : ShownNow(p, t)
  BY <1>5, PostIs
<1>6. CASE PostNew \/ PollOpen \/ \E c \in Challenges : Close(c)
  BY <1>6 DEF PostNew, PollOpen, Close
<1>7. CASE CloseResolved \/ TickEnd \/ Tick \/ \E p \in Permits : Poll(p)
  BY <1>7 DEF CloseResolved, TickEnd, Tick, Poll
<1>8. CASE UpdateTasks(Tasks)
  BY <1>8 DEF UpdateTasks, UpdateTask
<1>9. CASE BrokerRestart
  BY <1>9 DEF BrokerRestart
<1> QED
  BY <1>1, <1>2, <1>3, <1>4, <1>5, <1>6, <1>7, <1>8, <1>9
  DEF PermitNext, Local, PhoneTick, Vias

-------------------------------------------------------------------------------
(* What each kind of step leaves behind.                                    *)

\* A permit that still has the state of a living one after a sweep is not due,
\* and the sweep left it as it was.
LEMMA Spared ==
  ASSUME IInv, NEW c \in Challenges, NEW s \in LiveStates,
         SweptBook[c] # NoPermit, Swept[SweptBook[c]].state = s
  PROVE  /\ SweptBook[c] \in Permits /\ SweptBook[c] = book[c] /\ Made(book[c])
         /\ book[c] \in Held /\ permit[book[c]].challenge = c
         /\ permit[book[c]] \in PermitRecords
         /\ permit[book[c]].state = s /\ Swept[book[c]] = permit[book[c]]
         /\ ~(now >= Deadline(book[c]))
<1> DEFINE p == book[c]
<1>1. SweptBook[c] = p /\ p \in Permits /\ Made(p) /\ p \in Held
      /\ permit[p].challenge = c
  BY SweptBookIs DEF IInv, PermitTypeOK, StoreInv, Held
<1>2. permit[p] \in PermitRecords
  BY <1>1, SweptFields DEF IInv
<1>3. ~Expires(p)
  <2> SUFFICES ASSUME Expires(p) PROVE FALSE
    OBVIOUS
  <2>1. Swept[p] = [permit[p] EXCEPT !.state = "expired"]
    BY <1>1 DEF Swept
  <2> QED
    BY <1>1, <1>2, <2>1 DEF PermitRecords, LiveStates
<1>4. Swept[p] = permit[p]
  BY <1>1, <1>3 DEF Swept
<1> QED
  BY <1>1, <1>2, <1>3, <1>4 DEF Expires

AnswerOn(p, d, v, t) ==
  [permit[p] EXCEPT !.state = Landed(d), !.via = v, !.tap = t]

LEMMA DecidedIs ==
  ASSUME IInv, NEW c \in Challenges, NEW d \in Answers, NEW v \in Vias,
         NEW t \in Tasks \cup {NoTask}, DecidedNow(c, d, v, t)
  PROVE  /\ book[c] \in Permits /\ Waits(book[c]) /\ Made(book[c])
         /\ permit[book[c]].challenge = c /\ ~(now >= Deadline(book[c]))
         /\ permit[book[c]] \in PermitRecords
         /\ permit'[book[c]] = AnswerOn(book[c], d, v, t)
         /\ \A q \in Permits \ {book[c]} : permit'[q] = Swept[q]
         /\ DOMAIN permit' = Permits /\ book' = SweptBook
<1>1. PICK s \in LiveStates : s = "pending" /\ Swept[SweptBook[c]].state = s
  BY DEF DecidedNow, Decidable, LiveStates
<1>2. Swept \in [Permits -> PermitRecords \cup {NoPermit}]
  BY SweptIs DEF IInv
<1> QED
  BY <1>1, <1>2, Spared DEF DecidedNow, Decidable, Decided, Waits, AnswerOn

LEMMA SpentIs ==
  ASSUME IInv, NEW c \in Challenges, SpentNow(c)
  PROVE  /\ book[c] \in Permits /\ Made(book[c])
         /\ permit[book[c]].state = "approved" /\ ~(now >= Deadline(book[c]))
         /\ permit[book[c]] \in PermitRecords
         /\ permit'[book[c]] = [permit[book[c]] EXCEPT !.state = "consumed"]
         /\ \A q \in Permits \ {book[c]} : permit'[q] = Swept[q]
         /\ DOMAIN permit' = Permits /\ book' = SweptBook
<1>1. PICK s \in LiveStates : s = "approved" /\ Swept[SweptBook[c]].state = s
  BY DEF SpentNow, Spendable, LiveStates
<1>2. Swept \in [Permits -> PermitRecords \cup {NoPermit}]
  BY SweptIs DEF IInv
<1> QED
  BY <1>1, <1>2, Spared DEF SpentNow, Spendable

\* A permit that was made stays made, for the same challenge and with the same
\* expiry; it never waits again; how it was decided is written by the decision,
\* and its task by the post.
LEMMA PermitFrame ==
  ASSUME IInv, PermitNext, NEW p \in Permits, Made(p)
  PROVE  /\ permit[p] \in PermitRecords
         /\ permit'[p] \in PermitRecords /\ permit'[p] # NoPermit
         /\ permit'[p].challenge = permit[p].challenge
         /\ permit'[p].created = permit[p].created
         /\ permit'[p].state = "pending" => permit[p].state = "pending"
         /\ permit[p].state = "denied" => permit'[p].state = "denied"
         /\ \/ permit'[p].via = permit[p].via /\ permit'[p].tap = permit[p].tap
            \/ \E c \in Challenges, d \in Answers, v \in Vias, t \in Tasks \cup {NoTask} :
                 /\ DecidedNow(c, d, v, t) /\ p = book[c]
                 /\ permit'[p].via = v /\ permit'[p].tap = t
                 /\ permit'[p].state = Landed(d)
         /\ \/ permit'[p].phone_task_id = permit[p].phone_task_id
            \/ \E t \in Tasks : ShownNow(p, t) /\ permit'[p].phone_task_id = t
<1>1. permit[p] \in PermitRecords
  BY SweptFields DEF IInv
<1>2. CASE permit'[p] = Swept[p]
  <2>1. Swept[p].state # permit[p].state => permit[p].state \in LiveStates
    BY SweptIs DEF IInv
  <2> QED
    BY <1>1, <1>2, <2>1, SweptFields, NothingIsARecord DEF IInv, Made, LiveStates
<1>3. ASSUME NEW c \in Challenges, NEW d \in Answers, NEW v \in Vias,
             NEW t \in Tasks \cup {NoTask}, DecidedNow(c, d, v, t), p = book[c]
      PROVE  /\ permit'[p] \in PermitRecords
             /\ permit'[p].challenge = permit[p].challenge
             /\ permit'[p].created = permit[p].created
             /\ permit'[p].state # "pending" /\ permit[p].state = "pending"
             /\ permit'[p].via = v /\ permit'[p].tap = t
             /\ permit'[p].state = Landed(d)
             /\ permit'[p].phone_task_id = permit[p].phone_task_id
  <2>1. permit'[p] = AnswerOn(p, d, v, t) /\ Waits(p)
    BY <1>3, DecidedIs
  <2> QED
    BY <1>1, <1>3, <2>1
    DEF AnswerOn, PermitRecords, Landed, States, Vias, LiveStates, Waits
<1>4. ASSUME NEW c \in Challenges, SpentNow(c), p = book[c]
      PROVE  /\ permit'[p] \in PermitRecords
             /\ permit'[p].challenge = permit[p].challenge
             /\ permit'[p].created = permit[p].created
             /\ permit'[p].state # "pending" /\ permit[p].state # "denied"
             /\ permit'[p].via = permit[p].via /\ permit'[p].tap = permit[p].tap
             /\ permit'[p].phone_task_id = permit[p].phone_task_id
  <2>1. permit'[p] = [permit[p] EXCEPT !.state = "consumed"]
        /\ permit[p].state = "approved"
    BY <1>4, SpentIs
  <2> QED
    BY <1>1, <2>1 DEF PermitRecords, States, LiveStates
<1>5. ASSUME NEW t \in Tasks, ShownNow(p, t)
      PROVE  /\ permit'[p] \in PermitRecords
             /\ permit'[p].challenge = permit[p].challenge
             /\ permit'[p].created = permit[p].created
             /\ permit'[p].state = permit[p].state /\ permit'[p].via = permit[p].via
             /\ permit'[p].tap = permit[p].tap
             /\ permit'[p].phone_task_id = t
  <2>1. permit'[p] = [permit[p] EXCEPT !.phone_task_id = t]
    BY <1>5 DEF ShownNow, IInv, PermitTypeOK
  <2> QED
    BY <1>1, <2>1 DEF PermitRecords
<1>6. permit'[p] = Swept[p] \/ permit'[p] = permit[p]
      \/ (\E c \in Challenges, d \in Answers, v \in Vias, t \in Tasks \cup {NoTask} :
            DecidedNow(c, d, v, t) /\ p = book[c])
      \/ (\E c \in Challenges : SpentNow(c) /\ p = book[c])
      \/ (\E t \in Tasks : ShownNow(p, t))
  <2>1. ASSUME NEW c \in Challenges, NEW q \in Permits, MadeNow(c, q)
        PROVE  permit'[p] = Swept[p]
    BY <2>1, SweptIs DEF MadeNow, Made, IInv
  <2>2. ASSUME NEW q \in Permits, NEW t \in Tasks, ShownNow(q, t), q # p
        PROVE  permit'[p] = permit[p]
    BY <2>2 DEF ShownNow, IInv, PermitTypeOK
  <2>3. Look => permit'[p] = Swept[p]
    BY DEF Look
  <2>4. ASSUME NEW c \in Challenges, NEW d \in Answers, NEW v \in Vias,
               NEW t \in Tasks \cup {NoTask}, DecidedNow(c, d, v, t), p # book[c]
        PROVE  permit'[p] = Swept[p]
    BY <2>4, DecidedIs
  <2>5. ASSUME NEW c \in Challenges, SpentNow(c), p # book[c]
        PROVE  permit'[p] = Swept[p]
    BY <2>5, SpentIs
  <2> QED
    BY StepKinds, <2>1, <2>2, <2>3, <2>4, <2>5
<1>7. CASE permit'[p] = permit[p]
  BY <1>1, <1>7, NothingIsARecord
<1> QED
  BY <1>1, <1>2, <1>3, <1>4, <1>5, <1>6, <1>7, NothingIsARecord

\* A permit that was not made is made by a request, pending and without a task,
\* or stays unmade.
LEMMA FreshFrame ==
  ASSUME IInv, PermitNext, NEW p \in Permits, ~Made(p)
  PROVE  \/ permit'[p] = NoPermit
         \/ \E c \in Challenges :
              /\ MadeNow(c, p) /\ permit'[p] \in PermitRecords
              /\ permit'[p].challenge = c /\ permit'[p].created = now
              /\ permit'[p].state = "pending" /\ permit'[p].via = "none"
              /\ permit'[p].phone_task_id = NoTask /\ permit'[p].tap = NoTask
<1>1. Swept \in [Permits -> PermitRecords \cup {NoPermit}] /\ Swept[p] = NoPermit
  BY SweptIs, SweptFields DEF IInv
<1>2. CASE Look
  BY <1>1, <1>2 DEF Look
<1>3. ASSUME NEW c \in Challenges, NEW q \in Permits, MadeNow(c, q), q # p
      PROVE  permit'[p] = NoPermit
  BY <1>1, <1>3 DEF MadeNow
<1>4. ASSUME NEW c \in Challenges, MadeNow(c, p)
      PROVE  /\ permit'[p] \in PermitRecords
             /\ permit'[p].challenge = c /\ permit'[p].created = now
             /\ permit'[p].state = "pending" /\ permit'[p].via = "none"
             /\ permit'[p].phone_task_id = NoTask /\ permit'[p].tap = NoTask
  BY <1>1, <1>4 DEF MadeNow, PermitRecords, States, LiveStates, IInv, PermitTypeOK
<1>5. ASSUME NEW c \in Challenges, NEW d \in Answers, NEW v \in Vias,
             NEW t \in Tasks \cup {NoTask}, DecidedNow(c, d, v, t)
      PROVE  permit'[p] = NoPermit
  BY <1>1, <1>5, DecidedIs
<1>6. ASSUME NEW c \in Challenges, SpentNow(c)
      PROVE  permit'[p] = NoPermit
  BY <1>1, <1>6, SpentIs
<1>7. ASSUME NEW q \in Permits, NEW t \in Tasks, ShownNow(q, t)
      PROVE  permit'[p] = NoPermit
  BY <1>7 DEF ShownNow, IInv, PermitTypeOK, Made
<1> QED
  BY StepKinds, <1>2, <1>3, <1>4, <1>5, <1>6, <1>7 DEF Made

\* What a challenge names is forgotten, replaced by a new permit, or kept.
LEMMA BookFrame ==
  ASSUME IInv, PermitNext, NEW c \in Challenges
  PROVE  /\ book' \in [Challenges -> Permits \cup {NoPermit}]
         /\ book'[c] \in {book[c], NoPermit} \/ MadeNow(c, book'[c])
<1>1. /\ SweptBook \in [Challenges -> Permits \cup {NoPermit}]
      /\ SweptBook[c] \in {book[c], NoPermit}
      /\ book \in [Challenges -> Permits \cup {NoPermit}]
  BY SweptBookIs DEF IInv, PermitTypeOK
<1>2. ASSUME NEW d \in Challenges, NEW q \in Permits, MadeNow(d, q)
      PROVE  /\ book' \in [Challenges -> Permits \cup {NoPermit}]
             /\ book'[c] \in {book[c], NoPermit} \/ MadeNow(c, book'[c])
  <2>1. book' = [SweptBook EXCEPT ![d] = q]
    BY <1>2 DEF MadeNow
  <2>2. CASE c = d
    BY <1>1, <1>2, <2>1, <2>2
  <2>3. CASE c # d
    BY <1>1, <1>2, <2>1, <2>3
  <2> QED
    BY <2>2, <2>3
<1> QED
  BY <1>1, <1>2, StepKinds, DecidedIs DEF Look, SpentNow, ShownNow

LEMMA DecidedState ==
  ASSUME IInv, NEW c \in Challenges, NEW d \in Answers, NEW v \in Vias,
         NEW t \in Tasks \cup {NoTask}, DecidedNow(c, d, v, t)
  PROVE  permit'[book[c]].state = Landed(d)
<1>1. permit'[book[c]] = AnswerOn(book[c], d, v, t) /\ permit[book[c]] \in PermitRecords
  BY DecidedIs
<1> QED
  BY <1>1 DEF AnswerOn, PermitRecords

\* A permit that waits after a step waited before it, or was just made.
LEMMA WaitsFrame ==
  ASSUME IInv, PermitNext, NEW p \in Permits, Made(p), Waits(p)'
  PROVE  Waits(p)
<1>1. PICK c \in Challenges : book'[c] = p
  BY DEF Waits, Held
<1>2. book[c] = p
  BY <1>1, BookFrame, PermitConstants DEF MadeNow, Made
<1> QED
  BY <1>2, PermitFrame DEF Waits, Held

\* Relay never loses a task, and never takes an endorsement back.
LEMMA TaskFrame ==
  ASSUME IInv, PermitNext
  PROVE  /\ task' \in [Tasks -> TaskRecords \cup {NoTask}]
         /\ \A t \in Tasks : task[t] # NoTask =>
              task'[t] # NoTask /\ (task[t].endorsed => task'[t].endorsed)
<1>1. task \in [Tasks -> TaskRecords \cup {NoTask}]
  BY DEF IInv, PermitTypeOK
<1>2. CASE UNCHANGED task
  BY <1>1, <1>2
<1>3. ASSUME NEW u \in Tasks, NEW r \in TaskRecords, task' = [task EXCEPT ![u] = r],
             task[u] # NoTask => r.endorsed \in BOOLEAN /\ (task[u].endorsed => r.endorsed)
      PROVE  /\ task' \in [Tasks -> TaskRecords \cup {NoTask}]
             /\ \A t \in Tasks : task[t] # NoTask =>
                  task'[t] # NoTask /\ (task[t].endorsed => task'[t].endorsed)
  BY <1>1, <1>3, NothingIsARecord
<1>4. ASSUME NEW u \in Tasks, NEW a \in Answers \cup {"pending"}, NEW cred \in Creds,
             UpdateTask(u, a, cred)
      PROVE  \E r \in TaskRecords : /\ task' = [task EXCEPT ![u] = r]
                                    /\ task[u].endorsed => r.endorsed
  <2> DEFINE r == [task[u] EXCEPT !.answer = a,
                     !.completed_by = IF a = "pending" THEN NoCred ELSE cred,
                     !.endorsed = @ \/ (a = "approve" /\ cred \in Others)]
  <2>1. task[u] \in TaskRecords
    BY <1>1, <1>4 DEF UpdateTask
  <2>2. r \in TaskRecords /\ (task[u].endorsed => r.endorsed)
    BY <2>1 DEF TaskRecords
  <2>3. task' = [task EXCEPT ![u] = r]
    BY <1>1, <1>4, <2>1 DEF UpdateTask, TaskRecords
  <2> QED
    BY <2>2, <2>3
<1>5. ASSUME NEW p \in Permits, Post(p)
      PROVE  \/ UNCHANGED task
             \/ \E u \in Tasks, r \in TaskRecords :
                  task[u] = NoTask /\ task' = [task EXCEPT ![u] = r]
  <2>1. Made(p)
    BY <1>5 DEF Post, IInv, VisitInv
  <2>2. permit[p].challenge \in Challenges
    BY <2>1 DEF IInv, PermitTypeOK, Made, PermitRecords
  <2> QED
    BY <1>5, <2>2 DEF Post, TaskRecords
<1>6. ASSUME NEW c \in Challenges, Close(c), ~UNCHANGED task
      PROVE  \E u \in Tasks, r \in TaskRecords :
               task' = [task EXCEPT ![u] = r] /\ (task[u].endorsed => r.endorsed)
  <2> DEFINE u == opened[c]
             r == [task[u] EXCEPT !.answer = "deny", !.completed_by = Requester]
  <2>1. task' = [task EXCEPT ![u] = r]
    BY <1>1, <1>6 DEF Close
  <2>2. u \in Tasks /\ task[u] \in TaskRecords
    <3>1. u # NoTask => task[u] # NoTask /\ u \in Tasks
      BY DEF IInv, TaskInv, PermitTypeOK
    <3>2. u # NoTask
      BY <1>1, <1>6, <2>1, PermitConstants
    <3> QED
      BY <1>1, <3>1, <3>2
  <2>3. r \in TaskRecords /\ (task[u].endorsed => r.endorsed)
    BY <2>2, PermitConstants DEF TaskRecords, Answers
  <2> QED
    BY <2>1, <2>2, <2>3
<1>7. \/ UNCHANGED task
      \/ \E u \in Tasks, r \in TaskRecords :
           /\ task' = [task EXCEPT ![u] = r]
           /\ task[u] # NoTask => (task[u].endorsed => r.endorsed)
  BY <1>4, <1>5, <1>6
  DEF PermitNext, Local, PhoneTick, UpdateTasks, Request, Consume, Chord, PostNew,
      PollOpen, Poll, Decide, CloseResolved, TickEnd, Tick, BrokerRestart
<1> QED
  BY <1>2, <1>3, <1>7 DEF TaskRecords

\* A task the bridge reads is one that relay has, and its answer is a verdict.
LEMMA ReadTask ==
  ASSUME IInv, NEW p \in Permits, Made(p), NEW t \in TaskOf(p)
  PROVE  /\ t \in Tasks /\ t = permit[p].phone_task_id /\ t # NoTask
         /\ task[t] \in TaskRecords /\ task[t] # NoTask
         /\ Verdict(t) \in Answers \cup {"pending", "refuse"}
<1>1. t \in Tasks /\ t = permit[p].phone_task_id /\ t # NoTask
  BY DEF IInv, PermitTypeOK, Made, PermitRecords, TaskOf
<1>2. task[t] # NoTask /\ task[t] \in TaskRecords
  BY <1>1 DEF IInv, TaskInv, PermitTypeOK
<1> QED
  BY <1>1, <1>2 DEF Verdict, TaskRecords

\* What the bridge takes from a task it has read.
LEMMA PollIs ==
  ASSUME IInv, NEW p \in Permits, Poll(p)
  PROVE  /\ Made(p) /\ p \in bridge.todo /\ bridge.pc = "poll"
         /\ bridge' \in Bridges /\ bridge'.todo = bridge.todo \ {p}
         /\ \/ bridge'.pc = "poll"
            \/ /\ bridge'.pc = "decide" /\ bridge'.challenge = permit[p].challenge
               /\ \E t \in TaskOf(p) : /\ bridge'.tap = t /\ bridge'.verdict = Verdict(t)
                                      /\ Verdict(t) # "pending"
<1>1. Made(p) /\ p \in bridge.todo /\ bridge.pc = "poll" /\ bridge \in Bridges
  BY DEF Poll, IInv, VisitInv, PermitTypeOK
<1>2. permit[p].challenge \in Challenges
  BY <1>1 DEF IInv, PermitTypeOK, PermitRecords, Made
<1> DEFINE rest == [bridge EXCEPT !.todo = @ \ {p}]
<1>3. rest \in Bridges /\ rest.todo = bridge.todo \ {p} /\ rest.pc = "poll"
  BY <1>1 DEF Bridges
<1>4. ASSUME NEW t \in TaskOf(p), Verdict(t) # "pending",
             bridge' = [rest EXCEPT !.pc = "decide", !.challenge = permit[p].challenge,
                                    !.tap = t, !.verdict = Verdict(t)]
      PROVE  /\ bridge' \in Bridges /\ bridge'.todo = bridge.todo \ {p}
             /\ bridge'.pc = "decide" /\ bridge'.challenge = permit[p].challenge
             /\ bridge'.tap = t /\ bridge'.verdict = Verdict(t)
  <2>1. t \in Tasks /\ Verdict(t) \in Answers \cup {"refuse"}
    BY <1>1, <1>4, ReadTask
  <2> HIDE DEF rest
  <2> QED
    BY <1>2, <1>3, <1>4, <2>1 DEF Bridges
<1>5. \/ bridge' = rest
      \/ \E t \in TaskOf(p) :
           /\ Verdict(t) # "pending"
           /\ bridge' = [rest EXCEPT !.pc = "decide", !.challenge = permit[p].challenge,
                                     !.tap = t, !.verdict = Verdict(t)]
  BY DEF Poll, Step
<1> HIDE DEF rest
<1> QED
  BY <1>1, <1>3, <1>4, <1>5

-------------------------------------------------------------------------------
(* Each part of the invariant, through every step.                          *)

\* The store: permits.py:58-226.
LEMMA StoreStep == ASSUME IInv, PermitNext PROVE StoreInv'
<1>1. ASSUME NEW c \in Challenges, book'[c] # NoPermit
      PROVE  permit'[book'[c]] # NoPermit /\ permit'[book'[c]].challenge = c
  <2>1. CASE book'[c] = book[c]
    <3>1. book[c] \in Permits /\ Made(book[c]) /\ permit[book[c]].challenge = c
      BY <1>1, <2>1 DEF IInv, StoreInv, PermitTypeOK
    <3> QED
      BY <2>1, <3>1, PermitFrame
  <2>2. CASE MadeNow(c, book'[c])
    <3>1. book'[c] \in Permits
      BY <1>1, BookFrame
    <3>2. Swept \in [Permits -> PermitRecords \cup {NoPermit}]
      BY SweptIs DEF IInv
    <3>3. permit'[book'[c]] = [challenge |-> c, created |-> now, state |-> "pending",
                               via |-> "none", phone_task_id |-> NoTask, tap |-> NoTask]
      BY <2>2, <3>1, <3>2 DEF MadeNow
    <3>4. permit'[book'[c]] \in PermitRecords
      BY <3>3 DEF PermitRecords, States, LiveStates, IInv, PermitTypeOK
    <3> QED
      BY <3>3, <3>4, NothingIsARecord
  <2> QED
    BY <1>1, <2>1, <2>2, BookFrame
<1>2. ASSUME NEW p \in Permits, permit'[p] # NoPermit, permit'[p].state = "pending"
      PROVE  permit'[p].via = "none" /\ permit'[p].tap = NoTask
  <2>1. CASE Made(p)
    <3>1. permit[p].state = "pending" /\ permit[p].via = "none" /\ permit[p].tap = NoTask
      BY <1>2, <2>1, PermitFrame DEF IInv, StoreInv
    <3>2. \A d : Landed(d) # "pending"
      BY DEF Landed
    <3> QED
      BY <1>2, <2>1, <3>1, <3>2, PermitFrame
  <2>2. CASE ~Made(p)
    BY <1>2, <2>2, FreshFrame
  <2> QED
    BY <2>1, <2>2
<1> QED
  BY <1>1, <1>2 DEF StoreInv, Made

\* Type correctness of every variable.
LEMMA TypeStep == ASSUME IInv, PermitNext PROVE PermitTypeOK'
<1>1. permit' \in [Permits -> PermitRecords \cup {NoPermit}]
  <2>1. permit' = [p \in Permits |-> permit'[p]]
    <3>1. Swept \in [Permits -> PermitRecords \cup {NoPermit}]
          /\ permit \in [Permits -> PermitRecords \cup {NoPermit}]
      BY SweptIs DEF IInv, PermitTypeOK
    <3> QED
      BY <3>1, StepKinds DEF Look, MadeNow, DecidedNow, Decided, SpentNow, ShownNow
  <2>2. \A p \in Permits : permit'[p] \in PermitRecords \cup {NoPermit}
    BY PermitFrame, FreshFrame
  <2> QED
    BY <2>1, <2>2
<1>2. book' \in [Challenges -> Permits \cup {NoPermit}]
  <2>1. SweptBook \in [Challenges -> Permits \cup {NoPermit}]
        /\ book \in [Challenges -> Permits \cup {NoPermit}]
    BY SweptBookIs DEF IInv, PermitTypeOK
  <2> QED
    BY <2>1, StepKinds DEF Look, MadeNow, DecidedNow, Decided, SpentNow, ShownNow
<1>3. task' \in [Tasks -> TaskRecords \cup {NoTask}]
  BY TaskFrame
<1>4. bridge' \in Bridges
  <2>1. bridge \in Bridges /\ Pending \subseteq Permits /\ AtRest \in Bridges
    BY DEF IInv, PermitTypeOK, Pending, Held, AtRest, Bridges
  <2>2. ASSUME NEW p \in Permits, Poll(p)
        PROVE  bridge' \in Bridges
    BY <2>2, PollIs
  <2>3. ASSUME NEW p \in Permits, Post(p)
        PROVE  bridge' \in Bridges
    BY <2>1, <2>3 DEF Post, Step, Bridges
  <2>4. ASSUME NEW c \in Challenges, Close(c)
        PROVE  bridge' \in Bridges
    BY <2>1, <2>4 DEF Close, Step, Bridges
  <2>5. CASE PostNew \/ PollOpen \/ Decide \/ CloseResolved \/ TickEnd
    BY <2>1, <2>5
    DEF PostNew, PollOpen, Decide, CloseResolved, TickEnd, Step, Bridges, AtRest
  <2>6. CASE UNCHANGED bridge \/ BrokerRestart
    BY <2>1, <2>6 DEF BrokerRestart
  <2> QED
    BY <2>2, <2>3, <2>4, <2>5, <2>6
    DEF PermitNext, Local, PhoneTick, UpdateTasks, UpdateTask, Request, Consume, Chord,
        Tick
<1>5. /\ now' \in Nat /\ opened' \in [Challenges -> Tasks \cup {NoTask}]
      /\ answered' \subseteq Challenges /\ refused' \subseteq Challenges
  <2> DEFINE Rest ==
        /\ now \in Nat /\ opened \in [Challenges -> Tasks \cup {NoTask}]
        /\ answered \subseteq Challenges /\ refused \subseteq Challenges
  <2>1. Rest
    BY DEF IInv, PermitTypeOK
  <2>2. ASSUME NEW p \in Permits, Post(p) PROVE Rest'
    BY <2>1, <2>2 DEF Post
  <2>3. ASSUME NEW c \in Challenges, Close(c) PROVE Rest'
    BY <2>1, <2>3 DEF Close
  <2>4. CASE Decide
    BY <2>1, <2>4 DEF Decide, IInv, HandInv
  <2>5. CASE UNCHANGED <<now, opened, answered, refused>> \/ Tick \/ BrokerRestart
    BY <2>1, <2>5 DEF Tick, BrokerRestart
  <2> QED
    BY <2>2, <2>3, <2>4, <2>5
    DEF PermitNext, Local, PhoneTick, UpdateTasks, UpdateTask, Request, Consume, Chord,
        PostNew, PollOpen, Poll, CloseResolved, TickEnd
<1> QED
  BY <1>1, <1>2, <1>3, <1>4, <1>5 DEF PermitTypeOK

\* A pass over the permits starts from those that are pending, and goes on with
\* those it has not visited.
Passes == {"post", "poll", "decide"}

LEMMA BridgeFrame ==
  ASSUME IInv, PermitNext
  PROVE  /\ bridge'.pc \in Passes =>
              \/ Look /\ bridge'.todo = Pending /\ bridge'.pc \in {"post", "poll"}
                 /\ UNCHANGED opened
              \/ /\ bridge.pc \in Passes /\ bridge'.todo \subseteq bridge.todo
                 /\ bridge'.pc = "post" => bridge.pc = "post"
                 /\ bridge'.pc = "decide" =>
                      bridge' = bridge \/ \E p \in Permits : Poll(p)
         /\ bridge'.pc = "close" => bridge'.todo \subseteq Challenges
<1>1. bridge \in Bridges
  BY DEF IInv, PermitTypeOK
<1>2. ASSUME NEW p \in Permits, Post(p)
      PROVE  /\ bridge.pc = "post" /\ bridge'.pc = "post"
             /\ bridge'.todo \subseteq bridge.todo
  BY <1>1, <1>2 DEF Post, Step, Bridges
<1>3. ASSUME NEW c \in Challenges, Close(c)
      PROVE  bridge'.pc = "close" /\ bridge'.todo \subseteq Challenges
  BY <1>1, <1>3 DEF Close, Step, Bridges, IInv, VisitInv
<1>4. CASE Decide
  BY <1>1, <1>4 DEF Decide, Step, AtRest, Passes
<1>5. CASE PostNew \/ PollOpen
  BY <1>5 DEF PostNew, PollOpen, Step, AtRest, Passes
<1>6. CASE CloseResolved
  BY <1>6 DEF CloseResolved, Step, AtRest, Passes
<1>7. CASE TickEnd \/ BrokerRestart
  BY <1>7 DEF TickEnd, BrokerRestart, Step, AtRest, Passes
<1>8. CASE UNCHANGED bridge
  BY <1>8 DEF IInv, VisitInv, Passes
<1>9. ASSUME NEW p \in Permits, Poll(p)
      PROVE  /\ bridge.pc \in Passes /\ bridge'.pc \in {"poll", "decide"}
             /\ bridge'.todo \subseteq bridge.todo
  BY <1>9, PollIs DEF Passes
<1> QED
  BY <1>2, <1>3, <1>4, <1>5, <1>6, <1>7, <1>8, <1>9
  DEF PermitNext, Local, PhoneTick, UpdateTasks, UpdateTask, Request, Consume, Chord,
      Tick, Passes

\* The bridge's walk: phone.py:118-216.
LEMMA VisitStep == ASSUME IInv, PermitNext PROVE VisitInv'
<1>1. ASSUME bridge'.pc \in Passes
      PROVE  /\ bridge'.todo \subseteq Permits
             /\ \A p \in bridge'.todo : Made(p)
             /\ \A p, q \in bridge'.todo : permit[p].challenge = permit[q].challenge => p = q
  <2>1. CASE bridge'.todo = Pending
    BY <2>1, HeldIsMade DEF Pending, IInv
  <2>2. CASE bridge.pc \in Passes /\ bridge'.todo \subseteq bridge.todo
    BY <2>2 DEF IInv, VisitInv, Passes
  <2> QED
    BY <1>1, <2>1, <2>2, BridgeFrame
<1>2. ASSUME bridge'.pc \in Passes, NEW p \in bridge'.todo
      PROVE  permit'[p] # NoPermit /\ permit'[p].challenge = permit[p].challenge
  BY <1>1, <1>2, PermitFrame
<1> QED
  BY <1>1, <1>2, BridgeFrame DEF VisitInv, Made, Passes

\* What is in the bridge's table was there before, or has just been posted; it
\* leaves by a close, when its permit no longer waits, or by a restart.
LEMMA OpenedFrame ==
  ASSUME IInv, PermitNext, NEW c \in Challenges
  PROVE  \/ opened'[c] = opened[c]
         \/ \E p \in Permits, t \in Tasks : ShownNow(p, t)
         \/ opened'[c] = NoTask /\ Look /\ Resolved(c)
         \/ opened'[c] = NoTask /\ book' = [d \in Challenges |-> NoPermit]
<1>1. ASSUME NEW p \in Permits, Post(p), opened' # opened
      PROVE  \E t \in Tasks : ShownNow(p, t)
  BY <1>1, PostIs
<1>2. ASSUME NEW d \in Challenges, Close(d)
      PROVE  opened'[c] = opened[c] \/ (opened'[c] = NoTask /\ Look /\ Resolved(c))
  BY <1>2 DEF Close, IInv, PermitTypeOK
<1>3. CASE BrokerRestart
  BY <1>3 DEF BrokerRestart
<1> QED
  BY <1>1, <1>2, <1>3
  DEF PermitNext, Local, PhoneTick, UpdateTasks, UpdateTask, Request, Consume, Chord,
      PostNew, PollOpen, Poll, Decide, CloseResolved, TickEnd, Tick

\* A post shows one permit, on a task that no permit had.
LEMMA ShownIs ==
  ASSUME IInv, NEW p \in Permits, NEW t \in Tasks, ShownNow(p, t)
  PROVE  /\ task'[t] # NoTask /\ task[t] = NoTask /\ t # NoTask
         /\ Made(p) /\ p \in bridge.todo /\ bridge.pc = "post"
         /\ bridge' = [bridge EXCEPT !.todo = @ \ {p}]
         /\ permit[p].challenge \in Challenges
         /\ opened'[permit[p].challenge] = t
         /\ \A c \in Challenges \ {permit[p].challenge} : opened'[c] = opened[c]
         /\ permit'[p].phone_task_id = t
         /\ \A q \in Permits \ {p} : permit'[q] = permit[q]
         /\ \A q \in Permits : Made(q) => permit[q].phone_task_id # t /\ permit[q].tap # t
<1>1. permit[p] \in PermitRecords /\ permit[p].challenge \in Challenges
  BY SweptFields DEF IInv, ShownNow, PermitRecords
<1>2. permit' = [permit EXCEPT ![p].phone_task_id = t]
      /\ permit \in [Permits -> PermitRecords \cup {NoPermit}]
  BY DEF ShownNow, IInv, PermitTypeOK
<1>3. permit'[p].phone_task_id = t /\ \A q \in Permits \ {p} : permit'[q] = permit[q]
  BY <1>1, <1>2 DEF PermitRecords
<1>4. opened' = [opened EXCEPT ![permit[p].challenge] = t]
      /\ opened \in [Challenges -> Tasks \cup {NoTask}]
  BY DEF ShownNow, IInv, PermitTypeOK
<1>5. \A q \in Permits : Made(q) => permit[q].phone_task_id # t /\ permit[q].tap # t
  BY PermitConstants DEF IInv, TaskInv, ShownNow
<1> QED
  BY <1>1, <1>3, <1>4, <1>5, PermitConstants DEF ShownNow

\* What a decision taken for the bridge has in its hand.
LEMMA HandIs ==
  ASSUME IInv, NEW c \in Challenges, NEW d \in Answers, NEW v \in Vias,
         NEW t \in Tasks \cup {NoTask}, DecidedNow(c, d, v, t), t # NoTask
  PROVE  /\ bridge.pc = "decide" /\ t = bridge.tap /\ t \in Tasks /\ task[t] # NoTask
         /\ UNCHANGED task /\ bridge'.pc = "poll" /\ bridge'.todo = bridge.todo
         /\ v # "none" /\ c = bridge.challenge
         /\ d = "approve" => task[t].endorsed
         /\ \A p \in Permits : Made(p) => permit[p].tap # t
         /\ \E o \in Permits : /\ Made(o) /\ o \notin bridge.todo
                               /\ permit[o].phone_task_id = t
                               /\ permit[o].challenge = c
<1>1. Decide /\ c = bridge.challenge /\ t = bridge.tap /\ (d = "deny" \/ d = bridge.verdict)
  BY DEF DecidedNow
<1>2. bridge'.pc = "poll" /\ bridge'.todo = bridge.todo /\ UNCHANGED task
      /\ bridge.pc = "decide"
  BY <1>1 DEF Decide, Step, AtRest
<1> QED
  BY <1>1, <1>2 DEF IInv, HandInv, Vias

\* Relay's tasks: phone.py:138-216.
LEMMA TaskStep == ASSUME IInv, PermitNext PROVE TaskInv'
<1>1. ASSUME NEW p \in Permits, permit'[p] # NoPermit, permit'[p].phone_task_id # NoTask
      PROVE  /\ Made(p) /\ permit'[p].phone_task_id \in Tasks
             /\ task'[permit'[p].phone_task_id] # NoTask
             /\ \/ permit[p].phone_task_id = permit'[p].phone_task_id
                \/ ShownNow(p, permit'[p].phone_task_id)
  <2>1. Made(p)
    BY <1>1, FreshFrame
  <2>2. CASE permit[p].phone_task_id = permit'[p].phone_task_id
    <3>1. permit[p].phone_task_id \in Tasks /\ task[permit[p].phone_task_id] # NoTask
      BY <1>1, <2>1, <2>2 DEF IInv, TaskInv, PermitTypeOK, PermitRecords, Made
    <3> QED
      BY <2>1, <2>2, <3>1, TaskFrame
  <2>3. ASSUME NEW t \in Tasks, ShownNow(p, t), permit'[p].phone_task_id = t
        PROVE  task'[t] # NoTask
    BY <2>3, ShownIs
  <2> QED
    BY <2>1, <2>2, <2>3, PermitFrame
<1>2. ASSUME NEW p \in Permits, NEW q \in Permits,
             permit'[p] # NoPermit, permit'[p].phone_task_id # NoTask,
             permit'[q] # NoPermit, permit'[q].phone_task_id = permit'[p].phone_task_id
      PROVE  p = q
  <2>1. Made(p) /\ Made(q)
    BY <1>1, <1>2
  <2>2. CASE permit[p].phone_task_id = permit'[p].phone_task_id
             /\ permit[q].phone_task_id = permit'[q].phone_task_id
    BY <1>2, <2>1, <2>2 DEF IInv, TaskInv
  <2>3. ASSUME ShownNow(p, permit'[p].phone_task_id) PROVE p = q
    BY <1>1, <1>2, <2>1, <2>3, ShownIs
  <2>4. ASSUME ShownNow(q, permit'[q].phone_task_id) PROVE p = q
    BY <1>1, <1>2, <2>1, <2>4, ShownIs
  <2> QED
    BY <1>1, <1>2, <2>2, <2>3, <2>4
<1>3. ASSUME NEW p \in Permits, permit'[p] # NoPermit
      PROVE  /\ permit'[p].tap # NoTask => task'[permit'[p].tap] # NoTask
             /\ permit'[p].via = "phone" => permit'[p].tap # NoTask
  <2>1. CASE ~Made(p)
    BY <1>3, <2>1, FreshFrame
  <2>2. CASE Made(p) /\ permit'[p].via = permit[p].via /\ permit'[p].tap = permit[p].tap
    <3>1. permit[p].tap \in Tasks \cup {NoTask}
      BY <2>2 DEF IInv, PermitTypeOK, PermitRecords, Made
    <3> QED
      BY <2>2, <3>1, TaskFrame DEF IInv, TaskInv
  <2>3. ASSUME NEW c \in Challenges, NEW d \in Answers, NEW v \in Vias,
               NEW t \in Tasks \cup {NoTask}, DecidedNow(c, d, v, t)
        PROVE  /\ t # NoTask => task'[t] # NoTask
               /\ v = "phone" => t # NoTask
    <3>1. v = "phone" => t \in Tasks
      BY <2>3 DEF DecidedNow, Decide, IInv, HandInv
    <3> QED
      BY <2>3, <3>1, HandIs, PermitConstants
  <2> QED
    BY <2>1, <2>2, <2>3, PermitFrame
<1>4. ASSUME NEW c \in Challenges, opened'[c] # NoTask
      PROVE  task'[opened'[c]] # NoTask
  <2>1. CASE opened'[c] = opened[c]
    <3>1. opened[c] \in Tasks /\ task[opened[c]] # NoTask
      BY <1>4, <2>1 DEF IInv, TaskInv, PermitTypeOK
    <3> QED
      BY <2>1, <3>1, TaskFrame
  <2>2. ASSUME NEW p \in Permits, NEW t \in Tasks, ShownNow(p, t)
        PROVE  opened'[c] = opened[c] \/ task'[opened'[c]] # NoTask
    BY <2>2, ShownIs
  <2> QED
    BY <1>4, <2>1, <2>2, OpenedFrame
<1> QED
  BY <1>1, <1>2, <1>3, <1>4 DEF TaskInv, Made

\* An answer decides nothing twice: phone.py:160-195.
LEMMA SpentStep == ASSUME IInv, PermitNext PROVE SpentInv'
<1> SUFFICES ASSUME NEW p \in Permits, NEW o \in Permits,
                    permit'[p] # NoPermit, permit'[o] # NoPermit,
                    permit'[p].tap # NoTask, permit'[o].phone_task_id = permit'[p].tap
             PROVE  ~Waits(o)' /\ (bridge'.pc \in Passes => o \notin bridge'.todo)
  BY DEF SpentInv, Made, Passes
<1>1. Made(p) /\ Made(o)
  BY FreshFrame
<1>2. CASE ~Waits(o) /\ (bridge.pc \in Passes => o \notin bridge.todo)
  <2>1. ~Waits(o)'
    BY <1>1, <1>2, WaitsFrame
  <2>2. o \notin Pending
    BY <1>1, <1>2, SweptFields DEF Pending, Waits, IInv
  <2> QED
    BY <1>2, <2>1, <2>2, BridgeFrame
<1>3. CASE permit'[p].tap = permit[p].tap
  <2>1. permit[o].phone_task_id = permit'[o].phone_task_id
    <3>1. task[permit[p].tap] # NoTask
      BY <1>1, <1>3 DEF IInv, TaskInv
    <3> QED
      BY <1>1, <1>3, <3>1, PermitFrame, ShownIs
  <2> QED
    BY <1>1, <1>2, <1>3, <2>1 DEF IInv, SpentInv, Passes
<1>4. ASSUME NEW c \in Challenges, NEW d \in Answers, NEW v \in Vias,
             NEW t \in Tasks \cup {NoTask}, DecidedNow(c, d, v, t), p = book[c],
             permit'[p].tap = t
      PROVE  ~Waits(o)' /\ (bridge'.pc \in Passes => o \notin bridge'.todo)
  <2>1. permit[o].phone_task_id = t
    <3>1. ~(\E u \in Tasks : ShownNow(o, u))
      BY <1>4, HandIs, ShownIs
    <3> QED
      BY <1>1, <1>4, <3>1, PermitFrame
  <2>2. o \notin bridge.todo /\ permit[o].challenge = c
    BY <1>1, <1>4, <2>1, HandIs DEF IInv, TaskInv
  <2>3. bridge'.todo = bridge.todo
    BY <1>4, HandIs
  <2>4. ~Waits(o)'
    <3>1. SUFFICES ASSUME NEW e \in Challenges, book'[e] = o, permit'[o].state = "pending"
                   PROVE  FALSE
      BY DEF Waits, Held
    <3>2. Waits(o)'
      BY <3>1 DEF Waits, Held
    <3>3. o = book[c]
      BY <1>1, <2>2, <3>2, WaitsFrame, HeldIsMade DEF Waits, IInv
    <3>4. permit'[o].state = Landed(d)
      BY <1>1, <1>4, <3>3, DecidedState
    <3> QED
      BY <3>1, <3>4 DEF Landed
  <2> QED
    BY <2>2, <2>3, <2>4
<1> QED
  BY <1>1, <1>3, <1>4, PermitFrame

\* The answer in the bridge's hand: phone.py:160-181.
LEMMA HandStep == ASSUME IInv, PermitNext PROVE HandInv'
<1> SUFFICES ASSUME bridge'.pc = "decide" PROVE HandInv'
  BY DEF HandInv
<1>1. CASE bridge' = bridge
  <2>1. PICK o \in Permits : /\ Made(o) /\ o \notin bridge.todo
                             /\ permit[o].phone_task_id = bridge.tap
                             /\ permit[o].challenge = bridge.challenge
    BY <1>1 DEF IInv, HandInv
  <2>2. permit'[o] # NoPermit /\ permit'[o].challenge = bridge.challenge
        /\ permit'[o].phone_task_id = bridge.tap
    BY <1>1, <2>1, PermitFrame, ShownIs
  <2>3. ASSUME NEW p \in Permits, permit'[p] # NoPermit
        PROVE  permit'[p].tap # bridge.tap
    <3>1. bridge.tap # NoTask /\ (Made(p) => permit[p].tap # bridge.tap)
      BY <1>1, PermitConstants DEF IInv, HandInv
    <3>2. ASSUME NEW c \in Challenges, NEW d \in Answers, NEW v \in Vias,
                 NEW t \in Tasks \cup {NoTask}, DecidedNow(c, d, v, t)
          PROVE  t # bridge.tap
      BY <1>1, <3>1, <3>2, HandIs
    <3> QED
      BY <2>3, <3>1, <3>2, PermitFrame, FreshFrame
  <2>4. task'[bridge.tap] # NoTask
        /\ (bridge.verdict = "approve" => task'[bridge.tap].endorsed)
    BY <1>1, TaskFrame DEF IInv, HandInv
  <2> QED
    BY <1>1, <2>1, <2>2, <2>3, <2>4 DEF IInv, HandInv, Made
<1>2. ASSUME NEW p \in Permits, Poll(p)
      PROVE  HandInv'
  <2>1. PICK t \in TaskOf(p) :
          bridge'.tap = t /\ bridge'.verdict = Verdict(t) /\ Verdict(t) # "pending"
    BY <1>2, PollIs
  <2>2. /\ Made(p) /\ p \in bridge.todo /\ bridge.pc = "poll"
        /\ bridge'.todo = bridge.todo \ {p} /\ bridge'.challenge = permit[p].challenge
        /\ UNCHANGED <<permit, task>>
    BY <1>2, PollIs DEF Poll
  <2>3. /\ t \in Tasks /\ t = permit[p].phone_task_id /\ t # NoTask
        /\ task[t] # NoTask /\ Verdict(t) \in Answers \cup {"refuse"}
    BY <2>1, <2>2, ReadTask
  <2>4. Verdict(t) = "approve" => task[t].endorsed
    BY <2>3 DEF Verdict, IInv, EndorsedInv
  <2>5. \A q \in Permits : Made(q) => permit[q].tap # t
    BY <2>2, <2>3 DEF IInv, SpentInv
  <2>6. permit[p].challenge \in Challenges
    BY <2>2 DEF IInv, PermitTypeOK, PermitRecords, Made
  <2> QED
    BY <2>1, <2>2, <2>3, <2>4, <2>5, <2>6 DEF HandInv, Made
<1> QED
  BY <1>1, <1>2, BridgeFrame DEF Passes

\* Who an honoured approval came from: phone.py:56-86, and relay's update_task.
LEMMA EndorsedStep == ASSUME IInv, PermitNext PROVE EndorsedInv'
<1> SUFFICES ASSUME NEW t \in Tasks, task'[t] # NoTask, task'[t].answer = "approve",
                    Honoured(task'[t].completed_by)
             PROVE  task'[t].endorsed
  BY DEF EndorsedInv, Honoured
<1>1. task \in [Tasks -> TaskRecords \cup {NoTask}]
  BY DEF IInv, PermitTypeOK
<1>2. CASE task'[t] = task[t]
  BY <1>2 DEF IInv, EndorsedInv
<1>3. ASSUME NEW u \in Tasks, NEW a \in Answers \cup {"pending"}, NEW cred \in Creds,
             UpdateTask(u, a, cred)
      PROVE  task'[t].endorsed
  <2>1. CASE u = t
    <3>1. task[t] \in TaskRecords
      BY <1>1, <1>3, <2>1 DEF UpdateTask
    <3>2. task'[t].answer = a /\ (a # "pending" => task'[t].completed_by = cred)
          /\ task'[t].endorsed = (task[t].endorsed \/ (a = "approve" /\ cred \in Others))
      BY <1>1, <1>3, <2>1, <3>1 DEF UpdateTask, TaskRecords
    <3> QED
      BY <3>2 DEF Honoured, Others
  <2>2. CASE u # t
    BY <1>1, <1>2, <1>3, <2>2 DEF UpdateTask
  <2> QED
    BY <2>1, <2>2
<1>4. ASSUME NEW p \in Permits, Post(p), task'[t] # task[t]
      PROVE  FALSE
  BY <1>1, <1>4 DEF Post
<1>5. ASSUME NEW c \in Challenges, Close(c), task'[t] # task[t]
      PROVE  FALSE
  <2>1. task' = [task EXCEPT ![opened[c]] =
          [@ EXCEPT !.answer = "deny", !.completed_by = Requester]]
    BY <1>5 DEF Close
  <2>2. opened[c] = t
    BY <1>1, <1>5, <2>1
  <2>3. task[t] \in TaskRecords
    BY <1>1, <2>2, PermitConstants DEF IInv, TaskInv
  <2>4. task'[t].answer = "deny"
    BY <1>1, <2>1, <2>2, <2>3 DEF TaskRecords
  <2> QED
    BY <2>4
<1> QED
  BY <1>2, <1>3, <1>4, <1>5
  DEF PermitNext, Local, PhoneTick, UpdateTasks, Request, Consume, Chord, PostNew,
      PollOpen, Poll, Decide, CloseResolved, TickEnd, Tick, BrokerRestart

\* The bridge's table: phone.py:138-216.
LEMMA TrackStep == ASSUME IInv, PermitNext PROVE TrackInv'
<1>1. ASSUME NEW p \in Permits, Waits(p)', permit'[p].phone_task_id # NoTask
      PROVE  /\ Waits(p) /\ Made(p) /\ permit'[p].challenge = permit[p].challenge
             /\ permit[p].challenge \in Challenges
             /\ book[permit[p].challenge] = p /\ book'[permit[p].challenge] = p
  <2>1. permit'[p] # NoPermit /\ book'[permit'[p].challenge] = p
        /\ permit'[p].challenge \in Challenges
    BY <1>1, StoreStep, PermitConstants DEF Waits, Held, StoreInv, Made
  <2>2. Made(p)
    BY <1>1, <2>1, FreshFrame
  <2>3. Waits(p)
    BY <1>1, <2>2, WaitsFrame
  <2> QED
    BY <2>1, <2>2, <2>3, PermitFrame, HeldIsMade DEF Waits, IInv
<1>2. ASSUME NEW p \in Permits, Waits(p)', permit'[p].phone_task_id # NoTask
      PROVE  opened'[permit'[p].challenge] = permit'[p].phone_task_id
  <2> DEFINE c == permit[p].challenge
  <2>1. permit'[p].challenge = c /\ c \in Challenges /\ Waits(p) /\ Made(p)
        /\ book[c] = p /\ book'[c] = p
    BY <1>1, <1>2
  <2> HIDE DEF c
  <2>2. ASSUME NEW q \in Permits, NEW t \in Tasks, ShownNow(q, t)
        PROVE  opened'[c] = permit'[p].phone_task_id
    <3>1. CASE q = p
      BY <2>1, <2>2, <3>1, ShownIs DEF c
    <3>2. CASE q # p
      <4>1. permit'[p] = permit[p] /\ q \in bridge.todo /\ bridge.pc = "post"
        BY <2>2, <3>2, ShownIs
      <4>2. permit[q].challenge # c
        BY <1>2, <2>1, <3>2, <4>1 DEF IInv, TrackInv, c
      <4> QED
        BY <1>2, <2>1, <2>2, <4>1, <4>2, ShownIs
           DEF IInv, TrackInv, ShownIsTracked, Waits, c
    <3> QED
      BY <3>1, <3>2
  <2>3. ASSUME ~(\E q \in Permits, t \in Tasks : ShownNow(q, t))
        PROVE  opened'[c] = permit'[p].phone_task_id
    <3>1. permit'[p].phone_task_id = permit[p].phone_task_id
      BY <2>1, <2>3, PermitFrame
    <3>2. opened[c] = permit[p].phone_task_id
      BY <1>2, <2>1, <3>1 DEF IInv, TrackInv, ShownIsTracked, Waits, c
    <3>3. ~(Look /\ Resolved(c))
      <4> SUFFICES ASSUME Look, Resolved(c) PROVE FALSE
        OBVIOUS
      <4>1. SweptBook[c] = p /\ Swept[p].state = "pending"
        BY <1>2, <2>1 DEF Look, Waits
      <4> QED
        BY <4>1, PermitConstants DEF Resolved
    <3>4. book' # [d \in Challenges |-> NoPermit]
      BY <2>1, PermitConstants
    <3> QED
      BY <2>1, <2>3, <3>1, <3>2, <3>3, <3>4, OpenedFrame
  <2> QED
    BY <2>1, <2>2, <2>3
<1>3. ASSUME bridge'.pc = "post", NEW p \in bridge'.todo, NEW q \in Permits,
             Waits(q)', q # p, permit'[q].challenge = permit'[p].challenge,
             permit'[q].phone_task_id # NoTask
      PROVE  FALSE
  <2>1. Waits(q) /\ Made(q) /\ permit'[q].challenge = permit[q].challenge
        /\ book[permit[q].challenge] = q
    BY <1>1, <1>3
  <2>2. CASE bridge'.todo = Pending
    <3>1. p \in Held
      BY <1>3, <2>2 DEF Pending
    <3>2. Made(p) /\ p \in Permits /\ book[permit[p].challenge] = p
      BY <3>1, HeldIsMade DEF IInv
    <3>3. permit'[p].challenge = permit[p].challenge
      BY <3>2, PermitFrame
    <3> QED
      BY <1>3, <2>1, <3>2, <3>3
  <2>3. CASE bridge.pc = "post" /\ bridge'.todo \subseteq bridge.todo
    <3>1. p \in bridge.todo /\ p \in Permits /\ Made(p)
      BY <1>3, <2>3 DEF IInv, VisitInv
    <3>2. permit[p].challenge = permit[q].challenge
      BY <1>3, <2>1, <3>1, PermitFrame
    <3>3. permit[q].phone_task_id = NoTask
      BY <1>3, <2>1, <2>3, <3>1, <3>2 DEF IInv, TrackInv
    <3>4. PICK t \in Tasks : ShownNow(q, t)
      BY <1>3, <2>1, <3>3, PermitFrame
    <3> QED
      BY <1>3, <2>3, <3>1, <3>2, <3>4, ShownIs DEF IInv, VisitInv
  <2> QED
    BY <1>3, <2>2, <2>3, BridgeFrame DEF Passes
<1> QED
  BY <1>2, <1>3 DEF TrackInv, ShownIsTracked, Waits, Held

\* Approvals by phone: phone.py:56-86.
LEMMA PhoneStep == ASSUME IInv, PermitNext PROVE PhoneApprovalIsAnothers'
<1> SUFFICES ASSUME NEW p \in Permits, permit'[p] # NoPermit,
                    permit'[p].via = "phone", permit'[p].state # "denied"
             PROVE  task'[permit'[p].tap].endorsed
  BY DEF PhoneApprovalIsAnothers
<1>1. Made(p)
  BY FreshFrame
<1>2. CASE permit'[p].via = permit[p].via /\ permit'[p].tap = permit[p].tap
  <2>1. permit[p].state # "denied"
    BY <1>1, PermitFrame
  <2>2. task[permit[p].tap].endorsed
    BY <1>1, <1>2, <2>1 DEF IInv, PhoneApprovalIsAnothers, Made
  <2>3. permit[p].tap \in Tasks /\ task[permit[p].tap] # NoTask
    BY <1>1, <1>2 DEF IInv, TaskInv, PermitTypeOK, PermitRecords, Made
  <2> QED
    BY <1>2, <2>2, <2>3, TaskFrame
<1>3. ASSUME NEW c \in Challenges, NEW d \in Answers, NEW v \in Vias,
             NEW t \in Tasks \cup {NoTask}, DecidedNow(c, d, v, t),
             permit'[p].via = v, permit'[p].tap = t, permit'[p].state = Landed(d)
      PROVE  task'[t].endorsed
  <2>1. t # NoTask
    BY <1>3, PermitConstants DEF DecidedNow, Decide, IInv, HandInv
  <2>2. d = "approve"
    BY <1>3 DEF Landed, Answers
  <2> QED
    BY <1>3, <2>1, <2>2, HandIs
<1> QED
  BY <1>1, <1>2, <1>3, PermitFrame

\* An answer decides one permit: phone.py:169-171.
LEMMA OneTapStep == ASSUME IInv, PermitNext PROVE OneTapOnePermit'
<1> SUFFICES ASSUME NEW p \in Permits, NEW q \in Permits,
                    permit'[p] # NoPermit, permit'[q] # NoPermit,
                    permit'[p].tap = permit'[q].tap, permit'[p].tap # NoTask
             PROVE  p = q
  BY DEF OneTapOnePermit
<1>1. Made(p) /\ Made(q)
  BY FreshFrame
<1>2. ASSUME NEW c \in Challenges, NEW d \in Answers, NEW v \in Vias,
             NEW t \in Tasks \cup {NoTask}, DecidedNow(c, d, v, t),
             permit'[p].tap = t, p = book[c] \/ q = book[c]
      PROVE  p = q
  <2>1. \A r \in Permits : Made(r) => permit[r].tap # t
    BY <1>2, HandIs
  <2>2. ASSUME NEW r \in Permits, Made(r), permit'[r].tap = t
        PROVE  r = book[c]
    <3>1. permit'[r].tap # permit[r].tap
      BY <2>1, <2>2
    <3>2. PICK e \in Challenges, f \in Answers, w \in Vias, u \in Tasks \cup {NoTask} :
            DecidedNow(e, f, w, u) /\ r = book[e] /\ permit'[r].tap = u
      BY <2>2, <3>1, PermitFrame
    <3>3. c = bridge.challenge /\ e = bridge.challenge
      BY <1>2, <2>2, <3>2, HandIs
    <3> QED
      BY <3>2, <3>3
  <2> QED
    BY <1>1, <1>2, <2>2
<1>3. CASE permit'[p].tap = permit[p].tap /\ permit'[q].tap = permit[q].tap
  BY <1>1, <1>3 DEF IInv, OneTapOnePermit, Made
<1> QED
  BY <1>1, <1>2, <1>3, PermitFrame

\* Deadlines are numbers: a permit that is not due is before its own.
LEMMA InTime ==
  ASSUME IInv, NEW p \in Permits, Made(p), ~(now >= Deadline(p))
  PROVE  now < Deadline(p)
<1>1. permit[p].created \in Nat
  BY SweptFields DEF IInv, PermitRecords
<1> QED
  BY <1>1, PermitConstants DEF Deadline, IInv, PermitTypeOK

-------------------------------------------------------------------------------
(* The theorems.                                                            *)

\* Every part of the invariant, at every step of the store, the bridge, relay,
\* the clock and a restart.
THEOREM BrokerInvariant == PermitSpec => []IInv
<1>1. PermitInit => IInv
  <2> SUFFICES ASSUME PermitInit PROVE IInv
    OBVIOUS
  <2>1. PermitTypeOK
    BY DEF PermitInit, PermitTypeOK, Bridges, AtRest
  <2>2. \A p \in Permits : ~Made(p) /\ ~Waits(p)
    BY PermitConstants DEF PermitInit, Made, Waits, Held
  <2>3. StoreInv /\ VisitInv /\ TaskInv /\ HandInv
    BY <2>2 DEF PermitInit, StoreInv, VisitInv, TaskInv, HandInv, AtRest
  <2>4. SpentInv /\ EndorsedInv /\ TrackInv
    BY <2>2 DEF PermitInit, SpentInv, EndorsedInv, TrackInv, ShownIsTracked, Waits, Held,
                AtRest
  <2>5. PhoneApprovalIsAnothers /\ OneTapOnePermit
    BY <2>2 DEF PhoneApprovalIsAnothers, OneTapOnePermit, Made
  <2> QED
    BY <2>1, <2>3, <2>4, <2>5 DEF IInv
<1>2. IInv /\ [PermitNext]_permitVars => IInv'
  <2> SUFFICES ASSUME IInv, [PermitNext]_permitVars PROVE IInv'
    OBVIOUS
  <2>1. CASE PermitNext
    BY <2>1, TypeStep, StoreStep, VisitStep, TaskStep, SpentStep, HandStep, EndorsedStep,
       TrackStep, PhoneStep, OneTapStep DEF IInv
  <2>2. CASE UNCHANGED permitVars
    BY <2>2
    DEF permitVars, IInv, PermitTypeOK, StoreInv, VisitInv, TaskInv, SpentInv, HandInv,
        EndorsedInv, TrackInv, ShownIsTracked, PhoneApprovalIsAnothers, OneTapOnePermit,
        Made, Waits, Held
  <2> QED
    BY <2>1, <2>2
<1> QED
  BY <1>1, <1>2, PTL DEF PermitSpec

\* The broker's state is well formed (permits.py, phone.py).
THEOREM TypeCorrect == PermitSpec => []PermitTypeOK
BY BrokerInvariant, PTL DEF IInv

\* phone.py:5-24: a permit approved by phone was approved, on the task whose answer
\* decided it, by a credential that is not the requester's and is on
\* phone_approvers, if set.
THEOREM ApprovedByAnother == PermitSpec => []PhoneApprovalIsAnothers
BY BrokerInvariant, PTL DEF IInv

\* phone.py:169-171: one answer on the dashboard decides at most one permit.
THEOREM OneTap == PermitSpec => []OneTapOnePermit
BY BrokerInvariant, PTL DEF IInv

\* phone.py:103-105: the bridge's table holds the task of every waiting permit.
THEOREM Tracked == PermitSpec => []ShownIsTracked
BY BrokerInvariant, PTL DEF IInv, TrackInv

\* permits.py:1-16: the store, the chord, the handlers and the bridge, with
\* relay and the clock between their steps, implement the four rules.
THEOREM RulesKept == PermitSpec => KeepsRules
<1> DEFINE st == [p \in Permits |-> IF permit[p] = NoPermit THEN "none"
                                    ELSE permit[p].state]
           dl == [p \in Permits |-> IF permit[p] = NoPermit THEN 0 ELSE Deadline(p)]
<1>1. PermitInit => Rules!RulesInit
  BY DEF PermitInit, Rules!RulesInit
<1>2. IInv /\ [PermitNext]_permitVars => [Rules!RulesNext]_(Rules!rulesVars)
  <2> SUFFICES ASSUME IInv, PermitNext
               PROVE  Rules!RulesNext \/ UNCHANGED Rules!rulesVars
    BY DEF permitVars, Rules!rulesVars, Deadline
  <2>1. CASE Tick
    BY <2>1 DEF Tick, Rules!RulesNext, Rules!RulesTick, Deadline
  <2>2. CASE ~Tick
    <3>1. UNCHANGED now
      BY <2>2
      DEF PermitNext, Local, PhoneTick, UpdateTasks, UpdateTask, Request, Consume, Chord,
          PostNew, Post, PollOpen, Poll, Decide, CloseResolved, Close, TickEnd,
          BrokerRestart
    <3>2. \A p \in Permits : Made(p) => dl'[p] = dl[p]
      BY PermitFrame DEF Deadline, Made
    <3>3. ASSUME NEW p \in Permits, permit'[p] = Swept[p]
          PROVE  dl'[p] = dl[p] /\ (st'[p] = st[p] \/ Rules!Lapsing(p))
      <4>1. CASE Swept[p] = permit[p]
        BY <3>3, <4>1 DEF Deadline
      <4>2. CASE /\ Made(p) /\ permit[p].state \in LiveStates /\ now >= Deadline(p)
                 /\ Swept[p] = [permit[p] EXCEPT !.state = "expired"]
        <5>1. permit[p] \in PermitRecords /\ permit'[p] # NoPermit
          BY <3>3, <4>2, SweptFields DEF IInv, Made
        <5>2. permit'[p].state = "expired"
          BY <3>3, <4>2, <5>1 DEF PermitRecords
        <5> QED
          BY <3>2, <4>2, <5>1, <5>2 DEF Rules!Lapsing, Rules!Living, LiveStates, Made
      <4> QED
        BY <4>1, <4>2, SweptIs DEF IInv
    <3>4. PICK r \in Permits : TRUE
      BY PermitConstants
    <3>5. CASE Look
      <4>1. \A p \in Permits : permit'[p] = Swept[p]
        BY <3>5 DEF Look
      <4>2. UNCHANGED dl
        BY <4>1, <3>3
      <4>3. Rules!Elsewhere(r) /\ Rules!Rest(r)
        BY <4>1, <4>2, <3>3 DEF Rules!Elsewhere, Rules!Rest
      <4> QED
        BY <3>1, <4>3 DEF Rules!RulesNext
    <3>6. ASSUME NEW c \in Challenges, NEW p \in Permits, MadeNow(c, p)
          PROVE  Rules!RulesNext
      <4>1. \A q \in Permits \ {p} : permit'[q] = Swept[q]
        BY <3>6, SweptIs DEF MadeNow, IInv
      <4>2. ~Made(p) /\ permit'[p] # NoPermit
            /\ permit'[p].created = now /\ permit'[p].state = "pending"
        BY <3>6, SweptIs, NothingIsARecord, FreshFrame
           DEF MadeNow, Made, IInv, PermitTypeOK, PermitRecords, States, LiveStates
      <4>3. Rules!Elsewhere(p)
        BY <4>1, <3>3 DEF Rules!Elsewhere
      <4>4. dl' = [dl EXCEPT ![p] = now + TTL] /\ st[p] = "none" /\ st'[p] = "pending"
        BY <4>1, <4>2, <3>3 DEF Deadline, Made
      <4> QED
        BY <3>1, <4>3, <4>4 DEF Rules!RulesNext, Rules!Mint
    <3>7. ASSUME NEW c \in Challenges, NEW d \in Answers, NEW v \in Vias,
                 NEW t \in Tasks \cup {NoTask}, DecidedNow(c, d, v, t)
          PROVE  Rules!RulesNext
      <4>0. PICK p \in Permits : p = book[c]
        BY <3>7, DecidedIs
      <4>1. p \in Permits /\ Waits(p) /\ Made(p) /\ ~(now >= Deadline(p))
            /\ \A q \in Permits \ {p} : permit'[q] = Swept[q]
        BY <3>7, <4>0, DecidedIs
      <4>2. permit'[p] # NoPermit /\ permit'[p].state \in {"approved", "denied"}
        BY <3>7, <4>0, <4>1, PermitFrame, DecidedState DEF Landed
      <4>3. Rules!Elsewhere(p)
        BY <4>1, <3>3 DEF Rules!Elsewhere
      <4>4. UNCHANGED dl
        BY <4>1, <3>2, <3>3
      <4>5. st[p] = "pending" /\ st'[p] \in {"approved", "denied"} /\ now < dl[p]
        BY <4>1, <4>2, InTime DEF Waits, Made
      <4>6. Rules!Answer(p)
        BY <4>4, <4>5 DEF Rules!Answer
      <4> QED
        BY <3>1, <4>3, <4>6 DEF Rules!RulesNext
    <3>8. ASSUME NEW c \in Challenges, SpentNow(c)
          PROVE  Rules!RulesNext
      <4>0. PICK p \in Permits : p = book[c]
        BY <3>8, SpentIs
      <4>1. p \in Permits /\ permit[p].state = "approved" /\ Made(p)
            /\ ~(now >= Deadline(p)) /\ permit[p] \in PermitRecords
            /\ permit'[p] = [permit[p] EXCEPT !.state = "consumed"]
            /\ \A q \in Permits \ {p} : permit'[q] = Swept[q]
        BY <3>8, <4>0, SpentIs
      <4>2. permit'[p] # NoPermit /\ permit'[p].state = "consumed"
        BY <4>1, PermitFrame DEF PermitRecords
      <4>3. Rules!Elsewhere(p)
        BY <4>1, <3>3 DEF Rules!Elsewhere
      <4>4. UNCHANGED dl
        BY <4>1, <3>2, <3>3
      <4>5. st[p] = "approved" /\ st'[p] = "consumed" /\ now < dl[p]
        BY <4>1, <4>2, InTime DEF Made
      <4>6. Rules!Spend(p)
        BY <4>4, <4>5 DEF Rules!Spend
      <4> QED
        BY <3>1, <4>3, <4>6 DEF Rules!RulesNext
    <3>9. ASSUME NEW p \in Permits, NEW t \in Tasks, ShownNow(p, t)
          PROVE  UNCHANGED Rules!rulesVars
      <4>1. Made(p) /\ permit'[p] # NoPermit /\ permit'[p].state = permit[p].state
        BY <3>9, PermitFrame, SweptFields
           DEF ShownNow, IInv, PermitTypeOK, PermitRecords, Made
      <4>2. UNCHANGED st /\ UNCHANGED dl
        BY <3>2, <3>9, <4>1, ShownIs DEF Made, Deadline
      <4> QED
        BY <3>1, <4>2 DEF Rules!rulesVars
    <3>10. CASE UNCHANGED permit
      BY <3>1, <3>10 DEF Rules!rulesVars, Deadline
    <3> QED
      BY <3>5, <3>6, <3>7, <3>8, <3>9, <3>10, StepKinds
  <2> QED
    BY <2>1, <2>2
<1> QED
  BY <1>1, <1>2, BrokerInvariant, PTL DEF PermitSpec, KeepsRules, Rules!RulesSpec

\* permits.py:163-166: a retry never discards an approval in hand; only a broker
\* that restarts does.
THEOREM ApprovalKept == PermitSpec => ApprovalNotDiscarded
<1> DEFINE Kept == \A c \in Challenges :
      LET p == book[c] IN
      /\ p # NoPermit /\ permit[p].state = "approved" /\ now < Deadline(p)
      => BrokerRestart \/ book'[c] = p
<1>1. IInv /\ [PermitNext]_permitVars => [Kept]_permitVars
  <2> SUFFICES ASSUME IInv, PermitNext, ~BrokerRestart, NEW c \in Challenges,
                      NEW p \in Permits, p = book[c], p # NoPermit,
                      permit[p].state = "approved", now < Deadline(p)
               PROVE  book'[c] = p
    BY DEF IInv, PermitTypeOK
  <2>1. Made(p) /\ permit[p] \in PermitRecords /\ permit[p].created \in Nat
    BY SweptFields DEF IInv, StoreInv, PermitRecords
  <2>2. ~(now >= Deadline(p))
    BY <2>1, PermitConstants DEF Deadline, IInv, PermitTypeOK
  <2>3. Swept[p] = permit[p]
    BY <2>2 DEF Swept, Expires
  <2>4. SweptBook[c] = p /\ Reused(c)
    BY <2>3 DEF SweptBook, Reused, LiveStates
  <2>5. ASSUME NEW d \in Challenges, Request(d)
        PROVE  book'[c] = p
    BY <2>4, <2>5, SweptBookIs DEF Request, Look, IInv
  <2>6. CASE book' = SweptBook \/ UNCHANGED book
    BY <2>4, <2>6
  <2>7. ~(\E d \in Challenges : Request(d)) => book' = SweptBook \/ UNCHANGED book
    BY DEF PermitNext, Local, PhoneTick, UpdateTasks, UpdateTask, Consume, Chord,
           PostNew, Post, PollOpen, Poll, Decide, CloseResolved, Close, TickEnd, Tick,
           Decided, Look
  <2> QED
    BY <2>5, <2>6, <2>7
<1> QED
  BY <1>1, BrokerInvariant, PTL DEF PermitSpec, ApprovalNotDiscarded
-------------------------------------------------------------------------------
(* The announcements: what a person is shown of what waits.                 *)

\* The steps under the announcer's lock.
Section == {"list", "listed", "rows", "written", "store", "mark"}

\* Someone has still to look at the store.
Unseen == dirty \/ \E t \in Threads : thread[t].pc \in {"enter", "list", "listed", "rows"}

\* One thread is in the announcer, and has not gone back to rest with the lock; a
\* change that was not notified is in the hands of a thread that will.
OneInside == /\ \A t \in Threads : thread[t].pc \in Section => lock = t
             /\ lock # Nobody => thread[lock].pc \in Section \cup {"enter"}
             /\ dirty => \E t \in Threads : thread[t].pc \in {"fire", "listed", "written"}

\* The file, or the list on its way to it, is what waits, unless someone is to look.
FileInv == \/ Unseen
           \/ \E t \in Threads : /\ thread[t].pc \in {"written", "store"}
                                 /\ thread[t].rows = waiting
           \/ /\ file = waiting
              /\ \A t \in Threads : thread[t].pc \notin {"written", "store"}

\* What was shown is among what the bookkeeping holds, and among the list that is
\* about to replace it.
ToastInv == /\ toasts \subseteq announced /\ toasts \subseteq waiting
            /\ \A t \in Threads : thread[t].pc \in Section \ {"list"}
                 => toasts \subseteq thread[t].seen

AnnounceInv == AnnounceTypeOK /\ OneInside /\ FileInv /\ ToastInv

Places == [pc : Pcs, seen : SUBSET Prompts, rows : SUBSET Prompts]

LEMMA PlaceUpdates ==
  ASSUME NEW w \in Places, NEW q \in Pcs, NEW S \in SUBSET Prompts
  PROVE  /\ [w EXCEPT !.pc = q] \in Places
         /\ [w EXCEPT !.pc = q].pc = q
         /\ [w EXCEPT !.pc = q].seen = w.seen
         /\ [w EXCEPT !.pc = q].rows = w.rows
         /\ [w EXCEPT !.pc = q, !.seen = S] \in Places
         /\ [w EXCEPT !.pc = q, !.seen = S].pc = q
         /\ [w EXCEPT !.pc = q, !.seen = S].seen = S
         /\ [w EXCEPT !.pc = q, !.rows = S] \in Places
         /\ [w EXCEPT !.pc = q, !.rows = S].pc = q
         /\ [w EXCEPT !.pc = q, !.rows = S].rows = S
         /\ [w EXCEPT !.pc = q, !.rows = S].seen = w.seen
BY DEF Places

\* Where each step takes its thread, and that it leaves the others where they are.
Moves(t, x) == /\ x \in Places /\ thread'[t] = x
               /\ \A u \in Threads \ {t} : thread'[u] = thread[u]
               /\ thread' \in [Threads -> Places]

LEMMA GoesTo ==
  ASSUME AnnounceTypeOK, NEW t \in Threads, NEW q \in Pcs, Goto(t, q)
  PROVE  /\ Moves(t, thread'[t]) /\ thread'[t].pc = q
         /\ thread'[t].seen = thread[t].seen /\ thread'[t].rows = thread[t].rows
<1> DEFINE x == [thread[t] EXCEPT !.pc = q]
<1>1. thread \in [Threads -> Places]
  BY DEF AnnounceTypeOK, Places
<1>2. /\ x \in Places /\ x.pc = q /\ x.seen = thread[t].seen /\ x.rows = thread[t].rows
  BY <1>1, PlaceUpdates
<1>3. thread' = [thread EXCEPT ![t] = x]
  BY DEF Goto
<1> HIDE DEF x
<1> QED
  BY <1>1, <1>2, <1>3 DEF Moves

LEMMA CallSteps ==
  ASSUME AnnounceTypeOK, NEW t \in Threads, Call(t)
  PROVE  thread[t].pc = "idle" /\ Moves(t, thread'[t]) /\ thread'[t].pc = "fire"
BY GoesTo DEF Call, At, Pcs

LEMMA FireSteps ==
  ASSUME AnnounceTypeOK, NEW t \in Threads, Fire(t)
  PROVE  /\ thread[t].pc = "fire" /\ Moves(t, thread'[t])
         /\ thread'[t].pc = IF dirty THEN "enter" ELSE "idle"
BY GoesTo DEF Fire, At, Pcs

LEMMA EnterSteps ==
  ASSUME AnnounceTypeOK, NEW t \in Threads, Enter(t)
  PROVE  thread[t].pc = "enter" /\ Moves(t, thread'[t]) /\ thread'[t].pc = "list"
BY GoesTo DEF Enter, At, Pcs

LEMMA ListSteps ==
  ASSUME AnnounceTypeOK, NEW t \in Threads, List(t)
  PROVE  /\ Moves(t, thread'[t])
         /\ \/ /\ thread[t].pc = "list" /\ thread'[t].pc = "listed"
               /\ thread'[t].seen = waiting \ due
            \/ /\ thread[t].pc = "rows" /\ thread'[t].pc = "written"
               /\ thread'[t].seen = thread[t].seen
               /\ thread'[t].rows = waiting \ due
<1> DEFINE W == waiting \ due
           x == [thread[t] EXCEPT !.pc = "listed", !.seen = W]
           y == [thread[t] EXCEPT !.pc = "written", !.rows = W]
<1>1. thread \in [Threads -> Places] /\ W \in SUBSET Prompts
  BY DEF AnnounceTypeOK, Places
<1> HIDE DEF W
<1>2. thread[t] \in Places
  BY <1>1
<1>3. x \in Places /\ x.pc = "listed" /\ x.seen = W
  BY <1>1, <1>2 DEF Places, Pcs
<1>4. y \in Places /\ y.pc = "written" /\ y.rows = W /\ y.seen = thread[t].seen
  BY <1>1, <1>2 DEF Places, Pcs
<1>5. \/ thread[t].pc = "list" /\ thread' = [thread EXCEPT ![t] = x]
      \/ thread[t].pc = "rows" /\ thread' = [thread EXCEPT ![t] = y]
  BY <1>1 DEF List, At, W
<1> HIDE DEF x, y
<1>6. /\ Moves(t, thread'[t])
      /\ \/ /\ thread[t].pc = "list" /\ thread'[t].pc = "listed" /\ thread'[t].seen = W
         \/ /\ thread[t].pc = "rows" /\ thread'[t].pc = "written"
            /\ thread'[t].seen = thread[t].seen /\ thread'[t].rows = W
  BY <1>1, <1>3, <1>4, <1>5 DEF Moves
<1> QED
  BY <1>6 DEF W

LEMMA FireInsideSteps ==
  ASSUME AnnounceTypeOK, NEW t \in Threads, FireInside(t)
  PROVE  /\ Moves(t, thread'[t])
         /\ thread[t].pc \in {"listed", "written"}
         /\ thread'[t].pc = IF dirty THEN "enter"
                            ELSE IF thread[t].pc = "listed" THEN "rows" ELSE "store"
         /\ thread'[t].seen = thread[t].seen /\ thread'[t].rows = thread[t].rows
BY GoesTo DEF FireInside, At, Pcs

LEMMA StoreSteps ==
  ASSUME AnnounceTypeOK, NEW t \in Threads, Store(t)
  PROVE  /\ thread[t].pc = "store" /\ Moves(t, thread'[t]) /\ thread'[t].pc = "mark"
         /\ thread'[t].seen = thread[t].seen
BY GoesTo DEF Store, At, Pcs

LEMMA MarkSteps ==
  ASSUME AnnounceTypeOK, NEW t \in Threads, Mark(t)
  PROVE  thread[t].pc = "mark" /\ Moves(t, thread'[t]) /\ thread'[t].pc = "idle"
<1>1. AtRestThread \in Places /\ AtRestThread.pc = "idle"
  BY DEF AtRestThread, Places, Pcs
<1>2. thread \in [Threads -> Places]
  BY DEF AnnounceTypeOK, Places
<1> QED
  BY <1>1, <1>2 DEF Mark, At, Moves

LEMMA AnnounceTypeStep == AnnounceTypeOK /\ AnnounceNext => AnnounceTypeOK'
<1> SUFFICES ASSUME AnnounceTypeOK, AnnounceNext PROVE AnnounceTypeOK'
  OBVIOUS
<1>1. thread' \in [Threads -> Places]
  BY CallSteps, FireSteps, EnterSteps, ListSteps, FireInsideSteps, StoreSteps, MarkSteps
  DEF AnnounceNext, RunOut, Moves, AnnounceTypeOK, Places
<1>2. ASSUME NEW t \in Threads, Call(t) \/ List(t)
      PROVE  /\ waiting' \subseteq Prompts /\ due' = {} /\ dirty' \in BOOLEAN
             /\ toasts' \subseteq Prompts
             /\ UNCHANGED <<announced, lock, file>>
  BY <1>2 DEF Call, List, Holding, AnnounceTypeOK
<1>3. ASSUME NEW t \in Threads, Fire(t) \/ Enter(t) \/ FireInside(t)
      PROVE  /\ UNCHANGED <<waiting, due, announced, file, toasts>>
             /\ dirty' \in BOOLEAN /\ lock' \in {lock, t}
  BY <1>3 DEF Fire, Enter, FireInside, AnnounceTypeOK
<1>4. ASSUME NEW t \in Threads, Store(t)
      PROVE  /\ UNCHANGED <<waiting, due, dirty, announced, lock, toasts>>
             /\ file' \subseteq Prompts
  BY <1>4 DEF Store, AnnounceTypeOK
<1>5. ASSUME NEW t \in Threads, Mark(t)
      PROVE  /\ UNCHANGED <<waiting, due, dirty, file>>
             /\ announced' \subseteq Prompts /\ toasts' \subseteq Prompts /\ lock' = Nobody
  BY <1>5 DEF Mark, Fresh, AnnounceTypeOK
<1>6. ASSUME NEW c \in Prompts, RunOut(c)
      PROVE  /\ due' \subseteq waiting
             /\ UNCHANGED <<waiting, dirty, announced, lock, file, toasts>>
  BY <1>6 DEF RunOut, AnnounceTypeOK
<1> QED
  BY <1>1, <1>2, <1>3, <1>4, <1>5, <1>6 DEF AnnounceNext, AnnounceTypeOK, Places

\* A method of the store that changes what waits says so.
LEMMA ChangesAreSaid ==
  ASSUME AnnounceTypeOK, NEW t \in Threads, Call(t) \/ List(t)
  PROVE  /\ dirty' \/ (waiting' = waiting /\ dirty' = dirty)
         /\ dirty => dirty'
         /\ waiting \ due \subseteq waiting
         /\ List(t) => waiting' = waiting \ due
         /\ toasts' = toasts \cap waiting'
BY DEF Call, List, Holding, AnnounceTypeOK

LEMMA InsideStep == AnnounceInv /\ AnnounceNext => OneInside'
<1> SUFFICES ASSUME AnnounceInv, AnnounceNext PROVE OneInside'
  OBVIOUS
<1>1. AnnounceTypeOK /\ OneInside
  BY DEF AnnounceInv
<1>2. ASSUME NEW t \in Threads, Call(t) PROVE OneInside'
  <2>1. lock' = lock
    BY <1>2 DEF Call
  <2> QED
    BY <1>1, <1>2, <2>1, CallSteps DEF OneInside, Moves, Section, AnnounceTypeOK
<1>3. ASSUME NEW t \in Threads, Fire(t) PROVE OneInside'
  <2>1. lock' = lock /\ dirty' = FALSE
    BY <1>3 DEF Fire
  <2> QED
    BY <1>1, <1>3, <2>1, FireSteps DEF OneInside, Moves, Section, AnnounceTypeOK
<1>4. ASSUME NEW t \in Threads, Enter(t) PROVE OneInside'
  <2>1. lock = Nobody /\ lock' = t /\ dirty' = dirty
    BY <1>4 DEF Enter, Enterable
  <2> QED
    BY <1>1, <1>4, <2>1, EnterSteps, NobodyIsNoThread
    DEF OneInside, Moves, Section, AnnounceTypeOK
<1>5. ASSUME NEW t \in Threads, List(t) PROVE OneInside'
  <2>1. lock' = lock
    BY <1>5 DEF List
  <2> QED
    BY <1>1, <1>5, <2>1, ListSteps DEF OneInside, Moves, Section, AnnounceTypeOK
<1>6. ASSUME NEW t \in Threads, FireInside(t) PROVE OneInside'
  <2>1. lock' = lock /\ dirty' = FALSE
    BY <1>6 DEF FireInside
  <2> QED
    BY <1>1, <1>6, <2>1, FireInsideSteps DEF OneInside, Moves, Section, AnnounceTypeOK
<1>7. ASSUME NEW t \in Threads, Store(t) PROVE OneInside'
  <2>1. lock' = lock /\ dirty' = dirty
    BY <1>7 DEF Store
  <2> QED
    BY <1>1, <1>7, <2>1, StoreSteps DEF OneInside, Moves, Section, AnnounceTypeOK
<1>8. ASSUME NEW t \in Threads, Mark(t) PROVE OneInside'
  <2>1. lock' = Nobody /\ dirty' = dirty
    BY <1>8 DEF Mark
  <2>2. lock = t
    BY <1>1, <1>8, MarkSteps DEF OneInside, Section
  <2> QED
    BY <1>1, <1>8, <2>1, <2>2, MarkSteps, NobodyIsNoThread
    DEF OneInside, Moves, Section, AnnounceTypeOK
<1>9. ASSUME NEW c \in Prompts, RunOut(c) PROVE OneInside'
  BY <1>1, <1>9 DEF RunOut, OneInside
<1> QED
  BY <1>2, <1>3, <1>4, <1>5, <1>6, <1>7, <1>8, <1>9 DEF AnnounceNext

LEMMA FileStep == AnnounceInv /\ AnnounceNext => FileInv'
<1> SUFFICES ASSUME AnnounceInv, AnnounceNext PROVE FileInv'
  OBVIOUS
<1>1. AnnounceTypeOK /\ OneInside /\ FileInv
  BY DEF AnnounceInv
<1>2. ASSUME NEW t \in Threads, Call(t) PROVE FileInv'
  <2>1. file' = file
    BY <1>2 DEF Call
  <2>2. dirty' \/ (waiting' = waiting /\ dirty' = dirty)
    BY <1>1, <1>2, ChangesAreSaid
  <2> QED
    BY <1>1, <1>2, <2>1, <2>2, CallSteps DEF FileInv, Unseen, Moves
<1>3. ASSUME NEW t \in Threads, Fire(t) PROVE FileInv'
  <2>1. UNCHANGED <<waiting, file>>
    BY <1>3 DEF Fire
  <2> QED
    BY <1>1, <1>3, <2>1, FireSteps DEF FileInv, Unseen, Moves
<1>4. ASSUME NEW t \in Threads, Enter(t) PROVE FileInv'
  BY <1>1, <1>4, EnterSteps DEF FileInv, Unseen, Moves
<1>5. ASSUME NEW t \in Threads, List(t) PROVE FileInv'
  <2>1. waiting' = waiting \ due
    BY <1>1, <1>5, ChangesAreSaid
  <2> QED
    BY <1>1, <1>5, <2>1, ListSteps DEF FileInv, Unseen, Moves
<1>6. ASSUME NEW t \in Threads, FireInside(t) PROVE FileInv'
  <2>1. UNCHANGED <<waiting, file>>
    BY <1>6 DEF FireInside
  <2> QED
    BY <1>1, <1>6, <2>1, FireInsideSteps DEF FileInv, Unseen, Moves
<1>7. ASSUME NEW t \in Threads, Store(t) PROVE FileInv'
  <2>1. UNCHANGED <<waiting, dirty>> /\ file' = thread[t].rows
    BY <1>7 DEF Store
  <2>2. \A u \in Threads \ {t} : thread[u].pc \notin Section
    BY <1>1, <1>7, StoreSteps DEF OneInside, Section
  <2>3. thread'[t].pc = "mark" /\ thread[t].pc = "store"
        /\ \A u \in Threads \ {t} : thread'[u] = thread[u]
    BY <1>1, <1>7, StoreSteps DEF Moves
  <2>4. CASE Unseen
    BY <2>1, <2>3, <2>4 DEF FileInv, Unseen
  <2>5. CASE ~Unseen
    <3>1. thread[t].rows = waiting
      BY <1>1, <2>2, <2>3, <2>5 DEF FileInv, Section
    <3> QED
      BY <2>1, <2>2, <2>3, <3>1 DEF FileInv, Section
  <2> QED
    BY <2>4, <2>5
<1>8. ASSUME NEW t \in Threads, Mark(t) PROVE FileInv'
  <2>1. UNCHANGED <<waiting, dirty, file>>
    BY <1>8 DEF Mark
  <2> QED
    BY <1>1, <1>8, <2>1, MarkSteps DEF FileInv, Unseen, Moves
<1>9. ASSUME NEW c \in Prompts, RunOut(c) PROVE FileInv'
  BY <1>1, <1>9 DEF RunOut, FileInv, Unseen
<1> QED
  BY <1>2, <1>3, <1>4, <1>5, <1>6, <1>7, <1>8, <1>9 DEF AnnounceNext

LEMMA ToastStep == AnnounceInv /\ AnnounceNext => ToastInv'
<1> SUFFICES ASSUME AnnounceInv, AnnounceNext PROVE ToastInv'
  OBVIOUS
<1>1. AnnounceTypeOK /\ OneInside /\ ToastInv
  BY DEF AnnounceInv
<1>2. ASSUME NEW t \in Threads, Call(t) PROVE ToastInv'
  <2>1. announced' = announced /\ toasts' = toasts \cap waiting'
    BY <1>1, <1>2, ChangesAreSaid DEF Call
  <2> QED
    BY <1>1, <1>2, <2>1, CallSteps DEF ToastInv, Moves, Section
<1>3. ASSUME NEW t \in Threads, Fire(t) PROVE ToastInv'
  <2>1. UNCHANGED <<waiting, announced, toasts>>
    BY <1>3 DEF Fire
  <2> QED
    BY <1>1, <1>3, <2>1, FireSteps DEF ToastInv, Moves, Section
<1>4. ASSUME NEW t \in Threads, Enter(t) PROVE ToastInv'
  <2>1. UNCHANGED <<waiting, announced, toasts>>
    BY <1>4 DEF Enter
  <2> QED
    BY <1>1, <1>4, <2>1, EnterSteps DEF ToastInv, Moves, Section
<1>5. ASSUME NEW t \in Threads, List(t) PROVE ToastInv'
  <2>1. /\ announced' = announced /\ toasts' = toasts \cap waiting'
        /\ waiting' = waiting \ due
    BY <1>1, <1>5, ChangesAreSaid DEF List
  <2> QED
    BY <1>1, <1>5, <2>1, ListSteps DEF ToastInv, Moves, Section
<1>6. ASSUME NEW t \in Threads, FireInside(t) PROVE ToastInv'
  <2>1. UNCHANGED <<waiting, announced, toasts>>
    BY <1>6 DEF FireInside
  <2> QED
    BY <1>1, <1>6, <2>1, FireInsideSteps DEF ToastInv, Moves, Section
<1>7. ASSUME NEW t \in Threads, Store(t) PROVE ToastInv'
  <2>1. UNCHANGED <<waiting, announced, toasts>>
    BY <1>7 DEF Store
  <2> QED
    BY <1>1, <1>7, <2>1, StoreSteps DEF ToastInv, Moves, Section
<1>8. ASSUME NEW t \in Threads, Mark(t) PROVE ToastInv'
  <2>1. /\ announced' = thread[t].seen /\ waiting' = waiting
        /\ toasts' = toasts \cup ((thread[t].seen \ announced) \cap waiting)
    BY <1>8 DEF Mark, Fresh
  <2>2. \A u \in Threads \ {t} : thread'[u].pc \notin Section
    BY <1>1, <1>8, MarkSteps DEF OneInside, Section, Moves
  <2>3. toasts \subseteq thread[t].seen /\ toasts \subseteq waiting
    BY <1>1, <1>8, MarkSteps DEF ToastInv, Section
  <2> QED
    BY <1>1, <1>8, <2>1, <2>2, <2>3, MarkSteps DEF ToastInv, Section
<1>9. ASSUME NEW c \in Prompts, RunOut(c) PROVE ToastInv'
  BY <1>1, <1>9 DEF RunOut, ToastInv
<1> QED
  BY <1>2, <1>3, <1>4, <1>5, <1>6, <1>7, <1>8, <1>9 DEF AnnounceNext

\* Every part of the invariant, however many threads call the store and however
\* their notifications interleave.
THEOREM AnnounceInvariant == AnnounceSpec => []AnnounceInv
<1>1. AnnounceInit => AnnounceInv
  <2> SUFFICES ASSUME AnnounceInit PROVE AnnounceInv
    OBVIOUS
  <2>1. AtRestThread \in Places /\ AtRestThread.pc = "idle"
    BY DEF AtRestThread, Places, Pcs
  <2>2. AnnounceTypeOK
    BY <2>1 DEF AnnounceInit, AnnounceTypeOK, Places
  <2> QED
    BY <2>1, <2>2 DEF AnnounceInit, AnnounceInv, OneInside, FileInv, ToastInv, Section
<1>2. AnnounceInv /\ [AnnounceNext]_announceVars => AnnounceInv'
  <2>1. AnnounceInv /\ AnnounceNext => AnnounceInv'
    BY AnnounceTypeStep, InsideStep, FileStep, ToastStep DEF AnnounceInv
  <2>2. AnnounceInv /\ UNCHANGED announceVars => AnnounceInv'
    BY DEF announceVars, AnnounceInv, AnnounceTypeOK, OneInside, FileInv, Unseen, ToastInv
  <2> QED
    BY <2>1, <2>2
<1> QED
  BY <1>1, <1>2, PTL DEF AnnounceSpec

\* pending.py:1-12: once every thread has notified, pending.json lists what waits.
THEOREM FileCurrent == AnnounceSpec => []FileIsCurrent
<1>1. AnnounceInv => FileIsCurrent
  BY DEF AnnounceInv, FileIsCurrent, FileInv, Unseen, OneInside, At
<1> QED
  BY <1>1, AnnounceInvariant, PTL

\* server.py:449: a person is shown each permit once while it waits.
THEOREM EachAnnouncedOnce == AnnounceSpec => AnnouncedOnce
<1> DEFINE Once == \A t \in Threads : Mark(t) => Fresh(t) \cap toasts = {}
<1>1. AnnounceInv /\ [AnnounceNext]_announceVars => [Once]_announceVars
  BY DEF AnnounceInv, ToastInv, Fresh
<1> HIDE DEF Once
<1>2. AnnounceSpec => [][Once]_announceVars
  BY <1>1, AnnounceInvariant, PTL DEF AnnounceSpec
<1> QED
  BY <1>2 DEF Once, AnnouncedOnce
===============================================================================

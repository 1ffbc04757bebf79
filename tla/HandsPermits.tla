----------------------------- MODULE HandsPermits ------------------------------
(***************************************************************************)
(* The approval broker of Firekeep Hands: the permit store                 *)
(* (hands/src/firekeep_hands/broker/permits.py), the chord, the HTTP       *)
(* handlers and the phone bridge (broker/phone.py), which shows a permit   *)
(* as a relay task.  A method of the store is one step, taken under its    *)
(* lock; the bridge's thread is a walk over `bridge.pc`, and everything    *)
(* else runs between its calls.                                            *)
(***************************************************************************)
EXTENDS Naturals, FiniteSets

CONSTANTS
  Permits,      \* Permit objects
  Challenges,   \* deterministic: one per step and action
  Tasks,        \* relay tasks
  Creds,        \* credentials whose stamp relay can put on a task
  Requester,    \* the kit's own: it posts the permit tasks
  Strangers,    \* unauthenticated, or of another workspace
  Approvers,    \* phone_approvers; empty for anybody else's
  TTL, Retain,  \* permit_ttl_s, _RETAIN_S
  MaxNow        \* bound on the clock

CONSTANTS NoPermit, NoTask, NoCred

ASSUME PermitConstants ==
  /\ {TTL, Retain, MaxNow} \subseteq Nat /\ TTL > 0
  /\ Requester \in Creds /\ Strangers \subseteq Creds /\ Approvers \subseteq Creds
  /\ Permits # {}
  /\ NoPermit \notin Permits /\ NoTask \notin Tasks /\ NoCred \notin Creds

VARIABLES
  now,      \* the store's clock
  permit,   \* every Permit object made so far
  book,     \* PermitStore._permits
  task,     \* the relay tasks the broker posted
  bridge,   \* where the phone bridge's thread is
  opened,   \* PhoneBridge._tasks
  answered, \* PhoneBridge._answered_here
  refused   \* PhoneBridge._refused

permitVars == <<now, permit, book, task, bridge, opened, answered, refused>>

LiveStates == {"pending", "approved"}
States == LiveStates \cup {"denied", "expired", "consumed"}
Answers == {"approve", "deny"}

Others == (IF Approvers = {} THEN Creds ELSE Approvers) \ (Strangers \cup {Requester})

\* History: tap, the task whose answer decided the permit; endorsed, whether
\* somebody else's credential (on phone_approvers, if set) ever approved on it.
PermitRecords == [challenge : Challenges, created : Nat, state : States,
                  via : {"none", "chord", "phone", "phone-refused"},
                  phone_task_id : Tasks \cup {NoTask}, tap : Tasks \cup {NoTask}]
TaskRecords == [challenge : Challenges, answer : Answers \cup {"pending"},
                completed_by : Creds \cup {NoCred}, endorsed : BOOLEAN]

ASSUME NothingIsARecord == NoPermit \notin PermitRecords /\ NoTask \notin TaskRecords

\* todo: the permits or challenges its loop has still to visit; of the one at
\* hand, the challenge, the task that was read and what it answered.
Bridges == [pc : {"start", "post", "poll", "decide", "close"},
            todo : SUBSET (Permits \cup Challenges),
            challenge : Challenges \cup {"none"}, tap : Tasks \cup {NoTask},
            verdict : Answers \cup {"refuse", "none"}]

AtRest == [pc |-> "start", todo |-> {}, challenge |-> "none", tap |-> NoTask,
           verdict |-> "none"]

PermitTypeOK ==
  /\ now \in Nat
  /\ permit \in [Permits -> PermitRecords \cup {NoPermit}]
  /\ book \in [Challenges -> Permits \cup {NoPermit}]
  /\ task \in [Tasks -> TaskRecords \cup {NoTask}]
  /\ bridge \in Bridges
  /\ opened \in [Challenges -> Tasks \cup {NoTask}]
  /\ answered \subseteq Challenges /\ refused \subseteq Challenges

PermitInit ==
  /\ now = 0
  /\ permit = [p \in Permits |-> NoPermit]
  /\ book = [c \in Challenges |-> NoPermit]
  /\ task = [t \in Tasks |-> NoTask]
  /\ bridge = AtRest
  /\ opened = [c \in Challenges |-> NoTask]
  /\ answered = {} /\ refused = {}

-------------------------------------------------------------------------------
(* PermitStore.                                                             *)

Held == {p \in Permits : \E c \in Challenges : book[c] = p}

Deadline(p) == permit[p].created + TTL

\* Mutant: only a pending permit expires.
Expires_Pending(p) ==
  p \in Held /\ permit[p].state = "pending" /\ now >= Deadline(p)

\* _sweep: what has run out is expired, what did so long ago is forgotten.
Expires(p) == p \in Held /\ permit[p].state \in LiveStates /\ now >= Deadline(p)

Swept == [p \in Permits |-> IF Expires(p) THEN [permit[p] EXCEPT !.state = "expired"]
                            ELSE permit[p]]

SweptBook == [c \in Challenges |->
  IF /\ book[c] # NoPermit
     /\ Swept[book[c]].state \notin LiveStates
     /\ now >= Deadline(book[c]) + Retain
  THEN NoPermit ELSE book[c]]

Pending == {p \in Held : Swept[p].state = "pending"}

\* get, pending, /health.
Look == permit' = Swept /\ book' = SweptBook

\* Mutant: a request always makes a new permit.
Reused_Never(c) == FALSE

\* request is idempotent while the permit is live.
Reused(c) == SweptBook[c] # NoPermit /\ Swept[SweptBook[c]].state \in LiveStates

\* MaxNow bounds the clock: a permit is made while it can still run out.
Request(c) ==
  /\ now + TTL <= MaxNow
  /\ IF Reused(c) THEN Look
     ELSE \E p \in Permits :
            /\ permit[p] = NoPermit
            /\ permit' = [Swept EXCEPT ![p] =
                 [challenge |-> c, created |-> now, state |-> "pending",
                  via |-> "none", phone_task_id |-> NoTask, tap |-> NoTask]]
            /\ book' = [SweptBook EXCEPT ![c] = p]
  /\ UNCHANGED <<now, task, bridge, opened, answered, refused>>

Landed(decision) == IF decision = "approve" THEN "approved" ELSE "denied"

\* Whether decide() takes effect on the permit that challenge c names now.
Decidable(c) == SweptBook[c] # NoPermit /\ Swept[SweptBook[c]].state = "pending"

Decided(c, decision, via, t) ==
  /\ permit' = [Swept EXCEPT ![SweptBook[c]] =
       [@ EXCEPT !.state = Landed(decision), !.via = via, !.tap = t]]
  /\ book' = SweptBook

\* The chord answers the oldest pending permit; of two made in one clock tick,
\* either.
Chord(decision) ==
  /\ \E p \in Pending :
       /\ \A q \in Pending : permit[p].created <= permit[q].created
       /\ Decided(permit[p].challenge, decision, "chord", NoTask)
  /\ UNCHANGED <<now, task, bridge, opened, answered, refused>>

Spendable(c) == SweptBook[c] # NoPermit /\ Swept[SweptBook[c]].state = "approved"

Consume(c) ==
  /\ IF Spendable(c)
     THEN /\ permit' = [Swept EXCEPT ![SweptBook[c]].state = "consumed"]
          /\ book' = SweptBook
     ELSE Look
  /\ UNCHANGED <<now, task, bridge, opened, answered, refused>>

-------------------------------------------------------------------------------
(* Relay, as the bridge uses it: a task can be resolved, or reopened, by any *)
(* credential, at any time.                                                  *)

\* Reopening removes the stamp.
UpdateTask(t, answer, cred) ==
  /\ task[t] # NoTask
  /\ task' = [task EXCEPT ![t].answer = answer,
                ![t].completed_by = IF answer = "pending" THEN NoCred ELSE cred,
                ![t].endorsed = @ \/ (answer = "approve" /\ cred \in Others)]
  /\ UNCHANGED <<now, permit, book, bridge, opened, answered, refused>>

-------------------------------------------------------------------------------
(* PhoneBridge.tick: post, poll, close.                                     *)

Step(r) == bridge' = r

PostNew ==
  /\ bridge.pc = "start"
  /\ Look /\ Step([AtRest EXCEPT !.pc = "post", !.todo = Pending])
  /\ UNCHANGED <<now, task, opened, answered, refused>>

\* link.post_permit_task: it succeeds, it fails, or it succeeds and the reply is
\* lost.  Nothing but this thread reads the task's id.
Post(p) ==
  /\ bridge.pc = "post" /\ p \in bridge.todo
  /\ Step([bridge EXCEPT !.todo = @ \ {p}])
  /\ \/ UNCHANGED <<permit, task, opened>>
     \/ /\ permit[p].phone_task_id = NoTask
        /\ \E t \in Tasks, lost \in BOOLEAN :
             /\ task[t] = NoTask
             /\ task' = [task EXCEPT ![t] =
                  [challenge |-> permit[p].challenge, answer |-> "pending",
                   completed_by |-> NoCred, endorsed |-> FALSE]]
             /\ IF lost THEN UNCHANGED <<permit, opened>>
                ELSE /\ permit' = [permit EXCEPT ![p].phone_task_id = t]
                     /\ opened' = [opened EXCEPT ![permit[p].challenge] = t]
  /\ UNCHANGED <<now, book, answered, refused>>

PollOpen ==
  /\ bridge.pc = "post" /\ bridge.todo = {}
  /\ Look /\ Step([AtRest EXCEPT !.pc = "poll", !.todo = Pending])
  /\ UNCHANGED <<now, task, opened, answered, refused>>

\* Mutant: whoever completed the task approves.
Honoured_Anyone(cred) == cred # NoCred

\* approval_refusal finds nothing wrong.
Honoured(cred) == /\ cred \notin Strangers \cup {Requester, NoCred}
                  /\ Approvers # {} => cred \in Approvers

Verdict(t) == IF task[t].answer = "approve" /\ ~Honoured(task[t].completed_by)
              THEN "refuse" ELSE task[t].answer

\* Mutant: the task is looked up by its title, which names the challenge.
TaskOf_ByTitle(p) ==
  {t \in Tasks : task[t] # NoTask /\ task[t].challenge = permit[p].challenge}

\* The task of a permit is read back by id.
TaskOf(p) == {permit[p].phone_task_id} \ {NoTask}

\* link.permit_task, which may fail.  The challenge and the answer are kept, not
\* the permit.
Poll(p) ==
  /\ bridge.pc = "poll" /\ p \in bridge.todo
  /\ LET rest == [bridge EXCEPT !.todo = @ \ {p}] IN
     \/ Step(rest)
     \/ \E t \in TaskOf(p) :
          /\ Verdict(t) # "pending"
          /\ Step([rest EXCEPT !.pc = "decide", !.challenge = permit[p].challenge,
                               !.tap = t, !.verdict = Verdict(t)])
  /\ UNCHANGED <<now, permit, book, task, opened, answered, refused>>

\* store.decide, on whatever permit the challenge names by now.
Decide ==
  /\ bridge.pc = "decide"
  /\ Step([AtRest EXCEPT !.pc = "poll", !.todo = bridge.todo])
  /\ LET c == bridge.challenge  v == bridge.verdict IN
     IF ~Decidable(c) THEN Look /\ UNCHANGED <<answered, refused>>
     ELSE IF v = "refuse"
     THEN /\ Decided(c, "deny", "phone-refused", bridge.tap)
          /\ refused' = refused \cup {c} /\ UNCHANGED answered
     ELSE /\ Decided(c, v, "phone", bridge.tap)
          /\ answered' = answered \cup {c} /\ UNCHANGED refused
  /\ UNCHANGED <<now, task, opened>>

CloseResolved ==
  /\ bridge.pc = "poll" /\ bridge.todo = {}
  /\ Step([AtRest EXCEPT !.pc = "close",
                         !.todo = {c \in Challenges : opened[c] # NoTask}])
  /\ UNCHANGED <<now, permit, book, task, opened, answered, refused>>

\* Mutant: a pass closes whatever is in the table.
Resolved_Always(c) == TRUE

Resolved(c) == SweptBook[c] # NoPermit => Swept[SweptBook[c]].state # "pending"

\* store.get, then the task leaves the table; it is cancelled, if relay answers,
\* unless the phone answered it.
Close(c) ==
  /\ bridge.pc = "close" /\ c \in bridge.todo
  /\ Look /\ Step([bridge EXCEPT !.todo = @ \ {c}])
  /\ IF ~Resolved(c) THEN UNCHANGED <<task, opened, answered, refused>>
     ELSE /\ opened' = [opened EXCEPT ![c] = NoTask]
          /\ IF c \in answered
             THEN answered' = answered \ {c} /\ UNCHANGED <<task, refused>>
             ELSE /\ refused' = refused \ {c} /\ UNCHANGED answered
                  /\ \/ UNCHANGED task
                     \/ task' = [task EXCEPT ![opened[c]] =
                          [@ EXCEPT !.answer = "deny", !.completed_by = Requester]]
  /\ UNCHANGED now

TickEnd ==
  /\ bridge.pc = "close" /\ bridge.todo = {}
  /\ Step(AtRest)
  /\ UNCHANGED <<now, permit, book, task, opened, answered, refused>>

-------------------------------------------------------------------------------
Tick == /\ now < MaxNow
        /\ now' = now + 1
        /\ UNCHANGED <<permit, book, task, bridge, opened, answered, refused>>

\* A broker that restarts has no permits, and knows of no task.
BrokerRestart ==
  /\ book' = [c \in Challenges |-> NoPermit]
  /\ bridge' = AtRest
  /\ opened' = [c \in Challenges |-> NoTask]
  /\ answered' = {} /\ refused' = {}
  /\ UNCHANGED <<now, permit, task>>

PhoneTick == \/ PostNew \/ PollOpen \/ Decide \/ CloseResolved \/ TickEnd
             \/ \E p \in Permits : Post(p) \/ Poll(p)
             \/ \E c \in Challenges : Close(c)

UpdateTasks(T) == \E t \in T, a \in Answers \cup {"pending"}, cred \in Creds :
                    UpdateTask(t, a, cred)

\* What happens on the broker's machine.
Local ==
  \/ \E c \in Challenges : Request(c) \/ Consume(c)
  \/ \E d \in Answers : Chord(d)
  \/ PhoneTick
  \/ Look /\ UNCHANGED <<now, task, bridge, opened, answered, refused>>
  \/ Tick \/ BrokerRestart

PermitNext == Local \/ UpdateTasks(Tasks)

PermitSpec == PermitInit /\ [][PermitNext]_permitVars

-------------------------------------------------------------------------------
(* Properties.                                                              *)

\* permits.py:1-16: whatever the chord, the handlers, the bridge and the clock
\* do between each other's steps, permits follow the four rules.
Rules == INSTANCE PermitRules WITH
  state    <- [p \in Permits |-> IF permit[p] = NoPermit THEN "none"
                                 ELSE permit[p].state],
  deadline <- [p \in Permits |-> IF permit[p] = NoPermit THEN 0 ELSE Deadline(p)]

KeepsRules == Rules!RulesSpec

\* permits.py:163-166: until it is spent or runs out, a permit a person has
\* approved is the one its challenge names: no retry replaces it.
ApprovalNotDiscarded ==
  [][\A c \in Challenges :
       LET p == book[c] IN
       /\ p # NoPermit /\ permit[p].state = "approved" /\ now < Deadline(p)
       => BrokerRestart \/ book'[c] = p]_permitVars

\* phone.py:5-24: a permit is approved by phone only if a credential other than
\* the requester's (and on phone_approvers, if set) approved on the task whose
\* answer decided it, however that task was rewritten meanwhile.
PhoneApprovalIsAnothers ==
  \A p \in Permits :
    /\ permit[p] # NoPermit /\ permit[p].via = "phone" /\ permit[p].state # "denied"
    => task[permit[p].tap].endorsed

\* phone.py:169-171: one answer on the dashboard decides one permit.
OneTapOnePermit ==
  \A p, q \in Permits :
    /\ permit[p] # NoPermit /\ permit[q] # NoPermit
    /\ permit[p].tap = permit[q].tap /\ permit[p].tap # NoTask
    => p = q

\* phone.py:103-105: a permit that waits with a task on the dashboard has that
\* task in the bridge's table, so that the task will be closed with it.
ShownIsTracked ==
  \A p \in Held :
    permit[p].state = "pending" /\ permit[p].phone_task_id # NoTask
      => opened[permit[p].challenge] = permit[p].phone_task_id

-------------------------------------------------------------------------------
(* Why these hold (HandsPermitsProofs): what each part of the broker knows. *)

Made(p) == permit[p] # NoPermit
Waits(p) == p \in Held /\ permit[p].state = "pending"

\* The store names permits by their own challenge; one that is pending was not
\* decided.
StoreInv ==
  /\ \A c \in Challenges :
       book[c] # NoPermit => Made(book[c]) /\ permit[book[c]].challenge = c
  /\ \A p \in Permits : Made(p) /\ permit[p].state = "pending"
       => permit[p].via = "none" /\ permit[p].tap = NoTask

\* The bridge visits each challenge once, through a permit that was made.
VisitInv ==
  /\ bridge.pc \in {"post", "poll", "decide"} =>
       /\ bridge.todo \subseteq Permits
       /\ \A p \in bridge.todo : Made(p)
       /\ \A p, q \in bridge.todo : permit[p].challenge = permit[q].challenge => p = q
  /\ bridge.pc = "close" => bridge.todo \subseteq Challenges

\* A task is of one permit, and of its challenge.
TaskInv ==
  /\ \A p \in Permits : Made(p) /\ permit[p].phone_task_id # NoTask
       => /\ task[permit[p].phone_task_id] # NoTask
          /\ \A q \in Permits :
               Made(q) /\ permit[q].phone_task_id = permit[p].phone_task_id => p = q
  /\ \A p \in Permits : Made(p) /\ permit[p].tap # NoTask
       => task[permit[p].tap] # NoTask
  /\ \A p \in Permits : Made(p) /\ permit[p].via = "phone" => permit[p].tap # NoTask
  /\ \A c \in Challenges : opened[c] # NoTask => task[opened[c]] # NoTask

\* The permit whose task has decided something no longer waits, and the bridge
\* will not visit it again.
SpentInv ==
  \A p, o \in Permits :
    /\ Made(p) /\ Made(o)
    /\ permit[p].tap # NoTask /\ permit[o].phone_task_id = permit[p].tap
    => ~Waits(o) /\ (bridge.pc \in {"post", "poll", "decide"} => o \notin bridge.todo)

\* The answer in the bridge's hand was read from a task that has decided nothing
\* yet, and whose permit it has visited.
HandInv ==
  bridge.pc = "decide" =>
    /\ bridge.challenge \in Challenges /\ bridge.tap \in Tasks
    /\ bridge.verdict \in Answers \cup {"refuse"}
    /\ task[bridge.tap] # NoTask
    /\ bridge.verdict = "approve" => task[bridge.tap].endorsed
    /\ \A p \in Permits : Made(p) => permit[p].tap # bridge.tap
    /\ \E o \in Permits : /\ Made(o) /\ o \notin bridge.todo
                          /\ permit[o].phone_task_id = bridge.tap
                          /\ permit[o].challenge = bridge.challenge

EndorsedInv ==
  \A t \in Tasks :
    task[t] # NoTask /\ task[t].answer = "approve" /\ Honoured(task[t].completed_by)
      => task[t].endorsed

\* A waiting permit that replaced one the bridge is about to post has no task.
TrackInv ==
  /\ ShownIsTracked
  /\ bridge.pc = "post" =>
       \A p \in bridge.todo, q \in Permits :
         Waits(q) /\ q # p /\ permit[q].challenge = permit[p].challenge
           => permit[q].phone_task_id = NoTask

===============================================================================

------------------------------ MODULE NightShift ------------------------------
(***************************************************************************)
(* Work for developers' own machines: a session's end and Cortex's nightly *)
(* pass (fleet/enqueue.py) put tasks into Relay; night shifts              *)
(* (firekeep_client/nightshift.py) list them, lease one after the other,   *)
(* ask a local model, write what it says to Cortex and complete the task.  *)
(* Each call over the network is an action, whose reply may be an error or *)
(* lost.                                                                   *)
(*                                                                         *)
(* Left out: what the model is asked and says; the draft of a skill that   *)
(* comes with a distillation (one that is refused is logged, one that is   *)
(* lost fails the task like a lost memory); dry runs, presence and the     *)
(* checks made before anything is listed; the cap and the one-workspace    *)
(* rule of the nightly pass; tasks other agents complete by hand.          *)
(***************************************************************************)
EXTENDS SequencesExt, Integers

CONSTANTS Shifts,                     \* runs of night-shift
          Sessions, Skills, Pairs,    \* what tasks are about
          MaxPosted, MaxTasks,        \* bound on tasks; --max
          MaxStored,                  \* bound on what is written for one task
          Lost,                       \* calls whose reply may be lost
          NoOne                       \* nobody, nothing

ASSUME FleetAssumption ==
    /\ MaxPosted \in Nat /\ MaxTasks \in Nat \ {0}
    /\ Sessions \cap (Skills \cup Pairs) = {} /\ Skills \cap Pairs = {}
    /\ NoOne \notin Sessions \cup Skills \cup Pairs

VARIABLES posted,    \* Relay's tasks, oldest first
          leases,    \* who has leased a task
          stored,    \* results written to Cortex for a task
          open,      \* stale skills and contested pairs
          drafted,   \* those with a draft or a proposal
          declined,  \* fleet:rejected:<skill>
          marker,    \* fleet:enqueued:<subject>
          pass,      \* the nightly pass
          hooked,    \* distill_enqueued_<session>: the stop hook's scratch markers
          shift      \* the shifts

nightVars == <<posted, leases, stored, open, drafted, declined, marker, pass, hooked, shift>>

JobTitles == <<"distill", "reauthor", "verdict">>
Subjects  == Skills \cup Pairs
Job(s)    == IF s \in Skills THEN "reauthor" ELSE IF s \in Pairs THEN "verdict" ELSE "distill"
Results   == {"", "written", "noop", "legacy", "duplicate", "error"}
TaskIds   == 1 .. MaxPosted
RelayTask == [subject : Sessions \cup Subjects \cup {NoOne}, result : Results,
              status : {"pending", "completed", "failed", "gone"}]
OffDuty   == [pc |-> "off", job |-> 1, todo |-> <<>>, seen |-> {}, held |-> FALSE,
              result |-> "", stop |-> FALSE]
NoPass    == [todo |-> {}, subject |-> NoOne]

NightInit ==
    /\ posted = <<>>
    /\ leases = [n \in TaskIds |-> NoOne]
    /\ stored = [n \in TaskIds |-> 0]
    /\ open = Subjects
    /\ drafted = {} /\ declined = {} /\ marker = {}
    /\ pass = NoPass /\ hooked = {}
    /\ shift = [w \in Shifts |-> OffDuty]

Cortex == <<stored, open, drafted, declined>>

-----------------------------------------------------------------------------
(* What puts tasks into Relay *)

Posted(s) == Append(posted, [subject |-> s, status |-> "pending", result |-> ""])

\* The stop hook, at the end of every turn: one task for a session, unless the
\* reply to the post is lost; one that names no session for any other.
SessionEnds(s) ==
    /\ s \notin hooked
    /\ Len(posted) < MaxPosted
    /\ posted' = Posted(s)
    /\ hooked' \in {hooked, hooked \cup (Sessions \cap {s})}
    /\ UNCHANGED <<leases, Cortex, marker, pass, shift>>

\* The store is asked what is true: no draft, no proposal, no rejection.
Wanted(declinedSeen) == {s \in open : s \notin drafted \cup declinedSeen}

\* fleet_enqueue_pass gathers; a rejection it cannot read counts as none.
Gather ==
    /\ pass = NoPass
    /\ \E seen \in {declined, {}} :
          /\ Wanted(seen) # {}
          /\ pass' = [NoPass EXCEPT !.todo = Wanted(seen)]
    /\ UNCHANGED <<posted, leases, Cortex, marker, shift, hooked>>

\* Mutant: the claim is a plain SET.
Free_Always(s) == s \in Subjects

\* SET NX: no marker lives.
Free(s) == s \notin marker

\* _send: the marker, or the subject is in flight.
Claim(s) ==
    /\ s \in pass.todo /\ pass.subject = NoOne
    /\ \/ Free(s) /\ marker' = marker \cup {s} /\ pass' = [pass EXCEPT !.subject = s]
       \/ UNCHANGED marker /\ pass' = [pass EXCEPT !.todo = @ \ {s}]
    /\ UNCHANGED <<posted, leases, Cortex, shift, hooked>>

\* ... and the task; the marker is given back when the post is not confirmed.
PostTask(s) ==
    /\ pass.subject = s
    /\ \/ /\ Len(posted) < MaxPosted
          /\ posted' = Posted(s)
          /\ marker' \in {marker} \cup (IF "post" \in Lost THEN {marker \ {s}} ELSE {})
       \/ UNCHANGED posted /\ marker' = marker \ {s}
    /\ pass' = [todo |-> pass.todo \ {s}, subject |-> NoOne]
    /\ UNCHANGED <<leases, Cortex, shift, hooked>>

PassDies ==
    /\ pass # NoPass
    /\ pass' = NoPass
    /\ UNCHANGED <<posted, leases, Cortex, marker, shift, hooked>>

\* A task lives 7 days; the marker of a rewrite 30, that of a verdict as long as
\* its task.
TaskGone(n) ==
    /\ n \in DOMAIN posted
    /\ posted[n].status # "gone"
    /\ posted' = [posted EXCEPT ![n].status = "gone"]
    /\ UNCHANGED <<leases, Cortex, marker, pass, shift, hooked>>

MarkerGone(s) ==
    /\ s \in marker /\ pass.subject # s
    /\ \A n \in DOMAIN posted : posted[n].subject = s => posted[n].status = "gone"
    /\ marker' = marker \ {s}
    /\ UNCHANGED <<posted, leases, Cortex, pass, shift, hooked>>

\* A person deletes the draft (the mark of it is best effort), or decides the
\* pair; or the skill is recalled.
RejectDraft(s) ==
    /\ s \in drafted \cap Skills
    /\ drafted' = drafted \ {s}
    /\ declined' \in {declined, declined \cup {s}}
    /\ UNCHANGED <<posted, leases, stored, open, marker, pass, shift, hooked>>

Settle(s) ==
    /\ s \in open
    /\ open' = open \ {s}
    /\ drafted' = drafted \ (Pairs \cap {s})
    /\ UNCHANGED <<posted, leases, stored, declined, marker, pass, shift, hooked>>

-----------------------------------------------------------------------------
(* A shift *)

Cur(w)        == Head(shift[w].todo)
About(w)      == posted[Cur(w)].subject
OnDuty(w, pc) == shift[w].pc = pc
Turn(w, pc)   == shift' = [shift EXCEPT ![w].pc = pc]

\* The next task, or the end of the shift.
Onward(r) == IF r.stop \/ Len(r.todo) <= 1 THEN OffDuty
             ELSE [r EXCEPT !.pc = "next", !.todo = Tail(@), !.held = FALSE, !.result = ""]
Leave(w)  == shift' = [shift EXCEPT ![w] = Onward(@)]

GoOnDuty(w) ==
    /\ OnDuty(w, "off")
    /\ Turn(w, "list")
    /\ UNCHANGED <<posted, leases, Cortex, marker, pass, hooked>>

PendingOf(j) == {n \in DOMAIN posted : posted[n].status = "pending" /\ Job(posted[n].subject) = j}

\* The one sequence of the tasks in S, oldest first.
OldestFirst(S) ==
    {q \in [1 .. Cardinality(S) -> S] : \A i, k \in DOMAIN q : i < k => q[i] < q[k]}

\* One listing per job; that of a newer job may be unknown to Relay.
ListJob(w) ==
    /\ OnDuty(w, "list")
    /\ LET j == shift[w].job IN
       \E found \in OldestFirst(PendingOf(JobTitles[j])) \cup (IF j = 1 THEN {} ELSE {<<>>}) :
          LET all == shift[w].todo \o found IN
          shift' = [shift EXCEPT ![w] =
             IF j < Len(JobTitles) THEN [@ EXCEPT !.job = j + 1, !.todo = all]
             ELSE IF all = <<>> THEN OffDuty
             ELSE [@ EXCEPT !.pc = "next", !.job = 1,
                            !.todo = IF Len(all) > MaxTasks THEN SubSeq(all, 1, MaxTasks) ELSE all]]
    /\ UNCHANGED <<posted, leases, Cortex, marker, pass, hooked>>

Live(n) == posted[n].status # "gone"
Updated(n, status, result) == [posted EXCEPT ![n].status = status, ![n].result = result]

\* Nothing to distill, or distilled in this shift already: closed without a lease.
Spare(w) == IF About(w) = NoOne THEN "legacy" ELSE IF About(w) \in shift[w].seen THEN "duplicate" ELSE ""

CloseSpare(w) ==
    /\ OnDuty(w, "next")
    /\ Spare(w) # ""
    /\ \/ Live(Cur(w)) /\ posted' = Updated(Cur(w), "completed", Spare(w))
       \/ UNCHANGED posted
    /\ Leave(w)
    /\ UNCHANGED <<leases, Cortex, marker, pass, hooked>>

\* relay_lease: granted, refused (or an error in the reply), or no reply.
LeaseTask(w) ==
    /\ OnDuty(w, "next")
    /\ Spare(w) = ""
    /\ \/ /\ leases[Cur(w)] = NoOne
          /\ leases' = [leases EXCEPT ![Cur(w)] = w]
          /\ \/ shift' = [shift EXCEPT ![w].pc = "model", ![w].held = TRUE]
             \/ "lease" \in Lost /\ Turn(w, "fail")
       \/ UNCHANGED leases /\ (Leave(w) \/ Turn(w, "fail"))
    /\ UNCHANGED <<posted, Cortex, marker, pass, hooked>>

LeaseLapses(n) ==
    /\ leases[n] # NoOne
    /\ leases' = [leases EXCEPT ![n] = NoOne]
    /\ UNCHANGED <<posted, Cortex, marker, pass, shift, hooked>>

\* The model answers, gives up on a stale skill, answers nonsense, or is gone
\* (which ends the shift and leaves the task pending).
AskModel(w) ==
    /\ OnDuty(w, "model")
    /\ \/ Turn(w, "write")
       \/ About(w) \in Skills /\ shift' = [shift EXCEPT ![w].pc = "complete", ![w].result = "noop"]
       \/ Turn(w, "fail")
       \/ shift' = [shift EXCEPT ![w].pc = "release", ![w].stop = TRUE]
    /\ UNCHANGED <<posted, leases, Cortex, marker, pass, hooked>>

\* Mutant: any reply of Cortex counts as stored.
Confirmed_Any(reply) == reply # "lost"

\* "Stored memory", "Skill created", status "proposed".
Confirmed(reply) == reply = "stored"

\* memory_learn, skill_create, or /memory/contested/propose for a pair that is
\* still contested.  A skill_create without a reply is taken for a lost model.
WriteResult(w) ==
    /\ OnDuty(w, "write")
    /\ \E reply \in {"stored", "error", "lost"}, kept \in BOOLEAN :
          /\ reply = "stored" => kept
          /\ reply = "error" => ~kept
          /\ kept /\ reply = "lost" => "write" \in Lost
          /\ kept => About(w) \notin Pairs \ open /\ stored[Cur(w)] < MaxStored
          /\ stored' = IF kept THEN [stored EXCEPT ![Cur(w)] = @ + 1] ELSE stored
          /\ drafted' = IF kept THEN drafted \cup (Subjects \cap {About(w)}) ELSE drafted
          /\ shift' = IF Confirmed(reply)
                      THEN [shift EXCEPT ![w].pc = "complete", ![w].result = "written"]
                      ELSE IF reply = "lost" /\ About(w) \in Skills
                      THEN [shift EXCEPT ![w].pc = "release", ![w].stop = TRUE]
                      ELSE [shift EXCEPT ![w].pc = "fail"]
    /\ UNCHANGED <<posted, leases, open, declined, marker, pass, hooked>>

\* relay_task_update(completed): confirmed, refused in the reply, or no reply.
Complete(w) ==
    /\ OnDuty(w, "complete")
    /\ LET mine == Sessions \cap {About(w)} IN
       \/ /\ Live(Cur(w))
          /\ posted' = Updated(Cur(w), "completed", shift[w].result)
          /\ \/ shift' = [shift EXCEPT ![w].pc = "release", ![w].seen = @ \cup mine]
             \/ "update" \in Lost /\ Turn(w, "fail")
       \/ UNCHANGED posted /\ (Turn(w, "release") \/ Turn(w, "fail"))
    /\ UNCHANGED <<leases, Cortex, marker, pass, hooked>>

MarkFailed(w) ==
    /\ OnDuty(w, "fail")
    /\ \/ Live(Cur(w)) /\ posted' = Updated(Cur(w), "failed", "error")
       \/ UNCHANGED posted
    /\ Turn(w, "release")
    /\ UNCHANGED <<leases, Cortex, marker, pass, hooked>>

\* relay_release with the token, when there is one.
Release(w) ==
    /\ OnDuty(w, "release")
    /\ \/ shift[w].held /\ leases[Cur(w)] = w /\ leases' = [leases EXCEPT ![Cur(w)] = NoOne]
       \/ UNCHANGED leases
    /\ Leave(w)
    /\ UNCHANGED <<posted, Cortex, marker, pass, hooked>>

\* The machine is switched off, or a listing fails.
ShiftDies(w) ==
    /\ ~OnDuty(w, "off")
    /\ shift' = [shift EXCEPT ![w] = OffDuty]
    /\ UNCHANGED <<posted, leases, Cortex, marker, pass, hooked>>

NightNext ==
    \/ \E s \in Sessions \cup {NoOne} : SessionEnds(s)
    \/ Gather
    \/ PassDies
    \/ \E s \in Subjects : \/ Claim(s)
                           \/ PostTask(s)
                           \/ MarkerGone(s)
                           \/ RejectDraft(s)
                           \/ Settle(s)
    \/ \E n \in TaskIds : TaskGone(n) \/ LeaseLapses(n)
    \/ \E w \in Shifts : \/ GoOnDuty(w)
                         \/ ListJob(w)
                         \/ CloseSpare(w)
                         \/ LeaseTask(w)
                         \/ AskModel(w)
                         \/ WriteResult(w)
                         \/ Complete(w)
                         \/ MarkFailed(w)
                         \/ Release(w)
                         \/ ShiftDies(w)

NightSpec == NightInit /\ [][NightNext]_nightVars

-----------------------------------------------------------------------------
(* Properties *)

\* "the distillation would be silently lost if we completed here"
\* (nightshift.py:766): what a completed task says was written is in Cortex, and a
\* duplicate was closed for a session that is, whatever was lost or repeated.
CompletedIsWritten ==
    \A n \in DOMAIN posted : posted[n].status = "completed" =>
        CASE posted[n].result = "written"   -> stored[n] > 0
          [] posted[n].result = "duplicate" ->
                \E m \in DOMAIN posted : posted[m].subject = posted[n].subject /\ stored[m] > 0
          [] OTHER -> posted[n].subject \in Skills \cup {NoOne}

\* "A short live marker stops double-posting while a task is in flight"
\* (enqueue.py:17): there is one task at most for a stale skill, as long as Cortex
\* hears of every task it posts.
OneLiveRewrite ==
    \A s \in Skills :
        Cardinality({n \in DOMAIN posted : posted[n].subject = s /\ posted[n].status = "pending"}) <= 1

\* "two workers can't double-drain" (nightshift.py:14).
DrainedOnce == \A n \in TaskIds : stored[n] <= 1
===============================================================================

----------------------------- MODULE HandsAnnounce -----------------------------
(***************************************************************************)
(* How the broker of Firekeep Hands tells a person what waits: the change  *)
(* notification of the permit store (broker/permits.py) and its watcher,   *)
(* PermitAnnouncer (broker/server.py), which writes pending.json           *)
(* (broker/pending.py) and raises a toast per permit.  A thread takes the  *)
(* store's lock for one step at a time, and the announcer's for several.   *)
(***************************************************************************)
EXTENDS Naturals, FiniteSets

CONSTANTS
  Threads,     \* HTTP handlers, the chord listener, the phone bridge
  Prompts,     \* challenges, of one permit each at a time
  Nobody

ASSUME NobodyIsNoThread == Nobody \notin Threads

VARIABLES
  waiting,    \* the pending permits of the store
  due,        \* those of them that have run out and were not swept yet
  dirty,      \* PermitStore._dirty
  announced,  \* PermitAnnouncer._announced
  lock,       \* who holds PermitAnnouncer._lock
  file,       \* the permits in pending.json
  toasts,     \* history: permits shown since they began to wait
  thread      \* where each thread is

announceVars == <<waiting, due, dirty, announced, lock, file, toasts, thread>>

\* "fire" and the first "enter" are outside the announcer; the rest is under its
\* lock, where store.pending() is called twice and fires changes itself.
Pcs == {"idle", "fire", "enter", "list", "listed", "rows", "written", "store",
        "mark"}

AnnounceTypeOK ==
  /\ due \subseteq waiting /\ waiting \subseteq Prompts
  /\ dirty \in BOOLEAN /\ announced \subseteq Prompts
  /\ lock \in Threads \cup {Nobody}
  /\ file \subseteq Prompts /\ toasts \subseteq Prompts
  /\ thread \in [Threads -> [pc : Pcs, seen : SUBSET Prompts,
                             rows : SUBSET Prompts]]

AtRestThread == [pc |-> "idle", seen |-> {}, rows |-> {}]

AnnounceInit ==
  /\ waiting = {} /\ due = {} /\ dirty = FALSE /\ announced = {}
  /\ lock = Nobody /\ file = {} /\ toasts = {}
  /\ thread = [t \in Threads |-> AtRestThread]

At(t, pc) == thread[t].pc = pc
Goto(t, pc) == thread' = [thread EXCEPT ![t].pc = pc]

\* Mutant: what was swept is still due.
Holding_KeepsDue(W, changed) ==
  /\ waiting' = W /\ UNCHANGED due
  /\ dirty' = (dirty \/ due # {} \/ changed)
  /\ toasts' = toasts \cap W

\* A method of the store, under its lock: it sweeps, and what is waiting when it
\* returns is W.
Holding(W, changed) ==
  /\ waiting' = W /\ due' = {}
  /\ dirty' = (dirty \/ due # {} \/ changed)
  /\ toasts' = toasts \cap W

\* request, decide, consume (or a denial that leaves nothing waiting), a look.
Call(t) ==
  /\ At(t, "idle")
  /\ LET left == waiting \ due IN
     \/ \E c \in Prompts \ left : Holding(left \cup {c}, TRUE)
     \/ \E c \in left : Holding(left \ {c}, TRUE)
     \/ Holding(left, TRUE)
     \/ Holding(left, FALSE)
  /\ Goto(t, "fire")
  /\ UNCHANGED <<announced, lock, file>>

\* _fire_change: takes the flag, and calls the watcher if it was set.
Fire(t) ==
  /\ At(t, "fire")
  /\ dirty' = FALSE
  /\ Goto(t, IF dirty THEN "enter" ELSE "idle")
  /\ UNCHANGED <<waiting, due, announced, lock, file, toasts>>

\* Mutant: the announcer has no lock of its own.
Enterable_Always(t) == TRUE

\* threading.Lock is not reentrant.
Enterable(t) == lock = Nobody

Enter(t) ==
  /\ At(t, "enter") /\ Enterable(t)
  /\ lock' = t /\ Goto(t, "list")
  /\ UNCHANGED <<waiting, due, dirty, announced, file, toasts>>

\* store.pending(), for the toasts and again for the file.
List(t) ==
  /\ Holding(waiting \ due, FALSE)
  /\ \/ /\ At(t, "list")
        /\ thread' = [thread EXCEPT ![t].pc = "listed", ![t].seen = waiting \ due]
     \/ /\ At(t, "rows")
        /\ thread' = [thread EXCEPT ![t].pc = "written", ![t].rows = waiting \ due]
  /\ UNCHANGED <<announced, lock, file>>

\* The _fire_change at the end of store.pending(): if a change came, by this
\* sweep or another thread, the watcher is called again under its own lock.
FireInside(t) ==
  /\ At(t, "listed") \/ At(t, "written")
  /\ dirty' = FALSE
  /\ Goto(t, IF dirty THEN "enter" ELSE IF At(t, "listed") THEN "rows" ELSE "store")
  /\ UNCHANGED <<waiting, due, announced, lock, file, toasts>>

\* _write_json_atomic.
Store(t) ==
  /\ At(t, "store")
  /\ file' = thread[t].rows /\ Goto(t, "mark")
  /\ UNCHANGED <<waiting, due, dirty, announced, lock, toasts>>

\* Mutant: what was announced is not looked up.
Fresh_All(t) == thread[t].seen

Fresh(t) == thread[t].seen \ announced

\* The bookkeeping and the release; each fresh permit then gets its toast.
Mark(t) ==
  /\ At(t, "mark")
  /\ announced' = thread[t].seen
  /\ toasts' = toasts \cup (Fresh(t) \cap waiting)
  /\ lock' = Nobody
  /\ thread' = [thread EXCEPT ![t] = AtRestThread]
  /\ UNCHANGED <<waiting, due, dirty, file>>

RunOut(c) == /\ c \in waiting \ due
             /\ due' = due \cup {c}
             /\ UNCHANGED <<waiting, dirty, announced, lock, file, toasts, thread>>

AnnounceNext ==
  \/ \E t \in Threads : \/ Call(t) \/ Fire(t) \/ Enter(t) \/ List(t)
                        \/ FireInside(t) \/ Store(t) \/ Mark(t)
  \/ \E c \in Prompts : RunOut(c)

AnnounceSpec == AnnounceInit /\ [][AnnounceNext]_announceVars

-------------------------------------------------------------------------------
(* Properties.                                                              *)

\* pending.py:1-12: whatever threads changed the store, and in whatever order
\* their notifications ran, pending.json is what waits once they are done.
FileIsCurrent == (\A t \in Threads : At(t, "idle")) => file = waiting

\* server.py:449: "Each permit is announced once", however many threads notify.
AnnouncedOnce ==
  [][\A t \in Threads : Mark(t) => Fresh(t) \cap toasts = {}]_announceVars

\* server.py:456-457: the announcer's lock "is never held while the store's is,
\* so the two cannot deadlock".  (Nobody waits for a lock that is its own.)
NeverWaitsForItself == \A t \in Threads : ~(At(t, "enter") /\ lock = t)
===============================================================================

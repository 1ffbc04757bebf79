---------------------------- MODULE BridgeDistill -----------------------------
(***************************************************************************)
(* Bridge sessions together with the worker that distils them              *)
(* (bridge/app/distill_worker.py): the queue complete_session appends to,  *)
(* the worker that drains it with retries, the dead-letter list, and the   *)
(* operator's requeue of that list.  Each Redis command is a step; the     *)
(* service can stop between any two of them.                               *)
(***************************************************************************)
EXTENDS BridgeSession, SequencesExt

CONSTANTS
  MaxAttempts,   \* MAX_ATTEMPTS
  MaxCrashes,    \* bound on the number of crashes explored
  NoJob

ASSUME AttemptBounds == MaxAttempts \in Nat \ {0} /\ MaxCrashes \in Nat

VARIABLES
  dlq,      \* nb:distill:dlq, oldest first
  worker,   \* the entry being processed and how far, or NoJob
  learned,  \* entries of each session that reached Cortex
  crashes,  \* crashes so far
  ended     \* history: what a live session held when it was completed; 0 once its keys are gone

distillVars == <<dlq, worker, learned, crashes, ended>>
vars == <<sessionVars, distillVars>>

\* The entry's place in the queue, its session, what that held when it was read,
\* and what the worker does with it next.
Jobs == [at : Nat, sid : Sessions, seen : 0..MaxEntries,
         pc : {"distill", "success", "failure", "permanent", "dlq", "expire", "ack"}]

ASSUME JobSentinel == NoJob \notin Jobs

TypeOK ==
  /\ SessionTypeOK
  /\ dlq \in Seq(Sessions)
  /\ worker \in Jobs \cup {NoJob}
  /\ worker # NoJob => /\ worker.at \in DOMAIN queue
                       /\ worker.sid = queue[worker.at].sid
  /\ learned \in [Sessions -> 0..MaxEntries]
  /\ ended   \in [Sessions -> 0..MaxEntries]
  /\ crashes \in 0..MaxCrashes

Init == /\ SessionInit
        /\ dlq = <<>> /\ worker = NoJob /\ crashes = 0
        /\ learned = [s \in Sessions |-> 0] /\ ended = learned

-------------------------------------------------------------------------------
(* process_queue_once, one entry at a time.                                 *)

WorkerAt(pc)   == worker # NoJob /\ worker.pc = pc
WorkerGoto(pc) == worker' = [worker EXCEPT !.pc = pc]

\* Entries are taken in order; an earlier one is passed over only while it
\* backs off, so only if it has failed before.
Take(i) ==
  /\ worker = NoJob
  /\ i \in DOMAIN queue
  /\ \A j \in 1..(i - 1) : queue[j].attempts > 0
  /\ LET s == queue[i].sid IN
     worker' = [at |-> i, sid |-> s, seen |-> Hash(s).entries,
                pc |-> IF meta[s] = NoMeta THEN "ack" ELSE "distill"]
  /\ UNCHANGED <<sessionVars, dlq, learned, crashes, ended>>

\* The distiller's call to Cortex, which takes as long as it takes.
Distil ==
  /\ WorkerAt("distill")
  /\ \E to \in {"success", "failure", "permanent"} : WorkerGoto(to)
  /\ learned' = [learned EXCEPT ![worker.sid] =
                   IF worker'.pc = "success" /\ worker.seen > @ THEN worker.seen ELSE @]
  /\ UNCHANGED <<sessionVars, dlq, crashes, ended>>

\* Mutant: one attempt more.
Exhausted_Late == WorkerAt("permanent") \/ queue[worker.at].attempts >= MaxAttempts

Exhausted == WorkerAt("permanent") \/ queue[worker.at].attempts + 1 >= MaxAttempts

\* Mutant: the attempt is not counted.
Retry_Uncounted ==
  /\ WorkerAt("failure") /\ ~Exhausted
  /\ queue' = Append(queue, queue[worker.at])
  /\ WorkerGoto("ack")
  /\ UNCHANGED <<meta, ptr, index, idle, call, fresh, dlq, learned, crashes, ended>>

\* A failure that may be retried goes back to the end of the queue.
Retry ==
  /\ WorkerAt("failure") /\ ~Exhausted
  /\ queue' = Append(queue, [sid |-> worker.sid,
                             attempts |-> queue[worker.at].attempts + 1])
  /\ WorkerGoto("ack")
  /\ UNCHANGED <<meta, ptr, index, idle, call, fresh, dlq, learned, crashes, ended>>

\* Mutant: no record is kept.
DeadLetter_Forgets ==
  /\ WorkerAt("failure") \/ WorkerAt("permanent")
  /\ Exhausted
  /\ WorkerGoto("dlq")
  /\ UNCHANGED <<sessionVars, dlq, learned, crashes, ended>>

DeadLetter ==
  /\ WorkerAt("failure") \/ WorkerAt("permanent")
  /\ Exhausted
  /\ dlq' = Append(dlq, worker.sid)
  /\ WorkerGoto("dlq")
  /\ UNCHANGED <<sessionVars, learned, crashes, ended>>

\* Mutant: the status of a dead letter is "success" too.
SetStatus_Success ==
  /\ WorkerAt("success") \/ WorkerAt("dlq")
  /\ meta' = [meta EXCEPT ![worker.sid] =
                [Hash(worker.sid) EXCEPT !.distillation = "success"]]
  /\ WorkerGoto("expire")
  /\ UNCHANGED <<ptr, index, idle, queue, call, fresh, dlq, learned, crashes, ended>>

\* set_distillation_status is a HSET, on whatever is left of the session.
SetStatus ==
  /\ WorkerAt("success") \/ WorkerAt("dlq")
  /\ meta' = [meta EXCEPT ![worker.sid] =
                [Hash(worker.sid) EXCEPT !.distillation = worker.pc]]
  /\ WorkerGoto("expire")
  /\ UNCHANGED <<ptr, index, idle, queue, call, fresh, dlq, learned, crashes, ended>>

ExpireKeys ==
  /\ WorkerAt("expire")
  /\ meta' = [meta EXCEPT ![worker.sid] =
                IF @ = NoMeta THEN @ ELSE [@ EXCEPT !.ttl = "set"]]
  /\ WorkerGoto("ack")
  /\ UNCHANGED <<ptr, index, idle, queue, call, fresh, dlq, learned, crashes, ended>>

Ack == /\ WorkerAt("ack")
       /\ queue' = RemoveAt(queue, worker.at)
       /\ worker' = NoJob
       /\ UNCHANGED <<meta, ptr, index, idle, call, fresh, dlq, learned, crashes, ended>>

WorkerStep == \/ \E i \in DOMAIN queue : Take(i)
              \/ Distil \/ Retry \/ DeadLetter \/ SetStatus \/ ExpireKeys \/ Ack

-------------------------------------------------------------------------------
(* requeue_dlq, one record of its loop.                                     *)

RequeuePop(c) ==
  /\ dlq # <<>>
  /\ Begin(c, NewCall("requeue", "lookup", NoLabel, NoMember, Head(dlq)))
  /\ dlq' = Tail(dlq)
  /\ UNCHANGED <<meta, ptr, index, idle, queue, fresh, worker, learned, crashes, ended>>

\* A session that is gone drops the record (and logs it).
RequeueLookup(c) ==
  /\ At(c, "requeue", "lookup")
  /\ IF meta[call[c].sid] = NoMeta THEN Return(c) ELSE Goto(c, "enqueue")
  /\ UNCHANGED <<meta, ptr, index, idle, queue, fresh, distillVars>>

RequeueAdd(c) ==
  /\ At(c, "requeue", "enqueue") /\ Len(queue) < MaxJobs
  /\ queue' = Enqueue(call[c].sid)
  /\ Goto(c, "status")
  /\ UNCHANGED <<meta, ptr, index, idle, fresh, distillVars>>

\* Mutant: the popped record is forgotten.
RequeueRestore_Drops(c) ==
  /\ At(c, "requeue", "lookup") \/ At(c, "requeue", "enqueue")
  /\ Return(c)
  /\ UNCHANGED <<meta, ptr, index, idle, queue, fresh, distillVars>>

\* The lookup or the enqueue failed: the record goes back.
RequeueRestore(c) ==
  /\ At(c, "requeue", "lookup") \/ At(c, "requeue", "enqueue")
  /\ dlq' = Append(dlq, call[c].sid)
  /\ Return(c)
  /\ UNCHANGED <<meta, ptr, index, idle, queue, fresh, worker, learned, crashes, ended>>

\* The state is written last, and not at all if that fails.
RequeueStatus(c) ==
  /\ At(c, "requeue", "status")
  /\ \/ meta' = [meta EXCEPT ![call[c].sid] =
                   [Hash(call[c].sid) EXCEPT !.distillation = "queued"]]
     \/ UNCHANGED meta
  /\ Return(c)
  /\ UNCHANGED <<ptr, index, idle, queue, fresh, distillVars>>

Requeue(c) == \/ RequeuePop(c) \/ RequeueLookup(c) \/ RequeueAdd(c)
              \/ RequeueRestore(c) \/ RequeueStatus(c)

-------------------------------------------------------------------------------
(* Failures.                                                                *)

\* A pass of the worker raises and is tried again from the queue.
PassFails == /\ worker # NoJob /\ crashes < MaxCrashes
             /\ worker' = NoJob /\ crashes' = crashes + 1
             /\ UNCHANGED <<sessionVars, dlq, learned, ended>>

\* The service stops: the worker and every call with it.
Crash == /\ crashes < MaxCrashes
         /\ worker' = NoJob /\ crashes' = crashes + 1
         /\ call' = [c \in Calls |-> Idle]
         /\ UNCHANGED <<meta, ptr, index, idle, queue, fresh, dlq, learned, ended>>

\* A completion is explored while fewer than MaxJobs jobs are queued or dead.
SessionStep ==
  /\ Work
  /\ queue' # queue => Len(queue) + Len(dlq) < MaxJobs
  /\ ended' = [s \in Sessions |->
                 IF /\ meta[s] # NoMeta /\ meta[s].status \notin {"completed", "blank"}
                    /\ meta'[s] # NoMeta /\ meta'[s].status = "completed"
                 THEN meta[s].entries
                 ELSE IF meta'[s] = NoMeta THEN 0 ELSE ended[s]]
  /\ UNCHANGED <<dlq, worker, learned, crashes>>

\* Days pass only while nobody is in the middle of anything, and no week with a
\* job waiting: all its attempts together are backed off for less than a day.
Time == /\ worker = NoJob
        /\ \E week \in BOOLEAN : (week => queue = <<>>) /\ Days(week)
        /\ UNCHANGED distillVars

Next == \/ SessionStep \/ WorkerStep \/ Time \/ PassFails \/ Crash
        \/ "requeue" \in Ops /\ \E c \in Calls : Requeue(c)

Spec == Init /\ [][Next]_vars

\* The worker loop never stops for good; a pass starts at the oldest entry, and a
\* backoff is never longer than an hour, so the oldest is taken in the end.
\* Calls in flight run on.
Fairness ==
  /\ WF_vars(Distil \/ Retry \/ DeadLetter \/ SetStatus \/ ExpireKeys \/ Ack)
  /\ SF_vars(Take(1))

-------------------------------------------------------------------------------
(* Properties.                                                              *)

\* distill_worker.py:212-217: no crash, retry, dead-lettering, requeue or second
\* completion leaves a session queued for ever: without an expiry, pinned from
\* eviction, and without a job.  (A requeue that writes its state when the keys
\* are gone leaves one field of no session, which has no label.)
NeverStuckQueued ==
  \A s \in Sessions :
    /\ meta[s] # NoMeta /\ meta[s].label # NoLabel
    /\ meta[s].distillation = "queued" /\ meta[s].ttl = "no"
    => \E i \in DOMAIN queue : queue[i].sid = s

\* The dead letter of s: in the list, in the hands of a requeue, or queued again.
OnRecord(s) ==
  \/ \E i \in DOMAIN dlq : dlq[i] = s
  \/ \E c \in Calls : call[c] # Idle /\ call[c].op = "requeue" /\ call[c].sid = s
  \/ \E i \in DOMAIN queue : queue[i].sid = s

\* distill_worker.py:6-7: a completed session's keys go away only when what it
\* held at its completion was learned, or its dead letter is on record.
CompletedIsNotLost ==
  [][\A s \in Sessions :
       /\ meta[s] # NoMeta /\ meta[s].status = "completed" /\ meta'[s] = NoMeta
       => learned[s] >= ended[s] \/ OnRecord(s)]_vars

\* With nothing left to do, "success" means that everything the session held
\* when it was last completed was learned.
Settled == /\ queue = <<>> /\ worker = NoJob
           /\ \A c \in Calls : call[c] # Idle => call[c].op # "requeue"

SuccessMeansLearned ==
  Settled => \A s \in Sessions :
    /\ meta[s] # NoMeta /\ meta[s].status = "completed"
    /\ meta[s].distillation = "success"
    => learned[s] >= ended[s]

\* distill_worker.py:84-90: a completed session whose distillation is dead stays
\* on record - in the list, in the queue, or in the hands of a requeue.
DeadLetterOnRecord ==
  \A s \in Sessions :
    /\ meta[s] # NoMeta /\ meta[s].status = "completed"
    /\ meta[s].distillation = "dlq"
    => OnRecord(s)

Queued(s) == meta[s] # NoMeta /\ meta[s].distillation = "queued"
===============================================================================

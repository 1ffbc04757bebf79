---------------------------- MODULE BridgeSession -----------------------------
(***************************************************************************)
(* Firekeep Bridge, the sessions of bridge/app/session.py as its MCP tools *)
(* (bridge/app/mcp_server.py) and its reaper (bridge/app/reaper.py) drive  *)
(* them.  A Redis command, a Lua script and a MULTI are one step each; a   *)
(* tool call is a walk over `call[c].pc`, and other calls run between its  *)
(* steps.  Two reads with no write between them are one step.              *)
(***************************************************************************)
EXTENDS Naturals, Sequences, FiniteSets

CONSTANTS
  Sessions,         \* session ids the generator can return
  Labels,           \* agent_id: self-asserted, shared by anyone
  Members,          \* verified principals (workspace and member)
  DeploymentOwner,  \* owns every session without an owner
  Calls,            \* tool calls that can be in flight at once
  Ops,              \* kinds of call explored by a run
  Grades,           \* TASK_RESULTS
  MaxSessions,      \* MAX_SESSIONS
  Retries,          \* _POINTER_CAS_RETRIES
  MaxJobs,          \* bound on the length of the distillation queue
  MaxEntries        \* bound on the entries written into a session

CONSTANTS NoSession, NoMember, NoLabel, NoMeta, Idle

ASSUME OwnerIsMember == DeploymentOwner \in Members
ASSUME Bounds == {MaxSessions, Retries, MaxJobs, MaxEntries} \subseteq Nat

VARIABLES
  meta,    \* nb:session:<sid> and its component keys, or NoMeta
  ptr,     \* nb:active:<label>, or NoSession
  index,   \* nb:sessions
  idle,    \* those of them whose score is older than REAPER_IDLE_HOURS
  queue,   \* nb:distill:queue, oldest first
  call,    \* the calls in flight
  fresh    \* ids the generator has not returned yet

sessionVars == <<meta, ptr, index, idle, queue, call, fresh>>

Terminal == {"completed", "abandoned"}
Statuses == {"active", "paused", "blank"} \cup Terminal

\* ttl: no expiry, an expiry days away, an expiry that is due.
Metas == [status : Statuses, label : Labels \cup {NoLabel},
          owner : Members \cup {NoMember}, grade : Grades \cup {"none"},
          distillation : {"none", "queued", "success", "dlq"},
          ttl : {"no", "set", "due"}, entries : 0..MaxEntries]

\* What a write to a hash that is not there leaves in the fields it does not
\* name.
Blank == [status |-> "blank", label |-> NoLabel, owner |-> NoMember,
          grade |-> "none", distillation |-> "none", ttl |-> "no", entries |-> 0]

Hash(s) == IF meta[s] = NoMeta THEN Blank ELSE meta[s]

\* session_owned_by: a session without an owner is the deployment owner's; a
\* session that is not there is nobody's.
OwnedBy(s, m) == /\ meta[s] # NoMeta
                 /\ \/ meta[s].owner = m
                    \/ meta[s].owner = NoMember /\ m = DeploymentOwner

\* ZADD with the current time.
Touch(S) == index' = index \cup S /\ idle' = idle \ S

\* One call: who makes it, the session it is about, the pointer value its guard
\* read, the label it takes the session from, the pointers it will clear, the
\* sessions it may evict.
NewCall(op, pc, l, m, s) ==
  [op |-> op, pc |-> pc, label |-> l, member |-> m, sid |-> s, seen |-> NoSession,
   prev |-> NoLabel, tries |-> Retries, stale |-> {}, victims |-> {}]

\* A requeue, and its steps lookup, enqueue and status, are BridgeDistill's.
CallOps == {"start", "resume", "update", "complete", "abandon", "reap", "requeue"}
CallPcs == {"guard", "swap", "write", "point", "persist", "index", "count", "enforce",
            "evict", "store", "commit", "read", "terminate", "look",
            "lookup", "enqueue", "status"}

\* Only the reaper and the operator call for no member and under no label.
CallRecord ==
  {r \in [op : CallOps, pc : CallPcs,
          label : Labels \cup {NoLabel}, member : Members \cup {NoMember},
          sid : Sessions, seen : Sessions \cup {NoSession},
          prev : Labels \cup {NoLabel}, tries : Nat,
          stale : SUBSET Labels, victims : SUBSET Sessions] :
     r.op \notin {"reap", "requeue"} => r.label \in Labels /\ r.member \in Members}

ASSUME Sentinels ==
  /\ NoSession \notin Sessions /\ NoMember \notin Members /\ NoLabel \notin Labels
  /\ NoMeta \notin Metas /\ Idle \notin CallRecord

Begin(c, r)  == call[c] = Idle /\ call' = [call EXCEPT ![c] = r]
At(c, op, pc) == call[c] # Idle /\ call[c].op = op /\ call[c].pc = pc
Goto(c, pc)  == call' = [call EXCEPT ![c].pc = pc]
Return(c)    == call' = [call EXCEPT ![c] = Idle]

SessionTypeOK ==
  /\ meta  \in [Sessions -> Metas \cup {NoMeta}]
  /\ ptr   \in [Labels -> Sessions \cup {NoSession}]
  /\ index \subseteq Sessions /\ idle \subseteq index
  /\ queue \in Seq([sid : Sessions, attempts : Nat])
  /\ call \in [Calls -> CallRecord \cup {Idle}]
  /\ fresh \subseteq Sessions

\* An empty deployment, or one upgraded while a session without an owner was
\* active or paused.
SessionInit ==
  /\ \E old \in {{}} \cup {{s} : s \in Sessions}, st \in {"active", "paused"}, l \in Labels :
       /\ meta = [s \in Sessions |->
                   IF s \in old THEN [Blank EXCEPT !.status = st, !.label = l]
                   ELSE NoMeta]
       /\ ptr = [k \in Labels |-> IF st = "active" /\ k = l /\ old # {}
                                  THEN CHOOSE s \in old : TRUE ELSE NoSession]
       /\ index = old /\ fresh = Sessions \ old
  /\ idle = {} /\ queue = <<>> /\ call = [c \in Calls |-> Idle]

-------------------------------------------------------------------------------
(* start_session and resume_session: guard, swap of the pointer, writes.    *)

StartBegin(c, l, m, s) ==
  /\ s \in fresh
  /\ fresh' = fresh \ {s}
  /\ Begin(c, NewCall("start", "guard", l, m, s))
  /\ UNCHANGED <<meta, ptr, index, idle, queue>>

\* Owner, status, label and takeover are checked here and never again.
Resumable(s, l, m, takeover) ==
  /\ OwnedBy(s, m)
  /\ meta[s].status \notin Terminal
  /\ meta[s].label \notin {l, NoLabel} => takeover /\ meta[s].status # "active"

ResumeBegin(c, l, m, s, takeover) ==
  /\ Resumable(s, l, m, takeover)
  /\ Begin(c, [NewCall("resume", "guard", l, m, s) EXCEPT
                 !.prev = IF meta[s].label = l THEN NoLabel ELSE meta[s].label])
  /\ UNCHANGED <<meta, ptr, index, idle, queue, fresh>>

\* Mutant: the guard of before 2026-10-01.
Refused_Never(c) == FALSE

\* _guard_pointer refuses when the pointer names an existing session that the
\* caller does not own and that is not the one being resumed.
Refused(c) ==
  LET cur == ptr[call[c].label] IN
  /\ cur # NoSession
  /\ call[c].op = "resume" => cur # call[c].sid
  /\ meta[cur] # NoMeta /\ ~OwnedBy(cur, call[c].member)

Guard(c) ==
  /\ \E op \in {"start", "resume"} : At(c, op, "guard")
  /\ IF Refused(c) THEN Return(c)
     ELSE call' = [call EXCEPT ![c].pc = "swap", ![c].seen = ptr[call[c].label]]
  /\ UNCHANGED <<meta, ptr, index, idle, queue, fresh>>

\* Mutant: the session of before is left active.
Displaced_None(l, s) == {}

\* The session that label l's pointer leaves when it turns to s.
Displaced(l, s) == {ptr[l]} \ {NoSession, s}

\* START_SESSION_LUA and RESUME_SESSION_LUA: compare-and-set on the pointer,
\* pausing the session it named and, on a takeover, clearing the other label's.
Swap(c) ==
  /\ \E op \in {"start", "resume"} : At(c, op, "swap")
  /\ LET l == call[c].label  s == call[c].sid  out == Displaced(l, s) IN
     IF ptr[l] # call[c].seen
     THEN /\ IF call[c].tries <= 1 THEN Return(c)
             ELSE call' = [call EXCEPT ![c].pc = "guard", ![c].tries = @ - 1]
          /\ UNCHANGED <<meta, ptr, index, idle>>
     ELSE /\ meta' = [r \in Sessions |->
                       IF r \in out THEN [Hash(r) EXCEPT !.status = "paused"]
                       ELSE meta[r]]
          /\ Touch(out)
          /\ ptr' = [k \in Labels |->
                       IF k = l THEN s
                       ELSE IF k = call[c].prev /\ ptr[k] = s THEN NoSession
                       ELSE ptr[k]]
          /\ call' = [call EXCEPT ![c] = NewCall(@.op, "write", l, @.member, s)]
  /\ UNCHANGED <<queue, fresh>>

\* The HSET after the script: every field of a new session, three of a resumed.
Write(c) ==
  /\ \E op \in {"start", "resume"} : At(c, op, "write")
  /\ LET s == call[c].sid IN
     meta' = [meta EXCEPT ![s] =
       IF call[c].op = "start"
       THEN [Hash(s) EXCEPT !.status = "active", !.label = call[c].label,
                            !.owner = call[c].member, !.distillation = "none"]
       ELSE [Hash(s) EXCEPT !.status = "active", !.label = call[c].label]]
  /\ Goto(c, "point")
  /\ UNCHANGED <<ptr, index, idle, queue, fresh>>

\* A plain SET of the pointer, without the compare.
Point(c) ==
  /\ \E op \in {"start", "resume"} : At(c, op, "point")
  /\ ptr' = [ptr EXCEPT ![call[c].label] = call[c].sid]
  /\ Goto(c, IF call[c].op = "start" THEN "index" ELSE "persist")
  /\ UNCHANGED <<meta, index, idle, queue, fresh>>

Persist(c) ==
  /\ At(c, "resume", "persist")
  /\ meta' = [meta EXCEPT ![call[c].sid] =
                IF @ = NoMeta THEN @ ELSE [@ EXCEPT !.ttl = "no"]]
  /\ Return(c)
  /\ UNCHANGED <<ptr, index, idle, queue, fresh>>

Index(c) ==
  /\ At(c, "start", "index")
  /\ Touch({call[c].sid})
  /\ Goto(c, "count")
  /\ UNCHANGED <<meta, ptr, queue, fresh>>

\* The oldest sessions over the limit, which _enforce_max_sessions will visit
\* one by one.  Which are the oldest is left open, except that idle ones are.
Enforce(c) ==
  /\ At(c, "start", "count")
  /\ LET over == Cardinality(index) - MaxSessions IN
     IF over <= 0 THEN Return(c)
     ELSE \E V \in SUBSET index :
            /\ Cardinality(V) = over
            /\ idle \subseteq V \/ V \subseteq idle
            /\ call' = [call EXCEPT ![c].pc = "enforce", ![c].victims = V]
  /\ UNCHANGED <<meta, ptr, index, idle, queue, fresh>>

\* Mutant: a session awaiting its distillation is deleted as well.
Spared_NotQueued(s, count) ==
  \/ meta[s].status = "active"
  \/ meta[s].status = "paused" /\ count <= 2 * MaxSessions

\* What _enforce_max_sessions leaves alone.
Spared(s, count) ==
  \/ meta[s].status = "active"
  \/ meta[s].status = "paused" /\ count <= 2 * MaxSessions
  \/ meta[s].status = "completed" /\ meta[s].distillation = "queued"

EnforceLook(c, s) ==
  /\ At(c, "start", "enforce") /\ s \in call[c].victims
  /\ LET rest == call[c].victims \ {s} IN
     IF meta[s] = NoMeta
     THEN /\ index' = index \ {s} /\ idle' = idle \ {s}
          /\ call' = [call EXCEPT ![c].victims = rest]
     ELSE /\ IF Spared(s, Cardinality(index))
             THEN call' = [call EXCEPT ![c].victims = rest]
             ELSE call' = [call EXCEPT ![c].victims = rest, ![c].pc = "evict",
                                       ![c].seen = s]
          /\ UNCHANGED <<index, idle>>
  /\ UNCHANGED <<meta, ptr, queue, fresh>>

Evict(c) ==
  /\ At(c, "start", "evict")
  /\ meta' = [meta EXCEPT ![call[c].seen] = NoMeta]
  /\ index' = index \ {call[c].seen} /\ idle' = idle \ {call[c].seen}
  /\ Goto(c, "enforce")
  /\ UNCHANGED <<ptr, queue, fresh>>

EnforceEnd(c) ==
  /\ At(c, "start", "enforce") /\ call[c].victims = {}
  /\ Return(c)
  /\ UNCHANGED <<meta, ptr, index, idle, queue, fresh>>

-------------------------------------------------------------------------------
(* ctx_update, ctx_complete_session, ctx_abandon_session.                   *)

\* The session a call is about: the one it names, or its label's.
Resolve(named, l) == IF named = NoSession THEN ptr[l] ELSE named

\* Mutant: any member may write.
Updatable_AnyMember(s, m, named) ==
  /\ meta[s] # NoMeta => meta[s].status \notin Terminal
  /\ named # NoSession => meta[s] # NoMeta

\* The owner is checked only of a session that exists; the status only refuses
\* a terminal one; that it exists is asked only when it was named.
Updatable(s, m, named) ==
  /\ meta[s] # NoMeta => OwnedBy(s, m)
  /\ meta[s] # NoMeta => meta[s].status \notin Terminal
  /\ named # NoSession => meta[s] # NoMeta

UpdateBegin(c, l, m, named) ==
  LET s == Resolve(named, l) IN
  /\ s # NoSession /\ Hash(s).entries < MaxEntries
  /\ Updatable(s, m, named)
  /\ Begin(c, NewCall("update", "store", l, m, s))
  /\ UNCHANGED <<meta, ptr, index, idle, queue, fresh>>

\* The component, updated_at and the index, without another look at the session.
UpdateStore(c) ==
  /\ At(c, "update", "store")
  /\ LET s == call[c].sid IN
     /\ meta' = [meta EXCEPT ![s] = [Hash(s) EXCEPT
                   !.entries = IF @ < MaxEntries THEN @ + 1 ELSE @]]
     /\ Touch({s})
  /\ Return(c)
  /\ UNCHANGED <<ptr, queue, fresh>>

CompleteBegin(c, l, m, named) ==
  LET s == Resolve(named, l) IN
  /\ s # NoSession
  /\ Begin(c, NewCall("complete", "commit", l, m, s))
  /\ UNCHANGED <<meta, ptr, index, idle, queue, fresh>>

\* Mutants: the last grade wins; the enqueue is left to a later call; the
\* label alone decides who completes.
GradeKept_Never(s) == FALSE
Enqueue_Later(s) == queue
MayComplete_LabelOnly(c) == LET s == call[c].sid IN
  meta[s] # NoMeta /\ meta[s].label \in {call[c].label, NoLabel}

\* A grade on record stays, and only an owned session has one.
GradeKept(s) == meta[s].grade # "none" \/ meta[s].owner = NoMember

Enqueue(s) == Append(queue, [sid |-> s, attempts |-> 0])

MayComplete(c) == LET s == call[c].sid IN
  /\ OwnedBy(s, call[c].member)
  /\ meta[s].label \in {call[c].label, NoLabel}

\* WATCH/MULTI/EXEC: what it read is what it overwrites.
Commit(c, grade) ==
  /\ At(c, "complete", "commit") /\ Len(queue) < MaxJobs
  /\ Return(c)
  /\ LET s == call[c].sid  l == call[c].label IN
     IF MayComplete(c)
     THEN /\ meta' = [meta EXCEPT ![s] = [@ EXCEPT
                         !.status = "completed", !.distillation = "queued",
                         !.grade  = IF GradeKept(s) THEN meta[s].grade ELSE grade]]
          /\ ptr' = [ptr EXCEPT ![l] = IF @ = s THEN NoSession ELSE @]
          /\ queue' = Enqueue(s)
     ELSE UNCHANGED <<meta, ptr, queue>>
  /\ UNCHANGED <<index, idle, fresh>>

\* The transaction was contended _COMPLETE_CAS_RETRIES times: no effect.
GiveUp(c) == /\ At(c, "complete", "commit")
             /\ Return(c)
             /\ UNCHANGED <<meta, ptr, index, idle, queue, fresh>>

AbandonBegin(c, l, m, named) ==
  LET s == Resolve(named, l) IN
  /\ s # NoSession /\ OwnedBy(s, m)
  /\ Begin(c, NewCall("abandon", "read", l, m, s))
  /\ UNCHANGED <<meta, ptr, index, idle, queue, fresh>>

\* abandon_session, also called by the reaper: reads outside the transaction.
AbandonRead(c) ==
  /\ At(c, "abandon", "read") \/ At(c, "reap", "read")
  /\ LET s == call[c].sid  l == call[c].label IN
     IF meta[s] = NoMeta \/ meta[s].label \notin {l, NoLabel}
     THEN Return(c)
     ELSE call' = [call EXCEPT ![c].pc = "terminate",
                               ![c].stale = {k \in {l} \cap Labels : ptr[k] = s}]
  /\ UNCHANGED <<meta, ptr, index, idle, queue, fresh>>

\* The transaction: no status is compared, no pointer read again.
Terminate(c) ==
  /\ At(c, "abandon", "terminate") \/ At(c, "reap", "terminate")
  /\ LET s == call[c].sid IN
     meta' = [meta EXCEPT ![s] = [Hash(s) EXCEPT !.status = "abandoned", !.ttl = "set"]]
  /\ ptr' = [k \in Labels |-> IF k \in call[c].stale THEN NoSession ELSE ptr[k]]
  /\ Return(c)
  /\ UNCHANGED <<index, idle, queue, fresh>>

-------------------------------------------------------------------------------
(* The reaper, one pass at a time, and the passing of time.                 *)

\* The candidates of a pass are read once, by score.
ReapBegin(c, s) ==
  /\ s \in idle
  /\ \A d \in Calls : call[d] # Idle => call[d].op # "reap"
  /\ Begin(c, NewCall("reap", "look", NoLabel, NoMember, s))
  /\ UNCHANGED <<meta, ptr, index, idle, queue, fresh>>

ReapLook(c) ==
  /\ At(c, "reap", "look")
  /\ LET s == call[c].sid IN
     /\ IF meta[s] # NoMeta /\ meta[s].status = "active"
        THEN call' = [call EXCEPT ![c].pc = "read", ![c].label = meta[s].label]
        ELSE Return(c)
     /\ IF meta[s] = NoMeta THEN index' = index \ {s} /\ idle' = idle \ {s}
        ELSE UNCHANGED <<index, idle>>
  /\ UNCHANGED <<meta, ptr, queue, fresh>>

\* No call is in flight for days: every session is past the idle cutoff, and
\* after a week every expiry that was set is due.
Days(week) ==
  /\ \A c \in Calls : call[c] = Idle
  /\ idle' = index
  /\ meta' = IF ~week THEN meta
             ELSE [s \in Sessions |->
                    IF meta[s] # NoMeta /\ meta[s].ttl = "set"
                    THEN [meta[s] EXCEPT !.ttl = "due"] ELSE meta[s]]
  /\ UNCHANGED <<ptr, index, queue, call, fresh>>

Expire(s) == /\ meta[s] # NoMeta /\ meta[s].ttl = "due"
             /\ meta' = [meta EXCEPT ![s] = NoMeta]
             /\ UNCHANGED <<ptr, index, idle, queue, call, fresh>>

\* The service restarts: every call in flight stops where it is.
SessionRestart == /\ call' = [c \in Calls |-> Idle]
                  /\ UNCHANGED <<meta, ptr, index, idle, queue, fresh>>

\* What callers and the reaper begin: the kinds of call in ops, on labels.
Begins(ops, labels) ==
  \/ \E c \in Calls, l \in labels, m \in Members, s \in Sessions :
       \/ "start" \in ops /\ StartBegin(c, l, m, s)
       \/ "resume" \in ops /\ \E t \in BOOLEAN : ResumeBegin(c, l, m, s, t)
  \/ \E c \in Calls, l \in labels, m \in Members,
        named \in Sessions \cup {NoSession} :
       \/ "update" \in ops /\ UpdateBegin(c, l, m, named)
       \/ "complete" \in ops /\ CompleteBegin(c, l, m, named)
       \/ "abandon" \in ops /\ AbandonBegin(c, l, m, named)
  \/ \E c \in Calls, s \in Sessions : "reap" \in ops /\ ReapBegin(c, s)

\* The next step of a call in flight, or an expiry.
Continues ==
  \/ \E c \in Calls, s \in Sessions : EnforceLook(c, s)
  \/ \E c \in Calls :
       \/ Guard(c) \/ Swap(c) \/ Write(c) \/ Point(c) \/ Persist(c)
       \/ Index(c) \/ Enforce(c) \/ Evict(c) \/ EnforceEnd(c)
       \/ UpdateStore(c)
       \/ \E g \in Grades \cup {"none"} : Commit(c, g)
       \/ GiveUp(c)
       \/ AbandonRead(c) \/ Terminate(c) \/ ReapLook(c)
  \/ \E s \in Sessions : Expire(s)

Work == Begins(Ops, Labels) \/ Continues

\* What is no call: the service restarts, time passes.
Outside == SessionRestart \/ \E week \in BOOLEAN : Days(week)

SessionNext == Work \/ Outside

SessionSpec == SessionInit /\ [][SessionNext]_sessionVars

-------------------------------------------------------------------------------
(* Properties.                                                              *)

\* complete_session's docstring: once a session has its owner's grade, no
\* completion, resume, pause or reaping changes it while the session exists.
FirstGradeWins ==
  [][\A s \in Sessions :
       /\ meta[s] # NoMeta /\ meta[s].grade # "none" /\ meta'[s] # NoMeta
       => meta'[s].grade = meta[s].grade]_sessionVars

\* Who ended session s, or gave it another label, in this step.
EndedOrMoved(s) ==
  /\ meta[s] # NoMeta /\ meta[s].owner # NoMember /\ meta'[s] # NoMeta
  /\ \/ meta'[s].label # meta[s].label
     \/ meta'[s].status # meta[s].status /\ meta'[s].status \in Terminal

CalledBy(s, M) ==
  \E c \in Calls : /\ call[c] # Idle /\ call[c].sid = s
                  /\ (call[c].member \in M \/ call[c].op = "reap")

\* session.py:81-110 (F3): a session bound to a member is never ended, and never
\* moved to another label, by a teammate - however many steps lie between the
\* call's check and its writes.
TeammatesNeverEnd ==
  [][\A s \in Sessions :
       EndedOrMoved(s) => CalledBy(s, {meta[s].owner, DeploymentOwner})]_sessionVars

-------------------------------------------------------------------------------
(* What the guide and the comments say.  Each holds while one call runs at a *)
(* time, service restarts included, and is lost with two.                    *)

\* bridge-context-and-briefing.md:261: a start or resume under a label that
\* another member's session holds never pauses that session, and never moves the
\* pointer off it.
NeverDisplacedByOthers ==
  [][\A c \in Calls, s \in Sessions :
       /\ Swap(c) \/ Point(c)
       /\ meta[s] # NoMeta /\ meta[s].owner # NoMember
       /\ \/ meta[s].status = "active" /\ meta'[s].status = "paused"
          \/ \E l \in Labels : ptr[l] = s /\ ptr'[l] # s
       => call[c].member = meta[s].owner]_sessionVars

\* bridge-context-and-briefing.md:259: ctx_update is refused before any write
\* into a session of another member.
NeverWrittenByOthers ==
  [][\A c \in Calls :
       /\ UpdateStore(c)
       /\ meta[call[c].sid] # NoMeta /\ meta[call[c].sid].owner # NoMember
       => call[c].member = meta[call[c].sid].owner]_sessionVars

\* session.py:1192-1195: a session that is completed but not distilled is not
\* evicted.
QueuedNotEvicted ==
  [][\A c \in Calls, s \in Sessions :
       /\ Evict(c) /\ meta[s] # NoMeta /\ meta[s].status = "completed"
       /\ meta[s].distillation = "queued"
       => meta'[s] # NoMeta]_sessionVars

Quiet == \A c \in Calls : call[c] = Idle

\* session.py:370: starting a session atomically pauses the label's
\* active one, so a label has one active session.
OneActivePerLabel ==
  Quiet => \A s, t \in Sessions :
    /\ meta[s] # NoMeta /\ meta[s].status = "active"
    /\ meta[t] # NoMeta /\ meta[t].status = "active"
    /\ meta[s].label = meta[t].label
    => s = t
===============================================================================

-------------------------- MODULE BridgeDistillProofs --------------------------
(***************************************************************************)
(* The distillation queue for any sessions, calls in flight, attempts and  *)
(* crashes: what a completed session held is learned, or it stays on       *)
(* record.  A session's job is ahead of the worker, in its hands, in the   *)
(* dead-letter list, or with a requeue; the invariants say which of these  *)
(* the session's state leaves possible.                                    *)
(***************************************************************************)
EXTENDS BridgeDistill, BridgeProofs, SequenceTheorems

Entries == [sid : Sessions, attempts : Nat]

-------------------------------------------------------------------------------
(* Sequences *)

LEMMA Appended ==
  ASSUME NEW S, NEW q \in Seq(S), NEW e \in S
  PROVE  /\ Append(q, e) \in Seq(S)
         /\ \A i \in DOMAIN q : i \in DOMAIN Append(q, e) /\ Append(q, e)[i] = q[i]
         /\ Len(q) + 1 \in DOMAIN Append(q, e) /\ Append(q, e)[Len(q) + 1] = e
         /\ Len(q) + 1 \notin DOMAIN q
<1>1. /\ Append(q, e) \in Seq(S) /\ Len(Append(q, e)) = Len(q) + 1
      /\ \A i \in 1..Len(q) : Append(q, e)[i] = q[i]
      /\ Append(q, e)[Len(q) + 1] = e
  BY AppendProperties
<1>2. Len(q) \in Nat /\ DOMAIN q = 1..Len(q) /\ DOMAIN Append(q, e) = 1..(Len(q) + 1)
  BY <1>1, LenProperties
<1> QED
  BY <1>1, <1>2

LEMMA Removed ==
  ASSUME NEW S, NEW q \in Seq(S), NEW k \in DOMAIN q
  PROVE  /\ RemoveAt(q, k) \in Seq(S)
         /\ \A i \in DOMAIN q : i # k =>
              \E j \in DOMAIN RemoveAt(q, k) : RemoveAt(q, k)[j] = q[i]
<1> DEFINE a == SubSeq(q, 1, k - 1)  b == SubSeq(q, k + 1, Len(q))
<1>1. Len(q) \in Nat /\ DOMAIN q = 1..Len(q) /\ k \in 1..Len(q)
  BY LenProperties
<1>2. a \in Seq(S) /\ Len(a) = k - 1 /\ \A i \in 1..(k - 1) : a[i] = q[i]
  BY <1>1, SubSeqProperties
<1>3. /\ b \in Seq(S) /\ Len(b) = Len(q) - k
      /\ \A i \in 1..(Len(q) - k) : b[i] = q[k + i]
  BY <1>1, SubSeqProperties
<1> HIDE DEF a, b
<1>4. /\ a \o b \in Seq(S) /\ Len(a \o b) = Len(q) - 1
      /\ \A i \in 1..(Len(q) - 1) : (a \o b)[i] = IF i <= k - 1 THEN a[i] ELSE b[i - (k - 1)]
  <2>1. /\ a \o b \in Seq(S) /\ Len(a \o b) = Len(a) + Len(b)
        /\ \A i \in 1..(Len(a) + Len(b)) :
             (a \o b)[i] = IF i <= Len(a) THEN a[i] ELSE b[i - Len(a)]
    BY <1>2, <1>3, ConcatProperties
  <2>2. Len(a) + Len(b) = Len(q) - 1
    BY <1>1, <1>2, <1>3
  <2> QED
    BY <1>2, <2>1, <2>2
<1>5. DOMAIN (a \o b) = 1..(Len(q) - 1)
  BY <1>4, LenProperties
<1>6. ASSUME NEW i \in DOMAIN q, i # k
      PROVE  \E j \in DOMAIN (a \o b) : (a \o b)[j] = q[i]
  <2>1. CASE i < k
    <3>1. i \in 1..(Len(q) - 1) /\ (a \o b)[i] = q[i]
      BY <1>1, <1>2, <1>4, <1>6, <2>1
    <3> QED
      BY <1>5, <3>1
  <2>2. CASE i > k
    <3>1. i - 1 \in 1..(Len(q) - 1) /\ (a \o b)[i - 1] = b[i - k] /\ i - k \in 1..(Len(q) - k)
      BY <1>1, <1>4, <1>6, <2>2
    <3>2. b[i - k] = q[i]
      BY <1>1, <1>3, <3>1
    <3> QED
      BY <1>5, <3>1, <3>2
  <2> QED
    BY <1>1, <1>6, <2>1, <2>2
<1> QED
  BY <1>4, <1>6 DEF RemoveAt, a, b

LEMMA Popped ==
  ASSUME NEW S, NEW q \in Seq(S), q # <<>>
  PROVE  /\ Head(q) \in S /\ Tail(q) \in Seq(S)
         /\ \A i \in DOMAIN q : \/ q[i] = Head(q)
                                \/ \E j \in DOMAIN Tail(q) : Tail(q)[j] = q[i]
<1>1. /\ Head(q) \in S /\ Tail(q) \in Seq(S) /\ Len(Tail(q)) = Len(q) - 1
      /\ \A i \in 1..Len(Tail(q)) : Tail(q)[i] = q[i + 1]
      /\ Head(q) = q[1]
  BY HeadTailProperties
<1>2. Len(q) \in Nat /\ DOMAIN q = 1..Len(q) /\ DOMAIN Tail(q) = 1..Len(Tail(q))
  BY <1>1, LenProperties
<1>3. ASSUME NEW i \in DOMAIN q, i # 1
      PROVE  \E j \in DOMAIN Tail(q) : Tail(q)[j] = q[i]
  <2>1. i - 1 \in 1..Len(Tail(q)) /\ Tail(q)[i - 1] = q[i]
    BY <1>1, <1>2, <1>3
  <2> QED
    BY <1>2, <2>1
<1> QED
  BY <1>1, <1>3

-------------------------------------------------------------------------------
(* What a call does to the jobs *)

Resuming == \E c \in Calls : call[c] # Idle /\ call[c].op = "resume"

\* Record r becomes q, and no completion: nothing is lost, nothing queued, and only
\* a resume takes an expiry away or gives an old session a label.
Keeps(q, r) ==
  /\ q.entries >= r.entries
  /\ q.status = "completed" => r.status = "completed"
  /\ q.distillation \in {r.distillation, "none"}
  /\ q.ttl = "no" => r.ttl = "no" \/ Resuming
  /\ q.label # NoLabel => r.label # NoLabel \/ q.distillation = "none" \/ Resuming

NewJob(s) == [sid |-> s, attempts |-> 0]

Completes(s) ==
  /\ meta[s] # NoMeta /\ meta'[s] # NoMeta
  /\ meta'[s].status = "completed" /\ meta'[s].distillation = "queued"
  /\ meta'[s].entries = meta[s].entries
  /\ queue' = Append(queue, NewJob(s))

JobStep(s) ==
  \/ meta'[s] = meta[s]
  \/ meta'[s] = NoMeta
  \/ meta'[s] # NoMeta /\ Keeps(meta'[s], Hash(s))
  \/ Completes(s)

LEMMA KeepingUpdates ==
  ASSUME NEW r \in Metas
  PROVE  /\ Keeps([r EXCEPT !.status = "paused"], r)
         /\ \A l \in Labels : Resuming => Keeps([r EXCEPT !.status = "active", !.label = l], r)
         /\ \A l \in Labels, m \in Members :
              Keeps([r EXCEPT !.status = "active", !.label = l, !.owner = m,
                              !.distillation = "none"], r)
         /\ Resuming => Keeps([r EXCEPT !.ttl = "no"], r)
         /\ \A x \in {"set", "due"} : Keeps([r EXCEPT !.ttl = x], r)
         /\ Keeps([r EXCEPT !.entries = IF @ < MaxEntries THEN @ + 1 ELSE @], r)
         /\ Keeps([r EXCEPT !.status = "abandoned", !.ttl = "set"], r)
<1>1. r.entries \in Nat
  BY Bounds DEF Metas
<1>2. ASSUME NEW n, n = IF r.entries < MaxEntries THEN r.entries + 1 ELSE r.entries
      PROVE  Keeps([r EXCEPT !.entries = n], r)
  <2>1. n >= r.entries
    BY <1>1, <1>2
  <2> QED
    BY <2>1 DEF Metas, Keeps
<1>3. Keeps([r EXCEPT !.entries = IF @ < MaxEntries THEN @ + 1 ELSE @], r)
  BY <1>2
<1>4. Keeps([r EXCEPT !.status = "paused"], r)
  BY <1>1 DEF Metas, Keeps
<1>5. \A l \in Labels : Resuming => Keeps([r EXCEPT !.status = "active", !.label = l], r)
  BY <1>1 DEF Metas, Keeps
<1>6. \A l \in Labels, m \in Members :
        Keeps([r EXCEPT !.status = "active", !.label = l, !.owner = m,
                        !.distillation = "none"], r)
  BY <1>1 DEF Metas, Keeps
<1>7. /\ Resuming => Keeps([r EXCEPT !.ttl = "no"], r)
      /\ \A x \in {"set", "due"} : Keeps([r EXCEPT !.ttl = x], r)
  BY <1>1 DEF Metas, Keeps
<1>8. Keeps([r EXCEPT !.status = "abandoned", !.ttl = "set"], r)
  BY <1>1 DEF Metas, Keeps
<1> QED
  BY <1>3, <1>4, <1>5, <1>6, <1>7, <1>8

LEMMA SwapJobs ==
  ASSUME SessionTypeOK, NEW c \in Calls, Swap(c) \/ Write(c) \/ Persist(c)
  PROVE  queue' = queue /\ \A s \in Sessions : JobStep(s)
<1> USE TypeParts
<1>1. queue' = queue
  BY DEF Swap, Write, Persist
<1>2. call[c] \in CallRecord /\ call[c] # Idle /\ call[c].op \in {"start", "resume"}
  BY DEF Swap, Write, Persist, At, CallsOK
<1>3. ASSUME NEW s \in Sessions, Swap(c) PROVE JobStep(s)
  <2>1. meta'[s] = meta[s] \/ meta'[s] = [Hash(s) EXCEPT !.status = "paused"]
    BY <1>3 DEF Swap
  <2> QED
    BY <2>1, HashType, KeepingUpdates DEF JobStep
<1>4. ASSUME NEW s \in Sessions, Write(c) PROVE JobStep(s)
  <2> DEFINE l == call[c].label  m == call[c].member
  <2>1. l \in Labels /\ m \in Members
    BY <1>2 DEF CallRecord
  <2>2. \/ meta'[s] = meta[s]
        \/ meta'[s] = [Hash(s) EXCEPT !.status = "active", !.label = l, !.owner = m,
                                      !.distillation = "none"]
        \/ /\ Resuming
           /\ meta'[s] = [Hash(s) EXCEPT !.status = "active", !.label = l]
    BY <1>2, <1>4 DEF Write, Resuming, MetaOK
  <2>3. /\ Keeps([Hash(s) EXCEPT !.status = "active", !.label = l, !.owner = m,
                                !.distillation = "none"], Hash(s))
        /\ Resuming => Keeps([Hash(s) EXCEPT !.status = "active", !.label = l], Hash(s))
    BY <2>1, HashType, KeepingUpdates
  <2> HIDE DEF l, m
  <2> QED
    BY <2>2, <2>3 DEF JobStep
<1>5. ASSUME NEW s \in Sessions, Persist(c) PROVE JobStep(s)
  <2>1. Resuming
    BY <1>5 DEF Persist, At, Resuming
  <2>2. \/ meta'[s] = meta[s]
        \/ /\ meta[s] \in Metas /\ Hash(s) = meta[s]
           /\ meta'[s] = [meta[s] EXCEPT !.ttl = "no"]
    BY <1>5 DEF Persist, Hash, MetaOK
  <2> QED
    BY <2>1, <2>2, KeepingUpdates DEF JobStep
<1> QED
  BY <1>1, <1>3, <1>4, <1>5

LEMMA EndJobs ==
  ASSUME SessionTypeOK, NEW c \in Calls, UpdateStore(c) \/ Terminate(c) \/ Evict(c)
  PROVE  queue' = queue /\ \A s \in Sessions : JobStep(s)
<1> USE TypeParts
<1>1. queue' = queue
  BY DEF UpdateStore, Terminate, Evict
<1>2. ASSUME NEW s \in Sessions PROVE JobStep(s)
  <2>1. \/ meta'[s] = meta[s]
        \/ meta'[s] = NoMeta
        \/ meta'[s] = [Hash(s) EXCEPT !.entries = IF @ < MaxEntries THEN @ + 1 ELSE @]
        \/ meta'[s] = [Hash(s) EXCEPT !.status = "abandoned", !.ttl = "set"]
    BY DEF UpdateStore, Terminate, Evict, MetaOK
  <2> QED
    BY <2>1, HashType, KeepingUpdates DEF JobStep
<1> QED
  BY <1>1, <1>2

LEMMA CommitJobs ==
  ASSUME SessionTypeOK, NEW c \in Calls, NEW g \in Grades \cup {"none"}, Commit(c, g)
  PROVE  /\ queue' = queue \/ \E s \in Sessions : queue' = Append(queue, NewJob(s))
         /\ \A s \in Sessions : JobStep(s)
<1> USE TypeParts
<1> DEFINE t == call[c].sid
<1>1. t \in Sessions
  BY DEF Commit, At, CallsOK, CallRecord
<1>2. CASE ~MayComplete(c)
  BY <1>2 DEF Commit, JobStep
<1>3. CASE MayComplete(c)
  <2> DEFINE k == IF GradeKept(t) THEN meta[t].grade ELSE g
  <2>1. meta[t] # NoMeta /\ meta[t] \in Metas
    BY <1>1, <1>3 DEF MayComplete, OwnedBy, MetaOK
  <2>2. k \in Grades \cup {"none"}
    BY <2>1 DEF Metas
  <2>3. /\ queue' = Append(queue, NewJob(t))
        /\ meta' = [meta EXCEPT ![t] = [meta[t] EXCEPT !.status = "completed",
                                          !.distillation = "queued", !.grade = k]]
    BY <1>1, <1>3 DEF Commit, Enqueue, NewJob, MetaOK
  <2> HIDE DEF k
  <2>4. [meta[t] EXCEPT !.status = "completed", !.distillation = "queued",
                        !.grade = k] \in Metas
    BY <2>1, <2>2, MetaUpdates
  <2>5. meta'[t] = [meta[t] EXCEPT !.status = "completed", !.distillation = "queued",
                                   !.grade = k]
    BY <1>1, <2>3 DEF MetaOK
  <2>6. Completes(t)
    <3>1. /\ meta'[t].status = "completed" /\ meta'[t].distillation = "queued"
          /\ meta'[t].entries = meta[t].entries
      BY <2>1, <2>5 DEF Metas
    <3> QED
      BY <2>1, <2>3, <2>4, <2>5, <3>1, Sentinels DEF Completes
  <2>7. \A s \in Sessions \ {t} : meta'[s] = meta[s]
    BY <2>3 DEF MetaOK
  <2> QED
    BY <1>1, <2>3, <2>6, <2>7 DEF JobStep
<1> QED
  BY <1>2, <1>3

\* What every step of the sessions' calls does to the jobs.
LEMMA WorkJobs ==
  ASSUME SessionTypeOK, Work
  PROVE  /\ queue' = queue \/ \E s \in Sessions : queue' = Append(queue, NewJob(s))
         /\ \A s \in Sessions : JobStep(s)
<1>1. CASE meta' = meta /\ queue' = queue
  BY <1>1 DEF JobStep
<1>2. CASE Begins(Ops, Labels)
  <2>1. meta' = meta /\ queue' = queue
    BY <1>2 DEF Begins, StartBegin, ResumeBegin, UpdateBegin, CompleteBegin, AbandonBegin,
       ReapBegin
  <2> QED
    BY <1>1, <2>1
<1>3. ASSUME NEW s \in Sessions, Expire(s)
      PROVE  queue' = queue /\ \A t \in Sessions : JobStep(t)
  BY <1>3 DEF Expire, JobStep, SessionTypeOK
<1>4. ASSUME NEW c \in Calls,
             \/ Guard(c) \/ Point(c) \/ Index(c) \/ Enforce(c) \/ EnforceEnd(c)
             \/ GiveUp(c) \/ AbandonRead(c) \/ ReapLook(c)
             \/ \E s \in Sessions : EnforceLook(c, s)
      PROVE  meta' = meta /\ queue' = queue
  BY <1>4 DEF Guard, Point, Index, Enforce, EnforceEnd, GiveUp, AbandonRead, ReapLook,
     EnforceLook
<1>5. CASE Continues
  BY <1>1, <1>3, <1>4, <1>5, SwapJobs, EndJobs, CommitJobs DEF Continues
<1> QED
  BY <1>2, <1>5 DEF Work

-------------------------------------------------------------------------------
(* Which calls there are *)

LEMMA IdleRests ==
  ASSUME SessionTypeOK, Continues, NEW d \in Calls, call[d] = Idle
  PROVE  call'[d] = Idle
<1> USE DEF At, Goto, Return, SessionTypeOK
<1>1. ASSUME NEW c \in Calls,
             \/ Guard(c) \/ Swap(c) \/ Write(c) \/ Point(c) \/ Persist(c)
      PROVE  call'[d] = Idle
  BY <1>1 DEF Guard, Swap, Write, Point, Persist
<1>2. ASSUME NEW c \in Calls,
             \/ Index(c) \/ Enforce(c) \/ Evict(c) \/ EnforceEnd(c) \/ UpdateStore(c)
             \/ \E s \in Sessions : EnforceLook(c, s)
      PROVE  call'[d] = Idle
  BY <1>2 DEF Index, Enforce, Evict, EnforceEnd, UpdateStore, EnforceLook
<1>3. ASSUME NEW c \in Calls,
             \/ \E g \in Grades \cup {"none"} : Commit(c, g)
             \/ GiveUp(c) \/ AbandonRead(c) \/ Terminate(c) \/ ReapLook(c)
      PROVE  call'[d] = Idle
  BY <1>3 DEF Commit, GiveUp, AbandonRead, Terminate, ReapLook
<1>4. ASSUME NEW s \in Sessions, Expire(s) PROVE call'[d] = Idle
  BY <1>4 DEF Expire
<1> QED
  BY <1>1, <1>2, <1>3, <1>4 DEF Continues

\* A call that begins is of a kind the run has, and no requeue.
LEMMA BegunIsOwn ==
  ASSUME SessionTypeOK, Begins(Ops, Labels), NEW d \in Calls
  PROVE  \/ call'[d] = call[d]
         \/ call'[d].op \in Ops /\ call'[d].op # "requeue"
<1> DEFINE Own == \/ call'[d] = call[d]
                  \/ call'[d].op \in Ops /\ call'[d].op # "requeue"
<1>1. ASSUME NEW c \in Calls, NEW op, op \in Ops, op # "requeue",
             NEW pc, NEW l, NEW m, NEW s, NEW k,
             \/ call' = [call EXCEPT ![c] = NewCall(op, pc, l, m, s)]
             \/ call' = [call EXCEPT ![c] = [NewCall(op, pc, l, m, s) EXCEPT !.prev = k]]
      PROVE  Own
  <2>1. /\ NewCall(op, pc, l, m, s).op = op
        /\ [NewCall(op, pc, l, m, s) EXCEPT !.prev = k].op = op
    BY DEF NewCall
  <2> QED
    BY <1>1, <2>1 DEF SessionTypeOK
<1> HIDE DEF Own
<1>2. ASSUME NEW c \in Calls, NEW l \in Labels, NEW m \in Members, NEW s \in Sessions,
             \/ "start" \in Ops /\ StartBegin(c, l, m, s)
             \/ "resume" \in Ops /\ \E t \in BOOLEAN : ResumeBegin(c, l, m, s, t)
      PROVE  Own
  BY <1>1, <1>2 DEF StartBegin, ResumeBegin, Begin
<1>3. ASSUME NEW c \in Calls, NEW l \in Labels, NEW m \in Members,
             NEW n \in Sessions \cup {NoSession},
             \/ "update" \in Ops /\ UpdateBegin(c, l, m, n)
             \/ "complete" \in Ops /\ CompleteBegin(c, l, m, n)
             \/ "abandon" \in Ops /\ AbandonBegin(c, l, m, n)
      PROVE  Own
  <2>1. CASE "update" \in Ops /\ UpdateBegin(c, l, m, n)
    BY <1>1, <2>1 DEF UpdateBegin, Begin
  <2>2. CASE "complete" \in Ops /\ CompleteBegin(c, l, m, n)
    BY <1>1, <2>2 DEF CompleteBegin, Begin
  <2>3. CASE "abandon" \in Ops /\ AbandonBegin(c, l, m, n)
    BY <1>1, <2>3 DEF AbandonBegin, Begin
  <2> QED
    BY <1>3, <2>1, <2>2, <2>3
<1>4. ASSUME NEW c \in Calls, NEW s \in Sessions, "reap" \in Ops /\ ReapBegin(c, s)
      PROVE  Own
  BY <1>1, <1>4 DEF ReapBegin, Begin
<1>5. Own
  BY <1>2, <1>3, <1>4 DEF Begins
<1> QED
  BY <1>5 DEF Own

\* Sessions' calls leave a requeue alone.
LEMMA RequeueRests ==
  ASSUME SessionTypeOK, Work, NEW d \in Calls, call[d] # Idle, call[d].op = "requeue"
  PROVE  call'[d] = call[d]
<1> USE DEF At, Goto, Return, Begin, SessionTypeOK
<1>1. ASSUME NEW c \in Calls,
             \/ Guard(c) \/ Swap(c) \/ Write(c) \/ Point(c) \/ Persist(c)
      PROVE  call'[d] = call[d]
  BY <1>1 DEF Guard, Swap, Write, Point, Persist
<1>2. ASSUME NEW c \in Calls,
             \/ Index(c) \/ Enforce(c) \/ Evict(c) \/ EnforceEnd(c) \/ UpdateStore(c)
             \/ \E s \in Sessions : EnforceLook(c, s)
      PROVE  call'[d] = call[d]
  BY <1>2 DEF Index, Enforce, Evict, EnforceEnd, UpdateStore, EnforceLook
<1>3. ASSUME NEW c \in Calls,
             \/ \E g \in Grades \cup {"none"} : Commit(c, g)
             \/ GiveUp(c) \/ AbandonRead(c) \/ Terminate(c) \/ ReapLook(c)
      PROVE  call'[d] = call[d]
  BY <1>3 DEF Commit, GiveUp, AbandonRead, Terminate, ReapLook
<1>4. ASSUME NEW s \in Sessions, Expire(s) PROVE call'[d] = call[d]
  BY <1>4 DEF Expire
<1>5. ASSUME Begins(Ops, Labels) PROVE call'[d] = call[d]
  BY <1>5 DEF Begins, StartBegin, ResumeBegin, UpdateBegin, CompleteBegin, AbandonBegin,
     ReapBegin
<1> QED
  BY <1>1, <1>2, <1>3, <1>4, <1>5 DEF Work, Continues

\* What work does to the calls: they go on, or begin as such.
LEMMA WorkCalls ==
  ASSUME SessionTypeOK, Work, NEW d \in Calls
  PROVE  \/ call'[d] = Idle
         \/ /\ call[d] # Idle /\ call'[d] # Idle
            /\ call'[d].op = call[d].op /\ call'[d].sid = call[d].sid
         \/ call'[d] # Idle /\ call'[d].op \in Ops /\ call'[d].op # "requeue"
<1>1. CallStep(d)
  BY WorkSteps DEF Described
<1>2. CASE Begins(Ops, Labels)
  BY <1>2, BegunIsOwn
<1>3. CASE Continues
  BY <1>1, <1>3, IdleRests DEF CallStep
<1> QED
  BY <1>2, <1>3 DEF Work

-------------------------------------------------------------------------------
(* Types *)

LEMMA JobFields ==
  ASSUME NEW w \in Jobs
  PROVE  /\ w # NoJob /\ w.at \in Nat /\ w.sid \in Sessions /\ w.seen \in 0..MaxEntries
         /\ \A x \in {"distill", "success", "failure", "permanent", "dlq", "expire", "ack"} :
              /\ [w EXCEPT !.pc = x] \in Jobs
              /\ [w EXCEPT !.pc = x].pc = x
              /\ [w EXCEPT !.pc = x].at = w.at
              /\ [w EXCEPT !.pc = x].sid = w.sid
              /\ [w EXCEPT !.pc = x].seen = w.seen
BY JobSentinel DEF Jobs

LEMMA StatusUpdates ==
  ASSUME NEW r \in Metas
  PROVE  /\ \A x \in {"none", "queued", "success", "dlq"} :
              [r EXCEPT !.distillation = x] \in Metas
         /\ [r EXCEPT !.ttl = "set"] \in Metas
BY DEF Metas

\* The entries the worker's place is counted in stay where they are.
LEMMA QueueGrows ==
  ASSUME queue \in Seq(Entries),
         queue' = queue \/ \E s \in Sessions : queue' = Append(queue, NewJob(s))
  PROVE  /\ queue' \in Seq(Entries)
         /\ \A i \in DOMAIN queue : i \in DOMAIN queue' /\ queue'[i] = queue[i]
<1>1. CASE queue' = queue
  BY <1>1
<1>2. ASSUME NEW s \in Sessions, queue' = Append(queue, NewJob(s))
      PROVE  /\ queue' \in Seq(Entries)
             /\ \A i \in DOMAIN queue : i \in DOMAIN queue' /\ queue'[i] = queue[i]
  <2>1. NewJob(s) \in Entries
    BY DEF NewJob, Entries
  <2> QED
    BY <1>2, <2>1, Appended
<1> QED
  BY <1>1, <1>2

LEMMA TypeSession ==
  ASSUME TypeOK, SessionStep
  PROVE  TypeOK'
<1>1. SessionTypeOK /\ SessionTypeOK'
  BY WorkSteps DEF TypeOK, SessionStep, Described
<1>2. queue \in Seq(Entries)
  BY <1>1 DEF SessionTypeOK, Entries
<1>3. \A i \in DOMAIN queue : i \in DOMAIN queue' /\ queue'[i] = queue[i]
  BY <1>1, <1>2, WorkJobs, QueueGrows DEF SessionStep
<1>4. ended' \in [Sessions -> 0..MaxEntries]
  <2>1. \A s \in Sessions : meta[s] # NoMeta => meta[s].entries \in 0..MaxEntries
    BY <1>1 DEF SessionTypeOK, Metas
  <2>2. 0 \in 0..MaxEntries
    BY Bounds
  <2> QED
    BY <2>1, <2>2 DEF SessionStep, TypeOK
<1> QED
  BY <1>1, <1>3, <1>4 DEF TypeOK, SessionStep

LEMMA TypeTake ==
  ASSUME TypeOK, NEW i \in DOMAIN queue, Take(i)
  PROVE  TypeOK'
<1>1. queue \in Seq(Entries) /\ MetaOK
  BY TypeParts DEF TypeOK, SessionTypeOK, Entries
<1>2. queue[i] \in Entries /\ i \in Nat
  BY <1>1, LenProperties, ElementOfSeq
<1>3. queue[i].sid \in Sessions
  BY <1>2 DEF Entries
<1>4. Hash(queue[i].sid).entries \in 0..MaxEntries
  BY <1>1, <1>3, HashType DEF Metas
<1>5. worker' \in Jobs /\ worker'.at = i /\ worker'.sid = queue[i].sid
  BY <1>2, <1>3, <1>4 DEF Take, Jobs
<1>6. UNCHANGED <<sessionVars, dlq, learned, crashes, ended>>
  BY DEF Take
<1> QED
  BY <1>5, <1>6 DEF TypeOK, SessionTypeOK, sessionVars

LEMMA TypeWorker ==
  ASSUME TypeOK, Distil \/ Retry \/ DeadLetter \/ SetStatus \/ ExpireKeys
  PROVE  TypeOK'
<1>1. /\ worker \in Jobs /\ worker # NoJob /\ worker.at \in DOMAIN queue
      /\ worker.sid = queue[worker.at].sid
  BY DEF TypeOK, Distil, Retry, DeadLetter, SetStatus, ExpireKeys, WorkerAt
<1>2. PICK x \in {"success", "failure", "permanent", "dlq", "expire", "ack"} :
         worker' = [worker EXCEPT !.pc = x]
  BY DEF Distil, Retry, DeadLetter, SetStatus, ExpireKeys, WorkerGoto
<1>3. worker' \in Jobs /\ worker'.at = worker.at /\ worker'.sid = worker.sid /\ worker.sid \in Sessions
  <2>1. /\ [worker EXCEPT !.pc = x] \in Jobs /\ [worker EXCEPT !.pc = x].at = worker.at
        /\ [worker EXCEPT !.pc = x].sid = worker.sid /\ worker.sid \in Sessions
    BY <1>1 DEF Jobs
  <2> QED
    BY <1>2, <2>1
<1>4. queue \in Seq(Entries) /\ MetaOK
  BY TypeParts DEF TypeOK, SessionTypeOK, Entries
<1>5. /\ queue' \in Seq(Entries)
      /\ \A i \in DOMAIN queue : i \in DOMAIN queue' /\ queue'[i] = queue[i]
  <2>1. CASE Retry
    <3> DEFINE e == [sid |-> worker.sid, attempts |-> queue[worker.at].attempts + 1]
    <3>1. queue[worker.at].attempts \in Nat
      <4>1. queue[worker.at] \in Entries
        BY <1>1, <1>4, ElementOfSeq, LenProperties
      <4> QED
        BY <4>1 DEF Entries
    <3>2. e \in Entries
      BY <1>3, <3>1 DEF Entries
    <3>3. queue' = Append(queue, e)
      BY <2>1 DEF Retry
    <3> HIDE DEF e
    <3> QED
      BY <1>4, <3>2, <3>3, Appended
  <2>2. CASE ~Retry
    BY <1>4, <2>2 DEF Distil, DeadLetter, SetStatus, ExpireKeys, sessionVars
  <2> QED
    BY <2>1, <2>2
<1>6. MetaOK'
  <2>1. CASE SetStatus
    <3>1. worker.pc \in {"success", "dlq"}
      BY <2>1 DEF SetStatus, WorkerAt
    <3>2. [Hash(worker.sid) EXCEPT !.distillation = worker.pc] \in Metas
      BY <1>3, <1>4, <3>1, HashType, StatusUpdates
    <3> QED
      BY <1>4, <2>1, <3>2 DEF SetStatus, MetaOK
  <2>2. CASE ExpireKeys
    <3>1. meta[worker.sid] # NoMeta => [meta[worker.sid] EXCEPT !.ttl = "set"] \in Metas
      BY <1>3, <1>4, StatusUpdates DEF MetaOK
    <3> QED
      BY <1>4, <2>2, <3>1 DEF ExpireKeys, MetaOK
  <2>3. CASE Distil \/ Retry \/ DeadLetter
    BY <1>4, <2>3 DEF Distil, Retry, DeadLetter, sessionVars, MetaOK
  <2> QED
    BY <2>1, <2>2, <2>3
<1>7. UNCHANGED <<ptr, index, idle, call, fresh, crashes, ended>>
  BY DEF Distil, Retry, DeadLetter, SetStatus, ExpireKeys, sessionVars
<1>8. SessionTypeOK'
  BY <1>5, <1>6, <1>7 DEF TypeOK, SessionTypeOK, MetaOK, Entries
<1>9. dlq' \in Seq(Sessions) /\ learned' \in [Sessions -> 0..MaxEntries]
  <2>1. CASE DeadLetter
    BY <1>3, <2>1, AppendProperties DEF DeadLetter, TypeOK
  <2>2. CASE Distil
    BY <1>1, <2>2, JobFields DEF Distil, TypeOK
  <2>3. CASE Retry \/ SetStatus \/ ExpireKeys
    BY <2>3 DEF Retry, SetStatus, ExpireKeys, TypeOK
  <2> QED
    BY <2>1, <2>2, <2>3
<1> QED
  BY <1>1, <1>3, <1>5, <1>7, <1>8, <1>9 DEF TypeOK

LEMMA TypeAck ==
  ASSUME TypeOK, Ack
  PROVE  TypeOK'
<1>1. queue \in Seq(Entries) /\ worker.at \in DOMAIN queue
  BY DEF TypeOK, SessionTypeOK, Entries, Ack, WorkerAt
<1>2. queue' \in Seq(Entries)
  BY <1>1, Removed DEF Ack
<1> QED
  BY <1>2 DEF Ack, TypeOK, SessionTypeOK, Entries

LEMMA TypeRequeue ==
  ASSUME TypeOK, NEW c \in Calls, Requeue(c)
  PROVE  TypeOK'
<1>1. CallsOK /\ MetaOK /\ queue \in Seq(Entries) /\ dlq \in Seq(Sessions)
  BY TypeParts DEF TypeOK, SessionTypeOK, Entries
<1>2. UNCHANGED <<ptr, index, idle, fresh, worker, learned, crashes, ended>>
  BY DEF Requeue, RequeuePop, RequeueLookup, RequeueAdd, RequeueRestore, RequeueStatus,
     distillVars
<1>3. CASE RequeuePop(c)
  <2>1. Head(dlq) \in Sessions /\ dlq' \in Seq(Sessions)
    BY <1>1, <1>3, HeadTailProperties DEF RequeuePop
  <2>2. NewCall("requeue", "lookup", NoLabel, NoMember, Head(dlq)) \in CallRecord
    BY <2>1, NewCallType DEF CallOps, CallPcs
  <2>3. CallsOK'
    BY <1>1, <1>3, <2>2 DEF RequeuePop, Begin, CallsOK
  <2> QED
    BY <1>1, <1>2, <1>3, <2>1, <2>3 DEF RequeuePop, TypeOK, SessionTypeOK, CallsOK, Entries
<1>4. CASE ~RequeuePop(c)
  <2>1. call[c] \in CallRecord /\ call[c] # Idle
    BY <1>1, <1>4 DEF Requeue, RequeueLookup, RequeueAdd, RequeueRestore, RequeueStatus, At,
       CallsOK
  <2>2. CallsOK'
    <3>1. Return(c) \/ \E x \in {"enqueue", "status"} : Goto(c, x)
      BY <1>4 DEF Requeue, RequeueLookup, RequeueAdd, RequeueRestore, RequeueStatus
    <3> QED
      BY <1>1, <2>1, <3>1, CallReturns, CallGoes DEF CallPcs, Prewrite
  <2>3. queue' = queue \/ \E s \in Sessions : queue' = Append(queue, NewJob(s))
    BY <1>4, <2>1
    DEF Requeue, RequeueLookup, RequeueAdd, RequeueRestore, RequeueStatus, CallRecord,
        Enqueue, NewJob, distillVars
  <2>4. /\ queue' \in Seq(Entries)
        /\ \A i \in DOMAIN queue : i \in DOMAIN queue' /\ queue'[i] = queue[i]
    BY <1>1, <2>3, QueueGrows
  <2>5. dlq' \in Seq(Sessions)
    <3>1. call[c].sid \in Sessions
      BY <2>1 DEF CallRecord
    <3>2. dlq' = dlq \/ dlq' = Append(dlq, call[c].sid)
      BY <1>4 DEF Requeue, RequeueLookup, RequeueAdd, RequeueRestore, RequeueStatus,
         distillVars
    <3> QED
      BY <1>1, <3>1, <3>2, AppendProperties
  <2>6. MetaOK'
    <3>1. call[c].sid \in Sessions
      BY <2>1 DEF CallRecord
    <3>2. [Hash(call[c].sid) EXCEPT !.distillation = "queued"] \in Metas
      BY <1>1, <3>1, HashType, StatusUpdates
    <3>3. \/ meta' = meta
          \/ meta' = [meta EXCEPT ![call[c].sid] =
                        [Hash(call[c].sid) EXCEPT !.distillation = "queued"]]
      BY <1>4 DEF Requeue, RequeueLookup, RequeueAdd, RequeueRestore, RequeueStatus
    <3> QED
      BY <1>1, <3>2, <3>3 DEF MetaOK
  <2>7. SessionTypeOK'
    BY <1>2, <2>2, <2>4, <2>6 DEF TypeOK, SessionTypeOK, CallsOK, MetaOK, Entries
  <2> QED
    BY <1>2, <2>4, <2>5, <2>7 DEF TypeOK
<1> QED
  BY <1>3, <1>4

LEMMA TypeOutside ==
  ASSUME TypeOK, Time \/ PassFails \/ Crash \/ UNCHANGED vars
  PROVE  TypeOK'
<1>1. SessionTypeOK'
  <2>1. CASE Time
    BY <2>1, DaysSteps DEF Time, TypeOK, Described
  <2>2. CASE PassFails \/ UNCHANGED vars
    BY <2>2 DEF PassFails, vars, sessionVars, TypeOK, SessionTypeOK
  <2>3. CASE Crash
    BY <2>3 DEF Crash, TypeOK, SessionTypeOK
  <2> QED
    BY <2>1, <2>2, <2>3
<1>2. queue' = queue /\ (worker' = worker \/ worker' = NoJob)
  BY DEF Time, Days, PassFails, Crash, vars, sessionVars, distillVars
<1>3. UNCHANGED <<dlq, learned, ended>>
  BY DEF Time, PassFails, Crash, vars, distillVars
<1>4. crashes' \in 0..MaxCrashes
  BY AttemptBounds DEF Time, PassFails, Crash, vars, distillVars, TypeOK
<1> QED
  BY <1>1, <1>2, <1>3, <1>4 DEF TypeOK

LEMMA TypeSteps ==
  ASSUME TypeOK, [Next]_vars
  PROVE  TypeOK'
BY TypeSession, TypeTake, TypeWorker, TypeAck, TypeRequeue, TypeOutside DEF Next, WorkerStep

LEMMA TypeStarts ==
  ASSUME Init
  PROVE  TypeOK
<1>1. SessionTypeOK
  BY SessionStarts DEF Init
<1>2. 0 \in 0..MaxEntries /\ 0 \in 0..MaxCrashes
  BY Bounds, AttemptBounds
<1> QED
  BY <1>1, <1>2 DEF Init, TypeOK

\* The types of sessions, calls, the queue, the dead letters and the worker, which
\* is at the entry of its session.
THEOREM DistillTypeCorrect == Spec => []TypeOK
BY TypeStarts, TypeSteps, PTL DEF Spec

-------------------------------------------------------------------------------
(* Where the job of a session is *)

\* In the queue, and not the one the worker is at.
Ahead(s) == \E i \in DOMAIN queue :
              queue[i].sid = s /\ (worker = NoJob \/ worker.at # i)

\* With the worker, which has not decided it yet.
InHand(s) == /\ worker # NoJob /\ worker.sid = s
             /\ worker.pc \in {"distill", "success", "failure", "permanent"}

InDlq(s) == \E i \in DOMAIN dlq : dlq[i] = s

\* With a requeue, which has not put it back.
Held(s) == \E c \in Calls : /\ call[c] # Idle /\ call[c].op = "requeue"
                            /\ call[c].sid = s /\ call[c].pc \in {"lookup", "enqueue"}

WorkerStays == \/ worker' = worker
               \/ worker' = NoJob
               \/ worker # NoJob /\ worker'.at = worker.at

LEMMA AheadStays ==
  ASSUME TypeOK, WorkerStays, NEW s, Ahead(s),
         \A i \in DOMAIN queue : i \in DOMAIN queue' /\ queue'[i] = queue[i]
  PROVE  Ahead(s)'
<1>1. PICK i \in DOMAIN queue : queue[i].sid = s /\ (worker = NoJob \/ worker.at # i)
  BY DEF Ahead
<1>2. i \in DOMAIN queue' /\ queue'[i].sid = s /\ (worker' = NoJob \/ worker'.at # i)
  BY <1>1 DEF WorkerStays
<1> QED
  BY <1>2 DEF Ahead

LEMMA AppendedAhead ==
  ASSUME TypeOK, WorkerStays, NEW e \in Entries, queue' = Append(queue, e)
  PROVE  Ahead(e.sid)'
<1>1. queue \in Seq(Entries)
  BY DEF TypeOK, SessionTypeOK, Entries
<1>2. /\ Len(queue) + 1 \in DOMAIN queue' /\ queue'[Len(queue) + 1] = e
      /\ Len(queue) + 1 \notin DOMAIN queue
  BY <1>1, Appended
<1>3. worker' = NoJob \/ worker'.at # Len(queue) + 1
  BY <1>2 DEF WorkerStays, TypeOK
<1> QED
  BY <1>2, <1>3 DEF Ahead

\* What work does to the jobs and to what is remembered of a session.
LEMMA WorkEnded ==
  ASSUME TypeOK, SessionStep, NEW s \in Sessions
  PROVE  /\ worker' = worker /\ learned' = learned /\ dlq' = dlq /\ crashes' = crashes
         /\ \A t : Ahead(t) => Ahead(t)'
         /\ \/ meta'[s] = NoMeta /\ ended'[s] = 0
            \/ /\ meta'[s] # NoMeta /\ ended'[s] = ended[s]
               /\ meta'[s] = meta[s] \/ Keeps(meta'[s], Hash(s))
            \/ Completes(s) /\ Ahead(s)' /\ ended'[s] \in {ended[s], meta[s].entries}
<1>1. worker' = worker /\ learned' = learned /\ dlq' = dlq /\ crashes' = crashes
  BY DEF SessionStep
<1>2. SessionTypeOK /\ queue \in Seq(Entries)
  BY DEF TypeOK, SessionTypeOK, Entries
<1>3. JobStep(s)
  BY <1>2, WorkJobs DEF SessionStep
<1>4. \A i \in DOMAIN queue : i \in DOMAIN queue' /\ queue'[i] = queue[i]
  BY <1>2, WorkJobs, QueueGrows DEF SessionStep
<1>5. \A t : Ahead(t) => Ahead(t)'
  BY <1>1, <1>4, AheadStays DEF WorkerStays
<1>6. ended'[s] = IF /\ meta[s] # NoMeta /\ meta[s].status \notin {"completed", "blank"}
                     /\ meta'[s] # NoMeta /\ meta'[s].status = "completed"
                  THEN meta[s].entries
                  ELSE IF meta'[s] = NoMeta THEN 0 ELSE ended[s]
  BY DEF SessionStep
<1>7. CASE meta'[s] = NoMeta
  BY <1>1, <1>5, <1>6, <1>7
<1>8. CASE meta'[s] # NoMeta /\ (meta'[s] = meta[s] \/ Keeps(meta'[s], Hash(s)))
  <2>1. meta'[s].status = "completed" => meta[s] # NoMeta /\ meta[s].status = "completed"
    BY <1>8 DEF Keeps, Hash, Blank
  <2>2. ended'[s] = ended[s]
    BY <1>6, <1>8, <2>1
  <2> QED
    BY <1>1, <1>5, <1>8, <2>2
<1>9. CASE Completes(s)
  <2>1. NewJob(s) \in Entries /\ NewJob(s).sid = s
    BY DEF NewJob, Entries
  <2>2. Ahead(s)'
    BY <1>1, <1>9, <2>1, AppendedAhead DEF Completes, WorkerStays
  <2>3. ended'[s] \in {ended[s], meta[s].entries}
    BY <1>6, <1>9 DEF Completes
  <2> QED
    BY <1>1, <1>5, <1>9, <2>2, <2>3
<1> QED
  BY <1>3, <1>7, <1>8, <1>9 DEF JobStep

\* Only the distillation state changes, or only the expiry.
Marked(s, x) ==
  /\ meta'[s] # NoMeta /\ meta'[s].distillation = x
  /\ meta'[s].entries = Hash(s).entries /\ meta'[s].status = Hash(s).status
  /\ meta'[s].label = Hash(s).label /\ meta'[s].ttl = Hash(s).ttl

Aging(s) ==
  /\ meta[s] # NoMeta /\ meta'[s] # NoMeta /\ meta'[s].ttl # "no"
  /\ meta'[s].entries = meta[s].entries /\ meta'[s].status = meta[s].status
  /\ meta'[s].label = meta[s].label /\ meta'[s].distillation = meta[s].distillation

LEMMA TimeAges ==
  ASSUME TypeOK, Time
  PROVE  /\ UNCHANGED <<queue, call, distillVars>>
         /\ \A s \in Sessions : meta'[s] = meta[s] \/ Aging(s)
<1>1. UNCHANGED <<queue, call, distillVars>>
  BY DEF Time, Days
<1>2. ASSUME NEW s \in Sessions PROVE meta'[s] = meta[s] \/ Aging(s)
  <2>1. \/ meta'[s] = meta[s]
        \/ meta[s] # NoMeta /\ meta'[s] = [meta[s] EXCEPT !.ttl = "due"]
    BY DEF Time, Days
  <2>2. ASSUME meta[s] # NoMeta, meta'[s] = [meta[s] EXCEPT !.ttl = "due"] PROVE Aging(s)
    <3>1. meta[s] \in Metas
      BY <2>2 DEF TypeOK, SessionTypeOK
    <3>2. meta'[s] \in Metas
      BY <2>2, <3>1 DEF Metas
    <3> QED
      BY <2>2, <3>1, <3>2, Sentinels DEF Aging, Metas
  <2> QED
    BY <2>1, <2>2
<1> QED
  BY <1>1, <1>2

LEMMA ExpireAges ==
  ASSUME TypeOK, ExpireKeys
  PROVE  /\ UNCHANGED <<queue, call, dlq, learned, crashes, ended>>
         /\ worker # NoJob /\ worker' \in Jobs /\ worker'.sid = worker.sid
         /\ worker'.at = worker.at /\ worker.pc = "expire" /\ worker'.pc = "ack"
         /\ worker.sid \in Sessions
         /\ meta[worker.sid] # NoMeta => Aging(worker.sid)
         /\ \A s \in Sessions : meta'[s] = meta[s] \/ Aging(s)
<1> DEFINE t == worker.sid
<1>1. worker \in Jobs /\ worker # NoJob /\ worker.pc = "expire" /\ t \in Sessions
  BY DEF TypeOK, ExpireKeys, WorkerAt, Jobs
<1>2. /\ worker' \in Jobs /\ worker'.sid = worker.sid /\ worker'.at = worker.at
      /\ worker'.pc = "ack"
  BY <1>1, JobFields DEF ExpireKeys, WorkerGoto
<1>3. \A s \in Sessions \ {t} : meta'[s] = meta[s]
  BY DEF ExpireKeys, TypeOK, SessionTypeOK
<1>4. CASE meta[t] = NoMeta
  BY <1>1, <1>2, <1>3, <1>4 DEF ExpireKeys, TypeOK, SessionTypeOK
<1>5. CASE meta[t] # NoMeta
  <2>1. meta'[t] = [meta[t] EXCEPT !.ttl = "set"] /\ meta[t] \in Metas
    BY <1>1, <1>5 DEF ExpireKeys, TypeOK, SessionTypeOK
  <2>2. meta'[t] \in Metas
    BY <2>1, StatusUpdates
  <2>3. Aging(t)
    BY <1>5, <2>1, <2>2, Sentinels DEF Aging, Metas
  <2> QED
    BY <1>1, <1>2, <1>3, <1>5, <2>3 DEF ExpireKeys
<1> QED
  BY <1>4, <1>5

LEMMA MarkedRecord ==
  ASSUME TypeOK, NEW s \in Sessions, NEW x \in {"queued", "success", "dlq"},
         meta'[s] = [Hash(s) EXCEPT !.distillation = x]
  PROVE  Marked(s, x)
<1>1. Hash(s) \in Metas
  BY HashType, TypeParts DEF TypeOK
<1>2. meta'[s] \in Metas
  BY <1>1, StatusUpdates
<1> QED
  BY <1>1, <1>2, Sentinels DEF Marked, Metas

LEMMA StatusMarks ==
  ASSUME TypeOK, SetStatus
  PROVE  /\ UNCHANGED <<queue, call, dlq, learned, crashes, ended>>
         /\ worker # NoJob /\ worker' \in Jobs /\ worker'.sid = worker.sid
         /\ worker'.at = worker.at /\ worker.pc \in {"success", "dlq"}
         /\ worker'.pc = "expire" /\ worker.sid \in Sessions
         /\ Marked(worker.sid, worker.pc)
         /\ \A s \in Sessions : s # worker.sid => meta'[s] = meta[s]
<1>1. worker \in Jobs /\ worker # NoJob /\ worker.pc \in {"success", "dlq"} /\ worker.sid \in Sessions
  BY DEF TypeOK, SetStatus, WorkerAt, Jobs
<1>2. /\ worker' \in Jobs /\ worker'.sid = worker.sid /\ worker'.at = worker.at
      /\ worker'.pc = "expire"
  BY <1>1, JobFields DEF SetStatus, WorkerGoto
<1>3. meta'[worker.sid] = [Hash(worker.sid) EXCEPT !.distillation = worker.pc]
  BY <1>1 DEF SetStatus, TypeOK, SessionTypeOK
<1> QED
  BY <1>1, <1>2, <1>3, MarkedRecord DEF SetStatus, TypeOK, SessionTypeOK

\* A requeue moves a record, or writes a state when its job is queued.
LEMMA RequeueMoves ==
  ASSUME TypeOK, NEW c \in Calls, Requeue(c)
  PROVE  /\ worker' = worker /\ learned' = learned /\ ended' = ended /\ crashes' = crashes
         /\ \A t : Ahead(t) => Ahead(t)'
         /\ \A s \in Sessions : \/ meta'[s] = meta[s]
                                \/ /\ Marked(s, "queued") /\ call[c].sid = s
                                   /\ At(c, "requeue", "status")
<1>1. worker' = worker /\ learned' = learned /\ ended' = ended /\ crashes' = crashes
  BY DEF Requeue, RequeuePop, RequeueLookup, RequeueAdd, RequeueRestore, RequeueStatus,
     distillVars
<1>2. call[c] # Idle => call[c] \in CallRecord /\ call[c].sid \in Sessions
  BY DEF TypeOK, SessionTypeOK, CallRecord
<1>3. \A t : Ahead(t) => Ahead(t)'
  <2>1. queue' = queue \/ \E s \in Sessions : queue' = Append(queue, NewJob(s))
    BY <1>2
    DEF Requeue, RequeuePop, RequeueLookup, RequeueAdd, RequeueRestore, RequeueStatus,
        Enqueue, NewJob, At
  <2>2. queue \in Seq(Entries)
    BY DEF TypeOK, SessionTypeOK, Entries
  <2>3. \A i \in DOMAIN queue : i \in DOMAIN queue' /\ queue'[i] = queue[i]
    BY <2>1, <2>2, QueueGrows
  <2> QED
    BY <1>1, <2>3, AheadStays DEF WorkerStays
<1>4. ASSUME NEW s \in Sessions, meta'[s] # meta[s]
      PROVE  Marked(s, "queued") /\ call[c].sid = s /\ At(c, "requeue", "status")
  <2>1. RequeueStatus(c)
    BY <1>4 DEF Requeue, RequeuePop, RequeueLookup, RequeueAdd, RequeueRestore
  <2>2. /\ call[c].sid = s /\ At(c, "requeue", "status")
        /\ meta'[s] = [Hash(s) EXCEPT !.distillation = "queued"]
    BY <1>4, <2>1 DEF RequeueStatus, TypeOK, SessionTypeOK
  <2> QED
    BY <2>2, MarkedRecord
<1> QED
  BY <1>1, <1>3, <1>4

-------------------------------------------------------------------------------
(* Success means learned *)

\* What a session held when it ended is no more than it holds now.
HeldInv == \A s \in Sessions :
  IF meta[s] = NoMeta THEN ended[s] = 0 ELSE ended[s] <= meta[s].entries

\* What the worker has read is all there was at the end, or another job is ahead.
SeenInv == worker # NoJob =>
  /\ worker.pc \in {"distill", "success"} =>
       ended[worker.sid] <= worker.seen \/ Ahead(worker.sid)
  /\ worker.pc = "success" => learned[worker.sid] >= worker.seen

Completed(s) == meta[s] # NoMeta /\ meta[s].status = "completed"

\* An old success is no claim about a job that is still to be decided.
SuccessInv == \A s \in Sessions :
  /\ Completed(s) /\ meta[s].distillation = "success"
  => \/ learned[s] >= ended[s] \/ Ahead(s) \/ InHand(s)
     \/ WorkerAt("dlq") /\ worker.sid = s

LearnInv == TypeOK /\ HeldInv /\ SeenInv /\ SuccessInv

LEMMA LearnSession ==
  ASSUME LearnInv, SessionStep
  PROVE  HeldInv' /\ SeenInv' /\ SuccessInv'
<1>1. TypeOK /\ worker' = worker /\ learned' = learned
  BY DEF LearnInv, SessionStep
<1>2. ASSUME NEW s \in Sessions
      PROVE  IF meta'[s] = NoMeta THEN ended'[s] = 0 ELSE ended'[s] <= meta'[s].entries
  <2>1. meta[s] # NoMeta => ended[s] \in Nat /\ meta[s].entries \in Nat
    BY <1>1, Bounds DEF TypeOK, SessionTypeOK, Metas
  <2>2. CASE meta'[s] = NoMeta
    BY <1>1, <2>2, WorkEnded DEF Completes
  <2>3. CASE meta'[s] # NoMeta /\ ended'[s] = ended[s] /\ meta'[s] = meta[s]
    BY <2>3 DEF LearnInv, HeldInv
  <2>4. CASE meta'[s] # NoMeta /\ ended'[s] = ended[s] /\ Keeps(meta'[s], Hash(s))
    <3>1. meta'[s].entries \in Nat
      <4>1. MetaOK'
        BY <1>1, TypeSession, TypeParts DEF TypeOK
      <4>2. meta'[s] \in Metas
        BY <2>4, <4>1 DEF MetaOK
      <4> QED
        BY <4>2, Bounds DEF Metas
    <3>2. meta'[s].entries >= Hash(s).entries
      BY <2>4 DEF Keeps
    <3> QED
      BY <2>1, <2>4, <3>1, <3>2 DEF LearnInv, HeldInv, Hash, Blank
  <2>5. CASE Completes(s) /\ ended'[s] \in {ended[s], meta[s].entries}
    BY <2>1, <2>5 DEF Completes, LearnInv, HeldInv
  <2> QED
    BY <1>1, <2>2, <2>3, <2>4, <2>5, WorkEnded
<1>3. ASSUME worker # NoJob, worker.pc \in {"distill", "success"}
      PROVE  ended'[worker.sid] <= worker.seen \/ Ahead(worker.sid)'
  <2>1. worker.sid \in Sessions /\ worker.seen \in Nat
    BY <1>1, <1>3, Bounds DEF TypeOK, Jobs
  <2>2. ended[worker.sid] <= worker.seen \/ Ahead(worker.sid)
    BY <1>3 DEF LearnInv, SeenInv
  <2> QED
    BY <1>1, <2>1, <2>2, WorkEnded
<1>4. ASSUME NEW s \in Sessions, Completed(s)', meta'[s].distillation = "success"
      PROVE  \/ learned[s] >= ended'[s] \/ Ahead(s)' \/ InHand(s)
             \/ WorkerAt("dlq") /\ worker.sid = s
  <2>1. meta'[s] # NoMeta /\ meta'[s].status = "completed"
    BY <1>4 DEF Completed
  <2>2. \/ /\ ended'[s] = ended[s]
           /\ meta'[s] = meta[s] \/ Keeps(meta'[s], Hash(s))
        \/ Ahead(s)'
    BY <1>1, <2>1, WorkEnded
  <2>3. CASE /\ ended'[s] = ended[s]
             /\ meta'[s] = meta[s] \/ Keeps(meta'[s], Hash(s))
    <3>1. Completed(s) /\ meta[s].distillation = "success"
      BY <1>4, <2>1, <2>3 DEF Completed, Keeps, Hash, Blank
    <3> QED
      BY <1>1, <2>3, <3>1, WorkEnded DEF LearnInv, SuccessInv
  <2> QED
    BY <2>2, <2>3
<1> QED
  BY <1>1, <1>2, <1>3, <1>4 DEF HeldInv, SeenInv, SuccessInv, LearnInv, InHand, WorkerAt

\* Steps that neither teach nor end anything and leave the worker where it is.
LEMMA LearnRequeue ==
  ASSUME LearnInv, Time \/ \E c \in Calls : Requeue(c)
  PROVE  HeldInv' /\ SeenInv' /\ SuccessInv'
<1>1. TypeOK
  BY DEF LearnInv
<1>2. /\ worker' = worker /\ learned' = learned /\ ended' = ended
      /\ \A t : Ahead(t) => Ahead(t)'
      /\ \A s \in Sessions : meta'[s] = meta[s] \/ Marked(s, "queued") \/ Aging(s)
  <2>1. CASE Time
    BY <1>1, <2>1, TimeAges DEF distillVars, Ahead
  <2>2. CASE \E c \in Calls : Requeue(c)
    BY <1>1, <2>2, RequeueMoves
  <2> QED
    BY <2>1, <2>2
<1>3. HeldInv'
  <2> SUFFICES ASSUME NEW s \in Sessions
               PROVE  IF meta'[s] = NoMeta THEN ended'[s] = 0 ELSE ended'[s] <= meta'[s].entries
    BY DEF HeldInv
  <2>1. IF meta[s] = NoMeta THEN ended[s] = 0 ELSE ended[s] <= meta[s].entries
    BY DEF LearnInv, HeldInv
  <2> QED
    BY <1>2, <2>1 DEF Marked, Aging, Hash, Blank
<1>4. SeenInv'
  BY <1>2 DEF LearnInv, SeenInv
<1>5. SuccessInv'
  <2> SUFFICES ASSUME NEW s \in Sessions, Completed(s)', meta'[s].distillation = "success"
               PROVE  \/ learned'[s] >= ended'[s] \/ Ahead(s)' \/ InHand(s)'
                      \/ WorkerAt("dlq")' /\ worker'.sid = s
    BY DEF SuccessInv
  <2>1. Completed(s) /\ meta[s].distillation = "success"
    BY <1>2 DEF Completed, Marked, Aging
  <2>2. \/ learned[s] >= ended[s] \/ Ahead(s) \/ InHand(s)
        \/ WorkerAt("dlq") /\ worker.sid = s
    BY <2>1 DEF LearnInv, SuccessInv
  <2> QED
    BY <1>2, <2>2 DEF InHand, WorkerAt
<1> QED
  BY <1>3, <1>4, <1>5

\* The worker has a job once it has taken one.
LEMMA TakenJob ==
  ASSUME TypeOK, NEW i \in DOMAIN queue, Take(i)
  PROVE  worker' # NoJob /\ queue[i].sid \in Sessions
<1> DEFINE t == queue[i].sid
<1>1. queue \in Seq(Entries) /\ MetaOK
  BY TypeParts DEF TypeOK, SessionTypeOK, Entries
<1>2. t \in Sessions
  <2>1. queue[i] \in Entries
    BY <1>1, ElementOfSeq, LenProperties
  <2> QED
    BY <2>1 DEF Entries
<1>3. [at |-> i, sid |-> t, seen |-> Hash(t).entries,
       pc |-> IF meta[t] = NoMeta THEN "ack" ELSE "distill"] \in Jobs
  <2>1. Hash(t).entries \in 0..MaxEntries
    BY <1>1, <1>2, HashType DEF Metas
  <2>2. i \in Nat
    BY <1>1, LenProperties
  <2> QED
    BY <1>2, <2>1, <2>2 DEF Jobs
<1> QED
  BY <1>2, <1>3, JobSentinel DEF Take

LEMMA LearnTake ==
  ASSUME LearnInv, NEW i \in DOMAIN queue, Take(i)
  PROVE  HeldInv' /\ SeenInv' /\ SuccessInv'
<1> DEFINE t == queue[i].sid
<1>1. /\ UNCHANGED <<sessionVars, dlq, learned, crashes, ended>> /\ worker = NoJob
      /\ worker'.sid = t /\ worker'.at = i /\ worker'.seen = Hash(t).entries
      /\ worker'.pc = IF meta[t] = NoMeta THEN "ack" ELSE "distill"
  BY DEF Take
<1>2. worker' # NoJob /\ t \in Sessions
  BY TakenJob DEF LearnInv
<1>3. meta' = meta /\ queue' = queue
  BY <1>1 DEF sessionVars
<1>4. HeldInv'
  BY <1>1, <1>3 DEF LearnInv, HeldInv
<1>5. SeenInv'
  <2>1. meta[t] # NoMeta => ended[t] <= Hash(t).entries
    BY <1>2 DEF LearnInv, HeldInv, Hash
  <2> QED
    BY <1>1, <2>1 DEF SeenInv
<1>6. SuccessInv'
  <2> SUFFICES ASSUME NEW s \in Sessions, Completed(s)', meta'[s].distillation = "success"
               PROVE  learned'[s] >= ended'[s] \/ Ahead(s)' \/ InHand(s)'
    BY DEF SuccessInv
  <2>1. Completed(s) /\ meta[s].distillation = "success"
    BY <1>3 DEF Completed
  <2>2. learned[s] >= ended[s] \/ Ahead(s)
    BY <1>1, <2>1 DEF LearnInv, SuccessInv, InHand, WorkerAt
  <2>3. CASE t = s
    BY <1>1, <1>2, <2>1, <2>3 DEF InHand, Completed
  <2>4. CASE t # s /\ Ahead(s)
    BY <1>1, <1>3, <2>4 DEF Ahead
  <2> QED
    BY <1>1, <2>2, <2>3, <2>4
<1> QED
  BY <1>4, <1>5, <1>6

\* What each other step of the worker does: it learns, puts the job back, keeps a
\* record, drops an entry, or stops and finds the entry again.
LEMMA Distils ==
  ASSUME TypeOK, Distil
  PROVE  /\ UNCHANGED <<sessionVars, dlq, crashes, ended>>
         /\ worker # NoJob /\ worker' # NoJob /\ worker'.sid = worker.sid
         /\ worker'.at = worker.at /\ worker'.seen = worker.seen /\ worker.pc = "distill"
         /\ worker'.pc \in {"success", "failure", "permanent"}
         /\ \A s \in Sessions : learned'[s] >= learned[s]
         /\ worker'.pc = "success" => learned'[worker.sid] >= worker.seen
<1>1. worker \in Jobs /\ worker # NoJob /\ worker.pc = "distill"
  BY DEF TypeOK, Distil, WorkerAt
<1>2. /\ worker' # NoJob /\ worker'.sid = worker.sid /\ worker'.at = worker.at
      /\ worker'.seen = worker.seen /\ worker'.pc \in {"success", "failure", "permanent"}
  <2>1. PICK x \in {"success", "failure", "permanent"} : worker' = [worker EXCEPT !.pc = x]
    BY DEF Distil, WorkerGoto
  <2>2. /\ [worker EXCEPT !.pc = x] \in Jobs /\ [worker EXCEPT !.pc = x].pc = x
        /\ [worker EXCEPT !.pc = x].at = worker.at /\ [worker EXCEPT !.pc = x].sid = worker.sid
        /\ [worker EXCEPT !.pc = x].seen = worker.seen
    <3>1. worker \in Jobs
      BY <1>1
    <3> QED
      BY <3>1 DEF Jobs
  <2>3. [worker EXCEPT !.pc = x] # NoJob
    BY <2>2, JobSentinel
  <2> QED
    BY <2>1, <2>2, <2>3
<1>3. /\ worker.seen \in Nat /\ worker.sid \in Sessions
      /\ \A s \in Sessions : learned[s] \in Nat
  BY <1>1, Bounds DEF TypeOK, Jobs
<1>4. learned' = [learned EXCEPT ![worker.sid] =
                    IF worker'.pc = "success" /\ worker.seen > learned[worker.sid]
                    THEN worker.seen ELSE learned[worker.sid]]
  BY DEF Distil
<1>5. /\ \A s \in Sessions : learned'[s] >= learned[s]
      /\ worker'.pc = "success" => learned'[worker.sid] >= worker.seen
  BY <1>3, <1>4 DEF TypeOK
<1> QED
  BY <1>1, <1>2, <1>5 DEF Distil

LEMMA PutsBack ==
  ASSUME TypeOK, Retry
  PROVE  /\ UNCHANGED <<meta, call, dlq, learned, crashes, ended>>
         /\ worker # NoJob /\ worker' # NoJob /\ worker'.sid = worker.sid
         /\ worker.pc = "failure" /\ worker'.pc = "ack" /\ worker.sid \in Sessions
         /\ \A t : t = worker.sid \/ Ahead(t) => Ahead(t)'
<1> DEFINE e == [sid |-> worker.sid, attempts |-> queue[worker.at].attempts + 1]
<1>1. worker \in Jobs /\ worker # NoJob /\ worker.pc = "failure" /\ worker.sid \in Sessions
  BY DEF TypeOK, Retry, WorkerAt, Jobs
<1>2. worker' # NoJob /\ worker'.sid = worker.sid /\ worker'.at = worker.at /\ worker'.pc = "ack"
  BY <1>1, JobFields DEF Retry, WorkerGoto
<1>3. queue \in Seq(Entries) /\ worker.at \in DOMAIN queue
  BY <1>1 DEF TypeOK, SessionTypeOK, Entries
<1>4. queue[worker.at].attempts \in Nat
  <2>1. queue[worker.at] \in Entries
    BY <1>3, ElementOfSeq, LenProperties
  <2> QED
    BY <2>1 DEF Entries
<1>5. e \in Entries /\ e.sid = worker.sid
  BY <1>1, <1>4 DEF Entries
<1>6. queue' = Append(queue, e)
  BY DEF Retry
<1> HIDE DEF e
<1>7. \A t : t = e.sid => Ahead(t)'
  <2>1. WorkerStays
    BY <1>1, <1>2 DEF WorkerStays
  <2> QED
    BY <1>5, <1>6, <2>1, AppendedAhead
<1>8. \A t : Ahead(t) => Ahead(t)'
  BY <1>1, <1>2, <1>3, <1>5, <1>6, Appended, AheadStays DEF WorkerStays
<1>9. \A t : t = worker.sid \/ Ahead(t) => Ahead(t)'
  BY <1>5, <1>7, <1>8
<1> QED
  BY <1>1, <1>2, <1>9 DEF Retry

LEMMA Buries ==
  ASSUME TypeOK, DeadLetter
  PROVE  /\ UNCHANGED <<sessionVars, learned, crashes, ended>>
         /\ worker # NoJob /\ worker' # NoJob /\ worker'.sid = worker.sid
         /\ worker'.at = worker.at /\ worker.sid \in Sessions
         /\ worker.pc \in {"failure", "permanent"} /\ worker'.pc = "dlq"
         /\ InDlq(worker.sid)' /\ \A t : InDlq(t) => InDlq(t)'
<1>1. /\ worker \in Jobs /\ worker # NoJob /\ worker.pc \in {"failure", "permanent"}
      /\ worker.sid \in Sessions /\ dlq \in Seq(Sessions)
  BY DEF TypeOK, DeadLetter, WorkerAt, Jobs
<1>2. worker' # NoJob /\ worker'.sid = worker.sid /\ worker'.at = worker.at /\ worker'.pc = "dlq"
  BY <1>1, JobFields DEF DeadLetter, WorkerGoto
<1>3. dlq' = Append(dlq, worker.sid)
  BY DEF DeadLetter
<1>4. /\ \A i \in DOMAIN dlq : i \in DOMAIN dlq' /\ dlq'[i] = dlq[i]
      /\ Len(dlq) + 1 \in DOMAIN dlq' /\ dlq'[Len(dlq) + 1] = worker.sid
  BY <1>1, <1>3, Appended
<1>5. InDlq(worker.sid)' /\ \A t : InDlq(t) => InDlq(t)'
  BY <1>2, <1>4 DEF InDlq
<1> QED
  BY <1>1, <1>2, <1>5 DEF DeadLetter

LEMMA Acks ==
  ASSUME TypeOK, Ack
  PROVE  /\ UNCHANGED <<meta, call, dlq, learned, crashes, ended>>
         /\ worker # NoJob /\ worker.pc = "ack" /\ worker' = NoJob
         /\ \A t : Ahead(t) => Ahead(t)'
<1>1. worker # NoJob /\ worker.pc = "ack" /\ worker' = NoJob /\ queue' = RemoveAt(queue, worker.at)
  BY DEF Ack, WorkerAt
<1>2. queue \in Seq(Entries) /\ worker.at \in DOMAIN queue
  BY <1>1 DEF TypeOK, SessionTypeOK, Entries
<1>3. \A i \in DOMAIN queue : i # worker.at => \E j \in DOMAIN queue' : queue'[j] = queue[i]
  BY <1>1, <1>2, Removed
<1>4. \A t : Ahead(t) => Ahead(t)'
  <2> SUFFICES ASSUME NEW t, Ahead(t) PROVE Ahead(t)'
    OBVIOUS
  <2>1. PICK i \in DOMAIN queue : queue[i].sid = t /\ i # worker.at
    BY <1>1 DEF Ahead
  <2>2. PICK j \in DOMAIN queue' : queue'[j] = queue[i]
    BY <1>3, <2>1
  <2> QED
    BY <1>1, <2>1, <2>2 DEF Ahead
<1> QED
  BY <1>1, <1>4 DEF Ack

LEMMA Stops ==
  ASSUME TypeOK, PassFails \/ Crash
  PROVE  /\ UNCHANGED <<meta, queue, dlq, learned, ended>> /\ worker' = NoJob
         /\ \A t : Ahead(t) => Ahead(t)'
         /\ \A t : worker # NoJob /\ worker.sid = t => Ahead(t)'
<1>1. UNCHANGED <<meta, queue, dlq, learned, ended>> /\ worker' = NoJob
  BY DEF PassFails, Crash, sessionVars
<1>2. \A t : Ahead(t) => Ahead(t)'
  BY <1>1 DEF Ahead
<1>3. \A t : worker # NoJob /\ worker.sid = t => Ahead(t)'
  <2>1. worker # NoJob => worker.at \in DOMAIN queue /\ queue[worker.at].sid = worker.sid
    BY DEF TypeOK
  <2>2. ASSUME NEW t, \E i \in DOMAIN queue : queue[i].sid = t PROVE Ahead(t)'
    BY <1>1, <2>2 DEF Ahead
  <2> QED
    BY <2>1, <2>2
<1> QED
  BY <1>1, <1>2, <1>3

\* The worker learns, gives up on a session, or stops.
LEMMA LearnDecides ==
  ASSUME LearnInv, Distil \/ Retry \/ DeadLetter \/ Ack \/ PassFails \/ Crash
  PROVE  HeldInv' /\ SeenInv' /\ SuccessInv'
<1>1. TypeOK /\ HeldInv /\ SeenInv /\ SuccessInv
  BY DEF LearnInv
<1>2. meta' = meta /\ ended' = ended
  BY <1>1, Distils, PutsBack, Buries, Acks, Stops DEF sessionVars
<1>3. \A s \in Sessions : ended[s] \in Nat /\ learned[s] \in Nat
  BY <1>1, Bounds DEF TypeOK
<1>4. \A s \in Sessions : learned'[s] >= learned[s]
  BY <1>1, <1>3, Distils, PutsBack, Buries, Acks, Stops
<1>5. \A t : Ahead(t) => Ahead(t)'
  <2>1. ASSUME Distil \/ DeadLetter, NEW t, Ahead(t) PROVE Ahead(t)'
    BY <1>1, <2>1, Distils, Buries DEF Ahead, sessionVars
  <2> QED
    BY <1>1, <2>1, PutsBack, Acks, Stops
<1>6. HeldInv'
  BY <1>1, <1>2 DEF HeldInv
<1>7. SeenInv'
  <2>1. CASE Distil
    <3>1. ended[worker.sid] <= worker.seen \/ Ahead(worker.sid)
      BY <1>1, <2>1, Distils DEF SeenInv
    <3>2. worker'.sid = worker.sid /\ worker'.seen = worker.seen
      BY <1>1, <2>1, Distils
    <3>3. ended'[worker'.sid] <= worker'.seen \/ Ahead(worker.sid)'
      BY <1>2, <1>5, <3>1, <3>2
    <3>4. worker'.pc = "success" => learned'[worker'.sid] >= worker'.seen
      BY <1>1, <2>1, <3>2, Distils
    <3> QED
      BY <3>2, <3>3, <3>4 DEF SeenInv, Ahead
  <2>2. CASE ~Distil
    BY <1>1, <2>2, PutsBack, Buries, Acks, Stops DEF SeenInv
  <2> QED
    BY <2>1, <2>2
<1>8. SuccessInv'
  <2> SUFFICES ASSUME NEW s \in Sessions, Completed(s)', meta'[s].distillation = "success"
               PROVE  \/ learned'[s] >= ended'[s] \/ Ahead(s)' \/ InHand(s)'
                      \/ WorkerAt("dlq")' /\ worker'.sid = s
    BY DEF SuccessInv
  <2>1. Completed(s) /\ meta[s].distillation = "success"
    BY <1>2 DEF Completed
  <2>2. \/ learned[s] >= ended[s] \/ Ahead(s) \/ InHand(s)
        \/ WorkerAt("dlq") /\ worker.sid = s
    BY <1>1, <2>1 DEF SuccessInv
  <2>3. CASE learned[s] >= ended[s]
    <3>1. learned'[s] \in Nat
      <4>1. TypeOK'
        BY <1>1, TypeWorker, TypeAck, TypeOutside
      <4> QED
        BY <4>1, Bounds DEF TypeOK
    <3> QED
      BY <1>2, <1>3, <1>4, <2>3, <3>1
  <2>4. CASE Ahead(s)
    BY <1>5, <2>4
  <2>5. CASE InHand(s) \/ (WorkerAt("dlq") /\ worker.sid = s)
    <3>1. CASE Distil
      BY <1>1, <2>5, <3>1, Distils DEF InHand, WorkerAt
    <3>2. CASE Retry
      BY <1>1, <2>5, <3>2, PutsBack DEF InHand, WorkerAt
    <3>3. CASE DeadLetter
      BY <1>1, <2>5, <3>3, Buries DEF InHand, WorkerAt
    <3>4. CASE Ack
      BY <1>1, <2>5, <3>4, Acks DEF InHand, WorkerAt
    <3>5. CASE PassFails \/ Crash
      BY <1>1, <2>5, <3>5, Stops DEF InHand, WorkerAt
    <3> QED
      BY <3>1, <3>2, <3>3, <3>4, <3>5
  <2> QED
    BY <2>2, <2>3, <2>4, <2>5
<1> QED
  BY <1>6, <1>7, <1>8

\* The worker writes what it decided; a success is what it has learned.
LEMMA LearnMarks ==
  ASSUME LearnInv, SetStatus \/ ExpireKeys
  PROVE  HeldInv' /\ SeenInv' /\ SuccessInv'
<1>1. TypeOK /\ HeldInv /\ SeenInv /\ SuccessInv
  BY DEF LearnInv
<1>2. /\ UNCHANGED <<queue, learned, ended>> /\ worker # NoJob /\ worker' # NoJob
      /\ worker'.sid = worker.sid /\ worker'.at = worker.at /\ worker.sid \in Sessions
      /\ worker.pc \in {"success", "dlq", "expire"} /\ worker'.pc \in {"expire", "ack"}
  BY <1>1, StatusMarks, ExpireAges, JobSentinel
<1>3. \A t : Ahead(t) => Ahead(t)'
  BY <1>2 DEF Ahead
<1>4. \A s \in Sessions : \/ meta'[s] = meta[s] \/ Aging(s)
                          \/ /\ s = worker.sid /\ Marked(s, worker.pc)
                             /\ worker.pc \in {"success", "dlq"}
  BY <1>1, StatusMarks, ExpireAges
<1>5. HeldInv'
  <2> SUFFICES ASSUME NEW s \in Sessions
               PROVE  IF meta'[s] = NoMeta THEN ended'[s] = 0 ELSE ended'[s] <= meta'[s].entries
    BY DEF HeldInv
  <2>1. IF meta[s] = NoMeta THEN ended[s] = 0 ELSE ended[s] <= meta[s].entries
    BY <1>1 DEF HeldInv
  <2> QED
    BY <1>2, <1>4, <2>1 DEF Marked, Aging, Hash, Blank
<1>6. SeenInv'
  BY <1>2 DEF SeenInv
<1>7. SuccessInv'
  <2> SUFFICES ASSUME NEW s \in Sessions, Completed(s)', meta'[s].distillation = "success"
               PROVE  learned'[s] >= ended'[s] \/ Ahead(s)'
    BY DEF SuccessInv
  <2>1. \A t \in Sessions : ended[t] \in Nat /\ learned[t] \in Nat
    BY <1>1, Bounds DEF TypeOK
  <2>2. CASE s = worker.sid /\ Marked(s, worker.pc) /\ worker.pc \in {"success", "dlq"}
    <3>1. worker.pc = "success"
      BY <2>2 DEF Marked
    <3>2. /\ ended[s] <= worker.seen \/ Ahead(s)
          /\ learned[s] >= worker.seen
      BY <1>1, <1>2, <2>2, <3>1 DEF SeenInv
    <3>3. worker.seen \in Nat
      BY <1>1, <1>2, Bounds DEF TypeOK, Jobs
    <3> QED
      BY <1>2, <1>3, <2>1, <3>2, <3>3
  <2>3. CASE meta'[s] = meta[s] \/ Aging(s)
    <3>1. Completed(s) /\ meta[s].distillation = "success"
      BY <2>3 DEF Completed, Aging
    <3>2. \/ learned[s] >= ended[s] \/ Ahead(s) \/ InHand(s)
          \/ WorkerAt("dlq") /\ worker.sid = s
      BY <1>1, <3>1 DEF SuccessInv
    <3>3. CASE learned[s] >= ended[s] \/ Ahead(s)
      BY <1>2, <1>3, <3>3
    <3>4. CASE ~(learned[s] >= ended[s] \/ Ahead(s))
      <4>1. worker.sid = s /\ worker.pc \in {"success", "dlq"}
        BY <1>2, <3>2, <3>4 DEF InHand, WorkerAt
      <4>2. SetStatus /\ Marked(s, worker.pc)
        BY <1>1, <4>1, StatusMarks, ExpireAges
      <4>3. worker.pc = "success"
        BY <2>3, <3>1, <4>1, <4>2 DEF Marked, Aging
      <4> QED
        BY <2>2, <4>1, <4>2
    <3> QED
      BY <3>3, <3>4
  <2> QED
    BY <1>4, <2>2, <2>3
<1> QED
  BY <1>5, <1>6, <1>7

LEMMA LearnSteps ==
  ASSUME LearnInv, [Next]_vars
  PROVE  LearnInv'
<1>1. TypeOK'
  BY TypeSteps DEF LearnInv
<1>2. CASE UNCHANGED vars
  BY <1>1, <1>2 DEF vars, sessionVars, distillVars, LearnInv, HeldInv, SeenInv, SuccessInv,
     Ahead, InHand, WorkerAt, Completed
<1>3. CASE Next
  <2>1. HeldInv' /\ SeenInv' /\ SuccessInv'
    BY <1>3, LearnSession, LearnRequeue, LearnTake, LearnDecides, LearnMarks
    DEF Next, WorkerStep
  <2> QED
    BY <1>1, <2>1 DEF LearnInv
<1> QED
  BY <1>2, <1>3

LEMMA LearnStarts ==
  ASSUME Init
  PROVE  LearnInv
<1>1. \A s \in Sessions : meta[s] # NoMeta => meta[s].entries = 0 /\ ~Completed(s)
  BY DEF Init, SessionInit, Completed, Blank
<1>2. worker = NoJob /\ \A s \in Sessions : ended[s] = 0
  BY DEF Init
<1> QED
  BY <1>1, <1>2, TypeStarts DEF LearnInv, HeldInv, SeenInv, SuccessInv, Completed

\* With nothing left to do, a completed session marked "success" has been learned as
\* it stood when it was last completed - whatever was appended, retried, requeued,
\* resumed or lost to a crash on the way.
THEOREM LearnedMeansAll == Spec => []SuccessMeansLearned
<1>1. ASSUME LearnInv PROVE SuccessMeansLearned
  BY <1>1, LenProperties
  DEF LearnInv, SuccessInv, SuccessMeansLearned, Settled, Ahead, InHand, WorkerAt, Completed
<1> QED
  BY <1>1, LearnStarts, LearnSteps, PTL DEF Spec

-------------------------------------------------------------------------------
(* The dead letter stays on record *)

\* A crash forgets the record a requeue has popped and not yet put back, so what
\* follows is about a service without requeues, or without crashes.
RecordsHeld == "requeue" \notin Ops \/ MaxCrashes = 0

OwnOps == \A c \in Calls : call[c] # Idle => call[c].op \in Ops

Filed(s) == Ahead(s) \/ InDlq(s) \/ Held(s)

\* What a completed session held is learned, or its job is somewhere.
LearnedInv == \A s \in Sessions :
  Completed(s) => learned[s] >= ended[s] \/ Filed(s) \/ InHand(s)

\* A dead one's job is somewhere, also while the worker is about to mark it.
DeadInv == \A s \in Sessions :
  /\ Completed(s) /\ meta[s].distillation = "dlq" => Filed(s) \/ InHand(s)
  /\ Completed(s) /\ WorkerAt("dlq") /\ worker.sid = s => Filed(s)

RecordInv == LearnInv /\ OwnOps /\ LearnedInv /\ DeadInv

LEMMA OwnCalls ==
  ASSUME TypeOK, OwnOps, [Next]_vars
  PROVE  OwnOps'
<1> SUFFICES ASSUME NEW d \in Calls, call'[d] # Idle
             PROVE  call'[d].op \in Ops
  BY DEF OwnOps
<1>1. call[d] # Idle => call[d].op \in Ops
  BY DEF OwnOps
<1>2. CASE SessionStep
  BY <1>1, <1>2, WorkCalls DEF TypeOK, SessionStep
<1>3. CASE WorkerStep
  <2>1. call' = call
    BY <1>3 DEF WorkerStep, Take, Distil, Retry, DeadLetter, SetStatus, ExpireKeys, Ack,
       sessionVars
  <2> QED
    BY <1>1, <2>1
<1>4. CASE Time \/ PassFails \/ UNCHANGED vars
  BY <1>1, <1>4 DEF Time, Days, PassFails, vars, sessionVars
<1>5. CASE Crash
  BY <1>5 DEF Crash
<1>6. ASSUME NEW c \in Calls, Requeue(c), "requeue" \in Ops PROVE call'[d].op \in Ops
  <2>1. call \in [Calls -> CallRecord \cup {Idle}]
    BY TypeParts DEF TypeOK, SessionTypeOK, CallsOK
  <2>2. CASE d # c
    <3>1. call'[d] = call[d]
      BY <1>6, <2>1, <2>2 DEF Requeue, RequeuePop, RequeueLookup, RequeueAdd, RequeueRestore,
         RequeueStatus, Begin, Goto, Return
    <3> QED
      BY <1>1, <3>1
  <2>3. CASE d = c /\ RequeuePop(c)
    BY <1>6, <2>1, <2>3 DEF RequeuePop, Begin, NewCall
  <2>4. CASE d = c /\ ~RequeuePop(c)
    <3>1. Return(c) \/ \E x \in {"enqueue", "status"} : Goto(c, x)
      BY <1>6, <2>4 DEF Requeue, RequeueLookup, RequeueAdd, RequeueRestore, RequeueStatus
    <3>2. call[c] \in CallRecord /\ call[c].op = "requeue"
      BY <1>6, <2>1, <2>4 DEF Requeue, RequeueLookup, RequeueAdd, RequeueRestore,
         RequeueStatus, At
    <3>3. \A x \in {"enqueue", "status"} : [call[c] EXCEPT !.pc = x].op = "requeue"
      BY <3>2 DEF CallRecord
    <3>4. call'[c] # Idle => \E x \in {"enqueue", "status"} : call'[c] = [call[c] EXCEPT !.pc = x]
      BY <2>1, <3>1 DEF Return, Goto
    <3> QED
      BY <1>6, <2>4, <3>3, <3>4
  <2> QED
    BY <2>2, <2>3, <2>4
<1> QED
  BY <1>2, <1>3, <1>4, <1>5, <1>6 DEF Next

LEMMA FiledInWork ==
  ASSUME TypeOK, SessionStep, NEW s \in Sessions, Filed(s)
  PROVE  Filed(s)'
<1>1. dlq' = dlq /\ (Ahead(s) => Ahead(s)')
  BY WorkEnded
<1>2. Held(s) => Held(s)'
  <2> SUFFICES ASSUME NEW c \in Calls, call[c] # Idle, call[c].op = "requeue",
                      call[c].sid = s, call[c].pc \in {"lookup", "enqueue"}
               PROVE  Held(s)'
    BY DEF Held
  <2>1. call'[c] = call[c]
    BY RequeueRests DEF TypeOK, SessionStep
  <2> QED
    BY <2>1 DEF Held
<1> QED
  BY <1>1, <1>2 DEF Filed, InDlq

\* A record goes from the list to a requeue and from there to the queue or back.
LEMMA FiledInRequeue ==
  ASSUME TypeOK, NEW c \in Calls, Requeue(c), NEW s \in Sessions, Filed(s), meta[s] # NoMeta
  PROVE  Filed(s)'
<1>1. Ahead(s) => Ahead(s)'
  BY RequeueMoves
<1>2. call \in [Calls -> CallRecord \cup {Idle}] /\ dlq \in Seq(Sessions)
  BY TypeParts DEF TypeOK, SessionTypeOK, CallsOK
<1>3. CASE RequeuePop(c)
  <2> DEFINE n == NewCall("requeue", "lookup", NoLabel, NoMember, Head(dlq))
  <2>1. /\ dlq # <<>> /\ dlq' = Tail(dlq) /\ call[c] = Idle
        /\ call' = [call EXCEPT ![c] = n]
    BY <1>3 DEF RequeuePop, Begin
  <2>2. /\ Head(dlq) \in Sessions
        /\ \A i \in DOMAIN dlq : \/ dlq[i] = Head(dlq)
                                 \/ \E j \in DOMAIN dlq' : dlq'[j] = dlq[i]
    BY <1>2, <2>1, Popped
  <2>3. /\ n \in CallRecord /\ n.op = "requeue" /\ n.pc = "lookup" /\ n.sid = Head(dlq)
    BY <2>2, NewCallType DEF CallOps, CallPcs, NewCall
  <2> HIDE DEF n
  <2>4. Head(dlq) = s => Held(s)'
    BY <1>2, <2>1, <2>3, Sentinels DEF Held
  <2>5. InDlq(s) => InDlq(s)' \/ Head(dlq) = s
    BY <2>2 DEF InDlq
  <2>6. Held(s) => Held(s)'
    BY <1>2, <2>1 DEF Held
  <2> QED
    BY <1>1, <2>4, <2>5, <2>6 DEF Filed
<1>4. CASE ~RequeuePop(c)
  <2>1. call[c] \in CallRecord /\ call[c] # Idle /\ call[c].op = "requeue"
    BY <1>2, <1>4 DEF Requeue, RequeueLookup, RequeueAdd, RequeueRestore, RequeueStatus, At
  <2>2. InDlq(s) => InDlq(s)'
    <3>1. dlq' = dlq \/ dlq' = Append(dlq, call[c].sid)
      BY <1>4 DEF Requeue, RequeueLookup, RequeueAdd, RequeueRestore, RequeueStatus, distillVars
    <3>2. call[c].sid \in Sessions
      BY <2>1 DEF CallRecord
    <3>3. \A i \in DOMAIN dlq : i \in DOMAIN dlq' /\ dlq'[i] = dlq[i]
      BY <1>2, <3>1, <3>2, Appended
    <3> QED
      BY <3>3 DEF InDlq
  <2>3. \A d \in Calls \ {c} : call'[d] = call[d]
    BY <1>2, <1>4 DEF Requeue, RequeueLookup, RequeueAdd, RequeueRestore, RequeueStatus,
       Return, Goto
  <2>4. ASSUME call[c].sid = s, call[c].pc \in {"lookup", "enqueue"}
        PROVE  Filed(s)'
    <3>1. CASE RequeueLookup(c)
      <4>1. call' = [call EXCEPT ![c].pc = "enqueue"]
        BY <2>4, <3>1 DEF RequeueLookup, Goto
      <4>2. /\ [call[c] EXCEPT !.pc = "enqueue"] \in CallRecord
            /\ [call[c] EXCEPT !.pc = "enqueue"].pc = "enqueue"
            /\ [call[c] EXCEPT !.pc = "enqueue"].op = "requeue"
            /\ [call[c] EXCEPT !.pc = "enqueue"].sid = s
        BY <2>1, <2>4 DEF CallRecord, CallPcs
      <4>3. call'[c] = [call[c] EXCEPT !.pc = "enqueue"]
        BY <1>2, <4>1
      <4> QED
        BY <4>2, <4>3, Sentinels DEF Held, Filed
    <3>2. CASE RequeueAdd(c)
      <4>1. queue' = Append(queue, NewJob(s)) /\ worker' = worker
        BY <2>4, <3>2 DEF RequeueAdd, Enqueue, NewJob, distillVars
      <4>2. NewJob(s) \in Entries /\ NewJob(s).sid = s
        BY DEF NewJob, Entries
      <4>3. Ahead(NewJob(s).sid)'
        BY <4>1, <4>2, AppendedAhead DEF WorkerStays
      <4> QED
        BY <4>2, <4>3 DEF Filed
    <3>3. CASE RequeueRestore(c)
      <4>1. dlq' = Append(dlq, s)
        BY <2>4, <3>3 DEF RequeueRestore
      <4>2. Len(dlq) + 1 \in DOMAIN dlq' /\ dlq'[Len(dlq) + 1] = s
        BY <1>2, <4>1, Appended
      <4> QED
        BY <4>2 DEF Filed, InDlq
    <3>4. CASE RequeueStatus(c)
      BY <2>4, <3>4 DEF RequeueStatus, At
    <3> QED
      BY <1>4, <3>1, <3>2, <3>3, <3>4 DEF Requeue
  <2>5. CASE Held(s)
    <3>1. PICK d \in Calls : /\ call[d] # Idle /\ call[d].op = "requeue" /\ call[d].sid = s
                             /\ call[d].pc \in {"lookup", "enqueue"}
      BY <2>5 DEF Held
    <3>2. CASE d = c
      BY <2>4, <3>1, <3>2
    <3>3. CASE d # c
      <4>1. call'[d] = call[d]
        BY <2>3, <3>3
      <4> QED
        BY <3>1, <4>1 DEF Held, Filed
    <3> QED
      BY <3>2, <3>3
  <2> QED
    BY <1>1, <2>2, <2>5 DEF Filed
<1> QED
  BY <1>3, <1>4

\* The worker moves a job that is ahead into its hands, and out of them to the end of
\* the queue, to the dead letters, or back where it was.
LEMMA FiledElsewhere ==
  ASSUME RecordsHeld, RecordInv, [Next]_vars, ~SessionStep, NEW s \in Sessions,
         Completed(s), Filed(s) \/ InHand(s), ~SetStatus \/ Filed(s)
  PROVE  Filed(s)' \/ InHand(s)'
<1>1. TypeOK /\ OwnOps /\ meta[s] # NoMeta
  BY DEF RecordInv, LearnInv, Completed
<1>2. CASE \E c \in Calls : Requeue(c)
  <2>1. worker' = worker
    BY <1>1, <1>2, RequeueMoves
  <2>2. Filed(s) => Filed(s)'
    BY <1>1, <1>2, FiledInRequeue
  <2> QED
    BY <2>1, <2>2 DEF InHand
<1>3. ASSUME UNCHANGED <<call, dlq>> PROVE (InDlq(s) => InDlq(s)') /\ (Held(s) => Held(s)')
  BY <1>3 DEF InDlq, Held
<1>4. ASSUME NEW i \in DOMAIN queue, Take(i)
      PROVE  Filed(s)' \/ InHand(s)'
  <2>1. /\ UNCHANGED <<call, dlq, queue, meta>> /\ worker = NoJob /\ worker'.at = i
        /\ worker'.sid = queue[i].sid
        /\ worker'.pc = IF meta[queue[i].sid] = NoMeta THEN "ack" ELSE "distill"
    BY <1>4 DEF Take, sessionVars
  <2>2. ~InHand(s)
    BY <2>1 DEF InHand
  <2>3. CASE Ahead(s) /\ queue[i].sid = s
    <3>1. worker' # NoJob
      BY <1>1, <1>4, TakenJob
    <3> QED
      BY <1>1, <2>1, <2>3, <3>1 DEF InHand
  <2>4. CASE Ahead(s) /\ queue[i].sid # s
    <3>1. Ahead(s)'
      BY <2>1, <2>4 DEF Ahead
    <3> QED
      BY <3>1 DEF Filed
  <2> QED
    BY <1>3, <2>1, <2>2, <2>3, <2>4 DEF Filed
<1>5. CASE Distil
  <2>1. UNCHANGED <<call, dlq, queue>> /\ worker # NoJob /\ worker' # NoJob
    BY <1>1, <1>5, Distils DEF sessionVars
  <2>2. /\ worker'.sid = worker.sid /\ worker'.at = worker.at
        /\ worker'.pc \in {"success", "failure", "permanent"}
    BY <1>1, <1>5, Distils
  <2>3. Ahead(s) => Ahead(s)'
    BY <2>1, <2>2 DEF Ahead
  <2>4. InHand(s) => InHand(s)'
    BY <2>1, <2>2 DEF InHand
  <2> QED
    BY <1>3, <2>1, <2>3, <2>4 DEF Filed
<1>6. CASE Retry
  BY <1>1, <1>3, <1>6, PutsBack DEF Filed, InHand
<1>7. CASE DeadLetter
  <2>1. /\ worker'.sid = worker.sid /\ (\A t : t = worker.sid \/ InDlq(t) => InDlq(t)')
        /\ UNCHANGED <<call, queue>> /\ worker # NoJob /\ worker'.at = worker.at
    BY <1>1, <1>7, Buries DEF sessionVars, InDlq
  <2>2. (Ahead(s) => Ahead(s)') /\ (Held(s) => Held(s)')
    BY <2>1 DEF Ahead, Held
  <2> QED
    BY <2>1, <2>2 DEF Filed, InHand
<1>8. CASE Ack
  BY <1>1, <1>3, <1>8, Acks DEF Filed, InHand
<1>9. CASE SetStatus \/ ExpireKeys
  <2>1. UNCHANGED <<call, dlq, queue>> /\ worker # NoJob /\ worker'.at = worker.at
    BY <1>1, <1>9, StatusMarks, ExpireAges
  <2>2. Ahead(s) => Ahead(s)'
    BY <2>1 DEF Ahead
  <2>3. ExpireKeys => ~InHand(s)
    BY DEF ExpireKeys, WorkerAt, InHand
  <2> QED
    BY <1>3, <1>9, <2>1, <2>2, <2>3 DEF Filed
<1>10. CASE Time \/ UNCHANGED vars
  <2>1. UNCHANGED <<call, dlq, queue, worker>>
    BY <1>10 DEF Time, Days, vars, sessionVars, distillVars
  <2> QED
    BY <2>1 DEF Filed, InHand, Ahead, InDlq, Held
<1>11. CASE PassFails \/ Crash
  <2>1. /\ UNCHANGED dlq /\ worker' = NoJob
        /\ Ahead(s) \/ InHand(s) => Ahead(s)'
    BY <1>1, <1>11, Stops DEF InHand
  <2>2. Held(s) => Held(s)'
    <3>1. CASE PassFails
      BY <3>1 DEF PassFails, sessionVars, Held
    <3>2. CASE Crash
      <4>1. MaxCrashes # 0
        BY <1>1, <3>2, AttemptBounds DEF Crash, TypeOK
      <4>2. ~Held(s)
        BY <1>1, <4>1 DEF RecordsHeld, OwnOps, Held
      <4> QED
        BY <4>2
    <3> QED
      BY <1>11, <3>1, <3>2
  <2> QED
    BY <2>1, <2>2 DEF Filed, InDlq
<1> QED
  BY <1>2, <1>4, <1>5, <1>6, <1>7, <1>8, <1>9, <1>10, <1>11 DEF Next, WorkerStep

\* A step makes a session completed only by putting its job into the queue.
LEMMA CompletedBefore ==
  ASSUME TypeOK, [Next]_vars, NEW s \in Sessions, Completed(s)'
  PROVE  \/ Completed(s) /\ ended'[s] = ended[s]
         \/ Ahead(s)' /\ worker' = worker /\ SessionStep
<1>1. CASE SessionStep
  <2>1. meta'[s] # NoMeta /\ meta'[s].status = "completed"
    BY DEF Completed
  <2>2. CASE Ahead(s)'
    BY <1>1, <2>2 DEF SessionStep
  <2>3. CASE ended'[s] = ended[s] /\ (meta'[s] = meta[s] \/ Keeps(meta'[s], Hash(s)))
    BY <2>1, <2>3 DEF Completed, Keeps, Hash, Blank
  <2> QED
    BY <1>1, <2>1, <2>2, <2>3, WorkEnded
<1>2. CASE ~SessionStep
  <2>1. ended' = ended
    BY <1>2 DEF Next, WorkerStep, Take, Distil, Retry, DeadLetter, SetStatus, ExpireKeys, Ack,
       Requeue, RequeuePop, RequeueLookup, RequeueAdd, RequeueRestore, RequeueStatus,
       Time, PassFails, Crash, vars, distillVars
  <2>2. \/ meta'[s] = meta[s] \/ Aging(s)
        \/ \E x \in {"queued", "success", "dlq"} : Marked(s, x)
    <3>1. CASE Time \/ \E c \in Calls : Requeue(c)
      BY <3>1, TimeAges, RequeueMoves
    <3>2. CASE SetStatus \/ ExpireKeys
      BY <3>2, StatusMarks, ExpireAges
    <3>3. CASE meta' = meta
      BY <3>3
    <3>4. \/ Time \/ (\E c \in Calls : Requeue(c)) \/ SetStatus \/ ExpireKeys \/ meta' = meta
      BY <1>2 DEF Next, WorkerStep, Take, Distil, Retry, DeadLetter, Ack, PassFails, Crash,
         vars, sessionVars
    <3> QED
      BY <3>1, <3>2, <3>3, <3>4
  <2> QED
    BY <2>1, <2>2 DEF Completed, Marked, Aging, Hash, Blank
<1> QED
  BY <1>1, <1>2

\* Only the worker marks a session dead, and only what is learned grows.
LEMMA DeadBefore ==
  ASSUME TypeOK, [Next]_vars, NEW s \in Sessions, Completed(s)', ~Ahead(s)',
         meta'[s].distillation = "dlq"
  PROVE  meta[s].distillation = "dlq" \/ (SetStatus /\ worker.sid = s /\ worker.pc = "dlq")
<1>1. meta'[s] # NoMeta
  BY DEF Completed
<1>2. CASE SessionStep
  BY <1>1, <1>2, WorkEnded DEF Completed, Keeps, Hash, Blank
<1>3. CASE SetStatus
  BY <1>3, StatusMarks DEF Marked
<1>4. CASE Time \/ ExpireKeys \/ \E c \in Calls : Requeue(c)
  BY <1>4, TimeAges, ExpireAges, RequeueMoves DEF Marked, Aging
<1>5. CASE meta' = meta
  BY <1>5
<1>6. \/ SessionStep \/ SetStatus \/ Time \/ ExpireKeys \/ meta' = meta
      \/ \E c \in Calls : Requeue(c)
  BY DEF Next, WorkerStep, Take, Distil, Retry, DeadLetter, Ack, PassFails, Crash,
     vars, sessionVars
<1> QED
  BY <1>2, <1>3, <1>4, <1>5, <1>6

LEMMA LearnedGrows ==
  ASSUME TypeOK, [Next]_vars, NEW s \in Sessions
  PROVE  learned'[s] >= learned[s] /\ learned[s] \in Nat /\ learned'[s] \in Nat
<1>1. learned[s] \in Nat /\ learned'[s] \in Nat
  BY TypeSteps, Bounds DEF TypeOK
<1>2. CASE Distil
  BY <1>1, <1>2, Distils
<1>3. CASE ~Distil
  <2>1. learned' = learned
    BY <1>3 DEF Next, WorkerStep, Take, Retry, DeadLetter, SetStatus, ExpireKeys, Ack,
       SessionStep, Requeue, RequeuePop, RequeueLookup, RequeueAdd, RequeueRestore,
       RequeueStatus, Time, PassFails, Crash, vars, distillVars
  <2> QED
    BY <1>1, <2>1
<1> QED
  BY <1>1, <1>2, <1>3

\* A job stays somewhere until its session is learned.
LEMMA JobStays ==
  ASSUME RecordsHeld, RecordInv, [Next]_vars, NEW s \in Sessions,
         Completed(s), Filed(s) \/ InHand(s), ~SetStatus \/ Filed(s)
  PROVE  Filed(s)' \/ InHand(s)'
<1>1. TypeOK
  BY DEF RecordInv, LearnInv
<1>2. CASE SessionStep
  BY <1>1, <1>2, FiledInWork DEF SessionStep, InHand
<1> QED
  BY <1>2, FiledElsewhere

\* The worker comes to a dead letter from a job it had in its hands.
LEMMA DeadFrom ==
  ASSUME TypeOK, [Next]_vars, WorkerAt("dlq")'
  PROVE  /\ ~SetStatus
         /\ InHand(worker'.sid) \/ (WorkerAt("dlq") /\ worker.sid = worker'.sid)
<1>1. CASE worker' = worker
  BY <1>1, StatusMarks DEF WorkerAt
<1>2. CASE DeadLetter
  BY <1>2, Buries DEF InHand, DeadLetter, SetStatus, WorkerAt
<1>3. CASE Distil \/ Retry \/ SetStatus \/ ExpireKeys
  BY <1>3, Distils, PutsBack, StatusMarks, ExpireAges DEF WorkerAt
<1>4. ASSUME NEW i \in DOMAIN queue, Take(i) PROVE worker'.pc \in {"ack", "distill"}
  BY <1>4 DEF Take
<1>5. CASE Ack \/ PassFails \/ Crash
  BY <1>5 DEF Ack, PassFails, Crash, WorkerAt
<1>6. \/ worker' = worker \/ DeadLetter \/ Distil \/ Retry \/ SetStatus \/ ExpireKeys
      \/ Ack \/ PassFails \/ Crash \/ \E i \in DOMAIN queue : Take(i)
  BY DEF Next, WorkerStep, SessionStep, Time, Requeue, RequeuePop, RequeueLookup, RequeueAdd,
     RequeueRestore, RequeueStatus, vars, distillVars
<1> QED
  BY <1>1, <1>2, <1>3, <1>4, <1>5, <1>6 DEF WorkerAt

LEMMA RecordSteps ==
  ASSUME RecordsHeld, RecordInv, [Next]_vars
  PROVE  RecordInv'
<1>1. TypeOK /\ LearnInv /\ OwnOps /\ LearnedInv /\ DeadInv /\ SeenInv
  BY DEF RecordInv, LearnInv
<1>2. LearnInv' /\ OwnOps'
  BY <1>1, LearnSteps, OwnCalls
<1>3. ASSUME NEW s \in Sessions, Completed(s)'
      PROVE  learned'[s] >= ended'[s] \/ Filed(s)' \/ InHand(s)'
  <2>1. CASE Ahead(s)'
    BY <2>1 DEF Filed
  <2>2. CASE ~Ahead(s)'
    <3>1. Completed(s) /\ ended'[s] = ended[s] /\ ended[s] \in Nat
      BY <1>1, <1>3, <2>2, CompletedBefore, Bounds DEF TypeOK
    <3>2. learned'[s] >= learned[s] /\ learned[s] \in Nat /\ learned'[s] \in Nat
      BY <1>1, LearnedGrows
    <3>3. learned[s] >= ended[s] \/ Filed(s) \/ InHand(s)
      BY <1>1, <3>1 DEF LearnedInv
    <3>4. CASE learned[s] >= ended[s]
      BY <3>1, <3>2, <3>4
    <3>5. CASE SetStatus /\ ~Filed(s) /\ InHand(s)
      <4>1. worker # NoJob /\ worker.pc = "success" /\ worker.sid = s
        BY <3>5 DEF SetStatus, WorkerAt, InHand
      <4>2. ended[s] <= worker.seen /\ learned[s] >= worker.seen
        BY <1>1, <3>5, <4>1 DEF SeenInv, Filed
      <4>3. worker.seen \in Nat
        BY <1>1, <4>1, Bounds DEF TypeOK, Jobs
      <4> QED
        BY <3>1, <3>2, <4>2, <4>3
    <3>6. CASE (Filed(s) \/ InHand(s)) /\ (~SetStatus \/ Filed(s))
      BY <3>1, <3>6, JobStays
    <3> QED
      BY <3>3, <3>4, <3>5, <3>6
  <2> QED
    BY <2>1, <2>2
<1>4. ASSUME NEW s \in Sessions, Completed(s)', meta'[s].distillation = "dlq"
      PROVE  Filed(s)' \/ InHand(s)'
  <2>1. CASE Ahead(s)'
    BY <2>1 DEF Filed
  <2>2. CASE ~Ahead(s)'
    <3>1. Completed(s)
      BY <1>1, <1>4, <2>2, CompletedBefore
    <3>2. CASE SetStatus /\ worker.sid = s /\ worker.pc = "dlq"
      <4>1. Filed(s)
        BY <1>1, <3>1, <3>2 DEF DeadInv, SetStatus, WorkerAt
      <4> QED
        BY <3>1, <4>1, JobStays
    <3>3. CASE meta[s].distillation = "dlq" /\ ~(SetStatus /\ worker.sid = s)
      <4>1. Filed(s) \/ InHand(s)
        BY <1>1, <3>1, <3>3 DEF DeadInv
      <4>2. ~SetStatus \/ Filed(s)
        BY <3>3, <4>1 DEF InHand
      <4> QED
        BY <3>1, <4>1, <4>2, JobStays
    <3>4. CASE SetStatus /\ worker.sid = s /\ worker.pc # "dlq"
      BY <1>1, <1>4, <3>4, StatusMarks DEF Marked
    <3> QED
      BY <1>1, <1>4, <2>2, <3>2, <3>3, <3>4, DeadBefore
  <2> QED
    BY <2>1, <2>2
<1>5. ASSUME NEW s \in Sessions, Completed(s)', WorkerAt("dlq")', worker'.sid = s
      PROVE  Filed(s)'
  <2>1. ~InHand(s)'
    BY <1>5 DEF WorkerAt, InHand
  <2>2. CASE Ahead(s)'
    BY <2>2 DEF Filed
  <2>3. CASE ~Ahead(s)'
    <3>1. Completed(s)
      BY <1>1, <1>5, <2>3, CompletedBefore
    <3>2. ~SetStatus /\ (InHand(s) \/ (WorkerAt("dlq") /\ worker.sid = s))
      BY <1>1, <1>5, DeadFrom
    <3>3. Filed(s) \/ InHand(s)
      BY <1>1, <3>1, <3>2 DEF DeadInv
    <3> QED
      BY <2>1, <3>1, <3>2, <3>3, JobStays
  <2> QED
    BY <2>2, <2>3
<1> QED
  BY <1>2, <1>3, <1>4, <1>5 DEF RecordInv, LearnedInv, DeadInv

LEMMA RecordStarts ==
  ASSUME Init
  PROVE  RecordInv
<1>1. \A s \in Sessions : ~Completed(s)
  BY DEF Init, SessionInit, Completed, Blank
<1>2. OwnOps
  BY DEF Init, SessionInit, OwnOps
<1> QED
  BY <1>1, <1>2, LearnStarts DEF RecordInv, LearnedInv, DeadInv

\* Where a job is, there is a record of it.
LEMMA FiledIsOnRecord ==
  ASSUME TypeOK, NEW s, Filed(s) \/ InHand(s)
  PROVE  OnRecord(s)
BY DEF TypeOK, Filed, InHand, Ahead, InDlq, Held, OnRecord

\* A completed session whose distillation is dead stays on record, through retries,
\* second completions, requeues and failed passes.
THEOREM DeadStaysOnRecord == ASSUME RecordsHeld PROVE Spec => []DeadLetterOnRecord
<1>1. RecordInv /\ [Next]_vars => RecordInv'
  BY RecordSteps
<1>2. RecordInv => DeadLetterOnRecord
  BY FiledIsOnRecord DEF RecordInv, LearnInv, DeadInv, DeadLetterOnRecord, Completed
<1> QED
  BY <1>1, <1>2, RecordStarts, PTL DEF Spec

\* A completed session's keys go away only when what it held was learned, or its
\* dead letter is on record.
THEOREM CompletedStays == ASSUME RecordsHeld PROVE Spec => CompletedIsNotLost
<1> DEFINE Kept == \A s \in Sessions :
      /\ meta[s] # NoMeta /\ meta[s].status = "completed" /\ meta'[s] = NoMeta
      => learned[s] >= ended[s] \/ OnRecord(s)
<1>1. RecordInv /\ [Next]_vars => RecordInv'
  BY RecordSteps
<1>2. RecordInv /\ [Next]_vars => [Kept]_vars
  BY FiledIsOnRecord DEF RecordInv, LearnInv, LearnedInv, Completed
<1> HIDE DEF Kept
<1>3. Spec => [][Kept]_vars
  BY <1>1, <1>2, RecordStarts, PTL DEF Spec
<1> QED
  BY <1>3 DEF Kept, CompletedIsNotLost

-------------------------------------------------------------------------------
(* No session is queued for ever *)

\* A job of s is ahead, or in the worker's hands and not done with.
Todo(s, done) ==
  Ahead(s) \/ (worker # NoJob /\ worker.sid = s /\ worker.pc \notin done)

LEMMA TodoStays ==
  ASSUME TypeOK, [Next]_vars, NEW s \in Sessions, meta[s] # NoMeta,
         NEW done \in {{"ack"}, {"expire", "ack"}}, Todo(s, done)
  PROVE  \/ Todo(s, done)'
         \/ SetStatus /\ worker.sid = s /\ "expire" \in done
         \/ ExpireKeys /\ worker.sid = s /\ "expire" \notin done
<1> DEFINE Hand == worker # NoJob /\ worker.sid = s /\ worker.pc \notin done
<1>1. CASE SessionStep \/ \E c \in Calls : Requeue(c)
  <2>1. worker' = worker /\ (Ahead(s) => Ahead(s)')
    BY <1>1, WorkEnded, RequeueMoves
  <2> QED
    BY <2>1 DEF Todo
<1>2. ASSUME NEW i \in DOMAIN queue, Take(i) PROVE Todo(s, done)'
  <2>1. /\ queue' = queue /\ worker = NoJob /\ worker'.at = i /\ worker'.sid = queue[i].sid
        /\ worker'.pc = IF meta[queue[i].sid] = NoMeta THEN "ack" ELSE "distill"
    BY <1>2 DEF Take, sessionVars
  <2>2. Ahead(s) /\ worker' # NoJob
    BY <1>2, <2>1, TakenJob DEF Todo
  <2>3. CASE queue[i].sid = s
    BY <2>1, <2>2, <2>3 DEF Todo
  <2>4. CASE queue[i].sid # s
    <3>1. Ahead(s)'
      BY <2>1, <2>2, <2>4 DEF Ahead
    <3> QED
      BY <3>1 DEF Todo
  <2> QED
    BY <2>3, <2>4
<1>3. ASSUME queue' = queue, worker # NoJob, worker'.at = worker.at
      PROVE  Ahead(s) => Ahead(s)'
  BY <1>3 DEF Ahead
<1>4. CASE Distil
  <2>1. /\ queue' = queue /\ worker # NoJob /\ worker' # NoJob /\ worker'.sid = worker.sid
        /\ worker'.at = worker.at /\ worker'.pc \in {"success", "failure", "permanent"}
    BY <1>4, Distils DEF sessionVars
  <2> QED
    BY <1>3, <2>1 DEF Todo
<1>5. CASE Retry
  <2>1. worker.pc = "failure" /\ \A t : t = worker.sid \/ Ahead(t) => Ahead(t)'
    BY <1>5, PutsBack
  <2> QED
    BY <2>1 DEF Todo
<1>6. CASE DeadLetter
  <2>1. /\ queue' = queue /\ worker # NoJob /\ worker' # NoJob /\ worker'.sid = worker.sid
        /\ worker'.at = worker.at /\ worker'.pc = "dlq"
    BY <1>6, Buries DEF sessionVars
  <2> QED
    BY <1>3, <2>1 DEF Todo
<1>7. CASE SetStatus
  <2>1. /\ queue' = queue /\ worker # NoJob /\ worker' # NoJob /\ worker'.sid = worker.sid
        /\ worker'.at = worker.at /\ worker'.pc = "expire"
    BY <1>7, StatusMarks, JobSentinel
  <2> QED
    BY <1>3, <1>7, <2>1 DEF Todo
<1>8. CASE ExpireKeys
  <2>1. /\ queue' = queue /\ worker # NoJob /\ worker'.at = worker.at /\ worker.pc = "expire"
    BY <1>8, ExpireAges
  <2> QED
    BY <1>3, <1>8, <2>1 DEF Todo
<1>9. CASE Ack
  <2>1. worker.pc = "ack" /\ (Ahead(s) => Ahead(s)')
    BY <1>9, Acks
  <2> QED
    BY <2>1 DEF Todo
<1>10. CASE PassFails \/ Crash
  BY <1>10, Stops DEF Todo
<1>11. CASE Time \/ UNCHANGED vars
  <2>1. queue' = queue /\ worker' = worker
    BY <1>11 DEF Time, Days, vars, sessionVars, distillVars
  <2> QED
    BY <2>1 DEF Todo, Ahead
<1> QED
  BY <1>1, <1>2, <1>4, <1>5, <1>6, <1>7, <1>8, <1>9, <1>10, <1>11 DEF Next, WorkerStep

\* Who makes a session queued: a completion, with its job, or a requeue, late.
LEMMA QueuedBefore ==
  ASSUME TypeOK, [Next]_vars, NEW s \in Sessions,
         meta'[s] # NoMeta, meta'[s].distillation = "queued"
  PROVE  \/ Ahead(s)'
         \/ /\ meta[s] # NoMeta /\ meta[s].distillation = "queued"
            /\ ~(SetStatus /\ worker.sid = s)
            /\ meta'[s].ttl = "no" => /\ meta[s].ttl = "no" \/ Resuming
                                      /\ ~(ExpireKeys /\ worker.sid = s)
            /\ meta'[s].label # NoLabel => meta[s].label # NoLabel \/ Resuming
         \/ /\ meta'[s].ttl = Hash(s).ttl /\ meta'[s].label = Hash(s).label
            /\ \E c \in Calls : Requeue(c) /\ At(c, "requeue", "status") /\ call[c].sid = s
<1>1. CASE SessionStep
  <2>1. \/ Ahead(s)' \/ meta'[s] = meta[s] \/ Keeps(meta'[s], Hash(s))
    BY <1>1, WorkEnded
  <2>2. ~SetStatus /\ ~ExpireKeys
    <3>1. worker' = worker
      BY <1>1, WorkEnded
    <3> QED
      BY <3>1, StatusMarks, ExpireAges
  <2> QED
    BY <2>1, <2>2 DEF Keeps, Hash, Blank
<1>2. CASE SetStatus
  <2>1. s # worker.sid
    BY <1>2, StatusMarks DEF Marked
  <2>2. meta'[s] = meta[s] /\ ~ExpireKeys
    BY <1>2, <2>1, StatusMarks, ExpireAges
  <2> QED
    BY <2>1, <2>2
<1>3. CASE ExpireKeys
  <2>1. /\ meta[worker.sid] # NoMeta => Aging(worker.sid)
        /\ meta'[s] = meta[s] \/ Aging(s)
        /\ ~SetStatus
    BY <1>3, ExpireAges, StatusMarks
  <2>2. meta[s] # NoMeta /\ (worker.sid = s => Aging(s))
    BY <2>1 DEF Aging
  <2> QED
    BY <2>1, <2>2 DEF Aging
<1>4. ASSUME meta'[s] = meta[s] \/ Aging(s), ~SetStatus, ~ExpireKeys
      PROVE  /\ meta[s] # NoMeta /\ meta[s].distillation = "queued"
             /\ meta'[s].ttl = "no" => meta[s].ttl = "no"
             /\ meta'[s].label = meta[s].label
  BY <1>4 DEF Aging
<1>5. CASE ~SetStatus /\ ~ExpireKeys /\ ~SessionStep
  <2>1. CASE meta'[s] = meta[s] \/ Aging(s)
    BY <1>4, <1>5, <2>1
  <2>2. CASE ~(meta'[s] = meta[s] \/ Aging(s))
    <3>1. \E c \in Calls : Requeue(c)
      <4>1. Time \/ (\E c \in Calls : Requeue(c)) \/ meta' = meta
        BY <1>5 DEF Next, WorkerStep, Take, Distil, Retry, DeadLetter, Ack, PassFails, Crash,
           vars, sessionVars
      <4> QED
        BY <2>2, <4>1, TimeAges
    <3> QED
      BY <2>2, <3>1, RequeueMoves DEF Marked
  <2> QED
    BY <2>1, <2>2
<1> QED
  BY <1>1, <1>2, <1>3, <1>5

\* Without requeues: a queued session's job is still to be decided or marked.
UndoneInv == \A s \in Sessions :
  meta[s] # NoMeta /\ meta[s].distillation = "queued" => Todo(s, {"expire", "ack"})

LEMMA UndoneSteps ==
  ASSUME "requeue" \notin Ops, TypeOK, OwnOps, UndoneInv, [Next]_vars
  PROVE  UndoneInv'
<1> SUFFICES ASSUME NEW s \in Sessions, meta'[s] # NoMeta, meta'[s].distillation = "queued",
                    ~Ahead(s)'
             PROVE  Todo(s, {"expire", "ack"})'
  BY DEF UndoneInv, Todo
<1>1. \A c \in Calls : ~At(c, "requeue", "status")
  BY DEF OwnOps, At
<1>2. /\ meta[s] # NoMeta /\ meta[s].distillation = "queued"
      /\ ~(SetStatus /\ worker.sid = s)
  BY <1>1, QueuedBefore
<1>3. Todo(s, {"expire", "ack"})
  BY <1>2 DEF UndoneInv
<1> QED
  BY <1>2, <1>3, TodoStays

\* Without requeues, every queued session has a job, however calls, worker and
\* crashes come together.
THEOREM QueuedHasJob == ASSUME "requeue" \notin Ops PROVE Spec => []NeverStuckQueued
<1> DEFINE Inv == TypeOK /\ OwnOps /\ UndoneInv
<1>1. Init => Inv
  <2>1. ASSUME Init PROVE OwnOps /\ UndoneInv
    BY <2>1 DEF Init, SessionInit, OwnOps, UndoneInv, Blank
  <2> QED
    BY <2>1, TypeStarts
<1>2. Inv /\ [Next]_vars => Inv'
  BY TypeSteps, OwnCalls, UndoneSteps
<1>3. Inv => NeverStuckQueued
  BY DEF TypeOK, UndoneInv, Todo, Ahead, NeverStuckQueued
<1> HIDE DEF Inv
<1> QED
  BY <1>1, <1>2, <1>3, PTL DEF Spec

\* With requeues, one call at a time and no resume: a queued session that does not
\* expire has a job to come, also while a requeue is about to mark it queued.
Lasting(s) == meta[s] # NoMeta /\ meta[s].label # NoLabel /\ meta[s].ttl = "no"

PendingInv == \A s \in Sessions :
  /\ Lasting(s) /\ meta[s].distillation = "queued" => Todo(s, {"ack"})
  /\ \A c \in Calls : Lasting(s) /\ At(c, "requeue", "status") /\ call[c].sid = s
                      => Todo(s, {"ack"})

\* Nothing but an expiry happens to the sessions while a requeue is the only call.
LEMMA RequeueAlone ==
  ASSUME SessionTypeOK, OneAtATime, NEW c \in Calls, call[c] # Idle, call[c].op = "requeue",
         Work
  PROVE  \A s \in Sessions : meta'[s] = NoMeta \/ meta'[s] = meta[s]
<1>1. \A d \in Calls : call[d] # Idle /\ call[d].op = "requeue"
  BY DEF OneAtATime
<1>2. ~Begins(Ops, Labels)
  BY <1>1 DEF Begins, StartBegin, ResumeBegin, UpdateBegin, CompleteBegin, AbandonBegin,
     ReapBegin, Begin
<1>3. ASSUME NEW d \in Calls
      PROVE  ~(\/ Guard(d) \/ Swap(d) \/ Write(d) \/ Point(d) \/ Persist(d) \/ Index(d)
               \/ Enforce(d) \/ Evict(d) \/ EnforceEnd(d))
  BY <1>1 DEF Guard, Swap, Write, Point, Persist, Index, Enforce, Evict, EnforceEnd, At
<1>4. ASSUME NEW d \in Calls
      PROVE  ~(\/ UpdateStore(d) \/ GiveUp(d) \/ AbandonRead(d) \/ Terminate(d) \/ ReapLook(d)
               \/ (\E s \in Sessions : EnforceLook(d, s))
               \/ (\E g \in Grades \cup {"none"} : Commit(d, g)))
  BY <1>1 DEF UpdateStore, GiveUp, AbandonRead, Terminate, ReapLook, EnforceLook, Commit, At
<1>5. \E t \in Sessions : Expire(t)
  BY <1>2, <1>3, <1>4 DEF Work, Continues
<1> QED
  BY <1>5 DEF Expire, SessionTypeOK

\* A requeue comes to its status write from putting the job into the queue.
LEMMA LateFrom ==
  ASSUME TypeOK, [Next]_vars, NEW c \in Calls, At(c, "requeue", "status")'
  PROVE  \/ call'[c] = call[c]
         \/ RequeueAdd(c) /\ call'[c].sid = call[c].sid
<1>1. call \in [Calls -> CallRecord \cup {Idle}]
  BY TypeParts DEF TypeOK, SessionTypeOK, CallsOK
<1>2. CASE SessionStep
  <2>1. call'[c] # Idle /\ call'[c].op = "requeue"
    BY DEF At
  <2>2. call[c] # Idle /\ call[c].op = "requeue"
    BY <1>2, <2>1, WorkCalls DEF TypeOK, SessionStep
  <2> QED
    BY <1>2, <2>2, RequeueRests DEF TypeOK, SessionStep
<1>3. CASE Crash
  BY <1>3 DEF Crash, At
<1>4. CASE call' = call
  BY <1>4
<1>5. ASSUME NEW d \in Calls, Requeue(d)
      PROVE  \/ call'[c] = call[c]
             \/ RequeueAdd(c) /\ call'[c].sid = call[c].sid
  <2>1. CASE d # c
    BY <1>1, <1>5, <2>1 DEF Requeue, RequeuePop, RequeueLookup, RequeueAdd, RequeueRestore,
       RequeueStatus, Begin, Goto, Return
  <2>2. CASE d = c /\ RequeueAdd(c)
    <3>1. call[c] \in CallRecord /\ call' = [call EXCEPT ![c].pc = "status"]
      BY <1>1, <2>2 DEF RequeueAdd, At, Goto
    <3>2. [call[c] EXCEPT !.pc = "status"].sid = call[c].sid
      BY <3>1 DEF CallRecord
    <3> QED
      BY <1>1, <2>2, <3>1, <3>2
  <2>3. CASE d = c /\ RequeuePop(c)
    BY <1>1, <2>3 DEF RequeuePop, Begin, NewCall, At
  <2>4. CASE d = c /\ ~RequeueAdd(c) /\ ~RequeuePop(c)
    <3>1. Return(c) \/ (Goto(c, "enqueue") /\ At(c, "requeue", "lookup"))
      BY <1>5, <2>4 DEF Requeue, RequeueLookup, RequeueRestore, RequeueStatus
    <3>2. call[c] \in CallRecord => [call[c] EXCEPT !.pc = "enqueue"].pc = "enqueue"
      BY DEF CallRecord
    <3> QED
      BY <1>1, <3>1, <3>2 DEF Return, Goto, At
  <2> QED
    BY <1>5, <2>1, <2>2, <2>3, <2>4
<1>6. SessionStep \/ Crash \/ call' = call \/ \E d \in Calls : Requeue(d)
  BY DEF Next, WorkerStep, Take, Distil, Retry, DeadLetter, SetStatus, ExpireKeys, Ack,
     Time, Days, PassFails, vars, sessionVars
<1> QED
  BY <1>2, <1>3, <1>4, <1>5, <1>6

LEMMA PendingSteps ==
  ASSUME OneAtATime, "resume" \notin Ops, TypeOK, OwnOps, PendingInv, [Next]_vars
  PROVE  PendingInv'
<1>1. ~Resuming
  BY DEF OwnOps, Resuming
<1>2. ASSUME NEW s \in Sessions, Lasting(s)', meta'[s].distillation = "queued", ~Ahead(s)'
      PROVE  Todo(s, {"ack"})'
  <2>1. meta'[s] # NoMeta /\ meta'[s].label # NoLabel /\ meta'[s].ttl = "no"
    BY <1>2 DEF Lasting
  <2>2. Todo(s, {"ack"}) /\ meta[s] # NoMeta
    <3>1. CASE \E c \in Calls : Requeue(c) /\ At(c, "requeue", "status") /\ call[c].sid = s
      <4>1. meta'[s] = meta[s] \/ (meta'[s].ttl = Hash(s).ttl /\ meta'[s].label = Hash(s).label)
        BY <3>1, RequeueMoves DEF Marked
      <4>2. Lasting(s)
        BY <2>1, <4>1 DEF Lasting, Hash, Blank
      <4> QED
        BY <3>1, <4>2 DEF PendingInv, Lasting
    <3>2. CASE ~\E c \in Calls : Requeue(c) /\ At(c, "requeue", "status") /\ call[c].sid = s
      <4>1. /\ meta[s] # NoMeta /\ meta[s].distillation = "queued"
            /\ meta[s].ttl = "no" /\ meta[s].label # NoLabel
        BY <1>1, <1>2, <2>1, <3>2, QueuedBefore
      <4> QED
        BY <4>1 DEF PendingInv, Lasting
    <3> QED
      BY <3>1, <3>2
  <2>3. ~(ExpireKeys /\ worker.sid = s)
    BY <2>1, ExpireAges DEF Aging
  <2> QED
    BY <2>2, <2>3, TodoStays
<1>3. ASSUME NEW s \in Sessions, NEW c \in Calls, Lasting(s)', At(c, "requeue", "status")',
             call'[c].sid = s
      PROVE  Todo(s, {"ack"})'
  <2>1. CASE RequeueAdd(c) /\ call'[c].sid = call[c].sid
    <3>1. queue' = Append(queue, NewJob(s)) /\ worker' = worker
      BY <1>3, <2>1 DEF RequeueAdd, Enqueue, NewJob, distillVars
    <3>2. NewJob(s) \in Entries /\ NewJob(s).sid = s
      BY DEF NewJob, Entries
    <3>3. Ahead(NewJob(s).sid)'
      BY <3>1, <3>2, AppendedAhead DEF WorkerStays
    <3> QED
      BY <3>2, <3>3 DEF Todo
  <2>2. CASE call'[c] = call[c]
    <3>1. At(c, "requeue", "status") /\ call[c].sid = s
      BY <1>3, <2>2 DEF At
    <3>2. meta'[s] # NoMeta /\ meta'[s].label # NoLabel /\ meta'[s].ttl = "no"
      BY <1>3 DEF Lasting
    <3>3. Lasting(s) /\ ~(ExpireKeys /\ worker.sid = s)
      <4>1. CASE SessionStep
        <5>1. meta'[s] = meta[s]
          BY <3>1, <3>2, <4>1, RequeueAlone DEF TypeOK, SessionStep, At
        <5>2. worker' = worker
          BY <4>1 DEF SessionStep
        <5> QED
          BY <3>2, <5>1, <5>2, ExpireAges DEF Lasting
      <4>2. CASE SetStatus \/ ExpireKeys
        BY <3>2, <4>2, StatusMarks, ExpireAges DEF Lasting, Marked, Aging, Hash, Blank
      <4>3. CASE Time \/ \E d \in Calls : Requeue(d)
        <5>1. worker' = worker
          BY <4>3, RequeueMoves DEF Time, distillVars
        <5>2. meta'[s] = meta[s] \/ Aging(s) \/ Marked(s, "queued")
          BY <4>3, TimeAges, RequeueMoves
        <5> QED
          BY <3>2, <5>1, <5>2, ExpireAges DEF Lasting, Marked, Aging, Hash, Blank
      <4>4. CASE meta' = meta /\ ~ExpireKeys
        BY <3>2, <4>4 DEF Lasting
      <4> QED
        BY <4>1, <4>2, <4>3, <4>4 DEF Next, WorkerStep, Take, Distil, Retry, DeadLetter, Ack,
           PassFails, Crash, vars, sessionVars
    <3>4. Todo(s, {"ack"}) /\ meta[s] # NoMeta
      BY <3>1, <3>3 DEF PendingInv, Lasting
    <3> QED
      BY <3>3, <3>4, TodoStays
  <2> QED
    BY <1>3, <2>1, <2>2, LateFrom
<1> QED
  BY <1>2, <1>3 DEF PendingInv, Todo

\* With requeues too, as long as calls come one at a time and nothing resumes an old
\* session between a requeue's job and its late status write.
THEOREM RequeuedHasJob ==
  ASSUME OneAtATime, "resume" \notin Ops
  PROVE  Spec => []NeverStuckQueued
<1> DEFINE Inv == TypeOK /\ OwnOps /\ PendingInv
<1>1. Init => Inv
  <2>1. ASSUME Init PROVE OwnOps /\ PendingInv
    <3>1. \A s \in Sessions : meta[s] # NoMeta => meta[s].distillation # "queued"
      BY <2>1 DEF Init, SessionInit, Blank
    <3>2. \A c \in Calls : call[c] = Idle
      BY <2>1 DEF Init, SessionInit
    <3> QED
      BY <3>1, <3>2 DEF OwnOps, PendingInv, Lasting, At
  <2> QED
    BY <2>1, TypeStarts
<1>2. Inv /\ [Next]_vars => Inv'
  BY TypeSteps, OwnCalls, PendingSteps
<1>3. Inv => NeverStuckQueued
  BY DEF TypeOK, PendingInv, Lasting, Todo, Ahead, NeverStuckQueued
<1> HIDE DEF Inv
<1> QED
  BY <1>1, <1>2, <1>3, PTL DEF Spec
===============================================================================

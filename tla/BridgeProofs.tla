----------------------------- MODULE BridgeProofs -----------------------------
(***************************************************************************)
(* For any sessions, labels, members, calls in flight and limits.          *)
(*                                                                         *)
(* A step is described twice, once for all theorems: by what it does to    *)
(* the record of each session (MetaStep) and by what it does to each call  *)
(* (CallStep).  The properties follow from those two and from what a call  *)
(* still knows of the session it checked.                                  *)
(***************************************************************************)
EXTENDS BridgeSession, TLAPS

\* Before the owner of a new session is written.
Prewrite == {"guard", "swap", "write"}

MetaOK  == meta \in [Sessions -> Metas \cup {NoMeta}]
PtrOK   == ptr \in [Labels -> Sessions \cup {NoSession}]
IndexOK == index \subseteq Sessions /\ idle \subseteq index
QueueOK == queue \in Seq([sid : Sessions, attempts : Nat])
CallsOK == call \in [Calls -> CallRecord \cup {Idle}]
FreshOK == fresh \subseteq Sessions

-------------------------------------------------------------------------------
(* Records *)

LEMMA TypeParts ==
  /\ SessionTypeOK <=> MetaOK /\ PtrOK /\ IndexOK /\ QueueOK /\ CallsOK /\ FreshOK
  /\ SessionTypeOK' <=> (MetaOK /\ PtrOK /\ IndexOK /\ QueueOK /\ CallsOK /\ FreshOK)'
BY DEF SessionTypeOK, MetaOK, PtrOK, IndexOK, QueueOK, CallsOK, FreshOK

LEMMA HashType ==
  ASSUME MetaOK, NEW s \in Sessions
  PROVE  Hash(s) \in Metas
<1>1. Blank \in Metas
  BY Bounds DEF Blank, Metas, Statuses, Terminal
<1> QED
  BY <1>1 DEF MetaOK, Hash

LEMMA MetaFields ==
  ASSUME NEW r \in Metas
  PROVE  /\ r.status \in Statuses /\ r.label \in Labels \cup {NoLabel}
         /\ r.owner \in Members \cup {NoMember} /\ r.grade \in Grades \cup {"none"}
         /\ r.distillation \in {"none", "queued", "success", "dlq"}
         /\ r.ttl \in {"no", "set", "due"} /\ r.entries \in 0..MaxEntries
BY DEF Metas

\* Every update of a session's record leaves a record.
LEMMA MetaUpdates ==
  ASSUME NEW r \in Metas
  PROVE  /\ \A x \in Statuses : [r EXCEPT !.status = x] \in Metas
         /\ \A l \in Labels : [r EXCEPT !.status = "active", !.label = l] \in Metas
         /\ \A l \in Labels, m \in Members :
              [r EXCEPT !.status = "active", !.label = l, !.owner = m,
                        !.distillation = "none"] \in Metas
         /\ \A x \in {"no", "set", "due"} : [r EXCEPT !.ttl = x] \in Metas
         /\ [r EXCEPT !.entries = IF @ < MaxEntries THEN @ + 1 ELSE @] \in Metas
         /\ \A g \in Grades \cup {"none"} :
              [r EXCEPT !.status = "completed", !.distillation = "queued",
                        !.grade = g] \in Metas
         /\ [r EXCEPT !.status = "abandoned", !.ttl = "set"] \in Metas
<1>1. MaxEntries \in Nat
  BY Bounds
<1>2. [r EXCEPT !.entries = IF @ < MaxEntries THEN @ + 1 ELSE @] \in Metas
  <2>1. r.entries \in 0..MaxEntries
    BY DEF Metas
  <2>2. (IF r.entries < MaxEntries THEN r.entries + 1 ELSE r.entries) \in 0..MaxEntries
    BY <1>1, <2>1
  <2> QED
    BY <2>2 DEF Metas
<1>3. \A x \in Statuses : [r EXCEPT !.status = x] \in Metas
  BY DEF Metas
<1>4. \A l \in Labels : [r EXCEPT !.status = "active", !.label = l] \in Metas
  BY DEF Metas, Statuses
<1>5. \A l \in Labels, m \in Members :
        [r EXCEPT !.status = "active", !.label = l, !.owner = m,
                  !.distillation = "none"] \in Metas
  BY DEF Metas, Statuses
<1>6. \A x \in {"no", "set", "due"} : [r EXCEPT !.ttl = x] \in Metas
  BY DEF Metas
<1>7. \A g \in Grades \cup {"none"} :
        [r EXCEPT !.status = "completed", !.distillation = "queued",
                  !.grade = g] \in Metas
  BY DEF Metas, Statuses, Terminal
<1>8. [r EXCEPT !.status = "abandoned", !.ttl = "set"] \in Metas
  BY DEF Metas, Statuses, Terminal
<1> QED
  BY <1>2, <1>3, <1>4, <1>5, <1>6, <1>7, <1>8

LEMMA CallFields ==
  ASSUME NEW r \in CallRecord
  PROVE  /\ r # Idle /\ r.pc \in CallPcs /\ r.sid \in Sessions /\ r.tries \in Nat
         /\ r.label \in Labels \cup {NoLabel} /\ r.member \in Members \cup {NoMember}
         /\ r.seen \in Sessions \cup {NoSession} /\ r.prev \in Labels \cup {NoLabel}
         /\ r.stale \subseteq Labels /\ r.victims \subseteq Sessions
         /\ r.op \notin {"reap", "requeue"} => r.label \in Labels /\ r.member \in Members
BY Sentinels DEF CallRecord

LEMMA CallUpdates ==
  ASSUME NEW r \in CallRecord
  PROVE  /\ \A x \in CallPcs : [r EXCEPT !.pc = x] \in CallRecord
         /\ \A x \in CallPcs, s \in Sessions \cup {NoSession} :
              [r EXCEPT !.pc = x, !.seen = s] \in CallRecord
         /\ \A x \in CallPcs, n \in Nat :
              [r EXCEPT !.pc = x, !.tries = n] \in CallRecord
         /\ \A x \in CallPcs, V \in SUBSET Sessions :
              [r EXCEPT !.pc = x, !.victims = V] \in CallRecord
         /\ \A x \in CallPcs, V \in SUBSET Sessions, s \in Sessions :
              [r EXCEPT !.victims = V, !.pc = x, !.seen = s] \in CallRecord
         /\ \A V \in SUBSET Sessions : [r EXCEPT !.victims = V] \in CallRecord
         /\ \A x \in CallPcs, K \in SUBSET Labels :
              [r EXCEPT !.pc = x, !.stale = K] \in CallRecord
         /\ \A x \in CallPcs, l \in Labels \cup {NoLabel} :
              r.op = "reap" => [r EXCEPT !.pc = x, !.label = l] \in CallRecord
<1>1. \A x \in CallPcs : [r EXCEPT !.pc = x] \in CallRecord
  BY DEF CallRecord
<1>2. \A x \in CallPcs, s \in Sessions \cup {NoSession} :
        [r EXCEPT !.pc = x, !.seen = s] \in CallRecord
  BY DEF CallRecord
<1>3. \A x \in CallPcs, n \in Nat :
        [r EXCEPT !.pc = x, !.tries = n] \in CallRecord
  BY DEF CallRecord
<1>4. \A x \in CallPcs, V \in SUBSET Sessions :
        [r EXCEPT !.pc = x, !.victims = V] \in CallRecord
  BY DEF CallRecord
<1>5. \A x \in CallPcs, V \in SUBSET Sessions, s \in Sessions :
        [r EXCEPT !.victims = V, !.pc = x, !.seen = s] \in CallRecord
  BY DEF CallRecord
<1>6. \A V \in SUBSET Sessions : [r EXCEPT !.victims = V] \in CallRecord
  BY DEF CallRecord
<1>7. \A x \in CallPcs, K \in SUBSET Labels :
        [r EXCEPT !.pc = x, !.stale = K] \in CallRecord
  BY DEF CallRecord
<1>8. \A x \in CallPcs, l \in Labels \cup {NoLabel} :
        r.op = "reap" => [r EXCEPT !.pc = x, !.label = l] \in CallRecord
  BY DEF CallRecord
<1> QED
  BY <1>1, <1>2, <1>3, <1>4, <1>5, <1>6, <1>7, <1>8

LEMMA NewCallType ==
  ASSUME NEW l \in Labels \cup {NoLabel}, NEW m \in Members \cup {NoMember},
         NEW s \in Sessions, NEW pc \in CallPcs,
         NEW op \in CallOps,
         op \notin {"reap", "requeue"} => l \in Labels /\ m \in Members
  PROVE  /\ NewCall(op, pc, l, m, s) \in CallRecord
         /\ \A k \in Labels \cup {NoLabel} :
              [NewCall(op, pc, l, m, s) EXCEPT !.prev = k] \in CallRecord
BY Bounds DEF NewCall, CallRecord

-------------------------------------------------------------------------------
(* What a step does *)

\* Records of a session that differ in neither owner nor grade, and either not
\* in the label and not by an end, or by nothing else than what is named.
SameBinding(q, r) == q.owner = r.owner /\ q.grade = r.grade /\ q.label = r.label

InFlight(c, s, ops, pcs) ==
  call[c] # Idle /\ call[c].sid = s /\ call[c].op \in ops /\ call[c].pc \in pcs

MetaStep(s) ==
  \/ meta'[s] = meta[s]
  \/ meta'[s] = NoMeta
  \/ /\ meta'[s] # NoMeta /\ SameBinding(meta'[s], Hash(s))
     /\ meta'[s].status \in {Hash(s).status, "paused"}
  \/ \E c \in Calls : /\ InFlight(c, s, {"start"}, {"write"})
                      /\ call'[c].pc = "point"
                      /\ meta'[s] # NoMeta /\ meta'[s].status = "active"
                      /\ meta'[s].grade = Hash(s).grade
                      /\ meta'[s].label = call[c].label
  \/ \E c \in Calls : /\ InFlight(c, s, {"resume"}, {"write"})
                      /\ meta'[s] # NoMeta /\ meta'[s].status = "active"
                      /\ meta'[s].grade = Hash(s).grade
                      /\ meta'[s].owner = Hash(s).owner
                      /\ meta'[s].label = call[c].label
  \/ \E c \in Calls : /\ InFlight(c, s, {"complete"}, {"commit"})
                      /\ meta[s] # NoMeta /\ meta'[s] # NoMeta
                      /\ meta'[s].status = "completed"
                      /\ OwnedBy(s, call[c].member)
                      /\ meta'[s].owner = meta[s].owner /\ meta'[s].label = meta[s].label
                      /\ meta[s].grade # "none" => meta'[s].grade = meta[s].grade
  \/ \E c \in Calls : /\ InFlight(c, s, {"abandon", "reap"}, {"terminate"})
                      /\ meta'[s] # NoMeta /\ SameBinding(meta'[s], Hash(s))
                      /\ meta'[s].status = "abandoned"

\* Call d in this step: over or untouched or one step further; or begun, by a
\* check of the owner where there is one, with an id of its own if it starts.
CallStep(d) ==
  \/ call'[d] = Idle
  \/ /\ call[d] # Idle /\ call'[d] # Idle
     /\ call'[d].op = call[d].op /\ call'[d].sid = call[d].sid
     /\ call'[d].member = call[d].member
     /\ call'[d].pc \in Prewrite => call[d].pc \in Prewrite
  \/ /\ call[d] = Idle /\ call'[d] # Idle
     /\ call'[d].op \notin {"start", "resume", "abandon"}
  \/ /\ call[d] = Idle /\ call'[d] # Idle /\ call'[d].op \in {"resume", "abandon"}
     /\ OwnedBy(call'[d].sid, call'[d].member)
  \/ /\ call[d] = Idle /\ call'[d] # Idle /\ call'[d].op = "start"
     /\ call'[d].sid \in fresh /\ fresh' = fresh \ {call'[d].sid}
     /\ \A e \in Calls \ {d} : call'[e] = call[e]

Described ==
  /\ SessionTypeOK'
  /\ \A s \in Sessions : MetaStep(s)
  /\ \A d \in Calls : CallStep(d)
  /\ fresh' \subseteq fresh
\* A step of call c, which begins, goes on or ends; the other calls rest.
LEMMA CallMove ==
  ASSUME CallsOK, NEW c \in Calls, NEW r \in CallRecord \cup {Idle},
         call' = [call EXCEPT ![c] = r],
         \/ r = Idle
         \/ /\ call[c] # Idle /\ r.op = call[c].op /\ r.sid = call[c].sid
            /\ r.member = call[c].member
            /\ r.pc \in Prewrite => call[c].pc \in Prewrite
         \/ /\ call[c] = Idle
            /\ \/ r.op \notin {"start", "resume", "abandon"}
               \/ r.op \in {"resume", "abandon"} /\ OwnedBy(r.sid, r.member)
               \/ r.op = "start" /\ r.sid \in fresh /\ fresh' = fresh \ {r.sid}
  PROVE  CallsOK' /\ call'[c] = r /\ \A d \in Calls : CallStep(d)
<1>1. CallsOK' /\ call'[c] = r /\ \A d \in Calls \ {c} : call'[d] = call[d]
  BY DEF CallsOK
<1>2. CallStep(c)
  <2>1. CASE r = Idle
    BY <1>1, <2>1 DEF CallStep
  <2>2. CASE r # Idle
    BY <1>1, <2>2 DEF CallStep
  <2> QED
    BY <2>1, <2>2
<1>3. ASSUME NEW d \in Calls \ {c} PROVE CallStep(d)
  BY <1>1 DEF CallStep
<1> QED
  BY <1>1, <1>2, <1>3

LEMMA CallsRest ==
  ASSUME CallsOK, call' = call
  PROVE  CallsOK' /\ \A d \in Calls : CallStep(d)
BY DEF CallsOK, CallStep

\* A step on one session; the records of the others rest.
LEMMA MetaMove ==
  ASSUME MetaOK, NEW s \in Sessions, NEW r \in Metas \cup {NoMeta},
         meta' = [meta EXCEPT ![s] = r]
  PROVE  /\ MetaOK' /\ meta'[s] = r
         /\ \A t \in Sessions \ {s} : MetaStep(t)
BY DEF MetaOK, MetaStep

LEMMA MetaRests ==
  ASSUME MetaOK, meta' = meta
  PROVE  MetaOK' /\ \A s \in Sessions : MetaStep(s)
BY DEF MetaOK, MetaStep

LEMMA CallType ==
  ASSUME CallsOK, NEW c \in Calls, call[c] # Idle
  PROVE  call[c] \in CallRecord
BY DEF CallsOK

LEMMA CallGoes ==
  ASSUME CallsOK, NEW c \in Calls, call[c] # Idle, NEW x \in CallPcs, Goto(c, x),
         x \in Prewrite => call[c].pc \in Prewrite
  PROVE  /\ CallsOK' /\ \A d \in Calls : CallStep(d)
         /\ call'[c] = [call[c] EXCEPT !.pc = x]
<1> DEFINE r == [call[c] EXCEPT !.pc = x]
<1>1. call[c] \in CallRecord
  BY CallType
<1>2. r \in CallRecord
  BY <1>1, CallUpdates
<1>3. r.op = call[c].op /\ r.sid = call[c].sid /\ r.member = call[c].member /\ r.pc = x
  BY <1>1 DEF CallRecord
<1>4. call' = [call EXCEPT ![c] = r]
  BY DEF Goto
<1> HIDE DEF r
<1>5. CallsOK' /\ call'[c] = r /\ \A d \in Calls : CallStep(d)
  BY <1>2, <1>3, <1>4, CallMove
<1> QED
  BY <1>5 DEF r

LEMMA CallReturns ==
  ASSUME CallsOK, NEW c \in Calls, Return(c)
  PROVE  CallsOK' /\ call'[c] = Idle /\ \A d \in Calls : CallStep(d)
<1>1. call' = [call EXCEPT ![c] = Idle]
  BY DEF Return
<1> QED
  BY <1>1, CallMove

-------------------------------------------------------------------------------
(* The steps of the sessions' calls *)

LEMMA BeginSteps ==
  ASSUME SessionTypeOK, NEW c \in Calls, NEW l \in Labels, NEW m \in Members,
         NEW s \in Sessions,
         StartBegin(c, l, m, s) \/ \E t \in BOOLEAN : ResumeBegin(c, l, m, s, t)
  PROVE  Described
<1> USE TypeParts DEF Begin, CallPcs, CallOps
<1>1. CASE StartBegin(c, l, m, s)
  <2> DEFINE r == NewCall("start", "guard", l, m, s)
  <2>1. r \in CallRecord
    BY NewCallType
  <2>2. r.op = "start" /\ r.sid = s
    BY DEF NewCall
  <2> HIDE DEF r
  <2>3. /\ call' = [call EXCEPT ![c] = r] /\ call[c] = Idle
        /\ fresh' = fresh \ {s} /\ s \in fresh
    BY <1>1 DEF StartBegin, r
  <2>4. CallsOK' /\ \A d \in Calls : CallStep(d)
    BY <2>1, <2>2, <2>3, CallMove
  <2>5. UNCHANGED <<meta, ptr, index, idle, queue>>
    BY <1>1 DEF StartBegin
  <2> QED
    BY <2>3, <2>4, <2>5, MetaRests DEF Described, PtrOK, IndexOK, QueueOK, FreshOK
<1>2. ASSUME NEW t \in BOOLEAN, ResumeBegin(c, l, m, s, t) PROVE Described
  <2> DEFINE k == IF meta[s].label = l THEN NoLabel ELSE meta[s].label
             r == [NewCall("resume", "guard", l, m, s) EXCEPT !.prev = k]
  <2>1. meta[s] \in Metas /\ OwnedBy(s, m)
    BY <1>2 DEF ResumeBegin, Resumable, OwnedBy, MetaOK
  <2>2. k \in Labels \cup {NoLabel}
    BY <2>1 DEF Metas
  <2> HIDE DEF k
  <2>3. r \in CallRecord
    BY <2>2, NewCallType
  <2>4. r.op = "resume" /\ r.sid = s /\ r.member = m
    BY DEF NewCall
  <2> HIDE DEF r
  <2>5. call' = [call EXCEPT ![c] = r] /\ call[c] = Idle
    BY <1>2 DEF ResumeBegin, r, k
  <2>6. CallsOK' /\ \A d \in Calls : CallStep(d)
    BY <2>1, <2>3, <2>4, <2>5, CallMove
  <2>7. UNCHANGED <<meta, ptr, index, idle, queue, fresh>>
    BY <1>2 DEF ResumeBegin
  <2> QED
    BY <2>6, <2>7, MetaRests DEF Described, PtrOK, IndexOK, QueueOK, FreshOK
<1> QED
  BY <1>1, <1>2

LEMMA OtherBeginSteps ==
  ASSUME SessionTypeOK, NEW c \in Calls, NEW l \in Labels, NEW m \in Members,
         NEW named \in Sessions \cup {NoSession},
         \/ UpdateBegin(c, l, m, named)
         \/ CompleteBegin(c, l, m, named)
         \/ AbandonBegin(c, l, m, named)
  PROVE  Described
<1> USE TypeParts DEF Begin, CallPcs, CallOps
<1> DEFINE s == Resolve(named, l)
<1>1. s \in Sessions \cup {NoSession}
  BY DEF Resolve, PtrOK
<1>2. /\ UNCHANGED <<meta, ptr, index, idle, queue, fresh>> /\ s # NoSession
      /\ call[c] = Idle
  BY DEF UpdateBegin, CompleteBegin, AbandonBegin
<1>3. \/ call' = [call EXCEPT ![c] = NewCall("update", "store", l, m, s)]
      \/ call' = [call EXCEPT ![c] = NewCall("complete", "commit", l, m, s)]
      \/ call' = [call EXCEPT ![c] = NewCall("abandon", "read", l, m, s)] /\ OwnedBy(s, m)
  BY DEF UpdateBegin, CompleteBegin, AbandonBegin
<1> HIDE DEF s
<1>4. PICK r \in CallRecord :
         /\ call' = [call EXCEPT ![c] = r] /\ r.sid = s /\ r.member = m
         /\ \/ r.op \in {"update", "complete"}
            \/ r.op = "abandon" /\ OwnedBy(s, m)
  <2>1. /\ NewCall("update", "store", l, m, s) \in CallRecord
        /\ NewCall("complete", "commit", l, m, s) \in CallRecord
        /\ NewCall("abandon", "read", l, m, s) \in CallRecord
    BY <1>1, <1>2, NewCallType
  <2> QED
    BY <1>3, <2>1 DEF NewCall
<1>5. CallsOK' /\ \A d \in Calls : CallStep(d)
  <2>1. \/ r.op \notin {"start", "resume", "abandon"}
        \/ r.op \in {"resume", "abandon"} /\ OwnedBy(r.sid, r.member)
    BY <1>4
  <2> QED
    BY <1>2, <1>4, <2>1, CallMove
<1> QED
  BY <1>2, <1>5, MetaRests DEF Described, PtrOK, IndexOK, QueueOK, FreshOK
LEMMA GuardSteps ==
  ASSUME SessionTypeOK, NEW c \in Calls, Guard(c)
  PROVE  Described
<1> USE TypeParts DEF CallPcs
<1>1. UNCHANGED <<meta, ptr, index, idle, queue, fresh>>
  BY DEF Guard
<1>2. call[c] # Idle /\ call[c].op \in {"start", "resume"} /\ call[c].pc = "guard"
  BY DEF Guard, At
<1>3. call[c] \in CallRecord
  BY <1>2, CallType
<1>4. CallsOK' /\ \A d \in Calls : CallStep(d)
  <2>1. CASE Refused(c)
    BY <2>1, CallReturns DEF Guard
  <2>2. CASE ~Refused(c)
    <3> DEFINE x == ptr[call[c].label]
               r == [call[c] EXCEPT !.pc = "swap", !.seen = x]
    <3>1. x \in Sessions \cup {NoSession}
      BY <1>2, <1>3 DEF PtrOK, CallRecord
    <3>2. r \in CallRecord
      BY <1>3, <3>1, CallUpdates
    <3>3. r.op = call[c].op /\ r.sid = call[c].sid /\ r.member = call[c].member
      BY <1>3 DEF CallRecord
    <3>4. call' = [call EXCEPT ![c] = r]
      BY <2>2 DEF Guard
    <3> HIDE DEF r
    <3> QED
      BY <1>2, <3>2, <3>3, <3>4, CallMove DEF Prewrite
  <2> QED
    BY <2>1, <2>2
<1> QED
  BY <1>1, <1>4, MetaRests DEF Described, PtrOK, IndexOK, QueueOK, FreshOK
LEMMA SwapSteps ==
  ASSUME SessionTypeOK, NEW c \in Calls, Swap(c)
  PROVE  Described
<1> USE TypeParts DEF CallPcs
<1> DEFINE l == call[c].label  s == call[c].sid  out == Displaced(l, s)
<1>1. /\ call[c] # Idle /\ call[c].op \in {"start", "resume"} /\ call[c].pc = "swap"
      /\ UNCHANGED <<queue, fresh>>
  BY DEF Swap, At
<1>2. call[c] \in CallRecord
  BY <1>1, CallType
<1>3. /\ l \in Labels /\ s \in Sessions /\ call[c].member \in Members
      /\ call[c].tries \in Nat
  BY <1>1, <1>2 DEF CallRecord
<1>4. CASE ptr[l] # call[c].seen
  <2>1. UNCHANGED <<meta, ptr, index, idle>>
    BY <1>4 DEF Swap
  <2>2. CallsOK' /\ \A d \in Calls : CallStep(d)
    <3>1. CASE call[c].tries <= 1
      BY <1>4, <3>1, CallReturns DEF Swap
    <3>2. CASE ~(call[c].tries <= 1)
      <4> DEFINE n == call[c].tries - 1
                 r == [call[c] EXCEPT !.pc = "guard", !.tries = n]
      <4>1. n \in Nat
        BY <1>3, <3>2
      <4> HIDE DEF n
      <4>2. r \in CallRecord
        BY <1>2, <4>1, CallUpdates
      <4>3. r.op = call[c].op /\ r.sid = call[c].sid /\ r.member = call[c].member
        BY <1>2 DEF CallRecord
      <4>4. call' = [call EXCEPT ![c] = r]
        BY <1>4, <3>2 DEF Swap, n
      <4> HIDE DEF r
      <4> QED
        BY <1>1, <4>2, <4>3, <4>4, CallMove DEF Prewrite
    <3> QED
      BY <3>1, <3>2
  <2> QED
    BY <1>1, <2>1, <2>2, MetaRests DEF Described, PtrOK, IndexOK, QueueOK, FreshOK
<1>5. CASE ptr[l] = call[c].seen
  <2>1. /\ meta' = [r \in Sessions |-> IF r \in out THEN [Hash(r) EXCEPT !.status = "paused"]
                                       ELSE meta[r]]
        /\ Touch(out)
        /\ ptr' = [k \in Labels |-> IF k = l THEN s
                                    ELSE IF k = call[c].prev /\ ptr[k] = s THEN NoSession
                                    ELSE ptr[k]]
        /\ call' = [call EXCEPT ![c] = NewCall(call[c].op, "write", l, call[c].member, s)]
    BY <1>5 DEF Swap
  <2>2. out \subseteq Sessions
    BY <1>3 DEF Displaced, PtrOK
  <2> HIDE DEF out
  <2>3. PtrOK'
    BY <1>3, <2>1 DEF PtrOK
  <2>4. IndexOK'
    BY <2>1, <2>2 DEF IndexOK, Touch
  <2>5. MetaOK' /\ \A t \in Sessions : MetaStep(t)
    <3>1. ASSUME NEW t \in Sessions
          PROVE  meta'[t] \in Metas \cup {NoMeta} /\ MetaStep(t)
      <4> DEFINE r == [Hash(t) EXCEPT !.status = "paused"]
      <4>1. CASE t \notin out
        BY <2>1, <4>1 DEF MetaOK, MetaStep
      <4>2. CASE t \in out
        <5>1. Hash(t) \in Metas
          BY HashType
        <5>2. r \in Metas
          BY <5>1, MetaUpdates DEF Statuses
        <5>3. r.status = "paused" /\ SameBinding(r, Hash(t))
          BY <5>1 DEF Metas, SameBinding
        <5>4. meta'[t] = r
          BY <2>1, <4>2
        <5>5. r # NoMeta
          BY <5>2, Sentinels
        <5> HIDE DEF r
        <5> QED
          BY <5>2, <5>3, <5>4, <5>5 DEF MetaStep
      <4> QED
        BY <4>1, <4>2
    <3>2. meta' = [t \in Sessions |-> meta'[t]]
      BY <2>1
    <3> QED
      BY <3>1, <3>2 DEF MetaOK
  <2>6. CallsOK' /\ \A d \in Calls : CallStep(d)
    <3> DEFINE r == NewCall(call[c].op, "write", l, call[c].member, s)
    <3>1. r \in CallRecord
      BY <1>1, <1>3, NewCallType DEF CallOps
    <3>2. r.op = call[c].op /\ r.sid = call[c].sid /\ r.member = call[c].member
      BY DEF NewCall
    <3>3. call' = [call EXCEPT ![c] = r]
      BY <2>1
    <3> HIDE DEF r
    <3> QED
      BY <1>1, <3>1, <3>2, <3>3, CallMove DEF Prewrite
  <2> QED
    BY <1>1, <2>3, <2>4, <2>5, <2>6 DEF Described, QueueOK, FreshOK
<1> QED
  BY <1>4, <1>5

LEMMA WriteSteps ==
  ASSUME SessionTypeOK, NEW c \in Calls, Write(c)
  PROVE  Described
<1> USE TypeParts DEF CallPcs
<1> DEFINE s == call[c].sid
           r == IF call[c].op = "start"
                THEN [Hash(s) EXCEPT !.status = "active", !.label = call[c].label,
                                     !.owner = call[c].member, !.distillation = "none"]
                ELSE [Hash(s) EXCEPT !.status = "active", !.label = call[c].label]
<1>1. /\ call[c] # Idle /\ call[c].op \in {"start", "resume"} /\ call[c].pc = "write"
      /\ UNCHANGED <<ptr, index, idle, queue, fresh>> /\ Goto(c, "point")
      /\ meta' = [meta EXCEPT ![s] = r]
  BY DEF Write, At
<1>2. call[c] \in CallRecord
  BY <1>1, CallType
<1>3. s \in Sessions /\ call[c].label \in Labels /\ call[c].member \in Members
  BY <1>1, <1>2 DEF CallRecord
<1>4. Hash(s) \in Metas
  BY <1>3, HashType
<1>5. /\ CallsOK' /\ \A d \in Calls : CallStep(d)
      /\ call'[c] = [call[c] EXCEPT !.pc = "point"]
  BY <1>1, CallGoes DEF Prewrite
<1>6. r \in Metas
  BY <1>3, <1>4, MetaUpdates
<1>7. /\ r.status = "active" /\ r.grade = Hash(s).grade /\ r.label = call[c].label
      /\ call[c].op = "resume" => r.owner = Hash(s).owner
  BY <1>4 DEF Metas
<1>8. r # NoMeta
  BY <1>6, Sentinels
<1> HIDE DEF r
<1>9. MetaOK' /\ meta'[s] = r /\ \A t \in Sessions \ {s} : MetaStep(t)
  BY <1>1, <1>3, <1>6, MetaMove
<1>10. call'[c].pc = "point"
  BY <1>2, <1>5 DEF CallRecord
<1>11. MetaStep(s)
  BY <1>1, <1>7, <1>8, <1>9, <1>10 DEF MetaStep, InFlight
<1> QED
  BY <1>1, <1>5, <1>9, <1>11 DEF Described, PtrOK, IndexOK, QueueOK, FreshOK
LEMMA PointSteps ==
  ASSUME SessionTypeOK, NEW c \in Calls, Point(c) \/ Persist(c) \/ Index(c)
  PROVE  Described
<1> USE TypeParts DEF CallPcs
<1> DEFINE s == call[c].sid
<1>1. /\ call[c] # Idle /\ call[c].op \in {"start", "resume"} /\ UNCHANGED <<queue, fresh>>
      /\ call[c].pc \in {"point", "persist", "index"}
  BY DEF Point, Persist, Index, At
<1>2. call[c] \in CallRecord
  BY <1>1, CallType
<1>3. s \in Sessions
  BY <1>2 DEF CallRecord
<1>4. CASE Point(c)
  <2>1. CallsOK' /\ \A d \in Calls : CallStep(d)
    <3>1. CASE call[c].op = "start"
      BY <1>1, <1>4, <3>1, CallGoes DEF Point, Prewrite
    <3>2. CASE call[c].op # "start"
      BY <1>1, <1>4, <3>2, CallGoes DEF Point, Prewrite
    <3> QED
      BY <3>1, <3>2
  <2>2. PtrOK' /\ UNCHANGED <<meta, index, idle>>
    BY <1>3, <1>4 DEF Point, PtrOK
  <2> QED
    BY <1>1, <2>1, <2>2, MetaRests DEF Described, IndexOK, QueueOK, FreshOK
<1>5. CASE Persist(c)
  <2> DEFINE r == IF meta[s] = NoMeta THEN NoMeta ELSE [meta[s] EXCEPT !.ttl = "no"]
  <2>1. meta' = [meta EXCEPT ![s] = r] /\ UNCHANGED <<ptr, index, idle>> /\ Return(c)
    BY <1>3, <1>5 DEF Persist, MetaOK
  <2>2. /\ r \in Metas \cup {NoMeta}
        /\ r # NoMeta => SameBinding(r, Hash(s)) /\ r.status = Hash(s).status
    <3>1. CASE meta[s] = NoMeta
      BY <3>1
    <3>2. CASE meta[s] # NoMeta
      <4>1. meta[s] \in Metas /\ Hash(s) = meta[s]
        BY <1>3, <3>2 DEF MetaOK, Hash
      <4>2. [meta[s] EXCEPT !.ttl = "no"] \in Metas
        BY <4>1, MetaUpdates
      <4> QED
        BY <4>1, <4>2, <3>2 DEF SameBinding, Metas
    <3> QED
      BY <3>1, <3>2
  <2> HIDE DEF r
  <2>3. MetaOK' /\ meta'[s] = r /\ \A t \in Sessions \ {s} : MetaStep(t)
    BY <1>3, <2>1, <2>2, MetaMove
  <2>4. MetaStep(s)
    BY <2>2, <2>3 DEF MetaStep
  <2> QED
    BY <1>1, <2>1, <2>3, <2>4, CallReturns DEF Described, PtrOK, IndexOK, QueueOK, FreshOK
<1>6. CASE Index(c)
  <2>1. CallsOK' /\ \A d \in Calls : CallStep(d)
    BY <1>1, <1>6, CallGoes DEF Index, Prewrite
  <2>2. IndexOK' /\ UNCHANGED <<meta, ptr>>
    BY <1>3, <1>6 DEF Index, Touch, IndexOK
  <2> QED
    BY <1>1, <2>1, <2>2, MetaRests DEF Described, PtrOK, QueueOK, FreshOK
<1> QED
  BY <1>4, <1>5, <1>6

LEMMA EnforceSteps ==
  ASSUME SessionTypeOK, NEW c \in Calls, Enforce(c) \/ EnforceEnd(c)
  PROVE  Described
<1> USE TypeParts DEF CallPcs
<1>1. /\ call[c] # Idle /\ UNCHANGED <<meta, ptr, index, idle, queue, fresh>>
  BY DEF Enforce, EnforceEnd, At
<1>2. call[c] \in CallRecord
  BY <1>1, CallType
<1>3. CallsOK' /\ \A d \in Calls : CallStep(d)
  <2>1. CASE Return(c)
    BY <2>1, CallReturns
  <2>2. CASE ~Return(c)
    <3>1. PICK V \in SUBSET Sessions :
            call' = [call EXCEPT ![c].pc = "enforce", ![c].victims = V]
      BY <2>2 DEF Enforce, EnforceEnd, IndexOK
    <3> DEFINE r == [call[c] EXCEPT !.pc = "enforce", !.victims = V]
    <3>2. r \in CallRecord
      BY <1>2, CallUpdates
    <3>3. /\ r.op = call[c].op /\ r.sid = call[c].sid /\ r.member = call[c].member
          /\ r.pc = "enforce"
      BY <1>2 DEF CallRecord
    <3>4. call' = [call EXCEPT ![c] = r]
      BY <3>1
    <3> HIDE DEF r
    <3> QED
      BY <1>1, <3>2, <3>3, <3>4, CallMove DEF Prewrite
  <2> QED
    BY <2>1, <2>2
<1> QED
  BY <1>1, <1>3, MetaRests DEF Described, PtrOK, IndexOK, QueueOK, FreshOK

LEMMA EnforceLookSteps ==
  ASSUME SessionTypeOK, NEW c \in Calls, NEW s \in Sessions, EnforceLook(c, s)
  PROVE  Described
<1> USE TypeParts DEF CallPcs
<1> DEFINE V == call[c].victims \ {s}
<1>1. /\ call[c] # Idle /\ call[c].pc = "enforce" /\ UNCHANGED <<meta, ptr, queue, fresh>>
  BY DEF EnforceLook, At
<1>2. call[c] \in CallRecord
  BY <1>1, CallType
<1>3. V \in SUBSET Sessions
  BY <1>2 DEF CallRecord
<1>4. IndexOK'
  BY DEF EnforceLook, IndexOK
<1>5. \/ call' = [call EXCEPT ![c].victims = V]
      \/ call' = [call EXCEPT ![c].victims = V, ![c].pc = "evict", ![c].seen = s]
  BY DEF EnforceLook
<1> HIDE DEF V
<1>6. PICK r \in CallRecord :
        /\ r.op = call[c].op /\ r.sid = call[c].sid /\ r.member = call[c].member
        /\ r.pc \in {"enforce", "evict"} /\ call' = [call EXCEPT ![c] = r]
  <2> DEFINE q == [call[c] EXCEPT !.victims = V]
             r == [call[c] EXCEPT !.victims = V, !.pc = "evict", !.seen = s]
  <2>1. q \in CallRecord /\ r \in CallRecord
    BY <1>2, <1>3, CallUpdates
  <2>2. /\ q.op = call[c].op /\ q.sid = call[c].sid /\ q.member = call[c].member
        /\ r.op = call[c].op /\ r.sid = call[c].sid /\ r.member = call[c].member
        /\ q.pc = "enforce" /\ r.pc = "evict"
    BY <1>1, <1>2 DEF CallRecord
  <2>3. call' = [call EXCEPT ![c] = q] \/ call' = [call EXCEPT ![c] = r]
    BY <1>5
  <2> HIDE DEF q, r
  <2> QED
    BY <2>1, <2>2, <2>3
<1>7. CallsOK' /\ \A d \in Calls : CallStep(d)
  BY <1>1, <1>6, CallMove DEF Prewrite
<1> QED
  BY <1>1, <1>4, <1>7, MetaRests DEF Described, PtrOK, QueueOK, FreshOK

LEMMA EvictSteps ==
  ASSUME SessionTypeOK, NEW c \in Calls, Evict(c)
  PROVE  Described
<1> USE TypeParts DEF CallPcs
<1>1. /\ call[c] # Idle /\ UNCHANGED <<ptr, queue, fresh>> /\ Goto(c, "enforce")
      /\ meta' = [meta EXCEPT ![call[c].seen] = NoMeta]
  BY DEF Evict, At
<1>2. CallsOK' /\ \A d \in Calls : CallStep(d)
  BY <1>1, CallGoes DEF Prewrite
<1>3. IndexOK'
  BY DEF Evict, IndexOK
<1>4. MetaOK' /\ \A s \in Sessions : MetaStep(s)
  BY <1>1 DEF MetaOK, MetaStep
<1> QED
  BY <1>1, <1>2, <1>3, <1>4 DEF Described, PtrOK, QueueOK, FreshOK
LEMMA UpdateStoreSteps ==
  ASSUME SessionTypeOK, NEW c \in Calls, UpdateStore(c)
  PROVE  Described
<1> USE TypeParts DEF CallPcs
<1> DEFINE s == call[c].sid
           r == [Hash(s) EXCEPT !.entries = IF @ < MaxEntries THEN @ + 1 ELSE @]
<1>1. /\ call[c] # Idle /\ UNCHANGED <<ptr, queue, fresh>> /\ Return(c) /\ Touch({s})
      /\ meta' = [meta EXCEPT ![s] = r]
  BY DEF UpdateStore, At
<1>2. s \in Sessions
  BY <1>1, CallType DEF CallRecord
<1>3. Hash(s) \in Metas
  BY <1>2, HashType
<1>4. r \in Metas
  BY <1>3, MetaUpdates
<1>5. r # NoMeta /\ SameBinding(r, Hash(s)) /\ r.status = Hash(s).status
  BY <1>3, <1>4, Sentinels DEF Metas, SameBinding
<1> HIDE DEF r
<1>6. MetaOK' /\ meta'[s] = r /\ \A t \in Sessions \ {s} : MetaStep(t)
  BY <1>1, <1>2, <1>4, MetaMove
<1>7. MetaStep(s)
  BY <1>5, <1>6 DEF MetaStep
<1>8. IndexOK'
  BY <1>1, <1>2 DEF IndexOK, Touch
<1> QED
  BY <1>1, <1>6, <1>7, <1>8, CallReturns DEF Described, PtrOK, QueueOK, FreshOK

LEMMA CommitSteps ==
  ASSUME SessionTypeOK, NEW c \in Calls, NEW g \in Grades \cup {"none"}, Commit(c, g)
  PROVE  Described
<1> USE TypeParts DEF CallPcs
<1> DEFINE s == call[c].sid
           k == IF GradeKept(s) THEN meta[s].grade ELSE g
           r == [meta[s] EXCEPT !.status = "completed", !.distillation = "queued",
                                !.grade = k]
<1>1. /\ call[c] # Idle /\ call[c].op = "complete" /\ call[c].pc = "commit"
      /\ Return(c) /\ UNCHANGED <<index, idle, fresh>>
  BY DEF Commit, At
<1>2. s \in Sessions /\ call[c].label \in Labels
  BY <1>1, CallType DEF CallRecord
<1>3. CASE ~MayComplete(c)
  BY <1>1, <1>3, CallReturns, MetaRests
  DEF Commit, Described, PtrOK, IndexOK, QueueOK, FreshOK
<1>4. CASE MayComplete(c)
  <2>1. /\ meta[s] # NoMeta /\ meta[s] \in Metas /\ OwnedBy(s, call[c].member)
    BY <1>2, <1>4 DEF MayComplete, OwnedBy, MetaOK
  <2>2. /\ meta' = [meta EXCEPT ![s] = r]
        /\ ptr' = [ptr EXCEPT ![call[c].label] = IF @ = s THEN NoSession ELSE @]
        /\ queue' = Append(queue, [sid |-> s, attempts |-> 0])
    BY <1>2, <1>4 DEF Commit, Enqueue, MetaOK
  <2>3. k \in Grades \cup {"none"} /\ (meta[s].grade # "none" => k = meta[s].grade)
    BY <2>1 DEF GradeKept, Metas
  <2> HIDE DEF k
  <2>4. r \in Metas
    BY <2>1, <2>3, MetaUpdates
  <2>5. /\ r # NoMeta /\ r.owner = meta[s].owner /\ r.label = meta[s].label
        /\ r.grade = k /\ r.status = "completed"
    BY <2>1, <2>4, Sentinels DEF Metas
  <2> HIDE DEF r
  <2>6. MetaOK' /\ meta'[s] = r /\ \A t \in Sessions \ {s} : MetaStep(t)
    BY <1>2, <2>2, <2>4, MetaMove
  <2>7. MetaStep(s)
    BY <1>1, <2>1, <2>3, <2>5, <2>6 DEF MetaStep, InFlight
  <2>8. PtrOK' /\ QueueOK'
    BY <1>2, <2>2 DEF PtrOK, QueueOK
  <2> QED
    BY <1>1, <2>6, <2>7, <2>8, CallReturns DEF Described, IndexOK, FreshOK
<1> QED
  BY <1>3, <1>4

LEMMA AbandonSteps ==
  ASSUME SessionTypeOK, NEW c \in Calls, GiveUp(c) \/ AbandonRead(c)
  PROVE  Described
<1> USE TypeParts DEF CallPcs
<1>1. call[c] # Idle /\ UNCHANGED <<meta, ptr, index, idle, queue, fresh>>
  BY DEF GiveUp, AbandonRead, At
<1>2. CallsOK' /\ \A d \in Calls : CallStep(d)
  <2>1. CASE Return(c)
    BY <2>1, CallReturns
  <2>2. CASE ~Return(c)
    <3> DEFINE K == {k \in {call[c].label} \cap Labels : ptr[k] = call[c].sid}
               r == [call[c] EXCEPT !.pc = "terminate", !.stale = K]
    <3>1. call' = [call EXCEPT ![c] = r]
      BY <2>2 DEF GiveUp, AbandonRead
    <3>2. call[c] \in CallRecord /\ K \in SUBSET Labels
      BY <1>1, CallType
    <3> HIDE DEF K
    <3>3. r \in CallRecord
      BY <3>2, CallUpdates
    <3>4. /\ r.op = call[c].op /\ r.sid = call[c].sid /\ r.member = call[c].member
          /\ r.pc = "terminate"
      BY <3>2 DEF CallRecord
    <3> HIDE DEF r
    <3> QED
      BY <1>1, <3>1, <3>3, <3>4, CallMove DEF Prewrite
  <2> QED
    BY <2>1, <2>2
<1> QED
  BY <1>1, <1>2, MetaRests DEF Described, PtrOK, IndexOK, QueueOK, FreshOK

LEMMA TerminateSteps ==
  ASSUME SessionTypeOK, NEW c \in Calls, Terminate(c)
  PROVE  Described
<1> USE TypeParts DEF CallPcs
<1> DEFINE s == call[c].sid
           r == [Hash(s) EXCEPT !.status = "abandoned", !.ttl = "set"]
<1>1. /\ call[c] # Idle /\ call[c].op \in {"abandon", "reap"} /\ call[c].pc = "terminate"
      /\ Return(c) /\ UNCHANGED <<index, idle, queue, fresh>>
      /\ meta' = [meta EXCEPT ![s] = r]
      /\ ptr' = [k \in Labels |-> IF k \in call[c].stale THEN NoSession ELSE ptr[k]]
  BY DEF Terminate, At
<1>2. s \in Sessions
  BY <1>1, CallType DEF CallRecord
<1>3. Hash(s) \in Metas
  BY <1>2, HashType
<1>4. r \in Metas
  BY <1>3, MetaUpdates
<1>5. r # NoMeta /\ SameBinding(r, Hash(s)) /\ r.status = "abandoned"
  BY <1>3, <1>4, Sentinels DEF Metas, SameBinding
<1> HIDE DEF r
<1>6. MetaOK' /\ meta'[s] = r /\ \A t \in Sessions \ {s} : MetaStep(t)
  BY <1>1, <1>2, <1>4, MetaMove
<1>7. MetaStep(s)
  BY <1>1, <1>5, <1>6 DEF MetaStep, InFlight
<1>8. PtrOK'
  BY <1>1 DEF PtrOK
<1> QED
  BY <1>1, <1>6, <1>7, <1>8, CallReturns DEF Described, IndexOK, QueueOK, FreshOK

LEMMA ReapSteps ==
  ASSUME SessionTypeOK, NEW c \in Calls,
         (\E s \in Sessions : ReapBegin(c, s)) \/ ReapLook(c)
  PROVE  Described
<1> USE TypeParts DEF CallPcs
<1>1. ASSUME NEW s \in Sessions, ReapBegin(c, s) PROVE Described
  <2> DEFINE r == NewCall("reap", "look", NoLabel, NoMember, s)
  <2>1. /\ call' = [call EXCEPT ![c] = r] /\ call[c] = Idle
        /\ UNCHANGED <<meta, ptr, index, idle, queue, fresh>>
    BY <1>1 DEF ReapBegin, Begin
  <2>2. r \in CallRecord
    BY NewCallType DEF CallOps
  <2>3. r.op = "reap"
    BY DEF NewCall
  <2> HIDE DEF r
  <2>4. CallsOK' /\ \A d \in Calls : CallStep(d)
    BY <2>1, <2>2, <2>3, CallMove
  <2> QED
    BY <2>1, <2>4, MetaRests DEF Described, PtrOK, IndexOK, QueueOK, FreshOK
<1>2. CASE ReapLook(c)
  <2> DEFINE s == call[c].sid
             r == [call[c] EXCEPT !.pc = "read", !.label = meta[s].label]
  <2>1. /\ call[c] # Idle /\ call[c].op = "reap" /\ UNCHANGED <<meta, ptr, queue, fresh>>
    BY <1>2 DEF ReapLook, At
  <2>2. call[c] \in CallRecord /\ s \in Sessions
    BY <2>1, CallType DEF CallRecord
  <2>3. IndexOK'
    BY <1>2 DEF ReapLook, IndexOK
  <2>4. CallsOK' /\ \A d \in Calls : CallStep(d)
    <3>1. CASE Return(c)
      BY <3>1, CallReturns
    <3>2. CASE ~Return(c)
      <4>1. call' = [call EXCEPT ![c] = r] /\ meta[s] # NoMeta
        BY <1>2, <3>2 DEF ReapLook
      <4>2. meta[s].label \in Labels \cup {NoLabel}
        BY <2>2, <4>1 DEF MetaOK, Metas
      <4>3. r \in CallRecord
        BY <2>1, <2>2, <4>2, CallUpdates
      <4>4. /\ r.op = call[c].op /\ r.sid = call[c].sid /\ r.member = call[c].member
            /\ r.pc = "read"
        BY <2>2 DEF CallRecord
      <4> HIDE DEF r
      <4> QED
        BY <2>1, <4>1, <4>3, <4>4, CallMove DEF Prewrite
    <3> QED
      BY <3>1, <3>2
  <2> QED
    BY <2>1, <2>3, <2>4, MetaRests DEF Described, PtrOK, QueueOK, FreshOK
<1> QED
  BY <1>1, <1>2

LEMMA DaysSteps ==
  ASSUME SessionTypeOK, NEW week \in BOOLEAN, Days(week)
  PROVE  Described
<1> USE TypeParts
<1>1. UNCHANGED <<ptr, index, queue, call, fresh>> /\ idle' = index
  BY DEF Days
<1>2. MetaOK' /\ \A s \in Sessions : MetaStep(s)
  <2>1. CASE ~week
    BY <2>1, MetaRests DEF Days
  <2>2. CASE week
    <3> DEFINE F(s) == IF meta[s] # NoMeta /\ meta[s].ttl = "set"
                       THEN [meta[s] EXCEPT !.ttl = "due"] ELSE meta[s]
    <3>1. meta' = [s \in Sessions |-> F(s)]
      BY <2>2 DEF Days
    <3>2. ASSUME NEW s \in Sessions
          PROVE  /\ F(s) \in Metas \cup {NoMeta}
                 /\ \/ F(s) = meta[s]
                    \/ /\ F(s) # NoMeta /\ SameBinding(F(s), Hash(s))
                       /\ F(s).status = Hash(s).status
      <4>1. CASE meta[s] # NoMeta /\ meta[s].ttl = "set"
        <5>1. meta[s] \in Metas /\ Hash(s) = meta[s] /\ F(s) = [meta[s] EXCEPT !.ttl = "due"]
          BY <4>1 DEF MetaOK, Hash
        <5>2. [meta[s] EXCEPT !.ttl = "due"] \in Metas
          BY <5>1, MetaUpdates
        <5> HIDE DEF F
        <5> QED
          BY <5>1, <5>2, Sentinels DEF SameBinding, Metas
      <4>2. CASE ~(meta[s] # NoMeta /\ meta[s].ttl = "set")
        BY <4>2 DEF MetaOK
      <4> QED
        BY <4>1, <4>2
    <3> HIDE DEF F
    <3> QED
      BY <3>1, <3>2 DEF MetaOK, MetaStep
  <2> QED
    BY <2>1, <2>2
<1> QED
  BY <1>1, <1>2, CallsRest DEF Described, PtrOK, IndexOK, QueueOK, FreshOK

LEMMA ExpireSteps ==
  ASSUME SessionTypeOK, (\E s \in Sessions : Expire(s)) \/ SessionRestart
  PROVE  Described
<1> USE TypeParts
<1>1. ASSUME NEW s \in Sessions, Expire(s) PROVE Described
  <2>1. MetaOK' /\ \A t \in Sessions : MetaStep(t)
    BY <1>1 DEF Expire, MetaOK, MetaStep
  <2> QED
    BY <1>1, <2>1, CallsRest DEF Expire, Described, PtrOK, IndexOK, QueueOK, FreshOK
<1>2. CASE SessionRestart
  <2>1. CallsOK' /\ \A d \in Calls : CallStep(d)
    BY <1>2 DEF SessionRestart, CallsOK, CallStep
  <2> QED
    BY <1>2, <2>1, MetaRests DEF SessionRestart, Described, PtrOK, IndexOK, QueueOK, FreshOK
<1> QED
  BY <1>1, <1>2

\* What every step of the sessions does.
LEMMA WorkSteps ==
  ASSUME SessionTypeOK, Work
  PROVE  Described
<1>1. ASSUME Begins(Ops, Labels) PROVE Described
  BY <1>1, BeginSteps, OtherBeginSteps, ReapSteps DEF Begins
<1>2. ASSUME Continues PROVE Described
  BY <1>2, GuardSteps, SwapSteps, WriteSteps, PointSteps, EnforceSteps, EnforceLookSteps,
     EvictSteps, UpdateStoreSteps, CommitSteps, AbandonSteps, TerminateSteps, ReapSteps,
     ExpireSteps
  DEF Continues
<1> QED
  BY <1>1, <1>2 DEF Work

LEMMA SessionSteps ==
  ASSUME SessionTypeOK, [SessionNext]_sessionVars
  PROVE  Described
<1>1. CASE UNCHANGED sessionVars
  BY <1>1, MetaRests, CallsRest, TypeParts
  DEF sessionVars, Described, PtrOK, IndexOK, QueueOK, FreshOK
<1> QED
  BY <1>1, WorkSteps, DaysSteps, ExpireSteps DEF SessionNext, Outside

LEMMA SessionStarts ==
  ASSUME SessionInit
  PROVE  SessionTypeOK
<1>1. PICK old \in {{}} \cup {{s} : s \in Sessions}, st \in {"active", "paused"}, l \in Labels :
       /\ meta = [s \in Sessions |->
                   IF s \in old THEN [Blank EXCEPT !.status = st, !.label = l]
                   ELSE NoMeta]
       /\ ptr = [k \in Labels |-> IF st = "active" /\ k = l /\ old # {}
                                  THEN CHOOSE s \in old : TRUE ELSE NoSession]
       /\ index = old /\ fresh = Sessions \ old
  BY DEF SessionInit
<1>2. [Blank EXCEPT !.status = st, !.label = l] \in Metas
  <2>1. Blank \in Metas
    BY Bounds DEF Blank, Metas, Statuses, Terminal
  <2> QED
    BY <2>1 DEF Metas, Statuses
<1>3. old \subseteq Sessions /\ (old # {} => (CHOOSE s \in old : TRUE) \in Sessions)
  BY <1>1
<1>4. MetaOK
  BY <1>1, <1>2 DEF MetaOK
<1>5. PtrOK
  BY <1>1, <1>3 DEF PtrOK
<1>6. IndexOK /\ QueueOK /\ CallsOK /\ FreshOK
  BY <1>1, <1>3 DEF SessionInit, IndexOK, QueueOK, CallsOK, FreshOK
<1> QED
  BY <1>4, <1>5, <1>6, TypeParts

\* The types of keys and calls, whatever is called at once.
THEOREM SessionTypeCorrect == SessionSpec => []SessionTypeOK
<1>1. SessionTypeOK /\ [SessionNext]_sessionVars => SessionTypeOK'
  BY SessionSteps DEF Described
<1> QED
  BY SessionStarts, <1>1, PTL DEF SessionSpec
-------------------------------------------------------------------------------
(* The first grade *)

\* No step but a completion looks at a grade, and it keeps one that is there.
THEOREM FirstGradeStays == SessionSpec => FirstGradeWins
<1> DEFINE Kept == \A s \in Sessions :
      /\ meta[s] # NoMeta /\ meta[s].grade # "none" /\ meta'[s] # NoMeta
      => meta'[s].grade = meta[s].grade
<1>1. SessionTypeOK /\ [SessionNext]_sessionVars => [Kept]_sessionVars
  <2> SUFFICES ASSUME SessionTypeOK, [SessionNext]_sessionVars, NEW s \in Sessions,
                      meta[s] # NoMeta, meta[s].grade # "none", meta'[s] # NoMeta
               PROVE  meta'[s].grade = meta[s].grade
    OBVIOUS
  <2>1. MetaStep(s)
    BY SessionSteps DEF Described
  <2>2. Hash(s) = meta[s]
    BY DEF Hash
  <2> QED
    BY <2>1, <2>2 DEF MetaStep, SameBinding
<1> HIDE DEF Kept
<1>2. SessionSpec => [][Kept]_sessionVars
  BY <1>1, SessionTypeCorrect, PTL DEF SessionSpec
<1> QED
  BY <1>2 DEF Kept, FirstGradeWins

-------------------------------------------------------------------------------
(* Who ends a bound session *)

\* A start whose owner is still to be written.
Unborn(c) == call[c] # Idle /\ call[c].op = "start" /\ call[c].pc \in Prewrite

\* The start of s, if there was one, has written its owner or is gone.
Written(s) == s \notin fresh /\ \A c \in Calls : Unborn(c) => call[c].sid # s

Bound(s) == meta[s] # NoMeta /\ meta[s].owner # NoMember

\* An id is the unborn session of one start, and of nobody else.
BornInv ==
  /\ \A s \in Sessions : Bound(s) => Written(s)
  /\ \A c \in Calls : Unborn(c) => call[c].sid \notin fresh
  /\ \A c, d \in Calls : Unborn(c) /\ Unborn(d) /\ call[c].sid = call[d].sid => c = d

\* What a resume or an abandonment has checked stays so: of the sessions it may
\* not end, none is or will be bound to another member.
CheckInv ==
  \A c \in Calls :
    /\ call[c] # Idle
    /\ call[c].op \in {"resume", "abandon"}
    /\ call[c].member # DeploymentOwner
    => /\ Written(call[c].sid)
       /\ Bound(call[c].sid) => meta[call[c].sid].owner = call[c].member

BindingInv == SessionTypeOK /\ BornInv /\ CheckInv

LEMMA BindingStarts == SessionInit => BindingInv
<1> SUFFICES ASSUME SessionInit PROVE BindingInv
  OBVIOUS
<1>1. SessionTypeOK
  BY SessionStarts
<1>2. \A c \in Calls : call[c] = Idle
  BY DEF SessionInit
<1>3. \A s \in Sessions : meta[s] = NoMeta \/ meta[s].owner = NoMember
  BY DEF SessionInit, Blank
<1> QED
  BY <1>1, <1>2, <1>3 DEF BindingInv, BornInv, CheckInv, Unborn, Bound

\* A session is bound by its own start, once, and its owner does not change.
LEMMA OwnerSteps ==
  ASSUME SessionTypeOK, NEW s \in Sessions, MetaStep(s), Bound(s)'
  PROVE  \/ Bound(s) /\ meta'[s].owner = meta[s].owner
         \/ \E c \in Calls : Unborn(c) /\ call[c].sid = s /\ call'[c].pc = "point"
<1>1. meta'[s] # NoMeta /\ meta'[s].owner # NoMember
  BY DEF Bound
<1>2. Hash(s).owner # NoMember => Bound(s) /\ Hash(s) = meta[s]
  BY DEF Hash, Blank, Bound
<1>3. CASE \E c \in Calls : InFlight(c, s, {"start"}, {"write"}) /\ call'[c].pc = "point"
  BY <1>3 DEF InFlight, Unborn, Prewrite
<1>4. CASE ~\E c \in Calls : InFlight(c, s, {"start"}, {"write"}) /\ call'[c].pc = "point"
  <2>1. \/ meta'[s] = meta[s]
        \/ meta'[s].owner = Hash(s).owner
        \/ meta[s] # NoMeta /\ meta'[s].owner = meta[s].owner
    BY <1>1, <1>4 DEF MetaStep, SameBinding
  <2> QED
    BY <1>1, <1>2, <2>1 DEF Bound
<1> QED
  BY <1>3, <1>4

\* A start under way was under way before, or takes an id nobody has.
LEMMA UnbornSteps ==
  ASSUME SessionTypeOK, Described, NEW d \in Calls, Unborn(d)'
  PROVE  \/ Unborn(d) /\ call'[d].sid = call[d].sid
         \/ /\ call'[d].sid \in fresh /\ call'[d].sid \notin fresh'
            /\ \A e \in Calls \ {d} : call'[e] = call[e]
<1>1. call'[d] # Idle /\ call'[d].op = "start" /\ call'[d].pc \in Prewrite
  BY DEF Unborn
<1>2. CallStep(d)
  BY DEF Described
<1> QED
  BY <1>1, <1>2 DEF CallStep, Unborn

LEMMA WrittenStays ==
  ASSUME SessionTypeOK, Described, NEW s \in Sessions, Written(s)
  PROVE  Written(s)'
<1>1. s \notin fresh'
  BY DEF Described, Written
<1>2. ASSUME NEW d \in Calls, Unborn(d)' PROVE call'[d].sid # s
  BY <1>2, UnbornSteps DEF Written
<1> QED
  BY <1>1, <1>2 DEF Written

LEMMA BornSteps ==
  ASSUME SessionTypeOK, BornInv, Described
  PROVE  BornInv'
<1>1. ASSUME NEW s \in Sessions, Bound(s)' PROVE Written(s)'
  <2>1. MetaStep(s)
    BY DEF Described
  <2>2. CASE Bound(s)
    BY <2>2, WrittenStays DEF BornInv
  <2>3. CASE \E c \in Calls : Unborn(c) /\ call[c].sid = s /\ call'[c].pc = "point"
    <3>1. PICK c \in Calls : Unborn(c) /\ call[c].sid = s /\ call'[c].pc = "point"
      BY <2>3
    <3>2. s \notin fresh /\ s \notin fresh'
      BY <3>1 DEF BornInv, Described
    <3>3. ASSUME NEW d \in Calls, Unborn(d)', call'[d].sid = s PROVE FALSE
      <4>1. Unborn(d) /\ call[d].sid = s
        BY <3>2, <3>3, UnbornSteps
      <4>2. d = c
        BY <3>1, <4>1 DEF BornInv
      <4> QED
        BY <3>1, <3>3, <4>2 DEF Unborn, Prewrite
    <3> QED
      BY <3>2, <3>3 DEF Written
  <2> QED
    BY <1>1, <2>1, <2>2, <2>3, OwnerSteps
<1>2. ASSUME NEW c \in Calls, Unborn(c)' PROVE call'[c].sid \notin fresh'
  BY <1>2, UnbornSteps DEF BornInv, Described
<1>3. ASSUME NEW c \in Calls, NEW d \in Calls, Unborn(c)', Unborn(d)',
             call'[c].sid = call'[d].sid, c # d
      PROVE  FALSE
  <2>1. CASE /\ Unborn(c) /\ call'[c].sid = call[c].sid
             /\ Unborn(d) /\ call'[d].sid = call[d].sid
    BY <1>3, <2>1 DEF BornInv
  <2>2. CASE ~(Unborn(c) /\ call'[c].sid = call[c].sid)
    <3>1. call'[c].sid \in fresh /\ call'[d] = call[d]
      BY <1>3, <2>2, UnbornSteps
    <3> QED
      BY <1>3, <3>1 DEF BornInv, Unborn
  <2>3. CASE ~(Unborn(d) /\ call'[d].sid = call[d].sid)
    <3>1. call'[d].sid \in fresh /\ call'[c] = call[c]
      BY <1>3, <2>3, UnbornSteps
    <3> QED
      BY <1>3, <3>1 DEF BornInv, Unborn
  <2> QED
    BY <2>1, <2>2, <2>3
<1> QED
  BY <1>1, <1>2, <1>3 DEF BornInv

LEMMA CheckSteps ==
  ASSUME SessionTypeOK, BornInv, CheckInv, Described
  PROVE  CheckInv'
<1> SUFFICES ASSUME NEW c \in Calls, NEW s, s = call'[c].sid, call'[c] # Idle,
                    call'[c].op \in {"resume", "abandon"},
                    call'[c].member # DeploymentOwner
             PROVE  Written(s)' /\ (Bound(s)' => meta'[s].owner = call'[c].member)
  BY DEF CheckInv, Bound, Written
<1> DEFINE m == call'[c].member
<1>1. s \in Sessions
  BY CallType, TypeParts DEF Described, CallsOK, CallRecord
<1>2. CallStep(c) /\ MetaStep(s)
  BY <1>1 DEF Described
<1>3. Written(s) /\ (Bound(s) => meta[s].owner = m)
  <2>1. CASE /\ call[c] # Idle /\ call'[c].op = call[c].op /\ call'[c].sid = call[c].sid
             /\ call'[c].member = call[c].member
    BY <2>1 DEF CheckInv
  <2>2. CASE OwnedBy(s, m)
    <3>1. meta[s] # NoMeta /\ meta[s].owner = m
      BY <2>2 DEF OwnedBy
    <3>2. m # NoMember
      <4>1. call'[c] \in CallRecord
        BY TypeParts DEF Described, CallsOK
      <4> QED
        BY <4>1, Sentinels DEF CallRecord
    <3> QED
      BY <1>1, <3>1, <3>2 DEF BornInv, Bound
  <2> QED
    BY <1>2, <2>1, <2>2 DEF CallStep
<1>4. Written(s)'
  BY <1>1, <1>3, WrittenStays
<1>5. ASSUME Bound(s)' PROVE meta'[s].owner = m
  <2>1. ~\E d \in Calls : Unborn(d) /\ call[d].sid = s
    BY <1>3 DEF Written
  <2>2. Bound(s) /\ meta'[s].owner = meta[s].owner
    BY <1>1, <1>2, <1>5, <2>1, OwnerSteps
  <2> QED
    BY <1>3, <2>2
<1> QED
  BY <1>4, <1>5

LEMMA BindingSteps ==
  BindingInv /\ [SessionNext]_sessionVars => BindingInv'
<1>1. BindingInv /\ [SessionNext]_sessionVars => Described
  BY SessionSteps DEF BindingInv
<1> QED
  BY <1>1, BornSteps, CheckSteps DEF BindingInv, Described

\* What calls may rely on while they are between their check and their write.
THEOREM BindingInvariant == SessionSpec => []BindingInv
BY BindingStarts, BindingSteps, PTL DEF SessionSpec

\* A bound session is ended, or given another label, by its owner, the
\* deployment owner or the reaper, however many steps and other calls lie between
\* the check and the write.
THEOREM OwnersEndTheirs == SessionSpec => TeammatesNeverEnd
<1> DEFINE Ends == \A s \in Sessions :
      EndedOrMoved(s) => CalledBy(s, {meta[s].owner, DeploymentOwner})
<1>1. BindingInv /\ [SessionNext]_sessionVars => [Ends]_sessionVars
  <2> SUFFICES ASSUME BindingInv, [SessionNext]_sessionVars, NEW s \in Sessions,
                      EndedOrMoved(s)
               PROVE  CalledBy(s, {meta[s].owner, DeploymentOwner})
    OBVIOUS
  <2>1. SessionTypeOK /\ MetaStep(s)
    BY SessionSteps DEF Described, BindingInv
  <2>2. /\ Bound(s) /\ Hash(s) = meta[s] /\ meta'[s] # NoMeta
        /\ \/ meta'[s].label # meta[s].label
           \/ meta'[s].status # meta[s].status /\ meta'[s].status \in Terminal
    BY DEF EndedOrMoved, Bound, Hash
  <2>3. Written(s)
    BY <2>2 DEF BindingInv, BornInv
  <2>4. PICK c \in Calls :
          \/ InFlight(c, s, {"resume"}, {"write"})
          \/ InFlight(c, s, {"complete"}, {"commit"}) /\ OwnedBy(s, call[c].member)
          \/ InFlight(c, s, {"abandon", "reap"}, {"terminate"})
    <3>1. ~\E c \in Calls : InFlight(c, s, {"start"}, {"write"})
      BY <2>3 DEF Written, InFlight, Unborn, Prewrite
    <3>2. ~(meta'[s].status = "paused" /\ meta'[s].label = meta[s].label)
      BY <2>2 DEF Terminal
    <3> QED
      BY <2>1, <2>2, <3>1, <3>2 DEF MetaStep, SameBinding
  <2>5. CASE InFlight(c, s, {"complete"}, {"commit"}) /\ OwnedBy(s, call[c].member)
    BY <2>2, <2>5 DEF CalledBy, InFlight, OwnedBy, Bound
  <2>6. CASE InFlight(c, s, {"resume"}, {"write"}) \/ InFlight(c, s, {"abandon", "reap"}, {"terminate"})
    BY <2>2, <2>6 DEF CalledBy, InFlight, BindingInv, CheckInv
  <2> QED
    BY <2>4, <2>5, <2>6
<1> HIDE DEF Ends
<1>2. SessionSpec => [][Ends]_sessionVars
  BY <1>1, BindingInvariant, PTL DEF SessionSpec
<1> QED
  BY <1>2 DEF Ends, TeammatesNeverEnd
-------------------------------------------------------------------------------
(* One call at a time *)

\* The pointer of an active session's label names it.
ActiveIsPointed ==
  \A s \in Sessions : meta[s] # NoMeta /\ meta[s].status = "active" =>
    meta[s].label \in Labels /\ ptr[meta[s].label] = s

IsOwned(s, m) == meta[s] # NoMeta => OwnedBy(s, m)

\* Before its swap a takeover owns what it takes, which is not active, and a start
\* or resume owns what it will displace; after it the pointer is its own.
SwapKnows(c) ==
  LET r == call[c] IN
  /\ r.op = "start" => r.prev = NoLabel
  /\ r.op = "resume" /\ r.pc \in {"guard", "swap"} =>
       /\ IsOwned(r.sid, r.member)
       /\ r.prev # NoLabel /\ meta[r.sid] # NoMeta => meta[r.sid].status # "active"
  /\ r.op \in {"start", "resume"} /\ r.pc = "swap" => ~Refused(c)
  /\ r.op \in {"start", "resume"} /\ r.pc \in {"write", "point"} => ptr[r.label] = r.sid

\* What was checked of the session holds when it is written, evicted, ended.
WriteKnows(c) ==
  LET r == call[c] IN
  /\ r.pc = "store" => IsOwned(r.sid, r.member)
  /\ r.pc = "evict" /\ r.seen \in Sessions /\ meta[r.seen] # NoMeta =>
       ~(meta[r.seen].status = "completed" /\ meta[r.seen].distillation = "queued")
  /\ r.pc = "terminate" => \A k \in r.stale : ptr[k] = r.sid

AloneInv ==
  /\ SessionTypeOK /\ ActiveIsPointed
  /\ \A c \in Calls : call[c] # Idle => SwapKnows(c) /\ WriteKnows(c)

\* With one call at a time, whoever takes a step is alone.
OneAtATime == \A c, d \in Calls : c = d

LEMMA AloneStarts ==
  ASSUME SessionInit
  PROVE  AloneInv
<1>1. PICK old \in {{}} \cup {{s} : s \in Sessions}, st \in {"active", "paused"}, l \in Labels :
       /\ meta = [s \in Sessions |->
                   IF s \in old THEN [Blank EXCEPT !.status = st, !.label = l]
                   ELSE NoMeta]
       /\ ptr = [k \in Labels |-> IF st = "active" /\ k = l /\ old # {}
                                  THEN CHOOSE s \in old : TRUE ELSE NoSession]
       /\ index = old /\ fresh = Sessions \ old
  BY DEF SessionInit
<1>2. ASSUME NEW s \in Sessions, meta[s] # NoMeta, meta[s].status = "active"
      PROVE  meta[s].label \in Labels /\ ptr[meta[s].label] = s
  <2>1. s \in old /\ meta[s] = [Blank EXCEPT !.status = st, !.label = l]
    BY <1>1, <1>2
  <2>2. meta[s].status = st /\ meta[s].label = l
    BY <2>1 DEF Blank
  <2>3. old = {s}
    BY <1>1, <2>1
  <2>4. (CHOOSE t \in old : TRUE) = s
    BY <2>3
  <2> QED
    BY <1>1, <1>2, <2>2, <2>3, <2>4
<1>3. \A c \in Calls : call[c] = Idle
  BY DEF SessionInit
<1> QED
  BY <1>2, <1>3, SessionStarts DEF AloneInv, ActiveIsPointed

\* A session is made active by a write alone.
LEMMA ActiveSteps ==
  ASSUME SessionTypeOK, NEW s \in Sessions, MetaStep(s),
         meta'[s] # NoMeta, meta'[s].status = "active"
  PROVE  \/ /\ meta[s] # NoMeta /\ meta[s].status = "active"
            /\ meta'[s].label = meta[s].label
         \/ \E c \in Calls : /\ InFlight(c, s, {"start", "resume"}, {"write"})
                             /\ meta'[s].label = call[c].label
<1>1. meta[s] = NoMeta => Hash(s).status = "blank"
  BY DEF Hash, Blank
<1>2. meta[s] # NoMeta => Hash(s) = meta[s]
  BY DEF Hash
<1>3. CASE \E c \in Calls : /\ InFlight(c, s, {"start", "resume"}, {"write"})
                            /\ meta'[s].label = call[c].label
  BY <1>3
<1>4. CASE ~\E c \in Calls : /\ InFlight(c, s, {"start", "resume"}, {"write"})
                             /\ meta'[s].label = call[c].label
  <2>1. \/ meta'[s] = meta[s]
        \/ SameBinding(meta'[s], Hash(s)) /\ Hash(s).status = "active"
    BY <1>4 DEF MetaStep, InFlight
  <2> QED
    BY <1>1, <1>2, <2>1 DEF SameBinding
<1> QED
  BY <1>3, <1>4

\* Pointers that stay keep what is active pointed at.
LEMMA PointedStays ==
  ASSUME SessionTypeOK, ActiveIsPointed, \A s \in Sessions : MetaStep(s),
         \A s \in Sessions : meta[s] # NoMeta /\ meta[s].status = "active"
            /\ meta'[s] # NoMeta /\ meta'[s].status = "active"
            /\ meta'[s].label = meta[s].label
            => ptr'[meta[s].label] = s,
         \A c \in Calls : /\ call[c] # Idle /\ call[c].op \in {"start", "resume"}
                          /\ call[c].pc = "write"
            => call[c].label \in Labels /\ ptr'[call[c].label] = call[c].sid
  PROVE  ActiveIsPointed'
<1> SUFFICES ASSUME NEW s \in Sessions, meta'[s] # NoMeta, meta'[s].status = "active"
             PROVE  meta'[s].label \in Labels /\ ptr'[meta'[s].label] = s
  BY DEF ActiveIsPointed
<1>1. CASE /\ meta[s] # NoMeta /\ meta[s].status = "active"
           /\ meta'[s].label = meta[s].label
  BY <1>1 DEF ActiveIsPointed
<1>2. CASE \E c \in Calls : /\ InFlight(c, s, {"start", "resume"}, {"write"})
                            /\ meta'[s].label = call[c].label
  BY <1>2 DEF InFlight
<1> QED
  BY <1>1, <1>2, ActiveSteps
\* What a step owes: the pointers, and what its own call knows afterwards.
AloneNext(c) ==
  /\ ActiveIsPointed'
  /\ \/ call'[c] = Idle
     \/ SwapKnows(c)' /\ WriteKnows(c)'

LEMMA AloneBegins ==
  ASSUME AloneInv, NEW c \in Calls, NEW l \in Labels, NEW m \in Members,
         NEW s \in Sessions,
         StartBegin(c, l, m, s) \/ \E t \in BOOLEAN : ResumeBegin(c, l, m, s, t)
  PROVE  AloneNext(c)
<1>1. meta' = meta /\ ptr' = ptr
  BY DEF StartBegin, ResumeBegin
<1>2. ActiveIsPointed'
  BY <1>1 DEF AloneInv, ActiveIsPointed
<1>3. call \in [Calls -> CallRecord \cup {Idle}]
  BY DEF AloneInv, SessionTypeOK
<1>4. CASE StartBegin(c, l, m, s)
  <2>1. call'[c] = NewCall("start", "guard", l, m, s)
    BY <1>3, <1>4 DEF StartBegin, Begin
  <2>2. /\ call'[c].op = "start" /\ call'[c].pc = "guard" /\ call'[c].prev = NoLabel
    BY <2>1 DEF NewCall
  <2> QED
    BY <1>2, <2>2 DEF AloneNext, SwapKnows, WriteKnows
<1>5. ASSUME NEW t \in BOOLEAN, ResumeBegin(c, l, m, s, t) PROVE AloneNext(c)
  <2> DEFINE k == IF meta[s].label = l THEN NoLabel ELSE meta[s].label
  <2>1. /\ OwnedBy(s, m)
        /\ meta[s].label \notin {l, NoLabel} => meta[s].status # "active"
    BY <1>5 DEF ResumeBegin, Resumable
  <2>2. k # NoLabel => meta[s].status # "active"
    BY <2>1
  <2>3. call'[c] = [NewCall("resume", "guard", l, m, s) EXCEPT !.prev = k]
    BY <1>3, <1>5 DEF ResumeBegin, Begin
  <2> HIDE DEF k
  <2>4. /\ call'[c].op = "resume" /\ call'[c].pc = "guard" /\ call'[c].prev = k
        /\ call'[c].sid = s /\ call'[c].member = m
    BY <2>3 DEF NewCall
  <2>5. SwapKnows(c)'
    BY <1>1, <2>1, <2>2, <2>4 DEF SwapKnows, IsOwned, OwnedBy
  <2>6. WriteKnows(c)'
    BY <2>4 DEF WriteKnows
  <2> QED
    BY <1>2, <2>5, <2>6 DEF AloneNext
<1> QED
  BY <1>4, <1>5

LEMMA AloneOtherBegins ==
  ASSUME AloneInv, NEW c \in Calls, NEW l \in Labels, NEW m \in Members,
         NEW named \in Sessions \cup {NoSession},
         \/ UpdateBegin(c, l, m, named)
         \/ CompleteBegin(c, l, m, named)
         \/ AbandonBegin(c, l, m, named)
  PROVE  AloneNext(c)
<1> DEFINE s == Resolve(named, l)
<1>1. meta' = meta /\ ptr' = ptr
  BY DEF UpdateBegin, CompleteBegin, AbandonBegin
<1>2. ActiveIsPointed'
  BY <1>1 DEF AloneInv, ActiveIsPointed
<1>3. call \in [Calls -> CallRecord \cup {Idle}]
  BY DEF AloneInv, SessionTypeOK
<1>4. \/ /\ call'[c] = NewCall("update", "store", l, m, s) /\ IsOwned(s, m)
      \/ call'[c] = NewCall("complete", "commit", l, m, s)
      \/ call'[c] = NewCall("abandon", "read", l, m, s)
  BY <1>3 DEF UpdateBegin, CompleteBegin, AbandonBegin, Begin, Updatable, IsOwned
<1> HIDE DEF s
<1>5. /\ call'[c].op \in {"update", "complete", "abandon"}
      /\ call'[c].pc \in {"store", "commit", "read"}
      /\ call'[c].pc = "store" => IsOwned(call'[c].sid, call'[c].member)
  BY <1>4 DEF NewCall
<1>6. SwapKnows(c)'
  BY <1>5 DEF SwapKnows
<1>7. WriteKnows(c)'
  BY <1>1, <1>5 DEF WriteKnows, IsOwned, OwnedBy
<1> QED
  BY <1>2, <1>6, <1>7 DEF AloneNext

LEMMA AloneGuard ==
  ASSUME AloneInv, NEW c \in Calls, Guard(c)
  PROVE  AloneNext(c)
<1>1. meta' = meta /\ ptr' = ptr
  BY DEF Guard
<1>2. ActiveIsPointed'
  BY <1>1 DEF AloneInv, ActiveIsPointed
<1>3. call[c] \in CallRecord /\ call[c].op \in {"start", "resume"} /\ call[c].pc = "guard"
  BY DEF Guard, At, AloneInv, SessionTypeOK
<1>4. SwapKnows(c)
  BY <1>3, CallFields DEF AloneInv
<1>5. CASE Refused(c)
  <2>1. CallsOK /\ Return(c)
    BY <1>5, TypeParts DEF Guard, AloneInv
  <2>2. call'[c] = Idle
    BY <2>1, CallReturns
  <2> QED
    BY <1>2, <2>2 DEF AloneNext
<1>6. CASE ~Refused(c)
  <2> DEFINE x == ptr[call[c].label]
  <2>1. call'[c] = [call[c] EXCEPT !.pc = "swap", !.seen = x]
    BY <1>6 DEF Guard, AloneInv, SessionTypeOK
  <2> HIDE DEF x
  <2>2. /\ call'[c].op = call[c].op /\ call'[c].pc = "swap" /\ call'[c].sid = call[c].sid
        /\ call'[c].member = call[c].member /\ call'[c].label = call[c].label
        /\ call'[c].prev = call[c].prev
    BY <1>3, <2>1 DEF CallRecord
  <2>3. ~Refused(c)'
    BY <1>1, <1>6, <2>2 DEF Refused, OwnedBy
  <2>4. SwapKnows(c)'
    BY <1>1, <1>3, <1>4, <2>2, <2>3 DEF SwapKnows, IsOwned, OwnedBy
  <2>5. WriteKnows(c)'
    BY <2>2 DEF WriteKnows
  <2> QED
    BY <1>2, <2>4, <2>5 DEF AloneNext
<1> QED
  BY <1>5, <1>6
LEMMA AloneSwap ==
  ASSUME AloneInv, OneAtATime, NEW c \in Calls, Swap(c)
  PROVE  AloneNext(c)
<1> DEFINE l == call[c].label  s == call[c].sid  m == call[c].member
           out == Displaced(l, s)
<1>1. /\ call[c] \in CallRecord /\ call[c].op \in {"start", "resume"}
      /\ call[c].pc = "swap" /\ call[c] # Idle
  BY DEF Swap, At, AloneInv, SessionTypeOK
<1>2. l \in Labels /\ s \in Sessions
  BY <1>1 DEF CallRecord
<1>3. SwapKnows(c)
  BY <1>1 DEF AloneInv
<1>4. SessionTypeOK /\ CallsOK /\ MetaOK
  BY TypeParts DEF AloneInv
<1>5. Described
  BY <1>4, SwapSteps
<1>6. CASE ptr[l] # call[c].seen
  <2>1. meta' = meta /\ ptr' = ptr
    BY <1>6 DEF Swap
  <2>2. ActiveIsPointed'
    BY <2>1 DEF AloneInv, ActiveIsPointed
  <2>3. CASE call[c].tries <= 1
    <3>1. Return(c)
      BY <1>6, <2>3 DEF Swap
    <3>2. call'[c] = Idle
      BY <1>4, <3>1, CallReturns
    <3> QED
      BY <2>2, <3>2 DEF AloneNext
  <2>4. CASE ~(call[c].tries <= 1)
    <3> DEFINE n == call[c].tries - 1
    <3>1. call'[c] = [call[c] EXCEPT !.pc = "guard", !.tries = n]
      BY <1>4, <1>6, <2>4 DEF Swap, CallsOK
    <3> HIDE DEF n
    <3>2. /\ call'[c].op = call[c].op /\ call'[c].pc = "guard" /\ call'[c].sid = s
          /\ call'[c].member = m /\ call'[c].prev = call[c].prev
      BY <1>1, <3>1 DEF CallRecord
    <3>3. SwapKnows(c)'
      BY <1>1, <1>3, <2>1, <3>2 DEF SwapKnows, IsOwned, OwnedBy
    <3>4. WriteKnows(c)'
      BY <3>2 DEF WriteKnows
    <3> QED
      BY <2>2, <3>3, <3>4 DEF AloneNext
  <2> QED
    BY <2>3, <2>4
<1>7. CASE ptr[l] = call[c].seen
  <2>1. /\ meta' = [r \in Sessions |-> IF r \in out THEN [Hash(r) EXCEPT !.status = "paused"]
                                       ELSE meta[r]]
        /\ ptr' = [k \in Labels |-> IF k = l THEN s
                                    ELSE IF k = call[c].prev /\ ptr[k] = s THEN NoSession
                                    ELSE ptr[k]]
        /\ call' = [call EXCEPT ![c] = NewCall(call[c].op, "write", l, m, s)]
    BY <1>7 DEF Swap
  <2>2. /\ call'[c].op = call[c].op /\ call'[c].pc = "write" /\ call'[c].sid = s
        /\ call'[c].label = l /\ call'[c].prev = NoLabel
    BY <1>4, <2>1 DEF NewCall, CallsOK
  <2>3. ptr'[l] = s
    BY <1>2, <2>1
  <2>4. SwapKnows(c)' /\ WriteKnows(c)'
    BY <2>2, <2>3 DEF SwapKnows, WriteKnows
  <2>5. ASSUME NEW t \in Sessions, meta[t] # NoMeta, meta[t].status = "active",
               meta'[t] # NoMeta, meta'[t].status = "active"
        PROVE  ptr'[meta[t].label] = t
    <3>1. meta[t].label \in Labels /\ ptr[meta[t].label] = t
      BY <2>5 DEF AloneInv, ActiveIsPointed
    <3>2. CASE meta[t].label = l
      <4>1. t \in out => meta'[t] = [Hash(t) EXCEPT !.status = "paused"]
        BY <2>1
      <4>2. Hash(t) \in Metas
        BY <1>4, HashType
      <4>3. t \in out => meta'[t].status = "paused"
        BY <4>1, <4>2 DEF Metas
      <4>4. t # NoSession
        BY Sentinels
      <4>5. t = s
        BY <2>5, <3>1, <3>2, <4>3, <4>4 DEF Displaced
      <4> QED
        BY <2>3, <3>2, <4>5
    <3>3. CASE meta[t].label # l
      <4>1. ~(meta[t].label = call[c].prev /\ t = s)
        BY <1>1, <1>3, <2>5, <3>1, Sentinels DEF SwapKnows
      <4> QED
        BY <2>1, <3>1, <3>3, <4>1
    <3> QED
      BY <3>2, <3>3
  <2>6. ASSUME NEW d \in Calls, call[d] # Idle, call[d].op \in {"start", "resume"},
               call[d].pc = "write"
        PROVE  FALSE
    BY <1>1, <2>6 DEF OneAtATime
  <2>7. ActiveIsPointed'
    BY <1>4, <1>5, <2>5, <2>6, PointedStays DEF AloneInv, Described
  <2> QED
    BY <2>4, <2>7 DEF AloneNext
<1> QED
  BY <1>6, <1>7

LEMMA AloneWrite ==
  ASSUME AloneInv, OneAtATime, NEW c \in Calls, Write(c)
  PROVE  AloneNext(c)
<1>1. /\ call[c] \in CallRecord /\ call[c].op \in {"start", "resume"}
      /\ call[c].pc = "write" /\ call[c] # Idle /\ ptr' = ptr /\ Goto(c, "point")
  BY DEF Write, At, AloneInv, SessionTypeOK
<1>2. SessionTypeOK /\ CallsOK
  BY TypeParts DEF AloneInv
<1>3. ptr[call[c].label] = call[c].sid /\ call[c].label \in Labels
  BY <1>1 DEF AloneInv, SwapKnows, CallRecord
<1>4. call'[c] = [call[c] EXCEPT !.pc = "point"]
  BY <1>1, <1>2 DEF Goto, CallsOK
<1>5. /\ call'[c].op = call[c].op /\ call'[c].pc = "point" /\ call'[c].sid = call[c].sid
      /\ call'[c].label = call[c].label /\ call'[c].prev = call[c].prev
  BY <1>1, <1>4 DEF CallRecord
<1>6. SwapKnows(c)' /\ WriteKnows(c)'
  BY <1>1, <1>3, <1>5 DEF AloneInv, SwapKnows, WriteKnows
<1>7. ActiveIsPointed'
  <2>1. Described
    BY <1>2, WriteSteps
  <2>2. \A d \in Calls : d = c
    BY DEF OneAtATime
  <2> QED
    BY <1>1, <1>2, <1>3, <2>1, <2>2, PointedStays DEF AloneInv, Described, ActiveIsPointed
<1> QED
  BY <1>6, <1>7 DEF AloneNext
\* A step that moves no pointer and is no write leaves the active ones pointed at.
LEMMA PointersRest ==
  ASSUME AloneInv, OneAtATime, NEW c \in Calls, call[c] # Idle, call[c].pc # "write",
         ptr' = ptr, Described
  PROVE  ActiveIsPointed'
<1>1. \A d \in Calls : d = c
  BY DEF OneAtATime
<1> QED
  BY <1>1, PointedStays DEF AloneInv, Described, ActiveIsPointed

LEMMA AlonePoint ==
  ASSUME AloneInv, OneAtATime, NEW c \in Calls, Point(c) \/ Persist(c) \/ Index(c)
  PROVE  AloneNext(c)
<1>1. /\ call[c] \in CallRecord /\ call[c].op \in {"start", "resume"}
      /\ call[c] # Idle
      /\ call[c].pc \in {"point", "persist", "index"}
      /\ Point(c) => call[c].pc = "point"
  BY DEF Point, Persist, Index, At, AloneInv, SessionTypeOK
<1>2. SessionTypeOK /\ CallsOK /\ PtrOK
  BY TypeParts DEF AloneInv
<1>3. SwapKnows(c) /\ call[c].label \in Labels
  BY <1>1 DEF AloneInv, CallRecord
<1>4. ptr' = ptr
  <2>1. CASE Point(c)
    <3>1. ptr[call[c].label] = call[c].sid
      BY <1>1, <1>3, <2>1 DEF SwapKnows
    <3> QED
      BY <1>2, <1>3, <2>1, <3>1 DEF Point, PtrOK
  <2> QED
    BY <2>1 DEF Persist, Index
<1>5. ActiveIsPointed'
  BY <1>1, <1>2, <1>4, PointSteps, PointersRest
<1>6. CASE Persist(c)
  <2>1. Return(c)
    BY <1>6 DEF Persist
  <2> QED
    BY <1>2, <1>5, <2>1, CallReturns DEF AloneNext
<1>7. ASSUME NEW x \in {"index", "persist", "count"}, Goto(c, x) PROVE AloneNext(c)
  <2>1. call'[c] = [call[c] EXCEPT !.pc = x]
    BY <1>2, <1>7 DEF Goto, CallsOK
  <2>2. call'[c].op = call[c].op /\ call'[c].prev = call[c].prev /\ call'[c].pc = x
    BY <1>1, <2>1 DEF CallRecord
  <2>3. SwapKnows(c)' /\ WriteKnows(c)'
    BY <1>3, <2>2 DEF SwapKnows, WriteKnows
  <2> QED
    BY <1>5, <2>3 DEF AloneNext
<1>8. Point(c) \/ Index(c) => \E x \in {"index", "persist", "count"} : Goto(c, x)
  BY DEF Point, Index
<1> QED
  BY <1>6, <1>7, <1>8

LEMMA AloneEnforce ==
  ASSUME AloneInv, OneAtATime, NEW c \in Calls,
         \/ Enforce(c) \/ EnforceEnd(c) \/ Evict(c)
         \/ \E s \in Sessions : EnforceLook(c, s)
  PROVE  AloneNext(c)
<1>1. /\ call[c] \in CallRecord /\ call[c].op = "start" /\ call[c] # Idle
      /\ call[c].pc \in {"count", "enforce", "evict"} /\ ptr' = ptr
  BY DEF Enforce, EnforceEnd, EnforceLook, Evict, At, AloneInv, SessionTypeOK
<1>2. SessionTypeOK /\ CallsOK
  BY TypeParts DEF AloneInv
<1>3. call[c].prev = NoLabel
  BY <1>1 DEF AloneInv, SwapKnows
<1>4. ActiveIsPointed'
  BY <1>1, <1>2, EnforceSteps, EnforceLookSteps, EvictSteps, PointersRest
<1>5. \/ Return(c)
      \/ \E V : call'[c] = [call[c] EXCEPT !.pc = "enforce", !.victims = V]
      \/ \E V : call'[c] = [call[c] EXCEPT !.victims = V] /\ call[c].pc = "enforce"
      \/ \E V : \E s \in Sessions :
           /\ call'[c] = [call[c] EXCEPT !.victims = V, !.pc = "evict", !.seen = s]
           /\ meta[s] # NoMeta /\ ~Spared(s, Cardinality(index)) /\ meta' = meta
      \/ call'[c] = [call[c] EXCEPT !.pc = "enforce"]
  <2>1. CASE Enforce(c)
    BY <1>2, <2>1 DEF Enforce, CallsOK
  <2>2. CASE EnforceEnd(c)
    BY <2>2 DEF EnforceEnd
  <2>3. CASE Evict(c)
    BY <1>2, <2>3 DEF Evict, Goto, CallsOK
  <2>4. ASSUME NEW s \in Sessions, EnforceLook(c, s)
        PROVE  \/ \E V : call'[c] = [call[c] EXCEPT !.victims = V] /\ call[c].pc = "enforce"
               \/ \E V : \E t \in Sessions :
                    /\ call'[c] = [call[c] EXCEPT !.victims = V, !.pc = "evict", !.seen = t]
                    /\ meta[t] # NoMeta /\ ~Spared(t, Cardinality(index)) /\ meta' = meta
    <3>1. call[c].pc = "enforce" /\ meta' = meta
      BY <2>4 DEF EnforceLook, At
    <3>2. CASE meta[s] = NoMeta \/ Spared(s, Cardinality(index))
      BY <1>2, <2>4, <3>1, <3>2 DEF EnforceLook, CallsOK
    <3>3. CASE ~(meta[s] = NoMeta \/ Spared(s, Cardinality(index)))
      <4>1. call'[c] = [call[c] EXCEPT !.victims = call[c].victims \ {s}, !.pc = "evict",
                                       !.seen = s]
        BY <1>2, <2>4, <3>3 DEF EnforceLook, CallsOK
      <4> QED
        BY <3>1, <3>3, <4>1
    <3> QED
      BY <3>2, <3>3
  <2> QED
    BY <2>1, <2>2, <2>3, <2>4
<1>6. CASE Return(c)
  BY <1>2, <1>4, <1>6, CallReturns DEF AloneNext
<1>7. CASE /\ call'[c].op = "start" /\ call'[c].prev = NoLabel
           /\ \/ call'[c].pc = "enforce"
              \/ /\ call'[c].pc = "evict" /\ meta[call'[c].seen] # NoMeta /\ meta' = meta
                 /\ ~Spared(call'[c].seen, Cardinality(index))
  <2>1. SwapKnows(c)'
    BY <1>7 DEF SwapKnows
  <2>2. WriteKnows(c)'
    BY <1>7 DEF WriteKnows, Spared
  <2> QED
    BY <1>4, <2>1, <2>2 DEF AloneNext
<1>8. Return(c)
      \/ /\ call'[c].op = "start" /\ call'[c].prev = NoLabel
         /\ \/ call'[c].pc = "enforce"
            \/ /\ call'[c].pc = "evict" /\ meta[call'[c].seen] # NoMeta /\ meta' = meta
               /\ ~Spared(call'[c].seen, Cardinality(index))
  BY <1>1, <1>3, <1>5 DEF CallRecord
<1> QED
  BY <1>6, <1>7, <1>8

LEMMA AloneUpdate ==
  ASSUME AloneInv, OneAtATime, NEW c \in Calls,
         UpdateStore(c) \/ GiveUp(c) \/ AbandonRead(c)
  PROVE  AloneNext(c)
<1>1. /\ call[c] \in CallRecord /\ call[c] # Idle /\ call[c].op \in {"update", "complete", "abandon", "reap"}
      /\ call[c].pc \in {"store", "commit", "read"} /\ ptr' = ptr
  BY DEF UpdateStore, GiveUp, AbandonRead, At, AloneInv, SessionTypeOK
<1>2. SessionTypeOK /\ CallsOK
  BY TypeParts DEF AloneInv
<1>3. ActiveIsPointed'
  BY <1>1, <1>2, UpdateStoreSteps, AbandonSteps, PointersRest
<1>4. CASE Return(c)
  BY <1>2, <1>3, <1>4, CallReturns DEF AloneNext
<1>5. CASE ~Return(c)
  <2> DEFINE K == {k \in {call[c].label} \cap Labels : ptr[k] = call[c].sid}
  <2>1. call'[c] = [call[c] EXCEPT !.pc = "terminate", !.stale = K]
    BY <1>2, <1>5 DEF UpdateStore, GiveUp, AbandonRead, CallsOK
  <2>2. /\ call'[c].op = call[c].op /\ call'[c].pc = "terminate" /\ call'[c].stale = K
        /\ call'[c].sid = call[c].sid
    BY <1>1, <2>1 DEF CallRecord
  <2>3. \A k \in K : ptr'[k] = call'[c].sid
    BY <1>1, <2>2
  <2> HIDE DEF K
  <2>4. SwapKnows(c)' /\ WriteKnows(c)'
    BY <1>1, <2>2, <2>3 DEF SwapKnows, WriteKnows
  <2> QED
    BY <1>3, <2>4 DEF AloneNext
<1> QED
  BY <1>4, <1>5

\* A session that ends loses its pointer, and only it does.
LEMMA AloneEnds ==
  ASSUME AloneInv, OneAtATime, NEW c \in Calls,
         Terminate(c) \/ \E g \in Grades \cup {"none"} : Commit(c, g)
  PROVE  AloneNext(c)
<1> DEFINE s == call[c].sid
<1>1. /\ call[c] \in CallRecord /\ call[c] # Idle /\ Return(c)
      /\ call[c].op \in {"complete", "abandon", "reap"}
      /\ call[c].pc \in {"commit", "terminate"}
  BY DEF Commit, Terminate, At, AloneInv, SessionTypeOK
<1>2. SessionTypeOK /\ CallsOK /\ PtrOK /\ MetaOK /\ s \in Sessions
  BY <1>1, TypeParts DEF AloneInv, CallRecord
<1>3. Described
  BY <1>2, CommitSteps, TerminateSteps
<1>4. ptr' = ptr \/ meta'[s].status \in Terminal
  <2>1. CASE Terminate(c)
    <3>1. meta'[s] = [Hash(s) EXCEPT !.status = "abandoned", !.ttl = "set"]
      BY <1>2, <2>1 DEF Terminate, MetaOK
    <3> QED
      BY <1>2, <3>1, HashType DEF Metas, Terminal
  <2>2. ASSUME NEW g \in Grades \cup {"none"}, Commit(c, g)
        PROVE  ptr' = ptr \/ meta'[s].status \in Terminal
    <3>1. CASE ~MayComplete(c)
      BY <2>2, <3>1 DEF Commit
    <3>2. CASE MayComplete(c)
      <4> DEFINE k == IF GradeKept(s) THEN meta[s].grade ELSE g
      <4>1. meta[s] \in Metas
        BY <1>2, <3>2 DEF MayComplete, OwnedBy, MetaOK
      <4>2. meta'[s] = [meta[s] EXCEPT !.status = "completed", !.distillation = "queued",
                                       !.grade = k]
        BY <1>2, <2>2, <3>2 DEF Commit, MetaOK
      <4> HIDE DEF k
      <4> QED
        BY <4>1, <4>2 DEF Metas, Terminal
    <3> QED
      BY <3>1, <3>2
  <2> QED
    BY <2>1, <2>2
<1>5. ASSUME NEW k \in Labels PROVE ptr'[k] = ptr[k] \/ ptr[k] = s
  <2>1. CASE Terminate(c)
    <3>1. \A j \in call[c].stale : ptr[j] = s
      BY <1>1, <2>1 DEF AloneInv, WriteKnows, Terminate, At
    <3> QED
      BY <2>1, <3>1 DEF Terminate
  <2>2. ASSUME NEW g \in Grades \cup {"none"}, Commit(c, g)
        PROVE  ptr'[k] = ptr[k] \/ ptr[k] = s
    BY <1>2, <2>2 DEF Commit, PtrOK
  <2> QED
    BY <2>1, <2>2
<1>6. ASSUME NEW t \in Sessions, meta[t] # NoMeta, meta[t].status = "active",
             meta'[t] # NoMeta, meta'[t].status = "active"
      PROVE  ptr'[meta[t].label] = t
  <2>1. meta[t].label \in Labels /\ ptr[meta[t].label] = t
    BY <1>6 DEF AloneInv, ActiveIsPointed
  <2>2. CASE ptr' = ptr
    BY <2>1, <2>2
  <2>3. CASE meta'[s].status \in Terminal
    <3>1. t # s
      BY <1>6, <2>3 DEF Terminal
    <3> QED
      BY <1>5, <2>1, <3>1
  <2> QED
    BY <1>4, <2>2, <2>3
<1>7. \A d \in Calls : d = c
  BY DEF OneAtATime
<1>8. ActiveIsPointed'
  BY <1>1, <1>2, <1>3, <1>6, <1>7, PointedStays DEF AloneInv, Described
<1> QED
  BY <1>1, <1>2, <1>8, CallReturns DEF AloneNext

LEMMA AloneReaps ==
  ASSUME AloneInv, OneAtATime, NEW c \in Calls,
         (\E s \in Sessions : ReapBegin(c, s)) \/ ReapLook(c)
  PROVE  AloneNext(c)
<1>1. meta' = meta /\ ptr' = ptr /\ SessionTypeOK /\ CallsOK
  BY TypeParts DEF ReapBegin, ReapLook, AloneInv
<1>2. ActiveIsPointed'
  BY <1>1 DEF AloneInv, ActiveIsPointed
<1>3. CASE Return(c)
  BY <1>1, <1>2, <1>3, CallReturns DEF AloneNext
<1>4. CASE ~Return(c)
  <2>1. call'[c].op = "reap" /\ call'[c].pc \in {"look", "read"}
    <3>1. ASSUME NEW s \in Sessions, ReapBegin(c, s)
          PROVE  call'[c].op = "reap" /\ call'[c].pc \in {"look", "read"}
      <4>1. call'[c] = NewCall("reap", "look", NoLabel, NoMember, s)
        BY <1>1, <3>1 DEF ReapBegin, Begin, CallsOK
      <4> QED
        BY <4>1 DEF NewCall
    <3>2. CASE ReapLook(c)
      <4>1. call[c] \in CallRecord /\ call[c].op = "reap"
        BY <1>1, <3>2 DEF ReapLook, At, CallsOK
      <4>2. call'[c] = [call[c] EXCEPT !.pc = "read", !.label = meta[call[c].sid].label]
        BY <1>1, <1>4, <3>2 DEF ReapLook, CallsOK
      <4> QED
        BY <4>1, <4>2 DEF CallRecord
    <3> QED
      BY <3>1, <3>2
  <2>2. SwapKnows(c)' /\ WriteKnows(c)'
    BY <2>1 DEF SwapKnows, WriteKnows
  <2> QED
    BY <1>2, <2>2 DEF AloneNext
<1> QED
  BY <1>3, <1>4

\* Steps of no call: time passes, the service restarts, a session expires.
LEMMA AloneOutside ==
  ASSUME AloneInv,
         \/ Outside
         \/ \E s \in Sessions : Expire(s)
         \/ UNCHANGED sessionVars
  PROVE  AloneInv'
<1>1. SessionTypeOK /\ Described
  <2>1. SessionTypeOK
    BY DEF AloneInv
  <2>2. CASE UNCHANGED sessionVars
    BY <2>1, <2>2, SessionSteps
  <2> QED
    BY <2>1, <2>2, DaysSteps, ExpireSteps DEF Outside
<1>2. CASE \E week \in BOOLEAN : Days(week)
  <2>1. ptr' = ptr /\ call' = call /\ \A c \in Calls : call[c] = Idle
    BY <1>2 DEF Days
  <2>2. ActiveIsPointed'
    BY <1>1, <2>1, PointedStays DEF AloneInv, Described, ActiveIsPointed
  <2> QED
    BY <1>1, <2>1, <2>2 DEF AloneInv, Described
<1>3. CASE SessionRestart
  <2>1. ptr' = ptr /\ meta' = meta /\ \A c \in Calls : call'[c] = Idle
    BY <1>3 DEF SessionRestart
  <2>2. ActiveIsPointed'
    BY <2>1 DEF AloneInv, ActiveIsPointed
  <2> QED
    BY <1>1, <2>1, <2>2 DEF AloneInv, Described
<1>4. CASE (\E s \in Sessions : Expire(s)) \/ UNCHANGED sessionVars
  <2>1. /\ ptr' = ptr /\ call' = call
        /\ \A s \in Sessions : meta'[s] = meta[s] \/ meta'[s] = NoMeta
    BY <1>1, <1>4 DEF Expire, sessionVars, SessionTypeOK
  <2>2. ActiveIsPointed'
    BY <2>1 DEF AloneInv, ActiveIsPointed
  <2>3. ASSUME NEW c \in Calls, call'[c] # Idle PROVE SwapKnows(c)' /\ WriteKnows(c)'
    <3>1. SwapKnows(c) /\ WriteKnows(c) /\ call[c] \in CallRecord
      BY <1>1, <2>1, <2>3 DEF AloneInv, SessionTypeOK
    <3>2. IsOwned(call[c].sid, call[c].member) => IsOwned(call[c].sid, call[c].member)'
      BY <2>1, <3>1 DEF IsOwned, OwnedBy, CallRecord
    <3>3. /\ meta'[call[c].sid] # NoMeta => meta'[call[c].sid] = meta[call[c].sid]
          /\ call[c].seen \in Sessions /\ meta'[call[c].seen] # NoMeta
               => meta'[call[c].seen] = meta[call[c].seen]
      BY <2>1, <3>1 DEF CallRecord
    <3>4. call[c].op \in {"start", "resume"} /\ ~Refused(c) => ~Refused(c)'
      <4>1. ASSUME call[c].op \in {"start", "resume"}, ptr[call[c].label] # NoSession
            PROVE  ptr[call[c].label] \in Sessions
        BY <1>1, <3>1, <4>1 DEF CallRecord, SessionTypeOK
      <4> QED
        BY <2>1, <4>1 DEF Refused, OwnedBy
    <3>5. SwapKnows(c)'
      BY <2>1, <3>1, <3>2, <3>3, <3>4 DEF SwapKnows
    <3>6. WriteKnows(c)'
      BY <2>1, <3>1, <3>2, <3>3 DEF WriteKnows
    <3> QED
      BY <3>5, <3>6
  <2> QED
    BY <1>1, <2>2, <2>3 DEF AloneInv, Described
<1> QED
  BY <1>2, <1>3, <1>4 DEF Outside

LEMMA AloneSteps ==
  ASSUME AloneInv, OneAtATime, [SessionNext]_sessionVars
  PROVE  AloneInv'
<1>1. Described
  BY SessionSteps DEF AloneInv
<1>2. ASSUME NEW c \in Calls, AloneNext(c) PROVE AloneInv'
  <2>1. \A d \in Calls : d = c
    BY DEF OneAtATime
  <2> QED
    BY <1>1, <1>2, <2>1 DEF AloneInv, AloneNext, Described
<1>3. CASE Begins(Ops, Labels)
  <2>1. \E c \in Calls : AloneNext(c)
    BY <1>3, AloneBegins, AloneOtherBegins, AloneReaps DEF Begins
  <2> QED
    BY <1>2, <2>1
<1>4. CASE Continues
  <2>1. (\E c \in Calls : AloneNext(c)) \/ \E s \in Sessions : Expire(s)
    BY <1>4, AloneGuard, AloneSwap, AloneWrite, AlonePoint, AloneEnforce, AloneUpdate,
       AloneEnds, AloneReaps
    DEF Continues
  <2> QED
    BY <1>2, <2>1, AloneOutside
<1> QED
  BY <1>3, <1>4, AloneOutside DEF SessionNext, Work

\* What the keys, the index and the pointer are to the one call in flight, and when
\* none is: no session is active twice, and the active one is pointed at.
THEOREM AloneInvariant ==
  ASSUME OneAtATime
  PROVE  SessionSpec => []AloneInv
<1>1. AloneInv /\ [SessionNext]_sessionVars => AloneInv'
  BY AloneSteps
<1> QED
  BY <1>1, AloneStarts, PTL DEF SessionSpec

\* A label has at most one active session whenever no call runs, if calls come
\* one at a time, wherever the service restarts.
THEOREM AloneOneActive ==
  ASSUME OneAtATime
  PROVE  SessionSpec => []OneActivePerLabel
<1>1. AloneInv => OneActivePerLabel
  BY DEF AloneInv, ActiveIsPointed, OneActivePerLabel
<1> QED
  BY <1>1, AloneInvariant, PTL

\* The pointer of a start or resume leaves no session of another member, and no
\* such session is paused, if calls come one at a time.
THEOREM AloneDisplaces ==
  ASSUME OneAtATime
  PROVE  SessionSpec => NeverDisplacedByOthers
<1> DEFINE Owned == \A c \in Calls, s \in Sessions :
       /\ Swap(c) \/ Point(c)
       /\ meta[s] # NoMeta /\ meta[s].owner # NoMember
       /\ \/ meta[s].status = "active" /\ meta'[s].status = "paused"
          \/ \E l \in Labels : ptr[l] = s /\ ptr'[l] # s
       => call[c].member = meta[s].owner
<1>1. AloneInv /\ [SessionNext]_sessionVars => [Owned]_sessionVars
  <2> SUFFICES ASSUME AloneInv, NEW c \in Calls, NEW s \in Sessions,
                      Swap(c) \/ Point(c),
                      meta[s] # NoMeta, meta[s].owner # NoMember,
                      \/ meta[s].status = "active" /\ meta'[s].status = "paused"
                      \/ \E l \in Labels : ptr[l] = s /\ ptr'[l] # s
               PROVE  OwnedBy(s, call[c].member)
    BY DEF OwnedBy
  <2>1. /\ call[c] \in CallRecord /\ call[c] # Idle /\ call[c].op \in {"start", "resume"}
        /\ SwapKnows(c) /\ call[c].label \in Labels
    BY DEF Swap, Point, At, AloneInv, SessionTypeOK, CallRecord
  <2>2. CASE Point(c)
    <3>1. ptr[call[c].label] = call[c].sid
      BY <2>1, <2>2 DEF SwapKnows, Point, At
    <3> QED
      BY <2>1, <2>2, <3>1 DEF Point, AloneInv, SessionTypeOK
  <2>3. CASE Swap(c)
    <3> DEFINE l == call[c].label
    <3>1. call[c].pc = "swap" /\ ~Refused(c)
      BY <2>1, <2>3 DEF Swap, At, SwapKnows
    <3>2. s \in Displaced(l, call[c].sid) \/ (s = call[c].sid /\ call[c].prev # NoLabel)
      <4>1. CASE ptr[l] # call[c].seen
        BY <2>1, <2>3, <4>1 DEF Swap, AloneInv
      <4>2. CASE ptr[l] = call[c].seen /\ s \notin Displaced(l, call[c].sid)
        <5>1. meta'[s] = meta[s]
          BY <2>3, <4>2 DEF Swap
        <5>2. PICK k \in Labels : ptr[k] = s /\ ptr'[k] # s
          BY <5>1
        <5>3. ptr'[k] = IF k = l THEN call[c].sid
                        ELSE IF k = call[c].prev /\ ptr[k] = call[c].sid THEN NoSession
                        ELSE ptr[k]
          BY <2>3, <4>2 DEF Swap
        <5>4. CASE k = l
          <6>1. s # call[c].sid /\ s # NoSession
            BY <5>2, <5>3, <5>4, Sentinels
          <6> QED
            BY <4>2, <5>2, <5>4, <6>1 DEF Displaced
        <5>5. CASE k # l
          BY <5>2, <5>3, <5>5, Sentinels
        <5> QED
          BY <5>4, <5>5
      <4> QED
        BY <4>1, <4>2
    <3>3. CASE s \in Displaced(l, call[c].sid)
      BY <3>1, <3>3 DEF Refused, Displaced
    <3>4. CASE s = call[c].sid /\ call[c].prev # NoLabel
      BY <2>1, <3>1, <3>4 DEF SwapKnows, IsOwned
    <3> QED
      BY <3>2, <3>3, <3>4
  <2> QED
    BY <2>2, <2>3
<1> HIDE DEF Owned
<1>2. SessionSpec => [][Owned]_sessionVars
  BY <1>1, AloneInvariant, PTL DEF SessionSpec
<1> QED
  BY <1>2 DEF Owned, NeverDisplacedByOthers

\* An update writes into no session of another member, if calls come one at a
\* time.
THEOREM AloneWrites ==
  ASSUME OneAtATime
  PROVE  SessionSpec => NeverWrittenByOthers
<1> DEFINE Own == \A c \in Calls :
       /\ UpdateStore(c)
       /\ meta[call[c].sid] # NoMeta /\ meta[call[c].sid].owner # NoMember
       => call[c].member = meta[call[c].sid].owner
<1>1. AloneInv /\ [SessionNext]_sessionVars => [Own]_sessionVars
  <2> SUFFICES ASSUME AloneInv, NEW c \in Calls, UpdateStore(c),
                      meta[call[c].sid] # NoMeta, meta[call[c].sid].owner # NoMember
               PROVE  OwnedBy(call[c].sid, call[c].member)
    BY DEF OwnedBy
  <2> QED
    BY DEF AloneInv, WriteKnows, IsOwned, UpdateStore, At
<1> HIDE DEF Own
<1>2. SessionSpec => [][Own]_sessionVars
  BY <1>1, AloneInvariant, PTL DEF SessionSpec
<1> QED
  BY <1>2 DEF Own, NeverWrittenByOthers

\* A completed session whose job is queued is not evicted, if calls come one at a
\* time: the look and the eviction are two steps.
THEOREM AloneEvicts ==
  ASSUME OneAtATime
  PROVE  SessionSpec => QueuedNotEvicted
<1> DEFINE Pinned == \A c \in Calls, s \in Sessions :
       /\ Evict(c) /\ meta[s] # NoMeta /\ meta[s].status = "completed"
       /\ meta[s].distillation = "queued"
       => meta'[s] # NoMeta
<1>1. AloneInv /\ [SessionNext]_sessionVars => [Pinned]_sessionVars
  <2> SUFFICES ASSUME AloneInv, NEW c \in Calls, NEW s \in Sessions, Evict(c),
                      meta[s] # NoMeta, meta[s].status = "completed",
                      meta[s].distillation = "queued"
               PROVE  meta'[s] # NoMeta
    OBVIOUS
  <2>1. s # call[c].seen
    BY DEF AloneInv, WriteKnows, Evict, At
  <2> QED
    BY <2>1 DEF Evict, AloneInv, SessionTypeOK
<1> HIDE DEF Pinned
<1>2. SessionSpec => [][Pinned]_sessionVars
  BY <1>1, AloneInvariant, PTL DEF SessionSpec
<1> QED
  BY <1>2 DEF Pinned, QueuedNotEvicted
===============================================================================

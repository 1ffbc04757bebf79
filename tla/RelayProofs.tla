------------------------------ MODULE RelayProofs ------------------------------
(***************************************************************************)
(* Relay leases for every number of labels, members, requests and grants:  *)
(* the invariants MCRelayLease checks, and that the lease implements the   *)
(* abstract fenced lock.  Scope sessions of Relay for every number of      *)
(* screens, calls, members and days: one answer wins, Bridge is told with  *)
(* the owner's key, and not twice while a marker lives.                    *)
(***************************************************************************)
EXTENDS RelayLease, RelayScope, TLAPS

-------------------------------------------------------------------------------
(* Leases.                                                                  *)

\* What a lease that has been aged still is.
LEMMA AgedLease ==
  ASSUME NEW l \in Leases \cup {NoLease}
  PROVE  /\ Aged(l, NoLease) \in Leases \cup {NoLease}
         /\ Aged(l, NoLease) # NoLease =>
              /\ l # NoLease
              /\ Aged(l, NoLease).token  = l.token
              /\ Aged(l, NoLease).holder = l.holder
              /\ Aged(l, NoLease).owner  = l.owner
  BY NoLeaseIsFresh, TtlsArePositive DEF Aged, Leases, Ttls

\* The same of a claim; a claim has no token.
LEMMA AgedClaim ==
  ASSUME NEW c \in Claims \cup {NoClaim}
  PROVE  Aged(c, NoClaim) \in Claims \cup {NoClaim}
  BY NoLeaseIsFresh, TtlsArePositive DEF Aged, Claims, Ttls

\* The fields of a request, for every handler that reads them.
LEMMA RequestFields ==
  ASSUME TypeOK, NEW p \in Procs, req[p] # NoReq
  PROVE  /\ req[p] \in Requests
         /\ [req[p] EXCEPT !.at = "claim"] \in Requests
  BY DEF TypeOK, Requests

\* Type correctness of every variable, through every handler (leases.py,
\* mcp_server.py).
THEOREM TypeCorrect == Spec => []TypeOK
<1>1. Init => TypeOK
  BY MaxFenceIsNat DEF Init, TypeOK, Leases, Claims, Tokens
<1>2. TypeOK /\ [Next]_vars => TypeOK'
  <2> SUFFICES ASSUME TypeOK, [Next]_vars PROVE TypeOK'
    OBVIOUS
  <2>1. CASE Tick
    BY <2>1, AgedLease, AgedClaim DEF Tick, TypeOK
  <2>2. CASE Restart
    BY <2>2 DEF Restart, TypeOK
  <2>3. ASSUME NEW a \in Labels, NEW m \in Callers, NEW ttl \in Ttls,
               AcquireLease(a, m, ttl)
        PROVE  TypeOK'
    <3>1. m \in Members
      BY OwnerIsMember DEF Callers
    <3>2. Incr \in Tokens \ {0}
      BY <2>3, MaxFenceIsNat DEF AcquireLease, Incr, TypeOK, Tokens
    <3> QED
      BY <2>3, <3>1, <3>2 DEF AcquireLease, TypeOK, Leases
  <2>4. ASSUME NEW a \in Labels, NEW m \in Callers, NEW ttl \in Ttls,
               AcquireClaim(a, m, ttl)
        PROVE  TypeOK'
    <3>1. m \in Members
      BY OwnerIsMember DEF Callers
    <3> QED
      BY <2>4, <3>1 DEF AcquireClaim, TypeOK, Claims
  <2>5. ASSUME NEW p \in Procs, NEW op \in {"release", "heartbeat"},
               NEW a \in Labels, NEW m \in Callers, NEW t \in Tokens,
               Send(p, op, a, m, t)
        PROVE  TypeOK'
    <3>1. m \in Members
      BY OwnerIsMember DEF Callers
    <3>2. [op |-> op, at |-> "lease", label |-> a, member |-> m,
           enforce |-> auth, token |-> t] \in Requests
      BY <3>1 DEF Requests, TypeOK
    <3> QED
      BY <2>5, <3>2 DEF Send, TypeOK
  <2>6. ASSUME NEW p \in Procs, ReleaseLease(p)
        PROVE  TypeOK'
    BY <2>6, RequestFields DEF ReleaseLease, TypeOK, Answer
  <2>7. ASSUME NEW p \in Procs, ReleaseClaim(p)
        PROVE  TypeOK'
    BY <2>7 DEF ReleaseClaim, TypeOK, Answer
  <2>8. ASSUME NEW p \in Procs, Heartbeat(p)
        PROVE  TypeOK'
    <3>1. Beats(req[p]) => [lease EXCEPT !.left = ClaimTtl] \in Leases
      BY TtlsArePositive DEF TypeOK, Beats, LeaseReleasable, HeldBy, Leases, Ttls
    <3> QED
      BY <2>8, <3>1 DEF Heartbeat, TypeOK, Answer
  <2>9. CASE UNCHANGED vars
    BY <2>9 DEF vars, TypeOK
  <2> QED
    BY <2>1, <2>2, <2>3, <2>4, <2>5, <2>6, <2>7, <2>8, <2>9 DEF Next
<1> QED
  BY <1>1, <1>2, PTL DEF Spec

\* leases.py:3-14: the live lease carries the newest token, however many
\* grants, expiries, releases and restarts came before.
THEOREM TokenIsNewest == Spec => []CurrentTokenIsNewest
<1>1. Init => CurrentTokenIsNewest
  BY NoLeaseIsFresh DEF Init, CurrentTokenIsNewest
<1>2. TypeOK /\ CurrentTokenIsNewest /\ [Next]_vars => CurrentTokenIsNewest'
  <2> SUFFICES ASSUME TypeOK, CurrentTokenIsNewest, [Next]_vars
               PROVE  CurrentTokenIsNewest'
    OBVIOUS
  <2>1. CASE Tick
    BY <2>1, AgedLease DEF Tick, TypeOK, CurrentTokenIsNewest
  <2>2. ASSUME NEW a \in Labels, NEW m \in Callers, NEW ttl \in Ttls,
               AcquireLease(a, m, ttl)
        PROVE  CurrentTokenIsNewest'
    BY <2>2 DEF AcquireLease, CurrentTokenIsNewest
  <2>3. ASSUME NEW p \in Procs, ReleaseLease(p)
        PROVE  CurrentTokenIsNewest'
    BY <2>3 DEF ReleaseLease, CurrentTokenIsNewest
  <2>4. ASSUME NEW p \in Procs, Heartbeat(p)
        PROVE  CurrentTokenIsNewest'
    BY <2>4
    DEF Heartbeat, Beats, LeaseReleasable, HeldBy, CurrentTokenIsNewest, TypeOK, Leases
  <2>5. CASE UNCHANGED <<lease, fence>>
    BY <2>5 DEF CurrentTokenIsNewest
  <2> QED
    BY <2>1, <2>2, <2>3, <2>4, <2>5
    DEF Next, vars, Restart, AcquireClaim, Send, ReleaseClaim
<1> QED
  BY <1>1, <1>2, TypeCorrect, PTL DEF Spec

\* principal.py:69-98 and the enforce flag of leases.py:154-163: no call that
\* was sent while authentication was off survives it being switched on.
THEOREM NoUncheckedCall == Spec => []AuthCoversRequests
<1>1. Init => AuthCoversRequests
  BY DEF Init, AuthCoversRequests
<1>2. TypeOK /\ AuthCoversRequests /\ [Next]_vars => AuthCoversRequests'
  <2> SUFFICES ASSUME TypeOK, AuthCoversRequests, [Next]_vars
               PROVE  AuthCoversRequests'
    OBVIOUS
  <2>1. CASE Restart
    BY <2>1 DEF Restart, AuthCoversRequests
  <2>2. ASSUME NEW p \in Procs, NEW op \in {"release", "heartbeat"},
               NEW a \in Labels, NEW m \in Callers, NEW t \in Tokens,
               Send(p, op, a, m, t)
        PROVE  AuthCoversRequests'
    BY <2>2 DEF Send, AuthCoversRequests, TypeOK
  <2>3. ASSUME NEW p \in Procs, ReleaseLease(p) \/ ReleaseClaim(p) \/ Heartbeat(p)
        PROVE  AuthCoversRequests'
    <3>1. /\ auth' = auth
          /\ \A q \in Procs : \/ req'[q] = NoReq
                              \/ req'[q] = req[q]
                              \/ /\ req[q] # NoReq
                                 /\ req'[q] = [req[q] EXCEPT !.at = "claim"]
      BY <2>3 DEF ReleaseLease, ReleaseClaim, Heartbeat, Answer, TypeOK
    <3>2. \A q \in Procs : req[q] # NoReq =>
             [req[q] EXCEPT !.at = "claim"].enforce = req[q].enforce
      BY DEF TypeOK, Requests
    <3> QED
      BY <3>1, <3>2 DEF AuthCoversRequests
  <2>4. CASE UNCHANGED <<auth, req>>
    BY <2>4 DEF AuthCoversRequests
  <2> QED
    BY <2>1, <2>2, <2>3, <2>4 DEF Next, vars, Tick, AcquireLease, AcquireClaim
<1> QED
  BY <1>1, <1>2, TypeCorrect, PTL DEF Spec

\* leases.py:17-21: with authentication on, only its own member or its TTL
\* ends an owned lease.
THEOREM LeaseEndsByOwner == Spec => OwnedLeaseEndsByOwner
<1> DEFINE Ends(m) ==
      /\ auth /\ lease # NoLease /\ lease' = NoLease /\ lease.owner = m
      => \/ lease.left = 1
         \/ \E p \in Procs : /\ req[p] # NoReq
                             /\ req[p].op = "release"
                             /\ req[p].member = m
                             /\ req[p].label = lease.holder
<1>1. TypeOK /\ AuthCoversRequests /\ [Next]_vars => \A m \in Members : Ends(m)
  <2> SUFFICES ASSUME TypeOK, AuthCoversRequests, [Next]_vars, NEW m \in Members,
                      auth, lease # NoLease, lease' = NoLease, lease.owner = m
               PROVE  \/ lease.left = 1
                      \/ \E p \in Procs : /\ req[p] # NoReq
                                          /\ req[p].op = "release"
                                          /\ req[p].member = m
                                          /\ req[p].label = lease.holder
    OBVIOUS
  <2>1. CASE Tick
    <3>1. lease \in Leases
      BY DEF TypeOK
    <3>2. lease.left # 1 => [lease EXCEPT !.left = @ - 1] \in Leases
      BY <3>1, TtlsArePositive DEF Leases, Ttls
    <3> QED
      BY <2>1, <3>2, NoLeaseIsFresh DEF Tick, Aged
  <2>2. ASSUME NEW p \in Procs, ReleaseLease(p)
        PROVE  /\ req[p] # NoReq
               /\ req[p].op = "release"
               /\ req[p].member = m
               /\ req[p].label = lease.holder
    <3>1. req[p] # NoReq /\ req[p].op = "release" /\ LeaseReleasable(req[p])
      BY <2>2 DEF ReleaseLease
    <3>2. req[p].enforce
      BY <3>1 DEF AuthCoversRequests
    <3> QED
      BY <3>1, <3>2, NullsAreFresh DEF LeaseReleasable, HeldBy, MayAct
  <2>3. ASSUME NEW p \in Procs, Heartbeat(p)
        PROVE  FALSE
    <3>1. Beats(req[p]) => [lease EXCEPT !.left = ClaimTtl] \in Leases
      BY TtlsArePositive DEF TypeOK, Beats, LeaseReleasable, HeldBy, Leases, Ttls
    <3> QED
      BY <2>3, <3>1, NoLeaseIsFresh DEF Heartbeat
  <2> QED
    BY <2>1, <2>2, <2>3, NoLeaseIsFresh
    DEF Next, vars, Restart, AcquireLease, AcquireClaim, Send, ReleaseClaim
<1> QED
  BY <1>1, TypeCorrect, NoUncheckedCall, PTL DEF Spec, OwnedLeaseEndsByOwner

\* leases.py:3-14: the lease implements the fenced lock: nobody gets it while
\* it is held, each grant is a new epoch, and no epoch returns.
THEOREM LeaseIsFencedLock == Spec => ImplementsLock
<1> DEFINE who == IF lease = NoLease THEN NoLease ELSE <<lease.holder, lease.owner>>
           Owners == Labels \X (Members \cup {NoMember})
<1>1. Init => Lock!LockInit
  BY DEF Init, Lock!LockInit, Leases
<1>2. TypeOK /\ [Next]_vars => [Lock!LockNext]_(Lock!lockVars)
  <2> SUFFICES ASSUME TypeOK, [Next]_vars
               PROVE  \/ Lock!End
                      \/ \E o \in Owners : Lock!Grant(o)
                      \/ who' = who /\ fence' = fence
    BY DEF Lock!LockNext, Lock!lockVars
  <2>1. lease # NoLease => who # NoLease /\ who \in Owners
    BY NoLeaseIsFresh DEF TypeOK, Leases
  <2>2. CASE Tick
    <3>1. \/ lease' = NoLease
          \/ lease # NoLease /\ lease' # NoLease /\ who' = who
      BY <2>2, AgedLease DEF Tick, TypeOK
    <3> QED
      BY <2>1, <2>2, <3>1 DEF Tick, Lock!End
  <2>3. ASSUME NEW a \in Labels, NEW m \in Callers, NEW ttl \in Ttls,
               AcquireLease(a, m, ttl)
        PROVE  \E o \in Owners : Lock!Grant(o)
    <3>1. <<a, m>> \in Owners
      BY OwnerIsMember DEF Callers
    <3>2. lease' # NoLease /\ lease'.holder = a /\ lease'.owner = m
      <4>1. m \in Members
        BY OwnerIsMember DEF Callers
      <4>2. Incr \in Tokens \ {0}
        BY <2>3, MaxFenceIsNat DEF AcquireLease, Incr, TypeOK, Tokens
      <4> QED
        BY <2>3, <4>1, <4>2, NoLeaseIsFresh DEF AcquireLease, Leases
    <3>3. Lock!Grant(<<a, m>>)
      BY <2>3, <3>2 DEF AcquireLease, Incr, Lock!Grant
    <3> QED
      BY <3>1, <3>3
  <2>4. ASSUME NEW p \in Procs, ReleaseLease(p)
        PROVE  Lock!End \/ (who' = who /\ fence' = fence)
    BY <2>1, <2>4 DEF ReleaseLease, LeaseReleasable, HeldBy, Lock!End
  <2>5. ASSUME NEW p \in Procs, Heartbeat(p)
        PROVE  who' = who /\ fence' = fence
    <3>1. CASE Beats(req[p])
      <4>1. /\ lease # NoLease
            /\ lease' = [lease EXCEPT !.left = ClaimTtl]
            /\ [lease EXCEPT !.left = ClaimTtl] \in Leases
        BY <2>5, <3>1, TtlsArePositive
        DEF Heartbeat, TypeOK, Beats, LeaseReleasable, HeldBy, Leases, Ttls
      <4>2. lease'.holder = lease.holder /\ lease'.owner = lease.owner
        BY <4>1 DEF TypeOK, Leases
      <4>3. fence' = fence
        BY <2>5 DEF Heartbeat
      <4> QED
        BY <4>1, <4>2, <4>3, NoLeaseIsFresh
    <3>2. CASE ~Beats(req[p])
      BY <2>5, <3>2 DEF Heartbeat
    <3> QED
      BY <3>1, <3>2
  <2>6. CASE UNCHANGED <<lease, fence>>
    BY <2>6
  <2> QED
    BY <2>2, <2>3, <2>4, <2>5, <2>6
    DEF Next, vars, Restart, AcquireClaim, Send, ReleaseClaim
<1> QED
  BY <1>1, <1>2, TypeCorrect, PTL DEF Spec, ImplementsLock, Lock!LockSpec

-------------------------------------------------------------------------------
(* Scope sessions.                                                          *)


IInv == /\ ScopeTypeOK /\ LifeInv /\ WinnerInv /\ CollectInv /\ ToldInv
        /\ OneAnswer /\ OwnersKey /\ ToldOncePerTtl

-------------------------------------------------------------------------------
(* The shapes of things.                                                    *)

Marks    == [pc : {"mark"}, todo : SUBSET (Screens \X Answers)]
Collects == [pc : {"collect"}, todo : SUBSET (Screens \X Answers),
             item : Screens \X Answers]

\* Parts of a session that a step writes anew.
LEMMA ScopeUpdates ==
  ASSUME NEW r \in Scopes
  PROVE  /\ \A i \in 0..AbandonAfter : /\ [r EXCEPT !.idle = i] \in Scopes
                                       /\ [r EXCEPT !.idle = i].status = r.status
         /\ \A st \in {"active", "completed", "abandoned"} :
              /\ [r EXCEPT !.status = st] \in Scopes
              /\ [r EXCEPT !.status = st].status = st
         /\ r.idle \in 0..AbandonAfter /\ r.mcp \in BOOLEAN
  BY DEF Scopes

\* No activity for none of the days there are.
LEMMA TouchedIs ==
  ASSUME ScopeTypeOK, scope # NoScope
  PROVE  Touched \in Scopes /\ Touched.status = scope.status
<1>1. scope \in Scopes
  BY DEF ScopeTypeOK
<1>2. 0 \in 0..AbandonAfter
  BY ScopeTimes
<1> QED
  BY <1>1, <1>2, ScopeUpdates DEF Touched

\* An arbiter keeps its answer whatever time it has left.
LEMMA ArbiterUpdates ==
  ASSUME NEW a \in Arbiters, NEW n \in 0..Ttl
  PROVE  /\ [a EXCEPT !.left = n] \in Arbiters
         /\ [a EXCEPT !.left = n].answer = a.answer
         /\ [a EXCEPT !.left = n].left = n
  BY DEF Arbiters

\* Bridge is told one thing more.
LEMMA Appended ==
  ASSUME NEW seqs \in [Screens -> Seq(Told)], NEW s \in Screens, NEW t \in Told
  PROVE  [seqs EXCEPT ![s] = Append(@, t)] \in [Screens -> Seq(Told)]
<1>1. Append(seqs[s], t) \in Seq(Told)
  OBVIOUS
<1> QED
  BY <1>1

\* The program counter of a call tells its kind.
LEMMA CallKinds ==
  ASSUME ScopeTypeOK, NEW c \in Surfaces
  PROVE  /\ pending[c] # NoCall => pending[c] \in InFlight
         /\ At(c, "mirror") \/ At(c, "list") => pending[c] \in MirrorCalls
         /\ At(c, "arbiter") \/ Winner(c) => pending[c] \in AnswerCalls
         /\ At(c, "mark") => pending[c] \in Marks
         /\ At(c, "collect") => pending[c] \in Collects
         /\ At(c, "close") \/ At(c, "expire") => pending[c] \in CloseCalls
<1>1. pending[c] \in InFlight \cup {NoCall}
  BY DEF ScopeTypeOK
<1>2. pending[c] \in MirrorCalls => pending[c].pc \in {"mirror", "list"}
  BY DEF MirrorCalls
<1>3. pending[c] \in AnswerCalls => pending[c].pc \in {"arbiter", "resolve", "tell"}
  BY DEF AnswerCalls
<1>4. pending[c] \in Marks => pending[c].pc = "mark"
  BY DEF Marks
<1>5. pending[c] \in Collects => pending[c].pc = "collect"
  BY DEF Collects
<1>6. pending[c] \in CloseCalls => pending[c].pc \in {"close", "expire"}
  BY DEF CloseCalls
<1>7. CollectCalls = Marks \cup Collects
  BY DEF CollectCalls, Marks, Collects
<1> QED
  BY <1>1, <1>2, <1>3, <1>4, <1>5, <1>6, <1>7 DEF At, Winner, InFlight

\* A call in hand, after a step of its own.
LEMMA NextPc ==
  ASSUME ScopeTypeOK, NEW c \in Surfaces
  PROVE  /\ At(c, "mirror") => [pending[c] EXCEPT !.pc = "list"] \in InFlight
         /\ At(c, "arbiter") => [pending[c] EXCEPT !.pc = "resolve"] \in InFlight
         /\ At(c, "resolve") => [pending[c] EXCEPT !.pc = "tell"] \in InFlight
         /\ At(c, "close") => [pending[c] EXCEPT !.pc = "expire"] \in InFlight
<1>1. At(c, "mirror") => [pending[c] EXCEPT !.pc = "list"] \in MirrorCalls
  BY CallKinds DEF MirrorCalls
<1>2. At(c, "arbiter") => [pending[c] EXCEPT !.pc = "resolve"] \in AnswerCalls
  BY CallKinds DEF AnswerCalls
<1>3. At(c, "resolve") => [pending[c] EXCEPT !.pc = "tell"] \in AnswerCalls
  BY CallKinds DEF AnswerCalls, Winner
<1>4. At(c, "close") => [pending[c] EXCEPT !.pc = "expire"] \in CloseCalls
  BY CallKinds DEF CloseCalls
<1> QED
  BY <1>1, <1>2, <1>3, <1>4 DEF InFlight

\* The walk of a poll.
LEMMA PollKinds ==
  ASSUME NEW todo \in SUBSET (Screens \X Answers), NEW item \in todo
  PROVE  /\ [pc |-> "mark", todo |-> todo] \in InFlight
         /\ [pc |-> "mark", todo |-> todo \ {item}] \in InFlight
         /\ [pc |-> "collect", todo |-> todo \ {item}, item |-> item] \in InFlight
<1>1. [pc |-> "mark", todo |-> todo] \in Marks
  BY DEF Marks
<1>2. [pc |-> "mark", todo |-> todo \ {item}] \in Marks
  BY DEF Marks
<1>3. [pc |-> "collect", todo |-> todo \ {item}, item |-> item] \in Collects
  BY DEF Collects
<1> QED
  BY <1>1, <1>2, <1>3 DEF InFlight, CollectCalls, Marks, Collects

\* What a poll reads are deferred answers of resolved screens.
LEMMA OwedIs ==
  ASSUME ScopeTypeOK, OneAnswer
  PROVE  /\ Owed \in SUBSET (Screens \X Answers)
         /\ \A item \in Owed : /\ Held(item[1]) /\ item[2].deferred
                               /\ arbiter[item[1]].answer = item[2]
<1> SUFFICES ASSUME NEW item \in Owed
             PROVE  /\ item \in Screens \X Answers
                    /\ Held(item[1]) /\ item[2].deferred
                    /\ arbiter[item[1]].answer = item[2]
  OBVIOUS
<1>1. PICK s \in Screens : /\ Shown(s) /\ screen[s].status = "resolved"
                           /\ screen[s].answer.deferred
                           /\ item = <<s, screen[s].answer>>
  BY DEF Owed
<1>2. /\ arbiter[s] # NoAnswer /\ screen[s].answer = arbiter[s].answer
  BY <1>1 DEF OneAnswer, Shown
<1>3. arbiter[s] \in Arbiters
  BY <1>2 DEF ScopeTypeOK
<1> QED
  BY <1>1, <1>2, <1>3 DEF Held, Arbiters

-------------------------------------------------------------------------------
(* Every action keeps the types.                                            *)

LEMMA TypeStep == ASSUME IInv, ScopeNext PROVE ScopeTypeOK'
<1> USE ScopeTimes DEF IInv
<1>1. CASE Day
  <2>1. \A n \in 0..Ttl : Less(n) \in 0..Ttl
    BY DEF Less
  <2>2. scope' \in Scopes \cup {NoScope}
    <3>1. scope # NoScope => IF scope.idle < AbandonAfter THEN scope.idle + 1 \in 0..AbandonAfter
                             ELSE scope.idle \in 0..AbandonAfter
      BY DEF ScopeTypeOK, Scopes
    <3>2. scope # NoScope => scope \in Scopes
      BY DEF ScopeTypeOK
    <3> QED
      BY <1>1, <3>1, <3>2, ScopeUpdates DEF Day
  <2>3. screen' \in [Screens -> ScreenRecs \cup {NoScreen}] /\ listed' \in [Screens -> Nat]
    BY <1>1 DEF Day, ScopeTypeOK
  <2>4. arbiter' \in [Screens -> Arbiters \cup {NoAnswer}]
    <3>1. ASSUME NEW s \in Screens, arbiter[s] # NoAnswer
          PROVE  [arbiter[s] EXCEPT !.left = Less(@)] \in Arbiters
      <4>1. arbiter[s] \in Arbiters
        BY <3>1 DEF ScopeTypeOK
      <4>2. arbiter[s].left \in 0..Ttl
        BY <4>1 DEF Arbiters
      <4> QED
        BY <4>1, <4>2, <2>1, ArbiterUpdates
    <3> QED
      BY <1>1, <3>1 DEF Day
  <2>5. left' \in [session : 0..Ttl, screens : 0..Ttl, order : 0..Ttl]
    BY <1>1, <2>1 DEF Day, ScopeTypeOK
  <2>6. marker' \in [Screens -> 0..Ttl]
    BY <1>1, <2>1 DEF Day, ScopeTypeOK
  <2>7. pending' = pending /\ decided' = decided
    BY <1>1 DEF Day
  <2>8. day' \in 0..MaxDay
    <3>1. day < MaxDay /\ day' = day + 1
      BY <1>1 DEF Day
    <3> QED
      BY <3>1 DEF ScopeTypeOK
  <2> QED
    BY <2>2, <2>3, <2>4, <2>5, <2>6, <2>7, <2>8 DEF ScopeTypeOK
<1>2. ASSUME NEW mcp \in BOOLEAN, CreateSession(mcp) PROVE ScopeTypeOK'
  <2>1. scope' \in Scopes
    BY <1>2 DEF CreateSession, Scopes
  <2>2. decided' \in [Screens -> Seq(Told)]
    BY <1>2 DEF CreateSession
  <2> QED
    BY <1>2, <2>1, <2>2 DEF CreateSession, ScopeTypeOK
<1>3. ASSUME NEW c \in Surfaces, NEW verdict \in {"completed", "abandoned"},
             CloseRead(c, verdict)
      PROVE  ScopeTypeOK'
  <2>1. [pc |-> "close", verdict |-> verdict] \in InFlight
    BY DEF InFlight, CloseCalls
  <2> QED
    BY <1>3, <2>1 DEF CloseRead, Suspend, ScopeTypeOK
<1>4. ASSUME NEW c \in Surfaces, CloseStatus(c) PROVE ScopeTypeOK'
  <2>1. scope # NoScope /\ pending[c] \in CloseCalls
    BY <1>4, CallKinds DEF CloseStatus, LifeInv, At
  <2>2. scope' \in Scopes
    <3>1. scope \in Scopes /\ pending[c].verdict \in {"completed", "abandoned"}
      BY <2>1 DEF ScopeTypeOK, CloseCalls
    <3>2. scope' = [scope EXCEPT !.status = pending[c].verdict]
      BY <1>4 DEF CloseStatus
    <3> QED
      BY <3>1, <3>2, ScopeUpdates
  <2> QED
    BY <1>4, <2>2, NextPc DEF CloseStatus, Resume, ScopeTypeOK
<1>5. ASSUME NEW c \in Surfaces, CloseExpire(c) PROVE ScopeTypeOK'
  <2>1. arbiter' \in [Screens -> Arbiters \cup {NoAnswer}]
    <3>1. ASSUME NEW s \in Screens, arbiter[s] # NoAnswer
          PROVE  [arbiter[s] EXCEPT !.left = Ttl] \in Arbiters
      <4>1. arbiter[s] \in Arbiters
        BY <3>1 DEF ScopeTypeOK
      <4> QED
        BY <4>1, ArbiterUpdates
    <3> QED
      BY <1>5, <3>1 DEF CloseExpire, ScopeTypeOK
  <2>2. left' \in [session : 0..Ttl, screens : 0..Ttl, order : 0..Ttl]
    BY <1>5 DEF CloseExpire, ScopeTypeOK
  <2> QED
    BY <1>5, <2>1, <2>2 DEF CloseExpire, Finish, ScopeTypeOK
<1>6. ASSUME NEW c \in Surfaces, NEW s \in Screens, MirrorRead(c, s) PROVE ScopeTypeOK'
  <2>1. [pc |-> "mirror", s |-> s, new |-> screen[s] = NoScreen] \in InFlight
    BY DEF InFlight, MirrorCalls
  <2> QED
    BY <1>6, <2>1 DEF MirrorRead, Suspend, ScopeTypeOK
<1>7. ASSUME NEW c \in Surfaces, MirrorWrite(c) PROVE ScopeTypeOK'
  <2>1. [status |-> "pending", answer |-> NoAnswer] \in ScreenRecs
    BY DEF ScreenRecs
  <2>2. screen' \in [Screens -> ScreenRecs \cup {NoScreen}]
    BY <1>7, <2>1 DEF MirrorWrite, ScopeTypeOK
  <2>3. pending' \in [Surfaces -> InFlight \cup {NoCall}]
    BY <1>7, NextPc DEF MirrorWrite, Resume, Finish, ScopeTypeOK
  <2> QED
    BY <1>7, <2>2, <2>3 DEF MirrorWrite, ScopeTypeOK
<1>8. ASSUME NEW c \in Surfaces, MirrorList(c) PROVE ScopeTypeOK'
  <2>1. scope # NoScope /\ pending[c].s \in Screens
    BY <1>8, CallKinds DEF MirrorList, LifeInv, At, MirrorCalls
  <2>2. scope' \in Scopes
    BY <1>8, <2>1, TouchedIs DEF MirrorList
  <2> QED
    BY <1>8, <2>1, <2>2 DEF MirrorList, Finish, ScopeTypeOK
<1>9. ASSUME NEW c \in Surfaces, NEW s \in Screens, NEW who \in {Owner} \cup Admins,
             NEW choice \in Choices, AnswerRead(c, s, who, choice)
      PROVE  ScopeTypeOK'
  <2>1. scope.mcp \in BOOLEAN
    BY <1>9 DEF AnswerRead, ScopeTypeOK, Scopes
  <2>2. [pc |-> "arbiter", s |-> s, by |-> who, mcp |-> scope.mcp,
         answer |-> [choice |-> choice, deferred |-> Deferred(who)]] \in AnswerCalls
    BY <2>1 DEF AnswerCalls, Answers, Deferred
  <2> QED
    BY <1>9, <2>2 DEF AnswerRead, Suspend, ScopeTypeOK, InFlight
<1>10. ASSUME NEW c \in Surfaces, AnswerArbiter(c) PROVE ScopeTypeOK'
  <2>1. pending[c] \in AnswerCalls
    BY <1>10, CallKinds DEF AnswerArbiter
  <2>2. [answer |-> pending[c].answer, left |-> 0] \in Arbiters
    BY <2>1 DEF AnswerCalls, Arbiters
  <2>3. arbiter' \in [Screens -> Arbiters \cup {NoAnswer}]
    BY <1>10, <2>2 DEF AnswerArbiter, ScopeTypeOK
  <2>4. pending' \in [Surfaces -> InFlight \cup {NoCall}]
    BY <1>10, NextPc DEF AnswerArbiter, Resume, Finish, ScopeTypeOK
  <2> QED
    BY <1>10, <2>3, <2>4 DEF AnswerArbiter, ScopeTypeOK
<1>11. ASSUME NEW c \in Surfaces, AnswerResolve(c) PROVE ScopeTypeOK'
  <2>1. scope # NoScope /\ pending[c] \in AnswerCalls
    BY <1>11, CallKinds DEF AnswerResolve, LifeInv, At, Winner
  <2>2. [status |-> "resolved", answer |-> pending[c].answer] \in ScreenRecs
    BY <2>1 DEF AnswerCalls, ScreenRecs
  <2>3. screen' \in [Screens -> ScreenRecs \cup {NoScreen}]
    BY <1>11, <2>2 DEF AnswerResolve, ScopeTypeOK
  <2>4. scope' \in Scopes
    BY <1>11, <2>1, TouchedIs DEF AnswerResolve
  <2>5. pending' \in [Surfaces -> InFlight \cup {NoCall}]
    BY <1>11, NextPc DEF AnswerResolve, Resume, Finish, ScopeTypeOK
  <2> QED
    BY <1>11, <2>3, <2>4, <2>5 DEF AnswerResolve, ScopeTypeOK
<1>12. ASSUME NEW c \in Surfaces, AnswerTell(c) PROVE ScopeTypeOK'
  <2>1. pending[c] \in AnswerCalls
    BY <1>12, CallKinds DEF AnswerTell, Winner
  <2>2. [key |-> pending[c].by, choice |-> pending[c].answer.choice, day |-> day] \in Told
    BY <2>1 DEF AnswerCalls, Answers, Told, ScopeTypeOK
  <2>3. decided' \in [Screens -> Seq(Told)]
    <3>1. pending[c].s \in Screens /\ decided \in [Screens -> Seq(Told)]
      BY <2>1 DEF AnswerCalls, ScopeTypeOK
    <3>2. [decided EXCEPT ![pending[c].s] = Append(@, [key |-> pending[c].by,
             choice |-> pending[c].answer.choice, day |-> day])] \in [Screens -> Seq(Told)]
      BY <2>2, <3>1, Appended
    <3> QED
      BY <1>12, <3>1, <3>2 DEF AnswerTell, Tell
  <2> QED
    BY <1>12, <2>3 DEF AnswerTell, Finish, ScopeTypeOK
<1>13. ASSUME NEW c \in Surfaces, CollectRead(c) PROVE ScopeTypeOK'
  <2>1. [pc |-> "mark", todo |-> Owed] \in Marks
    BY OwedIs DEF Marks
  <2> QED
    BY <1>13, <2>1 DEF CollectRead, Suspend, ScopeTypeOK, InFlight, CollectCalls, Marks
<1>14. ASSUME NEW c \in Surfaces, CollectMark(c) PROVE ScopeTypeOK'
  <2>1. pending[c] \in Marks
    BY <1>14, CallKinds DEF CollectMark
  <2>2. pending[c].todo \in SUBSET (Screens \X Answers)
    BY <2>1 DEF Marks
  <2>3. PICK item \in pending[c].todo : CollectMark(c)!2!(item)
    BY <1>14 DEF CollectMark
  <2>4. pending' \in [Surfaces -> InFlight \cup {NoCall}]
    <3>1. /\ [pc |-> "mark", todo |-> pending[c].todo \ {item}] \in InFlight
          /\ [pc |-> "collect", todo |-> pending[c].todo \ {item}, item |-> item] \in InFlight
      BY <2>2, PollKinds
    <3> QED
      BY <2>3, <3>1 DEF GoOn, ScopeTypeOK
  <2>5. marker' \in [Screens -> 0..Ttl]
    <3>1. marker' = marker \/ marker' = [marker EXCEPT ![item[1]] = Ttl]
      BY <2>3
    <3>2. item[1] \in Screens /\ Ttl \in 0..Ttl
      BY <2>2
    <3> QED
      BY <3>1, <3>2 DEF ScopeTypeOK
  <2> QED
    BY <1>14, <2>4, <2>5 DEF CollectMark, ScopeTypeOK
<1>15. ASSUME NEW c \in Surfaces, CollectTell(c) PROVE ScopeTypeOK'
  <2>1. pending[c] \in Collects
    BY <1>15, CallKinds DEF CollectTell
  <2>2. pending[c].todo \in SUBSET (Screens \X Answers) /\ pending[c].item \in Screens \X Answers
    BY <2>1 DEF Collects
  <2>3. pending' \in [Surfaces -> InFlight \cup {NoCall}]
    <3>1. [pc |-> "mark", todo |-> pending[c].todo] \in InFlight
      BY <2>2 DEF InFlight, CollectCalls
    <3> QED
      BY <1>15, <3>1 DEF CollectTell, GoOn, ScopeTypeOK
  <2>4. [key |-> Owner, choice |-> pending[c].item[2].choice, day |-> day] \in Told
    BY <2>2 DEF Answers, Told, ScopeTypeOK
  <2>5. decided' \in [Screens -> Seq(Told)]
    <3>1. pending[c].item[1] \in Screens /\ decided \in [Screens -> Seq(Told)]
      BY <2>2 DEF ScopeTypeOK
    <3>2. [decided EXCEPT ![pending[c].item[1]] = Append(@, [key |-> Owner,
             choice |-> pending[c].item[2].choice, day |-> day])] \in [Screens -> Seq(Told)]
      BY <2>4, <3>1, Appended
    <3> QED
      BY <1>15, <3>1, <3>2 DEF CollectTell, Tell
  <2> QED
    BY <1>15, <2>3, <2>5 DEF CollectTell, ScopeTypeOK
<1>16. ASSUME NEW c \in Surfaces, Fail(c) PROVE ScopeTypeOK'
  BY <1>16 DEF Fail, Finish, ScopeTypeOK
<1> QED
  BY <1>1, <1>2, <1>3, <1>4, <1>5, <1>6, <1>7, <1>8, <1>9, <1>10, <1>11, <1>12,
     <1>13, <1>14, <1>15, <1>16 DEF ScopeNext

-------------------------------------------------------------------------------
(* What a step does to the calls.                                           *)

\* A call that is begun or done; every other one is where it was.
LEMMA Frames ==
  ASSUME ScopeTypeOK, NEW c \in Surfaces
  PROVE  /\ \A r : Suspend(c, r) =>
              /\ pending[c] = NoCall /\ pending'[c] = r
              /\ \A d \in Surfaces \ {c} : pending'[d] = pending[d]
         /\ Finish(c) =>
              /\ pending'[c] = NoCall
              /\ \A d \in Surfaces \ {c} : pending'[d] = pending[d]
         /\ \A pc : Resume(c, pc) =>
              /\ pending'[c] = [pending[c] EXCEPT !.pc = pc]
              /\ \A d \in Surfaces \ {c} : pending'[d] = pending[d]
  BY DEF ScopeTypeOK, Suspend, Finish, Resume

\* A call that goes on keeps what it knows.
LEMMA GoesOn ==
  ASSUME ScopeTypeOK, NEW c \in Surfaces
  PROVE  /\ At(c, "mirror") /\ Resume(c, "list") =>
              pending'[c] # NoCall /\ pending'[c].pc = "list"
         /\ At(c, "close") /\ Resume(c, "expire") =>
              pending'[c] # NoCall /\ pending'[c].pc = "expire"
         /\ \A pc \in {"resolve", "tell"} :
              (At(c, "arbiter") \/ At(c, "resolve")) /\ Resume(c, pc) =>
                /\ pending'[c] # NoCall /\ pending'[c].pc = pc
                /\ pending'[c].s = pending[c].s /\ pending'[c].answer = pending[c].answer
                /\ pending'[c].mcp = pending[c].mcp /\ pending'[c].by = pending[c].by
<1>1. ASSUME NEW r \in AnswerCalls, NEW pc \in {"resolve", "tell"}
      PROVE  /\ [r EXCEPT !.pc = pc] \in AnswerCalls
             /\ [r EXCEPT !.pc = pc].pc = pc /\ [r EXCEPT !.pc = pc].s = r.s
             /\ [r EXCEPT !.pc = pc].answer = r.answer
             /\ [r EXCEPT !.pc = pc].mcp = r.mcp /\ [r EXCEPT !.pc = pc].by = r.by
  BY DEF AnswerCalls
<1>2. ASSUME NEW r \in MirrorCalls
      PROVE  [r EXCEPT !.pc = "list"] \in MirrorCalls /\ [r EXCEPT !.pc = "list"].pc = "list"
  BY DEF MirrorCalls
<1>3. ASSUME NEW r \in CloseCalls
      PROVE  [r EXCEPT !.pc = "expire"] \in CloseCalls /\ [r EXCEPT !.pc = "expire"].pc = "expire"
  BY DEF CloseCalls
<1>4. NoCall \notin AnswerCalls \cup MirrorCalls \cup CloseCalls
  BY NothingIsARecord DEF InFlight
<1>5. \A pc : Resume(c, pc) => pending'[c] = [pending[c] EXCEPT !.pc = pc]
  BY Frames
<1>6. ASSUME At(c, "mirror"), Resume(c, "list")
      PROVE  pending'[c] # NoCall /\ pending'[c].pc = "list"
  <2>1. pending[c] \in MirrorCalls
    BY <1>6, CallKinds
  <2>2. pending'[c] = [pending[c] EXCEPT !.pc = "list"]
    BY <1>6, <1>5
  <2>3. pending'[c] \in MirrorCalls /\ pending'[c].pc = "list"
    BY <1>2, <2>1, <2>2
  <2> QED
    BY <1>4, <2>3
<1>7. ASSUME At(c, "close"), Resume(c, "expire")
      PROVE  pending'[c] # NoCall /\ pending'[c].pc = "expire"
  <2>1. pending[c] \in CloseCalls
    BY <1>7, CallKinds
  <2>2. pending'[c] = [pending[c] EXCEPT !.pc = "expire"]
    BY <1>7, <1>5
  <2>3. pending'[c] \in CloseCalls /\ pending'[c].pc = "expire"
    BY <1>3, <2>1, <2>2
  <2> QED
    BY <1>4, <2>3
<1>8. ASSUME NEW pc \in {"resolve", "tell"}, At(c, "arbiter") \/ At(c, "resolve"),
             Resume(c, pc)
      PROVE  /\ pending'[c] # NoCall /\ pending'[c].pc = pc
             /\ pending'[c].s = pending[c].s /\ pending'[c].answer = pending[c].answer
             /\ pending'[c].mcp = pending[c].mcp /\ pending'[c].by = pending[c].by
  <2>1. pending[c] \in AnswerCalls
    BY <1>8, CallKinds DEF Winner
  <2>2. pending'[c] = [pending[c] EXCEPT !.pc = pc]
    BY <1>8, <1>5
  <2>3. pending'[c] \in AnswerCalls
    <3>1. [pending[c] EXCEPT !.pc = pc] \in AnswerCalls
      BY <1>1, <2>1
    <3> QED
      BY <2>2, <3>1
  <2>4. /\ pending'[c].pc = pc
        /\ pending'[c].s = pending[c].s /\ pending'[c].answer = pending[c].answer
        /\ pending'[c].mcp = pending[c].mcp /\ pending'[c].by = pending[c].by
    BY <1>1, <2>1, <2>2
  <2> QED
    BY <1>4, <2>3, <2>4
<1> QED
  BY <1>6, <1>7, <1>8

\* What a poll does next is walk on or tell Bridge, if it is not done.
LEMMA PollsOn ==
  ASSUME ScopeTypeOK, NEW c \in Surfaces
  PROVE  /\ \A todo : GoOn(c, todo) =>
              /\ \/ pending'[c] = NoCall
                 \/ pending'[c].pc = "mark" /\ pending'[c].todo = todo
              /\ \A d \in Surfaces \ {c} : pending'[d] = pending[d]
         /\ \A r : pending' = [pending EXCEPT ![c] = r] =>
              /\ pending'[c] = r
              /\ \A d \in Surfaces \ {c} : pending'[d] = pending[d]
  BY DEF ScopeTypeOK, GoOn

-------------------------------------------------------------------------------
(* What the steps of an answer and of a poll do.                            *)

LEMMA AskIs ==
  ASSUME ScopeTypeOK, NEW c \in Surfaces, NEW s, NEW who, NEW choice,
         AnswerRead(c, s, who, choice)
  PROVE  /\ pending'[c].pc = "arbiter"
         /\ pending'[c].mcp = scope.mcp /\ pending'[c].by = who
         /\ pending'[c].answer.deferred = Deferred(who)
         /\ \A d \in Surfaces \ {c} : pending'[d] = pending[d]
  BY Frames DEF AnswerRead

LEMMA ArbiterIs ==
  ASSUME ScopeTypeOK, NEW c \in Surfaces, AnswerArbiter(c)
  PROVE  /\ pending[c] \in AnswerCalls /\ pending[c].s \in Screens
         /\ \A d \in Surfaces \ {c} : pending'[d] = pending[d]
         /\ \A s \in Screens : s # pending[c].s => arbiter'[s] = arbiter[s]
         /\ IF Held(pending[c].s)
            THEN /\ arbiter'[pending[c].s] = arbiter[pending[c].s]
                 /\ pending'[c] = NoCall
            ELSE /\ arbiter'[pending[c].s].answer = pending[c].answer
                 /\ arbiter'[pending[c].s].left = 0 /\ Held(pending[c].s)'
                 /\ pending'[c] # NoCall /\ pending'[c].pc = "resolve"
                 /\ pending'[c].s = pending[c].s /\ pending'[c].answer = pending[c].answer
                 /\ pending'[c].mcp = pending[c].mcp /\ pending'[c].by = pending[c].by
<1> DEFINE s == pending[c].s
           new == [answer |-> pending[c].answer, left |-> 0]
<1>1. pending[c] \in AnswerCalls /\ At(c, "arbiter")
  BY CallKinds DEF AnswerArbiter
<1>2. s \in Screens /\ new \in Arbiters
  BY <1>1, ScopeTimes DEF AnswerCalls, Arbiters
<1>3. new # NoAnswer
  BY <1>2, NothingIsARecord
<1>4. CASE Held(s)
  <2>1. arbiter' = arbiter /\ Finish(c)
    BY <1>4 DEF AnswerArbiter, Held
  <2> QED
    BY <1>1, <1>2, <1>4, <2>1, Frames
<1>5. CASE ~Held(s)
  <2>1. arbiter' = [arbiter EXCEPT ![s] = new] /\ Resume(c, "resolve")
    BY <1>5 DEF AnswerArbiter, Held
  <2>2. /\ arbiter'[s] = new /\ \A t \in Screens \ {s} : arbiter'[t] = arbiter[t]
    BY <1>2, <2>1 DEF ScopeTypeOK
  <2>3. Held(s)'
    BY <1>3, <2>1, <2>2 DEF Held, Resume, ScopeTypeOK
  <2> HIDE DEF s
  <2>4. /\ arbiter'[s].answer = pending[c].answer /\ arbiter'[s].left = 0
    BY <2>2
  <2> QED
    BY <1>1, <1>2, <1>5, <2>1, <2>2, <2>3, <2>4, Frames, GoesOn DEF s
<1> QED
  BY <1>4, <1>5

LEMMA ResolveIs ==
  ASSUME ScopeTypeOK, NEW c \in Surfaces, AnswerResolve(c)
  PROVE  /\ pending[c] \in AnswerCalls /\ pending[c].s \in Screens
         /\ \A d \in Surfaces \ {c} : pending'[d] = pending[d]
         /\ \A s \in Screens : s # pending[c].s => screen'[s] = screen[s]
         /\ screen'[pending[c].s] = [status |-> "resolved", answer |-> pending[c].answer]
         /\ screen'[pending[c].s] # NoScreen
         /\ IF pending[c].mcp /\ ~pending[c].answer.deferred
            THEN /\ pending'[c] # NoCall /\ pending'[c].pc = "tell"
                 /\ pending'[c].s = pending[c].s /\ pending'[c].answer = pending[c].answer
                 /\ pending'[c].mcp = pending[c].mcp /\ pending'[c].by = pending[c].by
            ELSE pending'[c] = NoCall
<1> DEFINE s == pending[c].s
           new == [status |-> "resolved", answer |-> pending[c].answer]
<1>1. pending[c] \in AnswerCalls /\ At(c, "resolve")
  BY CallKinds DEF AnswerResolve, Winner
<1>2. s \in Screens /\ new \in ScreenRecs
  BY <1>1 DEF AnswerCalls, ScreenRecs
<1>3. new # NoScreen
  BY <1>2, NothingIsARecord
<1>4. screen' = [screen EXCEPT ![s] = new]
  BY DEF AnswerResolve
<1>5. screen'[s] = new /\ \A t \in Screens \ {s} : screen'[t] = screen[t]
  BY <1>2, <1>4 DEF ScopeTypeOK
<1>6. IF pending[c].mcp /\ ~pending[c].answer.deferred
      THEN Resume(c, "tell") ELSE Finish(c)
  BY DEF AnswerResolve
<1>7. Resume(c, "tell") =>
        /\ pending'[c] # NoCall /\ pending'[c].pc = "tell"
        /\ pending'[c].s = pending[c].s /\ pending'[c].answer = pending[c].answer
        /\ pending'[c].mcp = pending[c].mcp /\ pending'[c].by = pending[c].by
        /\ \A d \in Surfaces \ {c} : pending'[d] = pending[d]
  BY <1>1, Frames, GoesOn
<1>8. Finish(c) => /\ pending'[c] = NoCall
                   /\ \A d \in Surfaces \ {c} : pending'[d] = pending[d]
  BY Frames
<1> QED
  BY <1>1, <1>2, <1>3, <1>5, <1>6, <1>7, <1>8

\* Telling Bridge adds to what it was told about one screen, or changes nothing.
LEMMA TellIs ==
  ASSUME ScopeTypeOK, NEW s \in Screens, NEW who, NEW choice, Tell(s, who, choice)
  PROVE  /\ \A t \in Screens : t # s => decided'[t] = decided[t]
         /\ \/ decided'[s] = decided[s]
            \/ decided'[s] = Append(decided[s], [key |-> who, choice |-> choice, day |-> day])
  BY DEF ScopeTypeOK, Tell

LEMMA MarkIs ==
  ASSUME ScopeTypeOK, NEW c \in Surfaces, CollectMark(c)
  PROVE  \E item \in pending[c].todo :
           /\ pending[c] \in Marks /\ item \in Screens \X Answers
           /\ \A d \in Surfaces \ {c} : pending'[d] = pending[d]
           /\ IF marker[item[1]] = 0
              THEN /\ marker'[item[1]] = Ttl
                   /\ \A s \in Screens \ {item[1]} : marker'[s] = marker[s]
                   /\ pending'[c] # NoCall /\ pending'[c].pc = "collect"
                   /\ pending'[c].todo = pending[c].todo \ {item} /\ pending'[c].item = item
              ELSE /\ marker' = marker
                   /\ \/ pending'[c] = NoCall
                      \/ pending'[c].pc = "mark" /\ pending'[c].todo = pending[c].todo \ {item}
<1>1. pending[c] \in Marks /\ pending[c].todo \in SUBSET (Screens \X Answers)
  BY CallKinds DEF CollectMark, Marks
<1>2. PICK item \in pending[c].todo : CollectMark(c)!2!(item)
  BY DEF CollectMark
<1>3. item \in Screens \X Answers /\ item[1] \in Screens
  BY <1>1
<1>4. CASE marker[item[1]] = 0
  <2> DEFINE new == [pc |-> "collect", todo |-> pending[c].todo \ {item}, item |-> item]
  <2>1. new \in InFlight
    BY <1>1, PollKinds
  <2>2. marker' = [marker EXCEPT ![item[1]] = Ttl] /\ pending' = [pending EXCEPT ![c] = new]
    BY <1>2, <1>4
  <2>3. /\ marker'[item[1]] = Ttl
        /\ \A s \in Screens \ {item[1]} : marker'[s] = marker[s]
    BY <1>3, <2>2 DEF ScopeTypeOK
  <2>4. new # NoCall
    BY <2>1, NothingIsARecord
  <2>5. pending'[c] = new /\ \A d \in Surfaces \ {c} : pending'[d] = pending[d]
    BY <2>2, PollsOn
  <2>6. /\ new.pc = "collect" /\ new.todo = pending[c].todo \ {item} /\ new.item = item
    OBVIOUS
  <2> HIDE DEF new
  <2> QED
    BY <1>1, <1>3, <1>4, <2>3, <2>4, <2>5, <2>6
<1>5. CASE marker[item[1]] # 0
  <2>1. GoOn(c, pending[c].todo \ {item}) /\ marker' = marker
    BY <1>2, <1>5
  <2>2. /\ \/ pending'[c] = NoCall
           \/ pending'[c].pc = "mark" /\ pending'[c].todo = pending[c].todo \ {item}
        /\ \A d \in Surfaces \ {c} : pending'[d] = pending[d]
    BY <2>1, PollsOn
  <2> QED
    BY <1>1, <1>3, <1>5, <2>1, <2>2
<1> QED
  BY <1>4, <1>5

LEMMA CollectIs ==
  ASSUME ScopeTypeOK, NEW c \in Surfaces, CollectTell(c)
  PROVE  /\ pending[c] \in Collects /\ pending[c].item[1] \in Screens
         /\ \A d \in Surfaces \ {c} : pending'[d] = pending[d]
         /\ \/ pending'[c] = NoCall
            \/ pending'[c].pc = "mark" /\ pending'[c].todo = pending[c].todo
  BY CallKinds, PollsOn DEF CollectTell, Collects

-------------------------------------------------------------------------------
(* The session outlives its calls.                                          *)

LEMMA LifeStep == ASSUME IInv, ScopeNext PROVE LifeInv'
<1> USE ScopeTimes DEF IInv
<1>1. ScopeTypeOK'
  BY TypeStep
<1>2. \A c \in Surfaces : pending[c] # NoCall => scope # NoScope
  BY DEF LifeInv
<1>3. CASE Day
  <2>1. \A c \in Surfaces : pending'[c] = NoCall
    BY <1>3 DEF Day
  <2>2. scope # NoScope /\ left.session # 1 => scope' # NoScope /\ scope'.status = scope.status
    <3>1. scope # NoScope => scope \in Scopes
      BY DEF ScopeTypeOK
    <3> DEFINE idle == IF scope.idle < AbandonAfter THEN scope.idle + 1 ELSE scope.idle
    <3>2. scope # NoScope => idle \in 0..AbandonAfter
      BY <3>1 DEF Scopes
    <3>3. scope # NoScope /\ left.session # 1 => scope' = [scope EXCEPT !.idle = idle]
      BY <1>3 DEF Day
    <3> HIDE DEF idle
    <3>4. scope # NoScope => /\ [scope EXCEPT !.idle = idle] \in Scopes
                             /\ [scope EXCEPT !.idle = idle].status = scope.status
      BY <3>1, <3>2, ScopeUpdates
    <3> QED
      BY <3>3, <3>4, NothingIsARecord
  <2>3. /\ left.session \in 0..Ttl /\ left.screens \in 0..Ttl
        /\ left'.session = Less(left.session) /\ left'.screens = Less(left.screens)
    BY <1>3 DEF Day, ScopeTypeOK
  <2>4. \A n \in 0..Ttl : Less(n) = (IF n = 0 THEN 0 ELSE n - 1)
    BY DEF Less
  <2>5. left'.screens > 0 => \E s \in Screens : screen'[s] # NoScreen
    BY <1>3, <2>3, <2>4 DEF Day, LifeInv
  <2>6. ASSUME NEW s \in Screens, Held(s)', arbiter'[s].left > 0
        PROVE  left'.session = arbiter'[s].left /\ left'.screens = arbiter'[s].left
    <3>1. arbiter[s] # NoAnswer /\ arbiter[s] \in Arbiters
          /\ arbiter'[s] = [arbiter[s] EXCEPT !.left = Less(arbiter[s].left)]
      BY <1>3, <2>6 DEF Day, Held, ScopeTypeOK
    <3>2. arbiter[s].left \in 0..Ttl
      BY <3>1 DEF Arbiters
    <3>3. arbiter'[s].left = Less(arbiter[s].left)
      BY <3>1 DEF Arbiters
    <3> QED
      BY <2>6, <2>3, <2>4, <3>1, <3>2, <3>3 DEF LifeInv, Held
  <2> QED
    BY <2>1, <2>2, <2>3, <2>4, <2>5, <2>6, <1>3 DEF Day, LifeInv, At
<1>4. ASSUME NEW mcp \in BOOLEAN, CreateSession(mcp) PROVE LifeInv'
  BY <1>4, <1>1 DEF CreateSession, LifeInv, At, Held, ScopeTypeOK
<1>5. ASSUME NEW c \in Surfaces, NEW verdict \in {"completed", "abandoned"},
             CloseRead(c, verdict)
      PROVE  LifeInv'
  <2>1. /\ left.session = 0 /\ scope # NoScope /\ pending'[c].pc = "close"
        /\ \A d \in Surfaces \ {c} : pending'[d] = pending[d]
    BY <1>5, Frames DEF CloseRead, LifeInv
  <2> QED
    BY <1>5, <2>1 DEF CloseRead, LifeInv, At, Held
<1>6. ASSUME NEW c \in Surfaces, CloseStatus(c) PROVE LifeInv'
  <2>1. /\ At(c, "close") /\ scope # NoScope /\ pending'[c].pc = "expire"
        /\ \A d \in Surfaces \ {c} : pending'[d] = pending[d]
    BY <1>6, <1>2, Frames, GoesOn DEF CloseStatus, At
  <2>2. scope'.status # "active" /\ scope' # NoScope
    <3>1. scope \in Scopes /\ pending[c].verdict \in {"completed", "abandoned"}
      BY <2>1, CallKinds DEF ScopeTypeOK, CloseCalls
    <3>2. scope' = [scope EXCEPT !.status = pending[c].verdict]
      BY <1>6 DEF CloseStatus
    <3>3. scope' \in Scopes /\ scope'.status = pending[c].verdict
      BY <3>1, <3>2, ScopeUpdates
    <3> QED
      BY <3>1, <3>3, NothingIsARecord
  <2> QED
    BY <1>6, <2>1, <2>2 DEF CloseStatus, LifeInv, At, Held
<1>7. ASSUME NEW c \in Surfaces, CloseExpire(c) PROVE LifeInv'
  <2>1. /\ scope # NoScope /\ scope.status # "active" /\ pending'[c] = NoCall
        /\ left.session \in {0, Ttl}
        /\ \A d \in Surfaces \ {c} : pending'[d] = pending[d]
    BY <1>7, <1>2, Frames DEF CloseExpire, LifeInv, At
  <2>2. /\ left'.session = Ttl
        /\ left'.screens = IF \E s \in Screens : screen[s] # NoScreen THEN Ttl ELSE 0
        /\ UNCHANGED <<scope, screen>>
    BY <1>7 DEF CloseExpire
  <2>3. ASSUME NEW s \in Screens, Held(s)', arbiter'[s].left > 0
        PROVE  left'.session = arbiter'[s].left /\ left'.screens = arbiter'[s].left
    <3>1. arbiter[s] # NoAnswer /\ arbiter[s] \in Arbiters
      BY <1>7, <2>3 DEF CloseExpire, Held, ScopeTypeOK
    <3>2. CASE Shown(s)
      <4>1. arbiter'[s] = [arbiter[s] EXCEPT !.left = Ttl]
        BY <1>7, <3>1, <3>2 DEF CloseExpire
      <4>2. arbiter'[s].left = Ttl
        BY <4>1, <3>1 DEF Arbiters
      <4> QED
        BY <2>2, <3>2, <4>2 DEF Shown
    <3>3. CASE ~Shown(s)
      <4>1. arbiter'[s] = arbiter[s]
        BY <1>7, <3>3 DEF CloseExpire
      <4>2. left.session = arbiter[s].left /\ left.screens = arbiter[s].left
            /\ arbiter[s].left > 0
        BY <2>3, <3>1, <4>1 DEF LifeInv, Held
      <4>3. left.session = Ttl /\ \E t \in Screens : screen[t] # NoScreen
        BY <2>1, <4>2 DEF LifeInv
      <4> QED
        BY <2>2, <4>1, <4>2, <4>3
    <3> QED
      BY <3>2, <3>3
  <2> QED
    BY <2>1, <2>2, <2>3 DEF LifeInv, At
<1>8. ASSUME NEW c \in Surfaces, NEW s \in Screens, MirrorRead(c, s) PROVE LifeInv'
  <2>1. /\ scope # NoScope /\ pending'[c].pc = "mirror"
        /\ \A d \in Surfaces \ {c} : pending'[d] = pending[d]
    BY <1>8, Frames DEF MirrorRead
  <2> QED
    BY <1>8, <2>1 DEF MirrorRead, LifeInv, At, Held
<1>9. ASSUME NEW c \in Surfaces, MirrorWrite(c) PROVE LifeInv'
  <2>1. /\ scope # NoScope
        /\ pending'[c] = NoCall \/ pending'[c].pc = "list"
        /\ \A d \in Surfaces \ {c} : pending'[d] = pending[d]
    BY <1>9, <1>2, Frames, GoesOn DEF MirrorWrite, At
  <2>2. \E s \in Screens : screen'[s] # NoScreen
    <3>1. pending[c].s \in Screens
      BY <1>9, CallKinds DEF MirrorWrite, MirrorCalls
    <3>2. [status |-> "pending", answer |-> NoAnswer] # NoScreen
      BY NothingIsARecord DEF ScreenRecs
    <3> QED
      BY <1>9, <3>1, <3>2 DEF MirrorWrite, ScopeTypeOK
  <2> QED
    BY <1>9, <1>2, <2>1, <2>2 DEF MirrorWrite, LifeInv, At, Held
<1>10. ASSUME NEW c \in Surfaces, MirrorList(c) PROVE LifeInv'
  <2>1. /\ scope # NoScope /\ pending'[c] = NoCall
        /\ \A d \in Surfaces \ {c} : pending'[d] = pending[d]
    BY <1>10, <1>2, Frames DEF MirrorList, At
  <2>2. scope' # NoScope /\ scope'.status = scope.status
    BY <1>10, <2>1, TouchedIs, NothingIsARecord DEF MirrorList
  <2> QED
    BY <1>10, <2>1, <2>2 DEF MirrorList, LifeInv, At, Held
<1>11. ASSUME NEW c \in Surfaces, NEW s \in Screens, NEW who \in {Owner} \cup Admins,
              NEW choice \in Choices, AnswerRead(c, s, who, choice)
       PROVE  LifeInv'
  <2>1. scope # NoScope
    BY <1>11 DEF AnswerRead
  <2> QED
    BY <1>11, <2>1, AskIs DEF AnswerRead, LifeInv, At, Held
<1>12. ASSUME NEW c \in Surfaces, AnswerArbiter(c) PROVE LifeInv'
  <2>1. scope # NoScope
    BY <1>12, <1>2 DEF AnswerArbiter, At
  <2>2. ASSUME NEW s \in Screens, Held(s)', arbiter'[s].left > 0
        PROVE  Held(s) /\ arbiter[s].left = arbiter'[s].left
    BY <1>12, <2>2, ArbiterIs DEF Held
  <2>3. /\ pending'[c] = NoCall \/ pending'[c].pc = "resolve"
        /\ \A d \in Surfaces \ {c} : pending'[d] = pending[d]
    BY <1>12, ArbiterIs
  <2>4. scope' = scope /\ left' = left /\ screen' = screen
    BY <1>12 DEF AnswerArbiter
  <2> QED
    BY <1>2, <2>1, <2>2, <2>3, <2>4 DEF LifeInv, At
<1>13. ASSUME NEW c \in Surfaces, AnswerResolve(c) PROVE LifeInv'
  <2>1. scope # NoScope
    BY <1>13, <1>2 DEF AnswerResolve, At
  <2>2. scope' # NoScope /\ scope'.status = scope.status
    BY <1>13, <2>1, TouchedIs, NothingIsARecord DEF AnswerResolve
  <2>3. /\ \E s \in Screens : screen'[s] # NoScreen
        /\ \A d \in Surfaces \ {c} : pending'[d] = pending[d]
        /\ pending'[c] = NoCall \/ pending'[c].pc = "tell"
    BY <1>13, ResolveIs
  <2> QED
    BY <1>13, <2>1, <2>2, <2>3 DEF AnswerResolve, LifeInv, At, Held
<1>14. ASSUME NEW c \in Surfaces, AnswerTell(c) PROVE LifeInv'
  <2>1. /\ scope # NoScope /\ pending'[c] = NoCall
        /\ \A d \in Surfaces \ {c} : pending'[d] = pending[d]
    BY <1>14, <1>2, Frames DEF AnswerTell, At
  <2> QED
    BY <1>14, <2>1 DEF AnswerTell, LifeInv, At, Held
<1>15. ASSUME NEW c \in Surfaces, CollectRead(c) PROVE LifeInv'
  <2>1. /\ scope # NoScope /\ pending'[c].pc = "mark"
        /\ \A d \in Surfaces \ {c} : pending'[d] = pending[d]
    BY <1>15, Frames DEF CollectRead
  <2> QED
    BY <1>15, <2>1 DEF CollectRead, LifeInv, At, Held
<1>16. ASSUME NEW c \in Surfaces, CollectMark(c) PROVE LifeInv'
  <2>1. /\ scope # NoScope
        /\ pending'[c] = NoCall \/ pending'[c].pc \in {"mark", "collect"}
        /\ \A d \in Surfaces \ {c} : pending'[d] = pending[d]
    <3>1. scope # NoScope
      BY <1>16, <1>2 DEF CollectMark, At
    <3> QED
      BY <1>16, <3>1, MarkIs
  <2> QED
    BY <1>16, <2>1 DEF CollectMark, LifeInv, At, Held
<1>17. ASSUME NEW c \in Surfaces, CollectTell(c) PROVE LifeInv'
  <2>1. /\ scope # NoScope
        /\ pending'[c] = NoCall \/ pending'[c].pc = "mark"
        /\ \A d \in Surfaces \ {c} : pending'[d] = pending[d]
    <3>1. scope # NoScope
      BY <1>17, <1>2 DEF CollectTell, At
    <3> QED
      BY <1>17, <3>1, CollectIs
  <2> QED
    BY <1>17, <1>2, <2>1 DEF CollectTell, LifeInv, At, Held
<1>18. ASSUME NEW c \in Surfaces, Fail(c) PROVE LifeInv'
  <2>1. /\ scope # NoScope /\ pending'[c] = NoCall
        /\ \A d \in Surfaces \ {c} : pending'[d] = pending[d]
    BY <1>18, <1>2, Frames DEF Fail
  <2> QED
    BY <1>18, <2>1 DEF Fail, LifeInv, At, Held
<1> QED
  BY <1>3, <1>4, <1>5, <1>6, <1>7, <1>8, <1>9, <1>10, <1>11, <1>12, <1>13, <1>14,
     <1>15, <1>16, <1>17, <1>18 DEF ScopeNext

-------------------------------------------------------------------------------
(* Steps that decide nothing.                                               *)

SameAnswers ==
  \A s \in Screens : /\ Held(s)' <=> Held(s)
                     /\ Held(s) => arbiter'[s].answer = arbiter[s].answer

OthersSame(c)  == \A d \in Surfaces \ {c} : pending'[d] = pending[d]
OutOf(c, pcs)  == pending'[c] = NoCall \/ pending'[c].pc \notin pcs

\* A step of a call that neither answers nor collects.
Quiet(c) ==
  /\ scope # NoScope /\ SameAnswers /\ OthersSame(c)
  /\ OutOf(c, {"arbiter", "resolve", "tell", "mark", "collect"})
  /\ \A s \in Screens : screen'[s] = screen[s] \/ screen'[s].status = "pending"
  /\ marker' = marker /\ decided' = decided /\ day' = day

LEMMA QuietSteps ==
  ASSUME ScopeTypeOK, LifeInv, NEW c \in Surfaces,
         \/ \E verdict \in {"completed", "abandoned"} : CloseRead(c, verdict)
         \/ CloseStatus(c) \/ CloseExpire(c)
         \/ \E s \in Screens : MirrorRead(c, s)
         \/ MirrorWrite(c) \/ MirrorList(c) \/ Fail(c)
  PROVE  Quiet(c)
<1>1. pending[c] # NoCall => scope # NoScope
  BY DEF LifeInv
<1>2. CASE \E verdict \in {"completed", "abandoned"} : CloseRead(c, verdict)
  BY <1>2, Frames DEF CloseRead, Quiet, OthersSame, OutOf, SameAnswers, Held
<1>3. CASE CloseStatus(c)
  <2>1. pending'[c].pc = "expire"
    BY <1>3, GoesOn DEF CloseStatus
  <2> QED
    BY <1>1, <1>3, <2>1, Frames DEF CloseStatus, Quiet, OthersSame, OutOf, SameAnswers, Held, At
<1>4. CASE CloseExpire(c)
  <2>1. SameAnswers
    <3> SUFFICES ASSUME NEW s \in Screens
                 PROVE  /\ Held(s)' <=> Held(s)
                        /\ Held(s) => arbiter'[s].answer = arbiter[s].answer
      BY DEF SameAnswers
    <3>1. arbiter'[s] = arbiter[s] \/
          (Held(s) /\ arbiter'[s] = [arbiter[s] EXCEPT !.left = Ttl])
      BY <1>4 DEF CloseExpire, Held
    <3>2. Held(s) => arbiter[s] \in Arbiters
      BY DEF ScopeTypeOK, Held
    <3>3. Held(s) => /\ [arbiter[s] EXCEPT !.left = Ttl] # NoAnswer
                     /\ [arbiter[s] EXCEPT !.left = Ttl].answer = arbiter[s].answer
      <4>1. Ttl \in 0..Ttl
        BY ScopeTimes
      <4> QED
        BY <3>2, <4>1, ArbiterUpdates, NothingIsARecord
    <3> QED
      BY <3>1, <3>3 DEF Held
  <2> QED
    BY <1>1, <1>4, <2>1, Frames DEF CloseExpire, Quiet, OthersSame, OutOf, At
<1>5. CASE \E s \in Screens : MirrorRead(c, s)
  BY <1>5, Frames DEF MirrorRead, Quiet, OthersSame, OutOf, SameAnswers, Held
<1>6. CASE MirrorWrite(c)
  <2>1. pending'[c] = NoCall \/ pending'[c].pc = "list"
    BY <1>6, Frames, GoesOn DEF MirrorWrite
  <2>2. OthersSame(c)
    BY <1>6, Frames DEF MirrorWrite, OthersSame
  <2>3. \A s \in Screens : screen'[s] = screen[s] \/ screen'[s].status = "pending"
    BY <1>6 DEF MirrorWrite, ScopeTypeOK
  <2> QED
    BY <1>1, <1>6, <2>1, <2>2, <2>3 DEF MirrorWrite, Quiet, OutOf, SameAnswers, Held, At
<1>7. CASE MirrorList(c)
  BY <1>1, <1>7, Frames DEF MirrorList, Quiet, OthersSame, OutOf, SameAnswers, Held, At
<1>8. CASE Fail(c)
  BY <1>1, <1>8, Frames DEF Fail, Quiet, OthersSame, OutOf, SameAnswers, Held
<1> QED
  BY <1>2, <1>3, <1>4, <1>5, <1>6, <1>7, <1>8

\* The steps that the properties are about, and the quiet ones.
LEMMA StepKinds ==
  ASSUME IInv, ScopeNext
  PROVE  \/ Day
         \/ \E mcp \in BOOLEAN : CreateSession(mcp)
         \/ \E c \in Surfaces :
              \/ Quiet(c)
              \/ \E s \in Screens, who \in {Owner} \cup Admins, choice \in Choices :
                   AnswerRead(c, s, who, choice)
              \/ AnswerArbiter(c) \/ AnswerResolve(c) \/ AnswerTell(c)
              \/ CollectRead(c) \/ CollectMark(c) \/ CollectTell(c)
  BY QuietSteps DEF IInv, ScopeNext

\* A day ends no call, and takes answers only with the session and its screens.
LEMMA DayIs ==
  ASSUME IInv, Day
  PROVE  /\ \A c \in Surfaces : pending[c] = NoCall /\ pending'[c] = NoCall
         /\ \A s \in Screens :
              /\ Held(s)' => Held(s) /\ arbiter'[s].answer = arbiter[s].answer
              /\ Held(s) /\ ~Held(s)' => scope' = NoScope /\ screen'[s] = NoScreen
              /\ screen'[s] # NoScreen => screen'[s] = screen[s]
              /\ marker'[s] = IF marker[s] = 0 THEN 0 ELSE marker[s] - 1
         /\ scope' # NoScope => scope # NoScope
         /\ decided' = decided /\ day' = day + 1
<1> USE DEF IInv
<1>1. \A c \in Surfaces : pending[c] = NoCall /\ pending'[c] = NoCall
  BY DEF Day
<1>2. ASSUME NEW s \in Screens
      PROVE  /\ Held(s)' => Held(s) /\ arbiter'[s].answer = arbiter[s].answer
             /\ Held(s) /\ ~Held(s)' => arbiter[s].left = 1
  <2>1. CASE arbiter[s] = NoAnswer \/ arbiter[s].left = 1
    BY <2>1 DEF Day, Held
  <2>2. CASE arbiter[s] # NoAnswer /\ arbiter[s].left # 1
    <3>1. arbiter[s] \in Arbiters
      BY <2>2 DEF ScopeTypeOK
    <3>2. Less(arbiter[s].left) \in 0..Ttl
      BY <3>1, ScopeTimes DEF Less, Arbiters
    <3>3. arbiter'[s] = [arbiter[s] EXCEPT !.left = Less(arbiter[s].left)]
      BY <2>2 DEF Day
    <3>4. /\ [arbiter[s] EXCEPT !.left = Less(arbiter[s].left)] \in Arbiters
          /\ [arbiter[s] EXCEPT !.left = Less(arbiter[s].left)].answer = arbiter[s].answer
      BY <3>1, <3>2, ArbiterUpdates
    <3> QED
      BY <2>2, <3>3, <3>4, NothingIsARecord DEF Held
  <2> QED
    BY <2>1, <2>2
<1>3. ASSUME NEW s \in Screens, Held(s), ~Held(s)'
      PROVE  scope' = NoScope /\ screen'[s] = NoScreen
  <2>1. left.session = 1 /\ left.screens = 1
    BY <1>2, <1>3 DEF LifeInv
  <2> QED
    BY <2>1 DEF Day
<1>4. \A s \in Screens :
        /\ screen'[s] # NoScreen => screen'[s] = screen[s]
        /\ marker'[s] = IF marker[s] = 0 THEN 0 ELSE marker[s] - 1
  BY DEF Day, Less
<1> QED
  BY <1>1, <1>2, <1>3, <1>4 DEF Day

LEMMA CreateIs ==
  ASSUME IInv, NEW mcp \in BOOLEAN, CreateSession(mcp)
  PROVE  /\ \A c \in Surfaces : pending[c] = NoCall /\ pending'[c] = NoCall
         /\ arbiter' = arbiter /\ screen' = screen /\ marker' = marker /\ day' = day
         /\ \A s \in Screens : decided'[s] = <<>>
  BY DEF IInv, LifeInv, CreateSession

-------------------------------------------------------------------------------
(* One call holds a screen's answer.                                        *)

\* A step of a call that has not to do with answering.
LEMMA WinnersKept ==
  ASSUME IInv, NEW c \in Surfaces, SameAnswers, OthersSame(c),
         OutOf(c, {"arbiter", "resolve", "tell"})
  PROVE  WinnerInv'
<1>1. ~(At(c, "arbiter")' \/ Winner(c)')
  BY DEF OutOf, At, Winner
<1>2. ASSUME NEW d \in Surfaces, At(d, "arbiter")' \/ Winner(d)'
      PROVE  /\ pending'[d] = pending[d] /\ (At(d, "arbiter") \/ Winner(d))
             /\ Winner(d)' <=> Winner(d)
             /\ At(d, "tell")' <=> At(d, "tell")
  BY <1>1, <1>2 DEF OthersSame, At, Winner
<1>3. \A d \in Surfaces : Winner(d) => pending[d].s \in Screens
  BY CallKinds DEF IInv, AnswerCalls
<1>4. \A d \in Surfaces : At(d, "tell")' => Winner(d)'
  BY DEF Winner
<1>5. ASSUME NEW d \in Surfaces, Winner(d)'
      PROVE  Held(pending[d].s)' /\ arbiter'[pending'[d].s].answer = pending'[d].answer
  <2>1. pending'[d] = pending[d] /\ Winner(d)
    BY <1>2, <1>5
  <2>2. pending[d].s \in Screens /\ Held(pending[d].s)
        /\ arbiter[pending[d].s].answer = pending[d].answer
    BY <1>3, <2>1 DEF WinnerInv, IInv
  <2> QED
    BY <2>1, <2>2 DEF SameAnswers, Held
<1>6. \A d \in Surfaces : At(d, "arbiter")' \/ Winner(d)' =>
        pending'[d].answer.deferred = (pending'[d].mcp /\ pending'[d].by # Owner)
  BY <1>2 DEF WinnerInv, IInv
<1>7. \A d \in Surfaces : At(d, "tell")' => pending'[d].mcp /\ ~pending'[d].answer.deferred
  BY <1>2, <1>4 DEF WinnerInv, IInv
<1>8. \A d, e \in Surfaces :
        Winner(d)' /\ Winner(e)' /\ pending'[d].s = pending'[e].s => d = e
  BY <1>2 DEF WinnerInv, IInv
<1> QED
  BY <1>5, <1>6, <1>7, <1>8 DEF WinnerInv

LEMMA WinnerStep == ASSUME IInv, ScopeNext PROVE WinnerInv'
<1> USE DEF IInv
<1>1. CASE Day
  BY <1>1, DayIs DEF WinnerInv, At, Winner
<1>2. ASSUME NEW mcp \in BOOLEAN, CreateSession(mcp) PROVE WinnerInv'
  BY <1>2, CreateIs DEF WinnerInv, At, Winner
<1>3. ASSUME NEW c \in Surfaces, Quiet(c) PROVE WinnerInv'
  BY <1>3, WinnersKept DEF Quiet, OutOf
<1>4. ASSUME NEW c \in Surfaces, NEW s \in Screens, NEW who \in {Owner} \cup Admins,
             NEW choice \in Choices, AnswerRead(c, s, who, choice)
      PROVE  WinnerInv'
  <2>1. arbiter' = arbiter
    BY <1>4 DEF AnswerRead
  <2>2. pending'[c].answer.deferred = (pending'[c].mcp /\ pending'[c].by # Owner)
    BY <1>4, AskIs DEF Deferred
  <2> QED
    BY <1>4, <2>1, <2>2, AskIs DEF WinnerInv, At, Winner, Held
<1>5. ASSUME NEW c \in Surfaces, AnswerArbiter(c) PROVE WinnerInv'
  <2>1. CASE Held(pending[c].s)
    <3>1. arbiter' = arbiter /\ OutOf(c, {"arbiter", "resolve", "tell"}) /\ OthersSame(c)
      BY <1>5, <2>1, ArbiterIs DEF AnswerArbiter, Held, OutOf, OthersSame
    <3> QED
      BY <3>1, WinnersKept DEF SameAnswers, Held
  <2>2. CASE ~Held(pending[c].s)
    <3> DEFINE s == pending[c].s
    <3>1. /\ At(c, "arbiter") /\ pending'[c].pc = "resolve"
          /\ pending'[c].s = s /\ pending'[c].answer = pending[c].answer
          /\ pending'[c].mcp = pending[c].mcp /\ pending'[c].by = pending[c].by
          /\ Held(s)' /\ arbiter'[s].answer = pending[c].answer
          /\ \A d \in Surfaces \ {c} : pending'[d] = pending[d]
          /\ \A t \in Screens : t # s => arbiter'[t] = arbiter[t]
      BY <1>5, <2>2, ArbiterIs DEF AnswerArbiter
    <3>2. \A d \in Surfaces \ {c} : /\ Winner(d)' <=> Winner(d)
                                    /\ At(d, "arbiter")' <=> At(d, "arbiter")
                                    /\ At(d, "tell")' <=> At(d, "tell")
      BY <3>1 DEF At, Winner
    <3>3. ASSUME NEW d \in Surfaces \ {c}, Winner(d)
          PROVE  /\ pending[d].s \in Screens /\ pending[d].s # s
                 /\ arbiter'[pending[d].s] = arbiter[pending[d].s]
      <4>1. pending[d].s \in Screens
        BY <3>3, CallKinds DEF AnswerCalls
      <4>2. pending[d].s # s
        BY <2>2, <3>3 DEF WinnerInv
      <4> QED
        BY <3>1, <4>1, <4>2
    <3>4. ~At(c, "tell")' /\ ~At(c, "arbiter")'
      BY <3>1 DEF At
    <3>5. \A d \in Surfaces : (At(d, "arbiter") \/ Winner(d))' =>
            pending'[d].answer.deferred = (pending'[d].mcp /\ pending'[d].by # Owner)
      BY <3>1, <3>2 DEF WinnerInv
    <3>6. \A d \in Surfaces : At(d, "tell")' =>
            pending'[d].mcp /\ ~pending'[d].answer.deferred
      BY <3>1, <3>2, <3>4 DEF WinnerInv
    <3>7. \A d \in Surfaces : Winner(d)' =>
            Held(pending[d].s)' /\ arbiter'[pending'[d].s].answer = pending'[d].answer
      BY <3>1, <3>2, <3>3 DEF WinnerInv, Held
    <3>8. \A d \in Surfaces \ {c} : Winner(d)' => pending'[d].s # pending'[c].s
      BY <3>1, <3>2, <3>3
    <3>9. \A d, e \in Surfaces \ {c} :
            Winner(d)' /\ Winner(e)' /\ pending'[d].s = pending'[e].s => d = e
      BY <3>1, <3>2 DEF WinnerInv
    <3>10. \A d \in Surfaces : Winner(d)' => pending'[d].s = pending[d].s
      BY <3>1
    <3> QED
      BY <3>5, <3>6, <3>7, <3>8, <3>9, <3>10 DEF WinnerInv, Held
  <2> QED
    BY <2>1, <2>2
<1>6. ASSUME NEW c \in Surfaces, AnswerResolve(c) PROVE WinnerInv'
  <2>1. arbiter' = arbiter /\ At(c, "resolve")
    BY <1>6 DEF AnswerResolve
  <2>2. CASE pending[c].mcp /\ ~pending[c].answer.deferred
    <3>1. /\ pending'[c].pc = "tell"
          /\ pending'[c].s = pending[c].s /\ pending'[c].answer = pending[c].answer
          /\ pending'[c].mcp = pending[c].mcp /\ pending'[c].by = pending[c].by
          /\ \A d \in Surfaces \ {c} : pending'[d] = pending[d]
      BY <1>6, <2>2, ResolveIs
    <3>2. \A d \in Surfaces \ {c} : /\ Winner(d)' <=> Winner(d)
                                    /\ At(d, "arbiter")' <=> At(d, "arbiter")
                                    /\ At(d, "tell")' <=> At(d, "tell")
      BY <3>1 DEF At, Winner
    <3>3. Winner(c) /\ ~At(c, "arbiter")'
      BY <2>1, <3>1 DEF At, Winner
    <3>4. \A d \in Surfaces : Winner(d)' =>
            /\ Winner(d) /\ pending'[d].s = pending[d].s
            /\ pending'[d].answer = pending[d].answer
      BY <3>1, <3>2, <3>3
    <3>5. \A d \in Surfaces : (At(d, "arbiter") \/ Winner(d))' =>
            pending'[d].answer.deferred = (pending'[d].mcp /\ pending'[d].by # Owner)
      BY <3>1, <3>2, <3>3 DEF WinnerInv
    <3>6. \A d \in Surfaces : At(d, "tell")' =>
            pending'[d].mcp /\ ~pending'[d].answer.deferred
      BY <2>2, <3>1, <3>2 DEF WinnerInv
    <3>7. \A d \in Surfaces : Winner(d)' =>
            Held(pending[d].s)' /\ arbiter'[pending'[d].s].answer = pending'[d].answer
      BY <2>1, <3>4 DEF WinnerInv, Held
    <3>8. \A d, e \in Surfaces :
            Winner(d)' /\ Winner(e)' /\ pending'[d].s = pending'[e].s => d = e
      BY <3>4 DEF WinnerInv
    <3> QED
      BY <3>5, <3>6, <3>7, <3>8 DEF WinnerInv
  <2>3. CASE ~(pending[c].mcp /\ ~pending[c].answer.deferred)
    <3>1. OutOf(c, {"arbiter", "resolve", "tell"}) /\ OthersSame(c)
      BY <1>6, <2>3, ResolveIs DEF OutOf, OthersSame
    <3> QED
      BY <2>1, <3>1, WinnersKept DEF SameAnswers, Held
  <2> QED
    BY <2>2, <2>3
<1>7. ASSUME NEW c \in Surfaces, AnswerTell(c) PROVE WinnerInv'
  BY <1>7, Frames, WinnersKept DEF AnswerTell, SameAnswers, Held, OutOf, OthersSame
<1>8. ASSUME NEW c \in Surfaces, CollectRead(c) PROVE WinnerInv'
  BY <1>8, Frames, WinnersKept DEF CollectRead, SameAnswers, Held, OutOf, OthersSame
<1>9. ASSUME NEW c \in Surfaces, CollectMark(c) PROVE WinnerInv'
  <2>1. arbiter' = arbiter
    BY <1>9 DEF CollectMark
  <2>2. OutOf(c, {"arbiter", "resolve", "tell"}) /\ OthersSame(c)
    BY <1>9, MarkIs DEF OutOf, OthersSame
  <2> QED
    BY <2>1, <2>2, WinnersKept DEF SameAnswers, Held
<1>10. ASSUME NEW c \in Surfaces, CollectTell(c) PROVE WinnerInv'
  <2>1. arbiter' = arbiter
    BY <1>10 DEF CollectTell
  <2>2. OutOf(c, {"arbiter", "resolve", "tell"}) /\ OthersSame(c)
    BY <1>10, CollectIs DEF OutOf, OthersSame
  <2> QED
    BY <2>1, <2>2, WinnersKept DEF SameAnswers, Held
<1> QED
  BY <1>1, <1>2, <1>3, <1>4, <1>5, <1>6, <1>7, <1>8, <1>9, <1>10, StepKinds

-------------------------------------------------------------------------------
(* A poll is alone with what it collects.                                   *)

AnswersKeep ==
  \A s \in Screens : Held(s) => Held(s)' /\ arbiter'[s].answer = arbiter[s].answer

\* What polls know stays true while answers are kept and no poll learns more.
LEMMA PollsKnow ==
  ASSUME IInv, NEW c \in Surfaces, AnswersKeep, OthersSame(c),
         ToCollect(c)' \subseteq ToCollect(c)
  PROVE  \A d \in Surfaces : \A item \in ToCollect(d)' :
           Held(item[1])' /\ arbiter'[item[1]].answer = item[2] /\ item[2].deferred
<1> SUFFICES ASSUME NEW d \in Surfaces, NEW item \in ToCollect(d)'
             PROVE  /\ Held(item[1])' /\ arbiter'[item[1]].answer = item[2]
                    /\ item[2].deferred
  OBVIOUS
<1>1. item \in ToCollect(d)
  <2>1. d # c => ToCollect(d)' = ToCollect(d)
    BY DEF OthersSame, ToCollect, At
  <2> QED
    BY <2>1
<1>2. item \in Screens \X Answers
  BY <1>1, CallKinds DEF ToCollect, IInv, Marks, Collects
<1>3. item[1] \in Screens
  BY <1>2
<1> QED
  BY <1>1, <1>3 DEF IInv, CollectInv, AnswersKeep, Held

\* A step of a call that has not to do with collecting.
LEMMA CollectsKept ==
  ASSUME IInv, NEW c \in Surfaces, AnswersKeep, OthersSame(c),
         OutOf(c, {"mark", "collect"}),
         marker' = marker, decided' = decided, day' = day
  PROVE  CollectInv'
<1>1. ToCollect(c)' = {} /\ ~At(c, "collect")'
  BY DEF OutOf, ToCollect, At
<1>2. \A d \in Surfaces : At(d, "collect")' =>
        At(d, "collect") /\ pending'[d].item = pending[d].item
  BY <1>1 DEF OthersSame, At
<1> QED
  BY <1>1, <1>2, PollsKnow DEF CollectInv, IInv

LEMMA CollectStep == ASSUME IInv, ScopeNext PROVE CollectInv'
<1> USE DEF IInv
<1>1. CASE Day
  <2>1. \A d \in Surfaces : ~At(d, "mark")' /\ ~At(d, "collect")'
    BY <1>1, DayIs DEF At
  <2> QED
    BY <2>1 DEF CollectInv, ToCollect
<1>2. ASSUME NEW mcp \in BOOLEAN, CreateSession(mcp) PROVE CollectInv'
  <2>1. \A d \in Surfaces : ~At(d, "mark")' /\ ~At(d, "collect")'
    BY <1>2, CreateIs DEF At
  <2> QED
    BY <2>1 DEF CollectInv, ToCollect
<1>3. ASSUME NEW c \in Surfaces, Quiet(c) PROVE CollectInv'
  <2>1. AnswersKeep /\ OutOf(c, {"mark", "collect"})
    BY <1>3 DEF Quiet, SameAnswers, AnswersKeep, OutOf
  <2> QED
    BY <1>3, <2>1, CollectsKept DEF Quiet
<1>4. ASSUME NEW c \in Surfaces, NEW s \in Screens, NEW who \in {Owner} \cup Admins,
             NEW choice \in Choices, AnswerRead(c, s, who, choice)
      PROVE  CollectInv'
  <2>1. AnswersKeep /\ marker' = marker /\ decided' = decided /\ day' = day
    BY <1>4 DEF AnswerRead, AnswersKeep, Held
  <2>2. OutOf(c, {"mark", "collect"}) /\ OthersSame(c)
    BY <1>4, AskIs DEF OutOf, OthersSame
  <2> QED
    BY <2>1, <2>2, CollectsKept
<1>5. ASSUME NEW c \in Surfaces, AnswerArbiter(c) PROVE CollectInv'
  <2>1. marker' = marker /\ decided' = decided /\ day' = day
    BY <1>5 DEF AnswerArbiter
  <2>2. OutOf(c, {"mark", "collect"}) /\ OthersSame(c)
    BY <1>5, ArbiterIs DEF OutOf, OthersSame
  <2>3. AnswersKeep
    BY <1>5, ArbiterIs DEF AnswersKeep, Held
  <2> QED
    BY <2>1, <2>2, <2>3, CollectsKept
<1>6. ASSUME NEW c \in Surfaces, AnswerResolve(c) PROVE CollectInv'
  <2>1. AnswersKeep /\ marker' = marker /\ decided' = decided /\ day' = day
    BY <1>6 DEF AnswerResolve, AnswersKeep, Held
  <2>2. OutOf(c, {"mark", "collect"}) /\ OthersSame(c)
    BY <1>6, ResolveIs DEF OutOf, OthersSame
  <2> QED
    BY <2>1, <2>2, CollectsKept
<1>7. ASSUME NEW c \in Surfaces, AnswerTell(c) PROVE CollectInv'
  <2>1. /\ At(c, "tell") /\ pending'[c] = NoCall /\ OthersSame(c)
        /\ AnswersKeep /\ marker' = marker /\ day' = day
    BY <1>7, Frames DEF AnswerTell, OthersSame, AnswersKeep, Held
  <2>2. ToCollect(c)' = {} /\ ~At(c, "collect")'
    BY <2>1 DEF ToCollect, At
  <2>3. \A d \in Surfaces : At(d, "collect")' =>
          At(d, "collect") /\ pending'[d].item = pending[d].item
    BY <2>1, <2>2 DEF OthersSame, At
  <2>4. pending[c].s \in Screens
    BY <2>1, CallKinds DEF Winner, AnswerCalls
  <2>5. ASSUME NEW d \in Surfaces, At(d, "collect")
        PROVE  decided'[pending[d].item[1]] = decided[pending[d].item[1]]
    <3>1. pending[d].item \in ToCollect(d) /\ pending[d].item[1] \in Screens
      BY <2>5, CallKinds DEF ToCollect, At, Collects
    <3>2. /\ arbiter[pending[d].item[1]].answer = pending[d].item[2]
          /\ pending[d].item[2].deferred
      BY <3>1 DEF CollectInv
    <3>3. arbiter[pending[c].s].answer = pending[c].answer /\ ~pending[c].answer.deferred
      BY <2>1 DEF WinnerInv, Winner
    <3>4. pending[d].item[1] # pending[c].s
      BY <3>2, <3>3
    <3>5. Tell(pending[c].s, pending[c].by, pending[c].answer.choice)
      BY <1>7 DEF AnswerTell
    <3> QED
      BY <2>4, <3>1, <3>4, <3>5, TellIs
  <2>6. \A d \in Surfaces : \A item \in ToCollect(d)' :
          Held(item[1])' /\ arbiter'[item[1]].answer = item[2] /\ item[2].deferred
    BY <2>1, <2>2, PollsKnow
  <2> QED
    BY <2>1, <2>3, <2>5, <2>6 DEF CollectInv
<1>8. ASSUME NEW c \in Surfaces, CollectRead(c) PROVE CollectInv'
  <2>1. /\ pending'[c].pc = "mark" /\ pending'[c].todo = Owed /\ OthersSame(c)
        /\ arbiter' = arbiter /\ marker' = marker /\ decided' = decided /\ day' = day
    BY <1>8, Frames DEF CollectRead, OthersSame
  <2>2. \A d \in Surfaces : At(d, "collect")' =>
          At(d, "collect") /\ pending'[d].item = pending[d].item
    BY <2>1 DEF OthersSame, At
  <2>3. ASSUME NEW d \in Surfaces, NEW item \in ToCollect(d)'
        PROVE  item \in ToCollect(d) \/ item \in Owed
    BY <2>1, <2>3 DEF OthersSame, ToCollect, At
  <2>4. \A d \in Surfaces : \A item \in ToCollect(d)' :
          Held(item[1])' /\ arbiter'[item[1]].answer = item[2] /\ item[2].deferred
    BY <2>1, <2>3, OwedIs DEF CollectInv, Held
  <2> QED
    BY <2>1, <2>2, <2>4 DEF CollectInv
<1>9. ASSUME NEW c \in Surfaces, CollectMark(c) PROVE CollectInv'
  <2>1. AnswersKeep /\ At(c, "mark") /\ decided' = decided /\ day' = day
    BY <1>9 DEF CollectMark, AnswersKeep, Held
  <2>2. PICK item \in pending[c].todo :
          /\ pending[c] \in Marks /\ item \in Screens \X Answers /\ OthersSame(c)
          /\ IF marker[item[1]] = 0
             THEN /\ marker'[item[1]] = Ttl
                  /\ \A s \in Screens \ {item[1]} : marker'[s] = marker[s]
                  /\ pending'[c] # NoCall /\ pending'[c].pc = "collect"
                  /\ pending'[c].todo = pending[c].todo \ {item} /\ pending'[c].item = item
             ELSE /\ marker' = marker
                  /\ \/ pending'[c] = NoCall
                     \/ pending'[c].pc = "mark" /\ pending'[c].todo = pending[c].todo \ {item}
    BY <1>9, MarkIs DEF OthersSame
  <2>3. item \in ToCollect(c) /\ ToCollect(c) = pending[c].todo
    BY <2>1, <2>2 DEF ToCollect
  <2>4. ToCollect(c)' \subseteq ToCollect(c)
    <3>1. CASE marker[item[1]] = 0
      BY <2>2, <2>3, <3>1 DEF ToCollect, At
    <3>2. CASE marker[item[1]] # 0
      BY <2>2, <2>3, <3>2 DEF ToCollect, At
    <3> QED
      BY <3>1, <3>2
  <2>5. \A d \in Surfaces : \A i \in ToCollect(d)' :
          Held(i[1])' /\ arbiter'[i[1]].answer = i[2] /\ i[2].deferred
    BY <2>1, <2>2, <2>4, PollsKnow
  <2>6. CASE marker[item[1]] # 0
    <3>1. ~At(c, "collect")'
      BY <2>2, <2>6 DEF At
    <3>2. \A d \in Surfaces : At(d, "collect")' =>
            At(d, "collect") /\ pending'[d].item = pending[d].item
      BY <2>2, <3>1 DEF OthersSame, At
    <3> QED
      BY <2>1, <2>2, <2>5, <2>6, <3>2 DEF CollectInv
  <2>7. CASE marker[item[1]] = 0
    <3>1. item[1] \in Screens /\ pending'[c].item = item
      BY <2>2, <2>7
    <3>2. \A d \in Surfaces \ {c} : At(d, "collect")' =>
            At(d, "collect") /\ pending'[d].item = pending[d].item
      BY <2>2 DEF OthersSame, At
    <3>3. \A i \in DOMAIN decided[item[1]] : decided[item[1]][i].day + Ttl <= day
      <4>1. Held(item[1]) /\ arbiter[item[1]].answer.deferred
        BY <2>3 DEF CollectInv
      <4>2. scope # NoScope
        BY <2>1 DEF LifeInv, At
      <4>3. \A i \in DOMAIN decided[item[1]] :
              decided[item[1]][i].day + Ttl <= day + marker[item[1]]
        BY <3>1, <4>1, <4>2 DEF ToldInv
      <4> QED
        BY <2>7, <4>3 DEF ScopeTypeOK
    <3>4. ASSUME NEW d \in Surfaces \ {c}, At(d, "collect")'
          PROVE  /\ pending'[d].item[1] \in Screens \ {item[1]}
                 /\ marker'[pending'[d].item[1]] = marker[pending[d].item[1]]
      <4>1. At(d, "collect") /\ pending'[d].item = pending[d].item
        BY <3>2, <3>4
      <4>2. pending[d].item[1] \in Screens
        BY <4>1, CallKinds DEF Collects
      <4>3. marker[pending[d].item[1]] = Ttl
        BY <4>1 DEF CollectInv
      <4>4. pending[d].item[1] # item[1]
        BY <2>7, <4>3, ScopeTimes
      <4> QED
        BY <2>2, <2>7, <4>1, <4>2, <4>4
    <3>5. \A d \in Surfaces : At(d, "collect")' =>
            /\ marker'[pending'[d].item[1]] = Ttl
            /\ \A i \in DOMAIN decided[pending'[d].item[1]] :
                 decided[pending'[d].item[1]][i].day + Ttl <= day
      BY <2>2, <2>7, <3>1, <3>2, <3>3, <3>4 DEF CollectInv
    <3>6. \A d, e \in Surfaces :
            At(d, "collect")' /\ At(e, "collect")' /\ pending'[d].item[1] = pending'[e].item[1]
            => d = e
      BY <3>1, <3>2, <3>4 DEF CollectInv
    <3> QED
      BY <2>1, <2>5, <3>5, <3>6 DEF CollectInv
  <2> QED
    BY <2>6, <2>7
<1>10. ASSUME NEW c \in Surfaces, CollectTell(c) PROVE CollectInv'
  <2>1. /\ At(c, "collect") /\ OthersSame(c) /\ pending[c].item[1] \in Screens
        /\ AnswersKeep /\ marker' = marker /\ day' = day
        /\ \/ pending'[c] = NoCall
           \/ pending'[c].pc = "mark" /\ pending'[c].todo = pending[c].todo
    BY <1>10, CollectIs DEF CollectTell, OthersSame, AnswersKeep, Held
  <2>2. ToCollect(c)' \subseteq ToCollect(c) /\ ~At(c, "collect")'
    BY <2>1 DEF ToCollect, At
  <2>3. \A d \in Surfaces : At(d, "collect")' =>
          d # c /\ At(d, "collect") /\ pending'[d].item = pending[d].item
    BY <2>1, <2>2 DEF OthersSame, At
  <2>4. ASSUME NEW d \in Surfaces \ {c}, At(d, "collect")
        PROVE  decided'[pending[d].item[1]] = decided[pending[d].item[1]]
    <3>1. pending[d].item[1] \in Screens
      BY <2>4, CallKinds DEF Collects
    <3>2. pending[d].item[1] # pending[c].item[1]
      BY <2>1, <2>4 DEF CollectInv
    <3>3. Tell(pending[c].item[1], Owner, pending[c].item[2].choice)
      BY <1>10 DEF CollectTell
    <3> QED
      BY <2>1, <3>1, <3>2, <3>3, TellIs
  <2>5. \A d \in Surfaces : \A item \in ToCollect(d)' :
          Held(item[1])' /\ arbiter'[item[1]].answer = item[2] /\ item[2].deferred
    BY <2>1, <2>2, PollsKnow
  <2>6. \A d \in Surfaces : At(d, "collect")' =>
          /\ marker'[pending'[d].item[1]] = Ttl
          /\ \A i \in DOMAIN decided'[pending'[d].item[1]] :
               decided'[pending'[d].item[1]][i].day + Ttl <= day'
    BY <2>1, <2>3, <2>4 DEF CollectInv
  <2>7. \A d, e \in Surfaces :
          At(d, "collect")' /\ At(e, "collect")' /\ pending'[d].item[1] = pending'[e].item[1]
          => d = e
    BY <2>3 DEF CollectInv
  <2> QED
    BY <2>5, <2>6, <2>7 DEF CollectInv
<1> QED
  BY <1>1, <1>2, <1>3, <1>4, <1>5, <1>6, <1>7, <1>8, <1>9, <1>10, StepKinds

-------------------------------------------------------------------------------
(* What Bridge has been told.                                               *)

LEMMA WinnerScreen ==
  ASSUME ScopeTypeOK, NEW c \in Surfaces, Winner(c) \/ At(c, "arbiter")
  PROVE  pending[c].s \in Screens
  BY CallKinds DEF AnswerCalls

LEMMA ToldDays ==
  ASSUME ScopeTypeOK, NEW s \in Screens, NEW i \in DOMAIN decided[s]
  PROVE  decided[s][i] \in Told /\ decided[s][i].day \in Nat
<1>1. decided[s] \in Seq(Told)
  BY DEF ScopeTypeOK
<1>2. decided[s][i] \in Told
  BY <1>1
<1> QED
  BY <1>2, ScopeTimes DEF Told

LEMMA ToldStep == ASSUME IInv, ScopeNext PROVE ToldInv'
<1> USE DEF IInv
<1>1. CASE Day
  <2>1. \A c \in Surfaces : ~Winner(c)'
    BY <1>1, DayIs DEF Winner, At
  <2>2. \A s \in Screens : scope' # NoScope /\ ~Held(s)' => decided'[s] = <<>>
    BY <1>1, DayIs DEF ToldInv
  <2>3. ASSUME NEW s \in Screens, scope' # NoScope, Held(s)', arbiter'[s].answer.deferred,
               NEW i \in DOMAIN decided'[s]
        PROVE  decided'[s][i].day + Ttl <= day' + marker'[s]
    <3>1. /\ decided' = decided /\ day' = day + 1 /\ scope # NoScope
          /\ Held(s) /\ arbiter[s].answer.deferred
          /\ marker'[s] = IF marker[s] = 0 THEN 0 ELSE marker[s] - 1
      BY <1>1, <2>3, DayIs
    <3>2. decided[s][i].day + Ttl <= day + marker[s]
      BY <2>3, <3>1 DEF ToldInv
    <3>3. marker[s] \in Nat /\ day \in Nat
      BY ScopeTimes DEF ScopeTypeOK
    <3>4. decided[s][i].day \in Nat
      BY <2>3, <3>1, ToldDays
    <3> QED
      BY <3>1, <3>2, <3>3, <3>4, ScopeTimes
  <2> QED
    BY <2>1, <2>2, <2>3 DEF ToldInv
<1>2. ASSUME NEW mcp \in BOOLEAN, CreateSession(mcp) PROVE ToldInv'
  <2>1. /\ \A c \in Surfaces : ~Winner(c)'
        /\ \A s \in Screens : decided'[s] = <<>>
    BY <1>2, CreateIs DEF Winner, At
  <2> QED
    BY <2>1 DEF ToldInv
<1>3. ASSUME NEW c \in Surfaces, Quiet(c) PROVE ToldInv'
  <2>1. \A d \in Surfaces : Winner(d)' => pending'[d] = pending[d] /\ Winner(d)
    BY <1>3 DEF Quiet, OthersSame, OutOf, Winner, At
  <2> QED
    BY <1>3, <2>1 DEF ToldInv, Quiet, SameAnswers
<1>4. ASSUME NEW c \in Surfaces, NEW s \in Screens, NEW who \in {Owner} \cup Admins,
             NEW choice \in Choices, AnswerRead(c, s, who, choice)
      PROVE  ToldInv'
  <2>1. \A d \in Surfaces : Winner(d)' => pending'[d] = pending[d] /\ Winner(d)
    BY <1>4, AskIs DEF Winner, At
  <2> QED
    BY <1>4, <2>1 DEF ToldInv, AnswerRead, Held
<1>5. ASSUME NEW c \in Surfaces, AnswerArbiter(c) PROVE ToldInv'
  <2>1. decided' = decided /\ marker' = marker /\ day' = day /\ scope' = scope
        /\ scope # NoScope /\ At(c, "arbiter")
    BY <1>5 DEF AnswerArbiter, LifeInv, At
  <2>2. CASE Held(pending[c].s)
    <3>1. arbiter' = arbiter
      BY <1>5, <2>2 DEF AnswerArbiter, Held
    <3>2. \A d \in Surfaces : Winner(d)' => pending'[d] = pending[d] /\ Winner(d)
      BY <1>5, <2>2, ArbiterIs DEF Winner, At
    <3> QED
      BY <2>1, <3>1, <3>2 DEF ToldInv, Held
  <2>3. CASE ~Held(pending[c].s)
    <3> DEFINE s == pending[c].s
    <3>1. decided[s] = <<>> /\ s \in Screens
      BY <2>1, <2>3, WinnerScreen DEF ToldInv
    <3>2. /\ pending'[c].s = s /\ Held(s)'
          /\ \A d \in Surfaces \ {c} : pending'[d] = pending[d]
          /\ \A t \in Screens : t # s => arbiter'[t] = arbiter[t]
      BY <1>5, <2>3, ArbiterIs
    <3>3. \A d \in Surfaces : Winner(d)' =>
            \/ pending'[d].s = s
            \/ pending'[d] = pending[d] /\ Winner(d)
      BY <3>2 DEF Winner, At
    <3>4. \A d \in Surfaces : Winner(d)' /\ ~pending'[d].answer.deferred
            => decided'[pending'[d].s] = <<>>
      BY <2>1, <3>1, <3>3 DEF ToldInv
    <3>5. \A t \in Screens : scope' # NoScope /\ ~Held(t)' => decided'[t] = <<>>
      BY <2>1, <3>1, <3>2 DEF ToldInv, Held
    <3>6. ASSUME NEW t \in Screens, Held(t)', arbiter'[t].answer.deferred,
                 NEW i \in DOMAIN decided'[t]
          PROVE  decided'[t][i].day + Ttl <= day' + marker'[t]
      <4>1. t # s
        BY <2>1, <3>1, <3>6
      <4>2. Held(t) /\ arbiter[t].answer.deferred
        BY <3>2, <3>6, <4>1 DEF Held
      <4> QED
        BY <2>1, <3>6, <4>2 DEF ToldInv
    <3> QED
      BY <3>4, <3>5, <3>6 DEF ToldInv
  <2> QED
    BY <2>2, <2>3
<1>6. ASSUME NEW c \in Surfaces, AnswerResolve(c) PROVE ToldInv'
  <2>1. /\ decided' = decided /\ marker' = marker /\ day' = day /\ arbiter' = arbiter
        /\ scope # NoScope /\ Winner(c)
    BY <1>6 DEF AnswerResolve, LifeInv, At, Winner
  <2>2. \A d \in Surfaces : Winner(d)' =>
          /\ Winner(d) /\ pending'[d].s = pending[d].s
          /\ pending'[d].answer = pending[d].answer
    BY <1>6, <2>1, ResolveIs DEF Winner, At
  <2> QED
    BY <2>1, <2>2 DEF ToldInv, Held
<1>7. ASSUME NEW c \in Surfaces, AnswerTell(c) PROVE ToldInv'
  <2>1. /\ marker' = marker /\ day' = day /\ arbiter' = arbiter /\ scope' = scope
        /\ pending'[c] = NoCall /\ Winner(c)
        /\ \A d \in Surfaces \ {c} : pending'[d] = pending[d]
        /\ Held(pending[c].s) /\ ~arbiter[pending[c].s].answer.deferred
    BY <1>7, Frames DEF AnswerTell, Winner, WinnerInv
  <2>2. /\ pending[c].s \in Screens
        /\ \A t \in Screens : t # pending[c].s => decided'[t] = decided[t]
    BY <1>7, <2>1, WinnerScreen, TellIs DEF AnswerTell
  <2>3. ASSUME NEW d \in Surfaces, Winner(d)'
        PROVE  /\ pending'[d] = pending[d] /\ Winner(d)
               /\ pending[d].s \in Screens /\ pending[d].s # pending[c].s
    <3>1. d # c /\ pending'[d] = pending[d] /\ Winner(d)
      BY <2>1, <2>3 DEF Winner, At
    <3> QED
      BY <2>1, <3>1, WinnerScreen DEF WinnerInv
  <2>4. \A d \in Surfaces : Winner(d)' /\ ~pending'[d].answer.deferred
          => decided'[pending'[d].s] = <<>>
    BY <2>2, <2>3 DEF ToldInv
  <2>5. \A s \in Screens : scope' # NoScope /\ ~Held(s)' => decided'[s] = <<>>
    BY <2>1, <2>2 DEF ToldInv, Held
  <2>6. \A s \in Screens : scope' # NoScope /\ Held(s)' /\ arbiter'[s].answer.deferred
          => \A i \in DOMAIN decided'[s] : decided'[s][i].day + Ttl <= day' + marker'[s]
    BY <2>1, <2>2 DEF ToldInv, Held
  <2> QED
    BY <2>4, <2>5, <2>6 DEF ToldInv
<1>8. ASSUME NEW c \in Surfaces, CollectRead(c) PROVE ToldInv'
  <2>1. \A d \in Surfaces : Winner(d)' => pending'[d] = pending[d] /\ Winner(d)
    BY <1>8, Frames DEF CollectRead, Winner, At
  <2> QED
    BY <1>8, <2>1 DEF ToldInv, CollectRead, Held
<1>9. ASSUME NEW c \in Surfaces, CollectMark(c) PROVE ToldInv'
  <2>1. \A d \in Surfaces : Winner(d)' => pending'[d] = pending[d] /\ Winner(d)
    BY <1>9, MarkIs DEF Winner, At
  <2>2. /\ decided' = decided /\ day' = day /\ arbiter' = arbiter /\ scope' = scope
    BY <1>9 DEF CollectMark
  <2>3. \A s \in Screens : marker'[s] = marker[s] \/ (marker[s] = 0 /\ marker'[s] = Ttl)
    BY <1>9, MarkIs
  <2>4. ASSUME NEW s \in Screens, scope' # NoScope, Held(s)', arbiter'[s].answer.deferred,
               NEW i \in DOMAIN decided'[s]
        PROVE  decided'[s][i].day + Ttl <= day' + marker'[s]
    <3>1. decided[s][i].day + Ttl <= day + marker[s]
      BY <2>2, <2>4 DEF ToldInv, Held
    <3>2. decided[s][i].day \in Nat /\ day \in Nat
      BY <2>2, <2>4, ScopeTimes, ToldDays DEF ScopeTypeOK
    <3> QED
      BY <2>2, <2>3, <3>1, <3>2, ScopeTimes
  <2> QED
    BY <2>1, <2>2, <2>4 DEF ToldInv, Held
<1>10. ASSUME NEW c \in Surfaces, CollectTell(c) PROVE ToldInv'
  <2>1. /\ marker' = marker /\ day' = day /\ arbiter' = arbiter /\ scope' = scope
        /\ At(c, "collect") /\ pending[c].item[1] \in Screens
        /\ Tell(pending[c].item[1], Owner, pending[c].item[2].choice)
    BY <1>10, CollectIs DEF CollectTell
  <2> DEFINE s == pending[c].item[1]
             more == [key |-> Owner, choice |-> pending[c].item[2].choice, day |-> day]
  <2>2. /\ \A t \in Screens : t # s => decided'[t] = decided[t]
        /\ decided'[s] = decided[s] \/ decided'[s] = Append(decided[s], more)
    BY <2>1, TellIs
  <2>3. Held(s) /\ arbiter[s].answer.deferred /\ marker[s] = Ttl
    <3>1. pending[c].item \in ToCollect(c)
      BY <2>1 DEF ToCollect, At
    <3> QED
      BY <2>1, <3>1 DEF CollectInv
  <2>4. ASSUME NEW d \in Surfaces, Winner(d)'
        PROVE  pending'[d] = pending[d] /\ Winner(d)
    BY <1>10, <2>4, CollectIs DEF Winner, At
  <2>5. ASSUME NEW d \in Surfaces, Winner(d)', ~pending'[d].answer.deferred
        PROVE  decided'[pending'[d].s] = <<>>
    <3>1. pending'[d] = pending[d] /\ Winner(d) /\ pending[d].s \in Screens
      BY <2>4, <2>5, WinnerScreen
    <3>2. pending[d].s # s
      BY <2>3, <2>5, <3>1 DEF WinnerInv
    <3> QED
      BY <2>2, <2>5, <3>1, <3>2 DEF ToldInv
  <2>6. \A t \in Screens : scope' # NoScope /\ ~Held(t)' => decided'[t] = <<>>
    BY <2>1, <2>2, <2>3 DEF ToldInv, Held
  <2>7. ASSUME NEW i \in DOMAIN decided'[s]
        PROVE  decided'[s][i].day + Ttl <= day' + marker'[s]
    <3>1. \A j \in DOMAIN decided[s] : decided[s][j].day + Ttl <= day
      BY <2>1 DEF CollectInv
    <3>2. decided[s] \in Seq(Told) /\ day \in Nat
      BY <2>1, ScopeTimes DEF ScopeTypeOK
    <3>3. \A j \in DOMAIN decided[s] : decided[s][j].day \in Nat
      BY <2>1, ToldDays
    <3>4. CASE decided'[s] = decided[s]
      BY <2>1, <2>3, <2>7, <3>1, <3>2, <3>3, <3>4, ScopeTimes
    <3>5. CASE decided'[s] = Append(decided[s], more)
      <4>1. \/ i \in DOMAIN decided[s] /\ decided'[s][i] = decided[s][i]
            \/ decided'[s][i] = more
        BY <2>7, <3>2, <3>5
      <4>2. more.day = day
        OBVIOUS
      <4> HIDE DEF more
      <4>3. CASE decided'[s][i] = more
        BY <2>1, <2>3, <3>2, <4>2, <4>3, ScopeTimes
      <4>4. CASE i \in DOMAIN decided[s] /\ decided'[s][i] = decided[s][i]
        BY <2>1, <2>3, <3>1, <3>2, <3>3, <4>4, ScopeTimes
      <4> QED
        BY <4>1, <4>3, <4>4
    <3> QED
      BY <2>2, <3>4, <3>5
  <2>8. ASSUME NEW t \in Screens, scope' # NoScope, Held(t)', arbiter'[t].answer.deferred,
               NEW i \in DOMAIN decided'[t]
        PROVE  decided'[t][i].day + Ttl <= day' + marker'[t]
    <3>1. CASE t = s
      BY <2>7, <2>8, <3>1
    <3>2. CASE t # s
      BY <2>1, <2>2, <2>8, <3>2 DEF ToldInv, Held
    <3> QED
      BY <3>1, <3>2
  <2> QED
    BY <2>5, <2>6, <2>8 DEF ToldInv
<1> QED
  BY <1>1, <1>2, <1>3, <1>4, <1>5, <1>6, <1>7, <1>8, <1>9, <1>10, StepKinds

-------------------------------------------------------------------------------
(* One answer wins, and its owner's key tells Bridge.                       *)

LEMMA OneAnswerStep == ASSUME IInv, ScopeNext PROVE OneAnswer'
<1> USE DEF IInv
<1>1. CASE Day
  BY <1>1, DayIs DEF OneAnswer, Held
<1>2. ASSUME NEW mcp \in BOOLEAN, CreateSession(mcp) PROVE OneAnswer'
  BY <1>2, CreateIs DEF OneAnswer
<1>3. ASSUME NEW c \in Surfaces, Quiet(c) PROVE OneAnswer'
  BY <1>3 DEF OneAnswer, Quiet, SameAnswers, Held
<1>4. ASSUME NEW c \in Surfaces, NEW s \in Screens, NEW who \in {Owner} \cup Admins,
             NEW choice \in Choices, AnswerRead(c, s, who, choice)
      PROVE  OneAnswer'
  BY <1>4 DEF OneAnswer, AnswerRead
<1>5. ASSUME NEW c \in Surfaces, AnswerArbiter(c) PROVE OneAnswer'
  <2>1. decided' = decided /\ screen' = screen /\ scope # NoScope
    BY <1>5 DEF AnswerArbiter, LifeInv, At
  <2>2. ASSUME NEW s \in Screens, Held(s) PROVE arbiter'[s] = arbiter[s]
    BY <1>5, <2>2, ArbiterIs
  <2>3. ASSUME NEW s \in Screens, ~Held(s)
        PROVE  /\ decided[s] = <<>>
               /\ ~(screen[s] # NoScreen /\ screen[s].status = "resolved")
    BY <2>1, <2>3 DEF ToldInv, OneAnswer, Held
  <2> QED
    BY <2>1, <2>2, <2>3 DEF OneAnswer, Held
<1>6. ASSUME NEW c \in Surfaces, AnswerResolve(c) PROVE OneAnswer'
  <2>1. /\ decided' = decided /\ arbiter' = arbiter
        /\ Held(pending[c].s) /\ arbiter[pending[c].s].answer = pending[c].answer
    BY <1>6 DEF AnswerResolve, Winner, WinnerInv
  <2>2. screen'[pending[c].s].answer = pending[c].answer
    <3>1. screen'[pending[c].s] = [status |-> "resolved", answer |-> pending[c].answer]
      BY <1>6, ResolveIs
    <3> QED
      BY <3>1
  <2>3. \A s \in Screens : s # pending[c].s => screen'[s] = screen[s]
    BY <1>6, ResolveIs
  <2> QED
    BY <2>1, <2>2, <2>3 DEF OneAnswer, Held
<1>7. ASSUME NEW c \in Surfaces, AnswerTell(c) PROVE OneAnswer'
  <2>1. /\ screen' = screen /\ arbiter' = arbiter /\ pending[c].s \in Screens
        /\ Held(pending[c].s) /\ arbiter[pending[c].s].answer = pending[c].answer
        /\ decided[pending[c].s] = <<>>
    BY <1>7, WinnerScreen DEF AnswerTell, Winner, WinnerInv, ToldInv
  <2> DEFINE s == pending[c].s
             more == [key |-> pending[c].by, choice |-> pending[c].answer.choice, day |-> day]
  <2>2. /\ \A t \in Screens : t # s => decided'[t] = decided[t]
        /\ decided'[s] = decided[s] \/ decided'[s] = Append(decided[s], more)
    BY <1>7, <2>1, TellIs DEF AnswerTell
  <2>3. more.choice = arbiter[s].answer.choice
    BY <2>1
  <2> HIDE DEF more, s
  <2>4. \A i \in DOMAIN decided'[s] : decided'[s][i] = more
    BY <2>1, <2>2 DEF s
  <2> QED
    BY <2>1, <2>2, <2>3, <2>4 DEF OneAnswer
<1>8. ASSUME NEW c \in Surfaces, CollectRead(c) PROVE OneAnswer'
  BY <1>8 DEF OneAnswer, CollectRead
<1>9. ASSUME NEW c \in Surfaces, CollectMark(c) PROVE OneAnswer'
  BY <1>9 DEF OneAnswer, CollectMark
<1>10. ASSUME NEW c \in Surfaces, CollectTell(c) PROVE OneAnswer'
  <2> DEFINE s == pending[c].item[1]
             more == [key |-> Owner, choice |-> pending[c].item[2].choice, day |-> day]
  <2>1. /\ screen' = screen /\ arbiter' = arbiter /\ s \in Screens
        /\ At(c, "collect") /\ Tell(s, Owner, pending[c].item[2].choice)
    BY <1>10, CollectIs DEF CollectTell
  <2>2. arbiter[s].answer = pending[c].item[2]
    <3>1. pending[c].item \in ToCollect(c)
      BY <2>1 DEF ToCollect, At
    <3> QED
      BY <3>1 DEF CollectInv
  <2>3. /\ \A t \in Screens : t # s => decided'[t] = decided[t]
        /\ decided'[s] = decided[s] \/ decided'[s] = Append(decided[s], more)
    BY <2>1, TellIs
  <2>4. decided[s] \in Seq(Told)
    BY <2>1 DEF ScopeTypeOK
  <2>5. more.choice = arbiter[s].answer.choice
    BY <2>2
  <2> HIDE DEF more, s
  <2>6. \A i \in DOMAIN decided'[s] :
          \/ i \in DOMAIN decided[s] /\ decided'[s][i] = decided[s][i]
          \/ decided'[s][i] = more
    BY <2>3, <2>4
  <2>7. \A i \in DOMAIN decided'[s] :
          arbiter[s] # NoAnswer => decided'[s][i].choice = arbiter[s].answer.choice
    BY <2>1, <2>5, <2>6 DEF OneAnswer
  <2> QED
    BY <2>1, <2>3, <2>7 DEF OneAnswer
<1> QED
  BY <1>1, <1>2, <1>3, <1>4, <1>5, <1>6, <1>7, <1>8, <1>9, <1>10, StepKinds

\* The steps that tell Bridge, and what they tell it after.
LEMMA TellSteps ==
  ASSUME IInv, ScopeNext
  PROVE  \A s \in Screens :
           \/ decided'[s] = decided[s] \/ decided'[s] = <<>>
           \/ \E t \in Told :
                /\ decided'[s] = Append(decided[s], t)
                /\ t.key = Owner /\ t.day = day
                /\ \A i \in DOMAIN decided[s] : decided[s][i].day + Ttl <= day
<1> USE DEF IInv
<1>1. CASE Day
  BY <1>1, DayIs
<1>2. CASE \E mcp \in BOOLEAN : CreateSession(mcp)
  BY <1>2, CreateIs
<1>3. CASE \E c \in Surfaces :
             \/ Quiet(c)
             \/ \E s \in Screens, who \in {Owner} \cup Admins, choice \in Choices :
                  AnswerRead(c, s, who, choice)
             \/ AnswerArbiter(c) \/ AnswerResolve(c)
             \/ CollectRead(c) \/ CollectMark(c)
  BY <1>3 DEF Quiet, AnswerRead, AnswerArbiter, AnswerResolve, CollectRead, CollectMark
<1>4. ASSUME NEW c \in Surfaces, AnswerTell(c), NEW s \in Screens
      PROVE  \/ decided'[s] = decided[s]
             \/ \E t \in Told :
                  /\ decided'[s] = Append(decided[s], t)
                  /\ t.key = Owner /\ t.day = day
                  /\ \A i \in DOMAIN decided[s] : decided[s][i].day + Ttl <= day
  <2> DEFINE t == [key |-> pending[c].by, choice |-> pending[c].answer.choice, day |-> day]
  <2>1. /\ pending[c] \in AnswerCalls /\ decided[pending[c].s] = <<>>
        /\ pending[c].by = Owner
    BY <1>4, CallKinds DEF AnswerTell, Winner, WinnerInv, ToldInv
  <2>2. t \in Told /\ pending[c].s \in Screens
    BY <2>1 DEF AnswerCalls, Answers, Told, ScopeTypeOK
  <2>3. t.key = Owner /\ t.day = day
    BY <2>1
  <2>4. /\ \A r \in Screens : r # pending[c].s => decided'[r] = decided[r]
        /\ \/ decided'[pending[c].s] = decided[pending[c].s]
           \/ decided'[pending[c].s] = Append(decided[pending[c].s], t)
    BY <1>4, <2>2, TellIs DEF AnswerTell
  <2>5. \A i \in DOMAIN decided[pending[c].s] : decided[pending[c].s][i].day + Ttl <= day
    BY <2>1
  <2> HIDE DEF t
  <2> QED
    BY <2>2, <2>3, <2>4, <2>5
<1>5. ASSUME NEW c \in Surfaces, CollectTell(c), NEW s \in Screens
      PROVE  \/ decided'[s] = decided[s]
             \/ \E t \in Told :
                  /\ decided'[s] = Append(decided[s], t)
                  /\ t.key = Owner /\ t.day = day
                  /\ \A i \in DOMAIN decided[s] : decided[s][i].day + Ttl <= day
  <2> DEFINE u == pending[c].item[1]
             t == [key |-> Owner, choice |-> pending[c].item[2].choice, day |-> day]
  <2>1. /\ pending[c] \in Collects /\ At(c, "collect") /\ u \in Screens
        /\ Tell(u, Owner, pending[c].item[2].choice)
    BY <1>5, CollectIs DEF CollectTell
  <2>2. t \in Told /\ t.key = Owner /\ t.day = day
    BY <2>1 DEF Collects, Answers, Told, ScopeTypeOK
  <2>3. /\ \A r \in Screens : r # u => decided'[r] = decided[r]
        /\ decided'[u] = decided[u] \/ decided'[u] = Append(decided[u], t)
    BY <2>1, TellIs
  <2>4. \A i \in DOMAIN decided[u] : decided[u][i].day + Ttl <= day
    BY <2>1 DEF CollectInv
  <2> HIDE DEF t, u
  <2> QED
    BY <2>2, <2>3, <2>4
<1> QED
  BY <1>1, <1>2, <1>3, <1>4, <1>5, StepKinds

LEMMA OwnersKeyStep == ASSUME IInv, ScopeNext PROVE OwnersKey'
<1> USE DEF IInv
<1> SUFFICES ASSUME NEW s \in Screens, NEW i \in DOMAIN decided'[s]
             PROVE  decided'[s][i].key = Owner
  BY DEF OwnersKey
<1>1. CASE decided'[s] = decided[s] \/ decided'[s] = <<>>
  BY <1>1 DEF OwnersKey
<1>2. ASSUME NEW t \in Told, decided'[s] = Append(decided[s], t), t.key = Owner
      PROVE  decided'[s][i].key = Owner
  <2>1. decided[s] \in Seq(Told)
    BY DEF ScopeTypeOK
  <2>2. \/ i \in DOMAIN decided[s] /\ decided'[s][i] = decided[s][i]
        \/ decided'[s][i] = t
    BY <1>2, <2>1
  <2> QED
    BY <1>2, <2>2 DEF OwnersKey
<1> QED
  BY <1>1, <1>2, TellSteps

LEMMA ToldOnceStep == ASSUME IInv, ScopeNext PROVE ToldOncePerTtl'
<1> USE DEF IInv
<1> SUFFICES ASSUME NEW s \in Screens, NEW i \in DOMAIN decided'[s],
                    NEW j \in DOMAIN decided'[s], i < j
             PROVE  decided'[s][j].day >= decided'[s][i].day + Ttl
  BY DEF ToldOncePerTtl
<1>1. CASE decided'[s] = decided[s] \/ decided'[s] = <<>>
  BY <1>1 DEF ToldOncePerTtl
<1>2. ASSUME NEW t \in Told, decided'[s] = Append(decided[s], t), t.day = day,
             \A n \in DOMAIN decided[s] : decided[s][n].day + Ttl <= day
      PROVE  decided'[s][j].day >= decided'[s][i].day + Ttl
  <2>1. decided[s] \in Seq(Told) /\ day \in Nat
    BY ScopeTimes DEF ScopeTypeOK
  <2>2. /\ i \in DOMAIN decided[s] /\ decided'[s][i] = decided[s][i]
        /\ \/ j \in DOMAIN decided[s] /\ decided'[s][j] = decided[s][j]
           \/ decided'[s][j] = t
    BY <1>2, <2>1
  <2>3. decided[s][i].day \in Nat
    BY <2>2, ToldDays
  <2> QED
    BY <1>2, <2>1, <2>2, <2>3, ScopeTimes DEF ToldOncePerTtl
<1> QED
  BY <1>1, <1>2, TellSteps

-------------------------------------------------------------------------------
(* The theorems.                                                            *)

LEMMA InitInv == ASSUME ScopeInit PROVE IInv
<1>1. ScopeTypeOK
  BY ScopeTimes DEF ScopeInit, ScopeTypeOK
<1>2. \A c \in Surfaces : pending[c] = NoCall
  BY DEF ScopeInit
<1>3. \A s \in Screens : arbiter[s] = NoAnswer /\ screen[s] = NoScreen /\ decided[s] = <<>>
  BY DEF ScopeInit
<1>4. scope = NoScope /\ left.session = 0 /\ left.screens = 0
  BY DEF ScopeInit
<1>5. LifeInv
  BY <1>2, <1>3, <1>4 DEF LifeInv, At, Held
<1>6. WinnerInv /\ CollectInv
  BY <1>2 DEF WinnerInv, Winner, CollectInv, ToCollect, At
<1>7. ToldInv
  BY <1>2, <1>4 DEF ToldInv, Winner, At
<1>8. OneAnswer /\ OwnersKey /\ ToldOncePerTtl
  BY <1>3 DEF OneAnswer, OwnersKey, ToldOncePerTtl
<1> QED
  BY <1>1, <1>5, <1>6, <1>7, <1>8 DEF IInv

LEMMA StepInv == ASSUME IInv, [ScopeNext]_scopeVars PROVE IInv'
<1>1. CASE ScopeNext
  BY <1>1, TypeStep, LifeStep, WinnerStep, CollectStep, ToldStep, OneAnswerStep,
     OwnersKeyStep, ToldOnceStep DEF IInv
<1>2. CASE UNCHANGED scopeVars
  BY <1>2 DEF scopeVars, IInv, ScopeTypeOK, LifeInv, WinnerInv, CollectInv, ToldInv,
     OneAnswer, OwnersKey, ToldOncePerTtl, Held, Winner, ToCollect, At
<1> QED
  BY <1>1, <1>2

\* The inductive invariant: every interleaving of the calls of scope.py, failing
\* between any two Redis commands, keeps to the arbiter's answer.
THEOREM ScopeInvariant == ScopeSpec => []IInv
<1> QED
  BY InitInv, StepInv, PTL DEF ScopeSpec

\* The values the session's Redis keys take: statuses, answers and times to live.
THEOREM ScopeTypeCorrect == ScopeSpec => []ScopeTypeOK
<1>1. IInv => ScopeTypeOK
  BY DEF IInv
<1> QED
  BY <1>1, ScopeInvariant, PTL

\* post_answer and mirror_screen never leave a screen, or Bridge, with an answer
\* that is not the arbiter's, however the two surfaces race.
THEOREM OneAnswerWins == ScopeSpec => []OneAnswer
<1>1. IInv => OneAnswer
  BY DEF IInv
<1> QED
  BY <1>1, ScopeInvariant, PTL

\* _persist_to_bridge presents the owner's key for every answer, an admin's by
\* the owner's next poll.
THEOREM OwnersKeyOnly == ScopeSpec => []OwnersKey
<1>1. IInv => OwnersKey
  BY DEF IInv
<1> QED
  BY <1>1, ScopeInvariant, PTL

\* collect_deferred_decisions tells Bridge of a decision a second time only when
\* the marker it set has lived out its TTL.
THEOREM ToldOnceWhileMarked == ScopeSpec => []ToldOncePerTtl
<1>1. IInv => ToldOncePerTtl
  BY DEF IInv
<1> QED
  BY <1>1, ScopeInvariant, PTL
===============================================================================

------------------------------ MODULE RelayLease ------------------------------
(***************************************************************************)
(* One resource of Firekeep Relay: the lease with its fencing token        *)
(* (relay/app/leases.py) and the older claim on the same resource id       *)
(* (relay/app/mcp_server.py).  Resources never share a key, so one is      *)
(* enough.  A Lua script is one step; a tool call that runs two of them    *)
(* (relay_release) or that was sent earlier than it runs is a request with *)
(* a place in `req`, and anything may happen between its steps.            *)
(***************************************************************************)
EXTENDS Naturals

CONSTANTS
  Labels,           \* self-asserted agent ids
  Members,          \* verified principals (workspace and member)
  DeploymentOwner,  \* the member who may act on records without an owner
  Procs,            \* requests in flight
  ClaimTtl,         \* CLAIM_TTL_MINUTES, in ticks
  MaxTtl,           \* bound on the ttl an agent asks for, in ticks
  MaxFence          \* bound on the fence counter

CONSTANTS NoLease, NoClaim, NoMember, NoReq

ASSUME OwnerIsMember  == DeploymentOwner \in Members
ASSUME TtlsArePositive == /\ ClaimTtl \in Nat \ {0}
                          /\ MaxTtl \in Nat
                          /\ ClaimTtl <= MaxTtl
ASSUME MaxFenceIsNat  == MaxFence \in Nat \ {0}
ASSUME NullsAreFresh  == NoMember \notin Members

VARIABLES
  auth,    \* is authentication enabled on this deployment?
  lease,   \* nr:lease:<resource>, or NoLease
  fence,   \* nr:fence:<resource>: no TTL, never deleted
  claim,   \* nr:claim:<resource>, or NoClaim
  req      \* requests that have been sent and not answered

vars == <<auth, lease, fence, claim, req>>

Ttls   == 1..MaxTtl
Tokens == 0..MaxFence

\* `owner` is NoMember on a record written before owners were recorded.
Leases == [holder : Labels, token : Tokens \ {0},
           owner : Members \cup {NoMember}, left : Ttls]
Claims == [agent : Labels, owner : Members \cup {NoMember}, left : Ttls]
Requests == [op : {"release", "heartbeat"}, at : {"lease", "claim"},
             label : Labels, member : Members, enforce : BOOLEAN, token : Tokens]

ASSUME NoLeaseIsFresh == /\ NoLease \notin Leases
                         /\ NoLease \notin Labels \X (Members \cup {NoMember})
                         /\ NoClaim \notin Claims
                         /\ NoReq \notin Requests

TypeOK == /\ auth  \in BOOLEAN
          /\ lease \in Leases \cup {NoLease}
          /\ fence \in Tokens
          /\ claim \in Claims \cup {NoClaim}
          /\ req   \in [Procs -> Requests \cup {NoReq}]

\* A deployment starts with nothing, or is upgraded while a lease or a claim
\* without an owner is still alive.
Init == /\ auth \in BOOLEAN
        /\ \/ lease = NoLease /\ fence = 0
           \/ /\ lease \in {l \in Leases : l.owner = NoMember /\ l.token = 1}
              /\ fence = 1
        /\ claim \in {c \in Claims : c.owner = NoMember} \cup {NoClaim}
        /\ req = [p \in Procs |-> NoReq]

\* With authentication off the only principal there is, is the deployment
\* owner, and nothing checks it.
Callers == IF auth THEN Members ELSE {DeploymentOwner}

-------------------------------------------------------------------------------
(* Acquiring: each is one atomic Redis command or script.                   *)

\* Mutant: the fence is read where the script increments it.
Incr_Get == IF fence = 0 THEN 1 ELSE fence

Incr == fence + 1

\* Mutant: asking again for a lease one already holds renews it.
AcquireLease_Renews(a, m, ttl) ==
  /\ lease = NoLease => fence < MaxFence
  /\ lease # NoLease => lease.holder = a
  /\ fence' = IF lease = NoLease THEN Incr ELSE fence
  /\ lease' = [holder |-> a, token |-> fence', owner |-> m, left |-> ttl]
  /\ UNCHANGED <<auth, claim, req>>

AcquireLease(a, m, ttl) ==
  /\ lease = NoLease
  /\ fence < MaxFence
  /\ fence' = Incr
  /\ lease' = [holder |-> a, token |-> Incr, owner |-> m, left |-> ttl]
  /\ UNCHANGED <<auth, claim, req>>

AcquireClaim(a, m, ttl) ==
  /\ claim = NoClaim
  /\ claim' = [agent |-> a, owner |-> m, left |-> ttl]
  /\ UNCHANGED <<auth, lease, fence, req>>

-------------------------------------------------------------------------------
(* relay_release and relay_heartbeat.                                       *)

\* An agent names any token it may have seen: relay_lease_status hands the
\* current one to anyone, and a release may leave it out (0).
Send(p, op, a, m, t) ==
  /\ req[p] = NoReq
  /\ t <= fence
  /\ req' = [req EXCEPT ![p] = [op |-> op, at |-> "lease", label |-> a,
                                member |-> m, enforce |-> auth, token |-> t]]
  /\ UNCHANGED <<auth, lease, fence, claim>>

\* Mutant: as it was before owners were checked.
MayAct_LabelOnly(r, owner) == TRUE

\* The ownership clause all three scripts share.
MayAct(r, owner) ==
  r.enforce => \/ owner # NoMember /\ owner = r.member
               \/ owner = NoMember /\ r.member = DeploymentOwner

Answer(p) == req' = [req EXCEPT ![p] = NoReq]

HeldBy(a) == lease # NoLease /\ lease.holder = a

LeaseReleasable(r) == /\ HeldBy(r.label)
                      /\ MayAct(r, lease.owner)
                      /\ (r.token > 0) => (lease.token = r.token)

\* RELEASE_LEASE_LUA, called by relay_release.  "no active lease" and "not
\* the holder" go on to the claim; "not owner" and "stale token" are answers.
ReleaseLease(p) ==
  /\ req[p] # NoReq /\ req[p].op = "release" /\ req[p].at = "lease"
  /\ \/ /\ LeaseReleasable(req[p])
        /\ lease' = NoLease
        /\ Answer(p)
     \/ /\ ~HeldBy(req[p].label)
        /\ req' = [req EXCEPT ![p].at = "claim"]
        /\ UNCHANGED lease
     \/ /\ HeldBy(req[p].label)
        /\ ~LeaseReleasable(req[p])
        /\ Answer(p)
        /\ UNCHANGED lease
  /\ UNCHANGED <<auth, fence, claim>>

\* RELEASE_LUA, the second half of relay_release.
ReleaseClaim(p) ==
  /\ req[p] # NoReq /\ req[p].at = "claim"
  /\ Answer(p)
  /\ claim' = IF /\ claim # NoClaim
                 /\ claim.agent = req[p].label
                 /\ MayAct(req[p], claim.owner)
              THEN NoClaim ELSE claim
  /\ UNCHANGED <<auth, lease, fence>>

\* HEARTBEAT_LUA: every clause of release, and the token is always compared.
Beats(r) == LeaseReleasable(r) /\ lease.token = r.token

Heartbeat(p) ==
  /\ req[p] # NoReq /\ req[p].op = "heartbeat"
  /\ Answer(p)
  /\ lease' = IF Beats(req[p]) THEN [lease EXCEPT !.left = ClaimTtl] ELSE lease
  /\ UNCHANGED <<auth, fence, claim>>

-------------------------------------------------------------------------------
(* The environment.                                                         *)

\* Redis counts every TTL down and drops the keys that reach zero.
Aged(record, none) == IF record = none \/ record.left = 1 THEN none
                      ELSE [record EXCEPT !.left = @ - 1]

Tick == /\ lease # NoLease \/ claim # NoClaim
        /\ lease' = Aged(lease, NoLease)
        /\ claim' = Aged(claim, NoClaim)
        /\ UNCHANGED <<auth, fence, req>>

\* Mutant: the fence is not kept in Redis.
Restart_LosesFence == /\ auth' \in {auth, TRUE}
                      /\ fence' = 0
                      /\ req' = [p \in Procs |-> NoReq]
                      /\ UNCHANGED <<lease, claim>>

\* The service restarts: calls in flight are lost, Redis keeps its keys.
\* Authentication can have been switched on in between.
Restart == /\ auth' \in {auth, TRUE}
           /\ req' = [p \in Procs |-> NoReq]
           /\ UNCHANGED <<lease, fence, claim>>

Next == \/ Tick
        \/ Restart
        \/ \E a \in Labels, m \in Callers, ttl \in Ttls :
              AcquireLease(a, m, ttl) \/ AcquireClaim(a, m, ttl)
        \/ \E p \in Procs, op \in {"release", "heartbeat"},
              a \in Labels, m \in Callers, t \in Tokens : Send(p, op, a, m, t)
        \/ \E p \in Procs : ReleaseLease(p) \/ ReleaseClaim(p) \/ Heartbeat(p)

Spec == Init /\ [][Next]_vars

\* Redis expires keys whatever anybody does; nothing else is promised to run.
FairSpec == Spec /\ WF_vars(Tick)

-------------------------------------------------------------------------------
(* Properties.                                                              *)

\* leases.py:3-14: the token a live lease carries is the newest one handed
\* out, so a writer that still holds an older token is recognisably stale.
CurrentTokenIsNewest == lease # NoLease => lease.token = fence

\* Restarting with authentication on leaves no request behind that would be
\* executed unchecked (the enforce flag is read when the call arrives).
AuthCoversRequests ==
  auth => \A p \in Procs : req[p] # NoReq => req[p].enforce

\* leases.py:17-21: an owned lease ends because its time ran out or because
\* its own member, under the label that holds it, released it - whichever
\* member's requests are in flight, and whenever they were sent.
OwnedLeaseEndsByOwner ==
  [][\A m \in Members :
       /\ auth /\ lease # NoLease /\ lease' = NoLease /\ lease.owner = m
       => \/ lease.left = 1
          \/ \E p \in Procs : /\ req[p] # NoReq
                              /\ req[p].op = "release"
                              /\ req[p].member = m
                              /\ req[p].label = lease.holder]_vars

\* leases.py:3-14: whoever holds the lease, an epoch that ended never comes
\* back and a lease in force never changes hands: this is what FencedLock says.
Lock == INSTANCE FencedLock WITH
          Owners   <- Labels \X (Members \cup {NoMember}),
          Nobody   <- NoLease,
          MaxEpoch <- MaxFence,
          owner    <- IF lease = NoLease THEN NoLease
                      ELSE <<lease.holder, lease.owner>>,
          epoch    <- fence

ImplementsLock == Lock!LockSpec

\* leases.py:5-7: "leases expire automatically, no heartbeat required": a
\* lease that nobody keeps alive is eventually free.
LeaseLapses == \/ []<>(lease = NoLease)
               \/ []<><<\E p \in Procs : Heartbeat(p) /\ lease' # lease>>_vars

===============================================================================

# Firekeep: TLA+ models of its coordination core

Firekeep is a self-hosted server ("the Keep") that lets coding agents of
several people share memory, working state and coordination.  Its services are
small Python programs around Redis: an agent calls an MCP tool, the handler
issues a few Redis commands or Lua scripts, `await`ing each, and answers.  What
can go wrong lies between those commands: handlers of other calls run there, keys
expire there, and the process can stop there.  Firekeep Hands adds a process on
the person's machine with threads of its own.  These modules model the parts
where that matters, one step per command (or script, transaction, or method
under a lock), check them with TLC and prove the most important results with
TLAPS for every value of the constants.

- [The system](#the-system)
- [The modules](#the-modules)
- [The runs](#the-runs)
- [Fairness](#fairness)
- [The proofs](#the-proofs)
- [Where the code and its documentation disagree](#where-the-code-and-its-documentation-disagree)
- [What is not modelled](#what-is-not-modelled)
- [Plan](#plan)

## The system

### Parts that keep coordination state

| Part | State | Operations | Hard because | Correct when |
|---|---|---|---|---|
| Relay leases, `relay/app/leases.py` | `nr:lease`, `nr:fence` and `nr:claim` of a resource | acquire, heartbeat, release, claim, TTL | a release is two scripts; labels are shared by members; tokens outlive leases; authentication is switched on by a restart | tokens only grow, a lease never changes hands without being free, only its own member or its TTL ends it |
| Relay scope, `relay/app/scope.py` | a session, its screens, an arbiter key per answer, a marker per deferred decision, each with an expiry of its own | create, mirror a screen, answer, poll, complete, abandon sweep | people answer on two surfaces; agents retry and poll; calls fail half-way; keys outlive each other | one answer wins, Bridge is told of it once and with the owner's key |
| Bridge sessions, `bridge/app/session.py` | a hash per session, an active pointer per label, an index | start, resume, takeover, update, complete, abandon, eviction | checks and writes lie several awaits apart; labels are shared; a restart leaves half-made sessions | a teammate never ends, moves, pauses or writes into a bound session; one active session per label; the first grade stays |
| Bridge reaper, `bridge/app/reaper.py` | none of its own | abandons idle sessions | acts on a list read earlier | as above |
| Bridge distillation, `bridge/app/distill_worker.py` | queue, retry counts, dead letters | drain, retry, dead-letter, requeue | crashes between any two commands; requeues race expiry | what a completed session held is learned, or its dead letter is on record, before its keys go |
| Hands broker, `hands/.../broker/` | permits in memory, relay tasks that mirror them | request, chord, decide, consume, phone tick, sweep | threads; decisions that arrive late over the network; retries; expiry | a permit follows its four rules; a phone approval is another credential's; one tap decides one permit |
| Hands announcer, `broker/server.py`, `pending.py` | `pending.json`, the set announced | change notification, toast | it calls the store from under its own lock | the file is what waits; each permit is announced once |
| Enrollment, `cortex/app/enroll/`, members, `auth/` | tickets, invites, member rows, credentials | issue, redeem (one Lua script), replay, cancel; invite, accept; remove, restore | retried redemptions; removal races both issuing and redeeming; codes outlive the device they are for | one ticket is one credential; a device stays its member's; a removal that returned left nothing |
| `firekeep join`, `client/firekeep_client/join.py` | `pending-join.json`, `config.ini` | prepare, post, configure, resume | crashes between any two; a post that timed out is still redeemed | a registered credential is never lost by its device |
| Living procedures, `cortex/app/procedures/` | the execution of a runbook, challenges, one-use permits, pending evidence | judge, acknowledge, settle, reconcile | several steps of one command are judged one after another, permits spent on the way; evidence comes after the execution may have ended | one acknowledgement lets one command through; evidence is success in that execution; one warning |
| Corpus, `corpus/pipeline.py` | chunks of a source by generation, its record | stage, commit, sweep, record, delete | ingests of one source overlap; any command fails | recall finds whole generations; only a deletion empties a source |
| Memory ids, `memory_identity_migration.py`, `owm.py` | two collections, plan and map files, a state hash, a cache, a marker | dry run, execute, resume, mark flipped, remap, fold, verify; the nightly scoring pass | each command stops anywhere and is run again, rolled back or run over a source that moved | marked complete is complete and exact; what names memories by id follows them |
| Fleet, `cortex/app/fleet/`, client `nightshift.py` | live markers, Relay tasks, leases | nightly enqueue, list, lease, write, complete | every reply may be lost; a lease lapses while a model works; machines are switched off | what a completed task says was written is in Cortex; a finding is asked about once at a time |
| Relay messages and presence, `dm.py`, `presence.py` | an inbox per label, a row per label | register, heartbeat, send, read, mark read | read-modify-write of shared keys; labels change hands | mail stays with its addressee, once |
| Relay tasks and bulletin, `tasks.py`, `bulletin.py` | a hash per task, an index; posts and a board | create, update, delete, list; post, read | a status is read before the transaction that uses it | a task names its last writer |
| Skill ladder, dreams, memory workers | locks, progress records, stamps | periodic passes | a pass outlives its lock | two passes never run at once |
| Agent gateway, `cortex/app/agent_gateway/` | pending actions, rethink counters | before, after, sweep | outcomes that never come | each action ends with one outcome |

### Parts without a protocol

The memory engine (`cortex/app/engine`, `db`), evals, patterns, briefing,
autopilot, policy, decision and knowledge endpoints compute over stored data;
vault, replay and sentinel issue single Redis commands or append to a log; the
client kit configures agents and forwards their calls; the dexes index local
files; Studio and the dashboard are interfaces; deploy, scripts and benchmarks
are tooling.  `PROJECT.json` lists each with its status.

### How the parts interact

    agent --MCP--> gateway --> Relay    leases, claims, scope, tasks
                           --> Bridge   sessions --queue--> worker --> Cortex
                           --> Cortex   memory, procedures, corpus, enrollment
    person --> dashboard --> Relay      answers screens, resolves tasks
    Relay scope --HTTP--> Bridge        the decision an answer becomes
    Hands session --> Hands broker --HTTP--> Relay task <-- dashboard, phone
    Cortex nightly pass --HTTP--> Relay task <-- night shift --> Cortex
    firekeep join --HTTP--> Cortex enrollment <-- administrator
    operator --> migration tool --> Qdrant, Neo4j, Redis <-- scoring pass

Every call carries a verified member (the principal) and a self-asserted label
(`agent_id`).  Labels are shared, so ownership is by member; records written
before owners existed have none, and belong to the deployment owner.  With
authentication off the only principal is the deployment owner.

## The modules

| Module | Models | Role |
|---|---|---|
| `FencedLock` | the promise of a lease | abstract specification |
| `RelayLease` | `leases.py`, `mcp_server.py` (lease, claim, release, heartbeat), `principal.py` | implements `FencedLock` |
| `RelayScope` | `scope.py` and the tools that call it | component |
| `RelayProofs` | | theorems about both |
| `MCRelayLease`, `MCRelay` | | leases and scope sessions |
| `RelayMail` | `presence.py`, `dm.py` and their routes | component |
| `RelayTasks` | `tasks.py`, `bulletin.py` | component |
| `NightShift` | `fleet/enqueue.py`, the stop hook, `nightshift.py`, Relay's tasks and leases as they use them | composes the fleet with Relay and Cortex |
| `RelayDeskProofs` | | theorems about these three |
| `MCRelayMail` | | the three above |
| `BridgeSession` | `session.py`, the session tools of `mcp_server.py`, `reaper.py` | component |
| `BridgeDistill` | `distill_worker.py` | extends and composes with `BridgeSession` |
| `BridgeProofs`, `BridgeDistillProofs` | | theorems about `BridgeSession`, and about `BridgeDistill` |
| `MCBridgeSession`, `MCBridgeMixes`, `MCBridgeDistill` | | constants; two calls in mixes; the worker |
| `IdentityMigration` | `memory_identity_migration.py`, `owm.py`, the freeze gate | component |
| `MigrationProofs` | | theorems about `IdentityMigration` |
| `MCAlone` | | one bridge call at a time; the migration |
| `PermitRules` | the docstring of `permits.py` | abstract specification |
| `HandsPermits` | `permits.py`, `phone.py`, the handlers and the chord of `server.py`, relay tasks as they use them | implements `PermitRules` |
| `HandsAnnounce` | `_fire_change`, `PermitAnnouncer`, `pending.py` | component |
| `HandsPermitsProofs` | | theorems about both |
| `Enrollment` | `cortex/app/enroll`, `cortex/app/members`, `auth/members.py` | component |
| `JoinClient` | `join.py` | extends and composes with `Enrollment` |
| `EnrollmentProofs` | | theorems about both |
| `MCDevice` | | permits, announcements, joining |
| `Procedures` | `cortex/app/procedures` (enforce, store, observe, ack) | component |
| `Corpus` | `corpus/pipeline.py`, `store.py`, `api.py` | component |
| `ProceduresProofs` | | theorems about both |
| `MCCortex` | | both |

Operators named `X_Something` that stand before an operator `X` and are called
a mutant in their comment are plausible wrong versions of it.  Nothing uses
them; `PROJECT.json` pairs each with the property it would break.

### RelayLease

One resource id: resources share no key.  `lease`, `fence`, `claim` are the three
Redis keys, with the ticks they have left; `req` holds calls that were sent and
not answered, with the enforce flag the handler read when it started.  Each Lua
script is an action: `ReleaseLease` falls through to `ReleaseClaim` exactly on
"no active lease" and "not the holder".  `Restart` drops the calls in flight and
may switch authentication on.  Initial states include a lease or claim without
an owner, left by an older release.  The wait queue of `leases.py` has no
producer, so it is always empty and left out.

### RelayScope

One session.  A call (`pending[c].pc`) reads, is suspended, and writes:
`MirrorRead`/`MirrorWrite`/`MirrorList`, `AnswerRead`/`AnswerArbiter`/
`AnswerResolve`/`AnswerTell`, `CollectRead`/`CollectMark`/`CollectTell`,
`CloseRead`/`CloseStatus`/`CloseExpire`.  `Fail` ends a call at any point, for a
refused Redis command or a stop of the service.  `Day` passes only between
calls and counts every key's own time to live down, which is how a marker can
end before the screen it is about.  `decided` is history: what Bridge was told,
with whose key, and when; the write is best effort, so `Tell` may do nothing.
Assumed: authentication is on and a Bridge is configured.  The event list, the
index and the content of a screen are left out.

### BridgeSession and BridgeDistill

`meta[s]` is the hash of a session with its component keys (`NoMeta`: no
hash), and a write to a hash that is gone leaves a `Blank` one with the
fields it names, as HSET does.  `ptr` is the active pointer per label, `index`
the sorted set (with `idle` the members past the reaper's cutoff), `call` the
calls in flight with everything they have read.  `Swap` is
START_SESSION_LUA/RESUME_SESSION_LUA, `Commit` the WATCH/MULTI/EXEC of
`complete_session`; the writes after the script are separate steps (`Write`,
`Point`, `Persist`, `Index`), and so is each eviction.  `Days` ages the scores,
and a week brings every expiry that was set.  The components' entries are one
counter; "the oldest sessions over the limit" is any set of that size, idle ones
first.  `BridgeDistill` adds the queue's other end: the worker takes an entry,
calls Cortex, marks, expires, acknowledges, each in its own step; a pass may
fail and the service may crash at any of them; `requeue_dlq` is a call among the
others.

### HandsPermits and HandsAnnounce

A method of the permit store runs under its lock and is one step, with the
sweep at its head.  The phone bridge's thread is a walk (`bridge.pc`): it posts
tasks, polls each one over the network, decides by *challenge* - on whatever
permit the challenge names by then - and closes the tasks of what is resolved.
Relay tasks can be resolved and reopened by any credential at any time; a post
can fail, or succeed and lose its reply.  `HandsAnnounce` is the other half:
the dirty flag, the announcer's own lock held over several steps, and two looks
at the store from under it.

### RelayMail and RelayTasks

A call is a walk of two or three Redis commands (`wcall`, `ucall`) that keeps
what it read.  A presence row binds a label to a member; a message carries the
member its label was bound to when it was sent, and `readers` remembers whom it
was shown to.  Marking an inbox read replaces it by the list that was read.  An
update of a task reads the status, then writes fields and stamps in one
transaction, which makes a bare hash of a task that is gone; `wrote` is history,
the caller of the last write.  A board takes the lifetime of its latest post.

### NightShift

Relay's tasks (`posted`, with `leases`) and Cortex (`stored`, `open`, `drafted`)
as the fleet sees them, the nightly pass (`pass`) and any number of shifts
(`shift`).  Each call over the network is an action whose reply can be an error
or, for the calls in `Lost`, lost although it was carried out.  `LeaseLapses`
ends a lease by its TTL whatever its shift does, `ShiftDies` and `PassDies` stop
either anywhere.  Cortex answers a failed write with HTTP 200: `Confirmed` is
what the shift takes for a success.

### Enrollment and JoinClient

The Redis database of the auth layer: `members`, `invites`, `tickets`, `creds`.
A redemption is a read and then the script `CONSUME_TICKET` (`Redeem`), whose
answer is `Outcome`; an administrator's code is issued in two steps (`issuing`);
a removal flips the status and then sweeps what it scanned (`removal`).
`JoinClient` adds devices: the pending file is written, the secret's hash is
posted, the configuration is written, the pending file goes, and the device can
crash between any two.  A request that timed out stays in flight.

### Procedures

One runbook in one session.  A call (`judging`) walks the steps its action
matches in order, each step a decision with the Redis commands it makes: read
the execution, take a permit, claim the warning, mint a challenge.  An allowed
command is pending until `Reconcile` hears of its exit; a reconciliation reads
the execution, and writes what it read plus its own (`settling`).  Executions
are numbered; closing one spends it.  `waived`, `advised`, `succeeded` are
history: what each acknowledgement let through, what was warned of, what
succeeded in which execution.

### Corpus

One source.  An ingest stages chunk by chunk (gated), flips its generation live,
sweeps every other one, and records the source; a deletion removes chunks, then
the record; each command may fail, which leaves what it left.

### IdentityMigration

A text has a new id (`V2`) and may sit at any other; a collection maps ids to
texts, to `Other` (corpus, dreams, skills, quarantine) or to nothing.  Each
command of the tool is a walk (`tool.pc`) that `Stop` ends anywhere, and its
guards are the tool's refusals: the freeze, the steps before it, the fingerprint
of the source, the plan.  A point in the copy also names the points it was made
from, which only `MarkedIsWhole` reads.  The operator freezes, flips, unfreezes
and (if `RollsBack`) undoes an attempt as the guide says; outside the freeze
texts are learned and edited; the cache can lose fields after a migration; a
scoring pass (`OwmPass`) translates the ids of `events` and sweeps.

## The runs

State counts are distinct states; times are with two workers.  A *violation* run
checks one sentence of the documentation that the code does not keep (see below).

| Run | States | Properties | Question |
|---|---|---|---|
| `relay` | 847 154 (35 s) | `OwnedLeaseEndsByOwner`, `ImplementsLock`, `LeaseLapses`; `OneAnswer`, `OwnersKey`, `ToldOncePerTtl` | can late or foreign requests end a lease or claim, can a token lose its order, can two answers both win, can Bridge be told of a decision with a wrong key or twice |
| `relay_desk` | 1 979 830 (90 s) | `MailStaysPrivate`, `MailOnce`; `CompletedByLastWriter`; `CompletedIsWritten`, `OneLiveRewrite` | who reads mail when labels change hands, whom a task names, what is lost or done twice when replies are lost and shifts die |
| `alone` | 464 540 (15 s) | `OneActivePerLabel`, `NeverDisplacedByOthers`, `NeverWrittenByOthers`, `QueuedNotEvicted`; `MarkedIsWhole`, `NamesFollow` | do the guide's ownership sentences hold when calls do not overlap, whatever a restart leaves half-done; can a migration that was stopped and resumed, planned over a store that moved, or undone, be marked complete when it is not; does what names memories follow them |
| `bridge_two_calls` | 1 770 249 (70 s) | `FirstGradeWins`, `TeammatesNeverEnd` | which of the sentences about sessions survive overlapping calls |
| `distill` | 749 890 (57 s) | `NeverStuckQueued`, `SuccessMeansLearned`, `DeadLetterOnRecord`, `CompletedIsNotLost`, `QueuedIsResolved` | is completed work learned or on record through failures, crashes and the operator's requeue, and resolved in the end |
| `device` | 2 047 020 (95 s) | `PhoneApprovalIsAnothers`, `OneTapOnePermit`, `ShownIsTracked`, `KeepsRules`, `ApprovalNotDiscarded`; `FileIsCurrent`, `AnnouncedOnce`; `OneCredentialPerTicket`, `DeviceKeepsMember`, `RemovalRevokes`, `CrashSafeJoin` | can a permit break its rules, an approval be the requester's own, one tap decide two permits, the file be stale; can a code give two credentials, a removed member keep one, a device lose one |
| `cortex` | 1 031 328 (71 s) | `EvidenceIsSuccess`, `OneUsePermits`, `WarnedOnce`; `RecallIsWhole`, `OnlyDeletionEmpties` | can an acknowledgement let two commands through, a failed or foreign command count as evidence, half a document be recalled |
| `hands_lock`, `evidence_late`, `corpus_lost`, `drained_twice`, `rollback_wipes` | | one each | the five disagreements |

Components that share no key are checked in one run that keeps to one of them
per behaviour (`part` in the MC modules, `mix` in `MCBridgeMixes`); the
invariants of the others hold in their initial states, and the number of states
is a sum, not a product.  The type invariants of the modules are not among the
runs' properties; those of `RelayLease`, `RelayScope`, `BridgeSession`,
`BridgeDistill`, `HandsPermits`, `HandsAnnounce`, `Enrollment`, `JoinClient`,
`RelayMail`, `RelayTasks` and `Procedures` are proved, that of `Corpus` for one call
at a time.

### Bounds, and why they are enough

- *Leases*: one resource, two members, two labels, two requests in flight,
  `ClaimTtl` 1 and `MaxTtl` 2 ticks, three values of the fence.  A stale request
  needs one request, one expiry and one new acquisition; the second request and
  the second member make them race.
- *Scope*: one screen, two calls, two answers, an owner and one administrator,
  `Ttl` 2 days, `AbandonAfter` 1, three days.  Screens do not share keys except
  the expiry of the hash that holds them; three days let a marker end and a
  second decision be written, and a closed session end.
- *Mail, tasks, board*: one label, two members, two calls, two messages; one
  task and two updates; two posts living one or two hours.  A label changing
  hands between two commands of a call needs one label and two calls.
- *Fleet*: two tasks, one session, one stale skill, one contested pair.  Two
  shifts drain what sessions left, while leases lapse and the replies to lease,
  write and update are lost (part `drain`); or one shift at a time works between
  nightly passes, tasks expire and markers end (part `fleet`).  A post whose
  reply is lost is in neither, because what the code says of it does not hold
  (below).
- *Bridge*: two sessions, two members (one the deployment owner), one or two
  labels, one or two calls, one compare-and-set retry, one entry per session, at
  most two jobs, `MAX_SESSIONS` 1 or 2.  A displacement needs a pointer, a
  session it names and a second one.  Every tool under every label with two calls
  is out of reach, hence the five mixes of `MCBridgeMixes`: starts, completions
  and the reaper; completions, abandonments and the reaper; starts, abandonments
  and the reaper; starts, resumes and completions; starts, resumes and takeovers
  under two labels.  Updates are in `alone` only: with two calls what the guide
  says of them does not hold (below).
- *Distillation*: one session completed and updated repeatedly by two calls,
  two attempts, two jobs; in the part `worker` one crash or failing pass, in the
  part `requeue` the operator's requeue and no crash,
  and of two calls in flight one is the requeue.  `NeverStuckQueued` speaks of
  sessions with a label: a requeue that writes its state when the keys are gone
  leaves one field of no session.  A week passes only with an
  empty queue: all the backoffs of an entry together are less than a day.
- *Migration*: two texts and so four ids, three points of which one is no memory,
  one write outside the freeze.  That gives twins that merge, repaired ids,
  targets that conflict, a copy that stops between points, and a source that
  moves between plan and copy.  A behaviour is of one of two parts: the attempt is
  not undone and the write may come at any time outside the freeze (`migration`),
  or it may be undone and nothing is written once it was planned (`undone`).  An
  undone attempt over a source that moved is left out, because `MarkedIsWhole` does
  not hold of it (below; a third text is needed to see it).  Stores in which a memory's new id is the id of
  another that moves too are left out (`MCStores`): run twice, the remap and the
  fold do not leave those as they were (below).
- *Permits*: one challenge asked for again and again, two permits, two tasks, two
  credentials, `TTL` 1, `Retain` 1, clock 2: a permit runs out, its replacement
  is made, and an answer to the first can arrive at the second.  Only the tasks
  the bridge may still read are updated (`Readable`): nothing else looks at a
  task.
- *Announcements*: two prompts and two threads, which is what two notifiers
  crossing needs.
- *Joining*: two codes, two secrets, a member and the owner, one device that
  posts at most twice, one removal.  A replay needs two posts of one secret; a
  removal that races one redemption needs no second.
- *Procedures*: three steps of which the first is load-bearing, two members, two
  calls, two executions, two acknowledgements, and one reconciliation at a time
  (with two, evidence can be late: `evidence_late`).  Four situations (`Parts`)
  keep a behaviour to what it needs: edits and commands that are only warned of,
  under one permit or none; deployments that need one permit each, challenged and
  acknowledged by two members; edits and commands that are refused, one call at a
  time; a command that needs two permits, one call at a time.  The corpus is the
  fifth part.
- *Corpus*: three chunks, five generations, an administrator and two others, one
  call at a time (with two, `corpus_lost`).

`CHECK_DEADLOCK FALSE` stands where every bound can be used up and nothing is left
to do, and in `MCDevice` also because the announcer's threads really can stop
(`hands_lock`).  Symmetry is used only in runs without liveness, over calls,
sessions, permits, tasks, tickets, secrets and messages, which no definition tells
apart; in `MCDevice` pairs of different parts are swapped together, since a
behaviour has only one of them.

## Fairness

- `RelayLease`: `WF_vars(Tick)`.  Redis expires keys whatever anybody does.  No
  request is fair: an agent may die.  `LeaseLapses` says a lease is free again
  and again unless somebody's heartbeats keep it.
- `BridgeDistill`: weak fairness of the worker's steps after it has taken an
  entry, because its loop catches everything and runs on; strong fairness of
  `Take(1)`, because a pass begins at the oldest entry and a backoff ends within
  the hour, but the worker may be busy with another in between.  Calls are not
  assumed to finish.  `QueuedIsResolved` needs no more.

The other modules have safety properties only.  A night shift, a nightly pass, a
migration command and a join may stop for good at any point, and a person need not
answer; nothing they start is promised to end.

## The proofs

`RelayProofs`, leases (for any labels, members, requests, TTLs and fence bound):

- `TypeCorrect`, `TokenIsNewest` and `NoUncheckedCall` prove `TypeOK`,
  `CurrentTokenIsNewest` and `AuthCoversRequests` as invariants; the first is
  inductive, the others are with it.  A token is the newest because a lease is
  only ever written with the counter it just incremented, and the counter has no
  TTL.
- `LeaseEndsByOwner`: the action property, from type correctness and
  `NoUncheckedCall`: an unchecked request could end anyone's lease, and a restart
  that switches authentication on leaves none behind.
- `LeaseIsFencedLock`: each step maps to a step or a stutter of `FencedLock`.

`RelayProofs`, scope sessions (for any screens, calls, choices, administrators, marker
lifetime, abandonment time and days): `ScopeInvariant` proves `IInv` inductive.
That one answer wins needs more than the `SET NX`: what Bridge was told, what
polls have read and what becomes of the keys all have to agree with the arbiter.
The parts are at the end of `RelayScope`:

- `LifeInv`: calls do not outlive the session, and an arbiter key with an expiry
  has the same one as the session and its screens.  Without it an arbiter could go
  while its screen stays, and a second answer would win;
- `WinnerInv`: one call at a time holds a screen's answer, the one the arbiter
  holds, and it is not deferred when that call is about to tell Bridge;
- `CollectInv`: what a poll has read is what the arbiter holds, and the poll that
  set the marker is alone with the screen, the last telling a lifetime ago;
- `ToldInv`: Bridge was told nothing before an answer won, nothing by the winner
  before it does so itself, and of a deferred answer nothing younger than the
  marker.

`StepKinds` reduces the actions to those that answer or collect and a `Quiet`
rest; `TellSteps` says what each step adds to the history.  From the invariant
follow `ScopeTypeCorrect`, `OneAnswerWins`, `OwnersKeyOnly` and
`ToldOnceWhileMarked`.

`BridgeProofs` (for any sessions, labels, members, calls in flight, retries and
limits).  A step is described once for all results, by what it does to the record
of each session (`MetaStep`) and to each call (`CallStep`); `SessionSteps` proves
the description action by action.

- `SessionTypeCorrect`: `SessionTypeOK`, inductive.
- `FirstGradeStays`: `FirstGradeWins` - no step but a commit writes a grade, and the
  commit is abandoned when the record is not the one it watched.
- `BindingInvariant`, `OwnersEndTheirs`: `TeammatesNeverEnd` with any number of calls
  in flight.  A call checks ownership in one step and writes in a later one, so the
  invariant says what the check is still worth: an id whose owner is not yet written
  belongs to one start only (`BornInv`), and a session that a resume or an
  abandonment has checked is past that, and bound to no other member (`CheckInv`).
- `AloneInvariant`, `AloneOneActive`, `AloneDisplaces`, `AloneWrites`, `AloneEvicts`:
  what the guide says of ownership, labels and retention (`OneActivePerLabel`,
  `NeverDisplacedByOthers`, `NeverWrittenByOthers`, `QueuedNotEvicted`), under
  `OneAtATime`, as run `alone` has it: calls do not overlap, but there may be any
  number of them, and a restart may stop each anywhere.  With two calls in flight
  the four do not hold (below).  The invariant is what the one call knows between
  its steps, and that the pointer of a label is at its active session at every step,
  so that a restart can leave no second one.

`BridgeDistillProofs` (for any sessions, calls, attempts and entries, with crashes
and failing passes):

- `DistillTypeCorrect`: `TypeOK`.
- `LearnedMeansAll`: `SuccessMeansLearned` with no assumption on calls, requeues or
  crashes.  What the worker has read is all there was when the session was last
  completed, or another job for it is ahead; and an old "success" beside a job not
  yet decided claims nothing.
- `DeadStaysOnRecord`, `CompletedStays`: `DeadLetterOnRecord` and
  `CompletedIsNotLost`, under `RecordsHeld`: there is no requeue, or no crash, as in
  each part of run `distill`.  A crash between popping a record and queueing it
  loses that record (below), so the hypothesis cannot be dropped.
- `QueuedHasJob`, `RequeuedHasJob`: `NeverStuckQueued` without requeues; and with
  them when calls come one at a time and nothing is resumed, because the status a
  requeue writes last may then meet a session that has left its job behind.  The
  run checks it with two calls, of which one is the requeue.

`HandsPermitsProofs` (for any permits, challenges, tasks, credentials, approvers,
times): `BrokerInvariant` proves the conjunction `IInv` inductive.  None of the
safety properties is inductive alone.  Its parts, defined at the end of
`HandsPermits`, are what each part of the broker knows:

- `StoreInv`: the store names permits by their own challenge, and a pending one
  was not decided;
- `VisitInv`: in one pass the bridge visits each challenge through one permit;
- `TaskInv`: a task belongs to one permit;
- `SpentInv`: the permit whose task has decided something no longer waits, and
  will not be visited again in this pass;
- `HandInv`: an answer in the bridge's hand comes from a task that has decided
  nothing yet - this and `SpentInv` give `OneTapOnePermit`, although the decision
  falls on whatever permit the challenge names by then;
- `EndorsedInv`: a stamp that is honoured was put there with an approval - with
  `HandInv` it gives `PhoneApprovalIsAnothers`;
- `TrackInv`: gives `ShownIsTracked`.

From it follow `TypeCorrect`, `ApprovedByAnother`, `OneTap`, `Tracked`,
`ApprovalKept` and the refinement `RulesKept`.  The frame lemmas
(`PermitFrame`, `BookFrame`, `TaskFrame`, `BridgeFrame`, `OpenedFrame`) say once
what a kind of step leaves alone.

The announcements (for any prompts and threads): `AnnounceInvariant` proves
`AnnounceInv`.  One thread is inside the announcer (`OneInside`); the file, or the
list on its way to it, is what waits, unless somebody has still to look
(`FileInv`); what was shown is in the bookkeeping and in the list about to replace
it (`ToastInv`).  `FileCurrent` (`FileIsCurrent`) and `EachAnnouncedOnce`
(`AnnouncedOnce`) follow, with any number of notifiers crossing.  That a thread may
wait for itself (`hands_lock`) does not disturb them: such a thread still has to
look.

`EnrollmentProofs` (for any members, tickets, secrets, requests, removals and
devices):

- `ServerInvariant`: the inductive invariant of the server.  Its parts relate what
  was registered to the tickets' records (a ticket that registered a secret is
  consumed and remembers it, so the script can only replay), and a removal in
  progress to the credentials it has still to delete (once the status is flipped
  no registration for the member passes the script, so that what the scan finds is
  all there will be).
- `OneCredential`, `Removal`: `OneCredentialPerTicket` and `RemovalRevokes`.
- `JoinIsServer`: a behaviour of devices and server is one of the server alone, by
  which both results hold with any devices.
- `JoinTypes`, `CrashSafe`: the types, and `CrashSafeJoin`, from an invariant that
  says where each secret is: made, posted, configured, or given up.
- `DevicesKeepMembers`: `DeviceKeepsMember`, from an invariant that gives each device
  id one member across credentials, codes in issue and tickets (`DeviceInv`).  It
  uses that a device sends a secret for one ticket only, and that a ticket's
  reading of the registry and its record are the same member's.

`RelayDeskProofs`, tasks and mail (for any members, labels, messages, tasks,
calls and lifetimes):

- `TasksTypeCorrect`, `LastWriterNamed`: the types, and `CompletedByLastWriter`, which
  holds because a call's status, its fields and its stamps are one transaction.
- `MailTypeCorrect`, `MailPrivate`, `MailIsOnce`: the types, `MailStaysPrivate` and
  `MailOnce`.  What a call has read of an inbox is a list of messages that were sent,
  each at most once; replacing the inbox by it keeps that, whoever pushes in between.

`RelayDeskProofs`, the fleet (for any sessions, skills, pairs, shifts and job limits):

- `NightInvariant`, `CompletedWasWritten`: `CompletedIsWritten`, from what a shift
  knows of its tasks: when it is about to complete one, the result is stored or there
  was none to write, and each session it takes to be distilled is.  The invariant says nothing of leases: two
  shifts may hold one task, and what a completed one says is written all the same.
- `OneTaskPerFinding`: `OneLiveRewrite`, under the assumption that no reply to a post
  is lost (`"post" \notin Lost`), which the run makes too.  A task
  that is alive has its marker set, and the pass posts only for the marker it has
  just claimed.

`ProceduresProofs` (for any runbook, actions, members, calls and reconciliations):
`ProcInvariant` proves `IInv` inductive.

- `PermitInv` follows an acknowledgement: it is held by one permit, or by one call
  that consumed it, or by the command it let through, and by no two of them.
  `PermitsAreOneUse` (`OneUsePermits`) follows, however many calls ask at once.
- `WarnInv` follows a warning from its latch to the one call that claimed it and the
  edit that carried it; a refusal gives back what that call alone had claimed.
  `WarnedAtMostOnce` is `WarnedOnce`.
- `ProcTypeCorrect` needs that a call in the loop has a step left to judge
  (`CallInv`).
- `EvidenceSucceeded`: `EvidenceIsSuccess` under `OneReconcile`, as in run `cortex`:
  what a reconciliation read of an execution is then what the execution still says
  when it writes.  With two it is false (`evidence_late`).
- `WholeIsRecalled`, `DeletionAloneEmpties` (for any chunks, generations, writers and
  scopes): `RecallIsWhole` and `OnlyDeletionEmpties` of `Corpus`, under
  `OneCorpusCall`; each command may fail.  What a call knows of its generation at
  each of its steps (`GenInv`) carries both.  With two ingests they do not hold
  (`corpus_lost`).

`MigrationProofs` (for any number of texts, any collections, writes outside the
freeze and operators):

- `MarkedAfterWalk`, `MarkedAfterCensus`: `MarkedIsWhole`, as run `alone` has it in
  two parts.  `CoreInv` holds in both: a place of the copy is blank or exactly what
  belongs there, wherever the tool stops, as long as the source stays as it was
  since the run began.  It uses that a point copied alone is all its target is made
  of, which is what the classification and the refusal of conflicts are for.  That
  nothing is missing has two different reasons.  While nobody undoes the attempt,
  the freeze or the flip keeps writers out, and the cursor only passes what was
  copied (`WalkInv`).  When the attempt is undone and resumed, the cursor says
  nothing, and the census of `verify` does: the places filled are some of the places
  planned, and as many (`PlanInv`); this needs that nobody wrote since the plan, and
  with writes it is false (below).
- `NamesAlwaysFollow`: `NamesFollow`, with attempts undone and writes outside the
  freeze, for stores in which no memory's new id is the old id of another that moves
  (`Unchained`; with a chain a second run goes wrong, below).  The map is of the
  source as it is from when it is written until the flip (`MapInv`); a relationship
  is at its old id or where the map takes it, and in between at both (`RefInv`); a
  count is the old one or the sum of what the map brings together, so that a fold
  begun again changes nothing (`HitInv`).  The sum is a recursive function over sets:
  `SumOfOnes` and `SumOfOne` give it in the two cases that occur, by exhibiting a
  function that satisfies its equation and by a smallest set where they would
  differ.

Assumptions are the named `ASSUME`s of the modules: the types of the constants,
and that the values standing for "none" are not values of the other kind.  The
hypotheses of single theorems (`OneAtATime`, `RecordsHeld`, `OneReconcile`,
`OneCorpusCall`, `"post" \notin Lost`) bound what overlaps; those of the migration
say that no attempt is undone, that nobody writes once a run is planned, or that no
ids form chains.  The runs that check the same properties make them too; only for
`NeverStuckQueued` does the run go further.

Only model-checked: `NeverStuckQueued` for a requeue beside another call, and the
liveness properties `LeaseLapses` and `QueuedIsResolved` (the prover has neither
fairness nor ENABLED).  What a sum or another recursive definition is for every
input is not proved either (the library's induction theorems cannot be instantiated):
the two special cases above are all that is needed.

## Where the code and its documentation disagree

Five sentences are checked and refuted; `PROJECT.json` quotes each.

- The announcer's thread can wait for its own lock (`broker/server.py:467`), which
  its comment says cannot happen.
- A reconciliation that read an execution before it ended writes its steps into the
  next one (`procedures/store.py:436`).
- Two ingests of one source sweep each other's generations and leave none
  (`corpus/pipeline.py:146`).
- Two night shifts can distill one session (`nightshift.py:732`).
- A migration undone as the guide says leaves the id map in Redis, and the next
  scoring pass wipes the scores of the memories it cannot find under their new ids
  (`owm.py:130`).

Other behaviour met while modelling, which is in the models and not the subject of
a run of its own:

- A release without a fencing token can end a lease acquired after the caller's own
  had expired (`leases.py:104`).  `relay_heartbeat` sets a lease's TTL to
  CLAIM_TTL_MINUTES, which shortens a longer lease (`mcp_server.py:627`).
- With two calls in flight, a start that reads the pointer before the session it
  names has its owner written pauses another member's session (`session.py:403`);
  updates through a pointer can write before the session has its hash or after it
  has ended, a resume can revive an ended session, two sessions can be active under
  one label, a takeover can leave two pointers, and an eviction can delete a session
  completed after it was looked at.
- A start that stops before its ZADD leaves a session no index lists, so neither
  the reaper nor eviction sees it.
- Completing an abandoned session queues it with the expiry of the abandonment
  still running (`session.py:849`).  A requeue of a session that expires under it
  leaves a hash marked queued that nothing clears (`distill_worker.py:157`); one
  that stops between popping a record and queueing it loses that dead letter;
  requeueing keeps the seven-day expiry running.
- The phone bridge decides by challenge: a dashboard answer read for one permit
  can decide the one that replaced it (`phone.py:169`).  A task whose post lost its
  reply stays on the dashboard.  A permit asked for again under the same challenge
  before the announcer looks is not announced.
- A deferred decision is written again once its marker has expired
  (`scope.py:377`).  A mirror retried while the screen is being answered writes the
  screen back as pending and drops the answer, contrary to the docstring of
  `mirror_screen` (`scope.py:248`).  A mirror or answer that fails half-way leaves a
  screen that is never listed, or pending for ever.  The marker of a deferred
  decision is set before the best-effort write, so a failed write is not repeated.
  Completion and the abandon sweep can replace each other's verdict, and a session
  closed without its EXPIREs never goes.
- `mark_read` loses a message pushed between its read and its replacement of the
  inbox (`dm.py:126`).  A short-lived post shortens the life of the whole board
  (`bulletin.py:32`).
- A completed task is marked failed by a shift that comes late or that lost the
  reply to its own completion.  A fleet post whose reply is lost gives its marker
  back and posts again (`enqueue.py:93`).  A lost reply to `skill_create` leaves a
  draft, defers the rest of the shift and drafts again; a proposal for a contested
  pair can be written after the pair was resolved.
- The graph remap and the fold are called safe to run again; with a chain of ids
  (one memory's new id is another's old one) a second run moves a reference or a
  count twice.  After a rollback the state hash remains: `execute` refuses, and
  `resume` goes on from the old cursor with an empty copy, which only the census of
  `verify` notices; if a memory was edited in place since the plan, so that two that
  shared an id no longer do, the number is right again with one of them missing,
  and only the search parity, which is not modelled, may notice.  A store in which every moved point merges can never be
  verified, because its sample is empty.  `mark-flipped` run again later moves the
  state back.

## What is not modelled

- *Inside the modelled parts*: validation, wording, logging and HTTP; event lists;
  per-component caps of a session; the content of entries, screens, tasks, chunks
  and memories; malformed stored records; deployments without a Bridge; several
  workspaces; the hourly limit of join attempts; how an action matches a step of a
  runbook, the proposals of its nightly tick; what the header of each module lists.
- *Skill ladder, dreaming, agent gateway*: each is a lock or a record around a
  language model's pass; candidates for later, with the gateway's outcomes first.
- *Memory engine and workers, evals, patterns*: retrieval, ranking and periodic
  passes whose decisions are numeric or come from language models; what they share
  with other components is single commands.  The largest files of the repository
  (`cli.py`, `main.py`, `vector.py`, `rag.py`, `graph.py`) are of this kind: command
  lines, routes and queries.
- *Clients and interfaces*: the kit's configuration of agents, the dexes, Studio,
  dashboard, deployment and benchmarks have no state shared with another process but
  through the services modelled here.
- *Vault, replay, sentinel*: single Redis commands and append-only logs.

## Plan

Order of work, most important first; done: 1 to 11, 13 and 14.

1. Leases and their refinement of the fenced lock, with proofs.
2. Bridge sessions and the reaper.
3. Distillation on top of the sessions.
4. Permits and their four rules, with proofs.
5. Announcements.
6. Scope sessions, with proofs.
7. Enrollment, members and the client's crash-safe join, with proofs.
8. Procedures: challenges, acknowledgements, permits and evidence.
9. Corpus generations.
10. Relay messages, presence, bulletin and tasks.
11. Fleet markers and night shifts; the migration of memory ids.
12. The skill ladder's lock, the dreaming pass, the agent gateway's actions.
13. Proofs for Bridge sessions, distillation, announcements, devices, evidence and
    corpus.
14. Proofs for the migration: `MarkedIsWhole` and `NamesFollow`, from what each of
    the tool's refusals makes of the two collections.
15. `NeverStuckQueued` for a requeue beside any one other call.

New components join an existing run as a further part.

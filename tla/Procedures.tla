------------------------------ MODULE Procedures ------------------------------
(***************************************************************************)
(* Enforced runbooks (cortex/app/procedures): what an agent may run next,  *)
(* given which steps of a runbook have evidence in the session's current   *)
(* execution.  One runbook, one session, one workspace.                    *)
(*                                                                         *)
(* A call judges one action before it runs, is settled by the gateway, and *)
(* the command, once run, is reconciled.  Each Redis command of a call is  *)
(* an action of its own; what the call read is kept in it.                 *)
(*                                                                         *)
(* Left out: how a command or a path matches a step (match.py: the set     *)
(* Matches), receipts, counters and the ledger of deviations (nothing is   *)
(* decided from them), edits of the runbook while it runs, the 90 days an  *)
(* execution is kept, and the tick that proposes new steps.                *)
(***************************************************************************)
EXTENDS Naturals, FiniteSets, Sequences

CONSTANTS LastStep,        \* the steps are 1 .. LastStep, in the order of the runbook
          LoadBearing,     \* those that later steps need evidence of
          Actions,         \* what an agent may do
          Edits,           \* the actions that edit a file; the others are commands
          Matches,         \* the steps an action satisfies
          Agents,          \* members
          Calls,           \* calls to the gateway in flight
          Reconciles,      \* reconciliations in flight
          MaxExec, MaxAcks,\* bounds on executions and acknowledgements,
          MaxOpen,         \* on challenges, and on commands not reconciled, at a time
          Nil              \* no record, no value

Steps == 1 .. LastStep
ASSUME RunbookAssumption == /\ LastStep \in Nat
                            /\ LoadBearing \subseteq Steps
                            /\ Edits \subseteq Actions
                            /\ Matches \in [Actions -> SUBSET Steps]
                            /\ MaxExec \in Nat /\ MaxAcks \in Nat
                            /\ Nil \notin Agents \cup Calls \cup Actions

VARIABLES mode,        \* proc:mode:<skill>, set by an administrator
          exec,        \* proc:exec:<session>:<skill>
          judging,     \* the calls
          pending,     \* proc:pending:<action>: allowed commands, not reconciled
          challenges,  \* proc:challenge:<id>
          permits,     \* proc:permit:<id>
          warned,      \* the warn-once latches
          settling,    \* the reconciliations, and the commits of edits
          acks,        \* history: the acknowledgements
          waived,      \* history: what permits let through
          succeeded,   \* history: steps done, with the execution they were meant for
          advised      \* history: warnings on actions that went ahead

procVars == <<mode, exec, judging, pending, challenges, permits, warned, settling,
              acks, waived, succeeded, advised>>

Modes == {"advise", "require_ack", "block"}

\* A challenge is named by what it is bound to; the mode stands for the
\* version of the bundle.
Challenge == [step : Steps, action : Actions, bundle : Modes, no : 1 .. MaxExec + 1]
ExecRecord == [no : 1 .. MaxExec + 1, observed : SUBSET Steps, closed : BOOLEAN]
ASSUME NilAssumption == Nil \notin ExecRecord
NoJudging == [pc |-> "idle", by |-> Nil, action |-> Nil, no |-> 1, seen |-> {},
              todo |-> {}, verdict |-> "allow", bundle |-> Nil, lacks |-> {},
              claims |-> {}, paid |-> {}]
NoSettling == [pc |-> "idle", action |-> Nil, no |-> 1, todo |-> {}, raw |-> Nil]

ProcTypeOK ==
    /\ mode \in Modes
    /\ exec \in ExecRecord \cup {Nil}
    /\ judging \in [Calls -> [pc : {"idle", "judge", "bundle", "consume", "mint", "claim", "settle"},
                              by : Agents \cup {Nil}, action : Actions \cup {Nil},
                              no : 1 .. MaxExec + 1, seen : SUBSET Steps, todo : SUBSET Steps,
                              verdict : {"allow", "rethink", "block"}, bundle : Modes \cup {Nil},
                              lacks : SUBSET Steps, claims : SUBSET Steps,
                              paid : SUBSET (Steps \X (1 .. MaxAcks))]]
    /\ pending \subseteq [action : Actions, no : 1 .. MaxExec + 1]
    /\ challenges \subseteq Challenge
    /\ permits \subseteq [id : Challenge, by : Agents, ack : 1 .. MaxAcks]
    /\ warned \subseteq Steps \X (1 .. MaxExec + 1)
    /\ settling \in [Reconciles -> [pc : {"idle", "read", "drop", "open", "write"},
                                    action : Actions \cup {Nil}, no : 1 .. MaxExec + 1,
                                    todo : SUBSET Steps, raw : ExecRecord \cup {Nil}]]
    /\ acks \in Seq([by : Agents, id : Challenge])
    /\ waived \subseteq [ack : 1 .. MaxAcks, by : Agents, step : Steps, action : Actions,
                         no : 1 .. MaxExec + 1, use : Nat]
    /\ succeeded \subseteq Steps \X (1 .. MaxExec + 1)
    /\ advised \subseteq Steps \X (1 .. MaxExec + 1) \X Nat

ProcInit ==
    /\ mode = "advise"
    /\ exec = Nil
    /\ judging = [c \in Calls |-> NoJudging]
    /\ pending = {} /\ challenges = {} /\ permits = {} /\ warned = {}
    /\ settling = [r \in Reconciles |-> NoSettling]
    /\ acks = <<>> /\ waived = {} /\ succeeded = {} /\ advised = {}

-----------------------------------------------------------------------------
First(S) == CHOOSE s \in S : \A t \in S : s <= t
Idle(r)  == settling[r].pc = "idle"

\* The execution the next observation belongs to: a closed one is spent.
EffectiveNo(x) == IF x = Nil THEN 1 ELSE IF x.closed THEN x.no + 1 ELSE x.no
Observed(x)    == IF x = Nil THEN {} ELSE IF x.closed THEN {} ELSE x.observed

\* Load-bearing steps before s without evidence; the action is evidence of
\* every step it satisfies itself.
MissingLoadBearing(s, seen) == {t \in LoadBearing : t < s /\ t \notin seen}

KeepHistory == UNCHANGED <<acks, waived, succeeded, advised>>

\* decide() is asked about an action of agent m: it reads the execution once.
\* An action that matches no step is allowed, and leaves nothing behind.
Begin(c, m, a) ==
    /\ judging[c].pc = "idle"
    /\ Matches[a] # {}
    /\ EffectiveNo(exec) <= MaxExec
    /\ judging' = [judging EXCEPT ![c] = [NoJudging EXCEPT
          !.pc = "judge", !.by = m, !.action = a, !.no = EffectiveNo(exec),
          !.seen = Observed(exec), !.todo = Matches[a]]]
    /\ UNCHANGED <<mode, exec, pending, challenges, permits, warned, settling>> /\ KeepHistory

\* The loop over the matched steps goes on with the rest, or ends.
NextStep(j, s) ==
    [j EXCEPT !.todo = j.todo \ {s}, !.lacks = {},
              !.pc = IF j.todo = {s} THEN "settle" ELSE "judge"]

\* One matched step: nothing missing, or the mode decides.
Judge(c) ==
    /\ judging[c].pc = "judge"
    /\ LET s    == First(judging[c].todo)
           j    == [judging[c] EXCEPT !.seen = judging[c].seen \cup {s}]
           lack == MissingLoadBearing(s, j.seen)
       IN judging' = [judging EXCEPT ![c] =
            IF lack = {} THEN NextStep(j, s)
            ELSE IF j.action \in Edits THEN [j EXCEPT !.pc = "claim", !.lacks = lack]
            ELSE IF mode = "advise" THEN NextStep(j, s)
            ELSE IF mode = "block" THEN [NextStep(j, s) EXCEPT !.verdict = "block"]
            ELSE [j EXCEPT !.pc = IF j.bundle = Nil THEN "bundle" ELSE "consume"]]
    /\ UNCHANGED <<mode, exec, pending, challenges, permits, warned, settling>> /\ KeepHistory

\* build_bundle, once in a call.
ReadBundle(c) ==
    /\ judging[c].pc = "bundle"
    /\ judging' = [judging EXCEPT ![c].bundle = mode, ![c].pc = "consume"]
    /\ UNCHANGED <<mode, exec, pending, challenges, permits, warned, settling>> /\ KeepHistory

\* Mutant: an id that does not name the execution.
ChallengeId_AnyExec(j, s) ==
    [step |-> s, action |-> j.action, bundle |-> j.bundle, no |-> 1]

ChallengeId(j, s) == [step |-> s, action |-> j.action, bundle |-> j.bundle, no |-> j.no]

\* GETDEL: whoever reads the permit has taken it.
Spend(p) == permits \ {p}

\* consume_permit; a permit of another member is destroyed all the same.
ConsumePermit(c) ==
    /\ judging[c].pc = "consume"
    /\ LET j  == judging[c]
           s  == First(j.todo)
           id == ChallengeId(j, s)
       IN \/ \E p \in permits :
                /\ p.id = id
                /\ permits' = Spend(p)
                /\ judging' = [judging EXCEPT ![c] =
                      IF p.by = j.by
                      THEN [NextStep(j, s) EXCEPT !.paid = j.paid \cup {<<s, p.ack>>}]
                      ELSE [j EXCEPT !.pc = "mint"]]
          \/ /\ \A p \in permits : p.id # id
             /\ judging' = [judging EXCEPT ![c].pc = "mint"]
             /\ UNCHANGED permits
    /\ UNCHANGED <<mode, exec, pending, challenges, warned, settling>> /\ KeepHistory

MintChallenge(c) ==
    /\ judging[c].pc = "mint"
    /\ LET j == judging[c]
           s == First(j.todo)
       IN /\ challenges' = challenges \cup {ChallengeId(j, s)}
          /\ Cardinality(challenges') <= MaxOpen
          /\ judging' = [judging EXCEPT ![c] = [NextStep(j, s) EXCEPT
                !.verdict = IF j.verdict = "block" THEN "block" ELSE "rethink"]]
    /\ UNCHANGED <<mode, exec, pending, permits, warned, settling>> /\ KeepHistory

\* claim_warn for an edit: SET NX, one missing step at a time.
ClaimWarn(c) ==
    /\ judging[c].pc = "claim"
    /\ LET j == judging[c]
           t == First(j.lacks)
           k == IF <<t, j.no>> \in warned THEN j
                ELSE [j EXCEPT !.claims = j.claims \cup {t}]
       IN /\ warned' = warned \cup {<<t, j.no>>}
          /\ judging' = [judging EXCEPT ![c] =
                IF j.lacks = {t} THEN NextStep(k, First(j.todo))
                ELSE [k EXCEPT !.lacks = j.lacks \ {t}]]
    /\ UNCHANGED <<mode, exec, pending, challenges, permits, settling>> /\ KeepHistory

\* The decision is final and allows: a command becomes pending evidence, an
\* edit is recorded as done.
Allow(c) ==
    /\ judging[c].pc = "settle"
    /\ judging[c].verdict = "allow"
    /\ LET j == judging[c] IN
       /\ IF j.action \in Edits
          THEN /\ \E r \in Reconciles :
                     /\ Idle(r)
                     /\ settling' = [settling EXCEPT ![r] = [NoSettling EXCEPT !.pc = "read",
                           !.action = j.action, !.no = j.no, !.todo = Matches[j.action]]]
               /\ succeeded' = succeeded \cup (Matches[j.action] \X {j.no})
               /\ UNCHANGED pending
          ELSE /\ pending' = pending \cup {[action |-> j.action, no |-> j.no]}
               /\ Cardinality(pending') <= MaxOpen
               /\ UNCHANGED <<settling, succeeded>>
       /\ waived' = waived \cup {[ack |-> x[2], by |-> j.by, step |-> x[1], action |-> j.action,
                                  no |-> j.no, use |-> Cardinality(waived)] : x \in j.paid}
       /\ advised' = advised \cup {<<t, j.no, Cardinality(advised)>> : t \in j.claims}
    /\ judging' = [judging EXCEPT ![c] = NoJudging]
    /\ UNCHANGED <<mode, exec, challenges, permits, warned, acks>>

\* Mutant: a refused edit keeps nothing back.
Released_All(j) == {<<t, j.no>> : t \in Steps}

\* A refused edit gives its warnings back.
Released(j) == {<<t, j.no>> : t \in j.claims}

\* Refused: by the runbook, or by a policy that has nothing to do with it.
Refuse(c) ==
    /\ judging[c].pc = "settle"
    /\ warned' = warned \ Released(judging[c])
    /\ judging' = [judging EXCEPT ![c] = NoJudging]
    /\ UNCHANGED <<mode, exec, pending, challenges, permits, settling>> /\ KeepHistory

-----------------------------------------------------------------------------
(* The command has run *)

\* Evidence needs success and a real exit status of 0.
Succeeds(ok) == ok

\* reconcile takes the pending record; one that failed satisfies nothing.
TakePending(r, x, ok) ==
    /\ Idle(r)
    /\ x \in pending
    /\ pending' = pending \ {x}
    /\ settling' = IF Succeeds(ok)
          THEN [settling EXCEPT ![r] = [NoSettling EXCEPT !.pc = "read",
                   !.action = x.action, !.no = x.no, !.todo = Matches[x.action]]]
          ELSE settling
    /\ succeeded' = IF ok THEN succeeded \cup (Matches[x.action] \X {x.no}) ELSE succeeded
    /\ UNCHANGED <<mode, exec, judging, challenges, permits, warned, acks, waived, advised>>

\* The reconciliation never came.
PendingExpires(x) ==
    /\ x \in pending
    /\ pending' = pending \ {x}
    /\ UNCHANGED <<mode, exec, judging, challenges, permits, warned, settling>> /\ KeepHistory

Recorded(q, s) ==
    IF q.todo = {s} THEN NoSettling ELSE [q EXCEPT !.pc = "read", !.todo = q.todo \ {s}, !.raw = Nil]

\* Mutant: evidence is added to whatever execution is there.
Stale_Never(q, x) == FALSE

\* Evidence of an execution that has ended is dropped.
Stale(q, x) == q.no # EffectiveNo(x)

\* record_observation: what is there ...
ReadExec(r) ==
    /\ settling[r].pc = "read"
    /\ LET q == settling[r] IN
       settling' = [settling EXCEPT ![r] =
          IF Stale(q, exec)   THEN Recorded(q, First(q.todo))
          ELSE IF exec = Nil  THEN [q EXCEPT !.pc = "open"]
          ELSE IF exec.closed THEN [q EXCEPT !.pc = "drop"]
          ELSE [q EXCEPT !.pc = "write", !.raw = exec]]
    /\ UNCHANGED <<mode, exec, judging, pending, challenges, permits, warned>> /\ KeepHistory

\* ... a closed execution, kept elsewhere, is deleted ...
DropExec(r) ==
    /\ settling[r].pc = "drop"
    /\ exec' = Nil
    /\ settling' = [settling EXCEPT ![r].pc = "open"]
    /\ UNCHANGED <<mode, judging, pending, challenges, permits, warned>> /\ KeepHistory

\* ... a new execution's number, if there was none ...
OpenExec(r) ==
    /\ settling[r].pc = "open"
    /\ exec' = IF exec = Nil THEN [no |-> settling[r].no, observed |-> {}, closed |-> FALSE]
               ELSE [exec EXCEPT !.no = settling[r].no]
    /\ settling' = [settling EXCEPT ![r].pc = "write"]
    /\ UNCHANGED <<mode, judging, pending, challenges, permits, warned>> /\ KeepHistory

\* ... and the steps seen then, with this one.  The last step closes it when
\* it is a command.
WriteExec(r) ==
    /\ settling[r].pc = "write"
    /\ LET q    == settling[r]
           s    == First(q.todo)
           seen == (IF q.raw = Nil THEN {} ELSE q.raw.observed) \cup {s}
           ends == s = LastStep /\ q.action \notin Edits
       IN /\ exec' = [no |-> IF exec = Nil THEN 1 ELSE exec.no, observed |-> seen,
                      closed |-> IF ends THEN TRUE ELSE IF exec = Nil THEN FALSE ELSE exec.closed]
          /\ settling' = [settling EXCEPT ![r] = Recorded(q, s)]
    /\ UNCHANGED <<mode, judging, pending, challenges, permits, warned>> /\ KeepHistory

-----------------------------------------------------------------------------
(* Acknowledging, and arming *)

\* acknowledge: the challenge stays; the permit names who acknowledged.
Acknowledge(m, id) ==
    /\ id \in challenges
    /\ Len(acks) < MaxAcks
    /\ acks' = Append(acks, [by |-> m, id |-> id])
    /\ permits' = {p \in permits : p.id # id} \cup {[id |-> id, by |-> m, ack |-> Len(acks) + 1]}
    /\ UNCHANGED <<mode, exec, judging, pending, challenges, warned, settling, waived,
                   succeeded, advised>>

\* Both last ten minutes.
ChallengeExpires(id) ==
    /\ id \in challenges
    /\ challenges' = challenges \ {id}
    /\ UNCHANGED <<mode, exec, judging, pending, permits, warned, settling>> /\ KeepHistory

PermitExpires(p) ==
    /\ p \in permits
    /\ permits' = permits \ {p}
    /\ UNCHANGED <<mode, exec, judging, pending, challenges, warned, settling>> /\ KeepHistory

SetMode(x) ==
    /\ mode # x
    /\ mode' = x
    /\ UNCHANGED <<exec, judging, pending, challenges, permits, warned, settling>> /\ KeepHistory

ProcNext ==
    \/ \E c \in Calls, m \in Agents, a \in Actions : Begin(c, m, a)
    \/ \E c \in Calls : \/ Judge(c)
                        \/ ReadBundle(c)
                        \/ ConsumePermit(c)
                        \/ MintChallenge(c)
                        \/ ClaimWarn(c)
                        \/ Allow(c)
                        \/ Refuse(c)
    \/ \E r \in Reconciles : \/ \E x \in pending, ok \in BOOLEAN : TakePending(r, x, ok)
                             \/ ReadExec(r)
                             \/ DropExec(r)
                             \/ OpenExec(r)
                             \/ WriteExec(r)
    \/ \E x \in pending : PendingExpires(x)
    \/ \E m \in Agents, id \in challenges : Acknowledge(m, id)
    \/ \E id \in challenges : ChallengeExpires(id)
    \/ \E p \in permits : PermitExpires(p)
    \/ \E x \in Modes : SetMode(x)

ProcSpec == ProcInit /\ [][ProcNext]_procVars

-----------------------------------------------------------------------------
(* Properties *)

\* Evidence is success: the steps an execution has evidence of were done by a
\* file edit that went ahead or a command that exited with 0, and were judged
\* in that execution, not in one that had ended.
EvidenceIsSuccess ==
    exec # Nil => exec.observed \X {exec.no} \subseteq succeeded

\* A permit authorises one command, ever: what an acknowledgement let through
\* is one command of the member who acknowledged, the one challenged, in the
\* execution it was challenged in.
OneUsePermits ==
    /\ \A w \in waived : LET a == acks[w.ack] IN
          /\ a.by = w.by
          /\ <<a.id.step, a.id.action, a.id.no>> = <<w.step, w.action, w.no>>
    /\ \A v, w \in waived : v.ack = w.ack => v = w

\* An execution is warned of a missing step once: of the edits that went
\* ahead, at most one carried the warning.
WarnedOnce ==
    \A v, w \in advised : <<v[1], v[2]>> = <<w[1], w[2]>> => v = w
=============================================================================

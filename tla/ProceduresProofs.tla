--------------------------- MODULE ProceduresProofs ---------------------------
(***************************************************************************)
(* What Procedures promises of permits and of warnings, for any runbook,   *)
(* any members, and any number of calls and reconciliations at once.       *)
(*                                                                         *)
(* The argument follows an acknowledgement: it is held by one permit, or   *)
(* by one call that has consumed it, or by the command it let through, and *)
(* never by two of them.  A warning is followed in the same way: from the  *)
(* latch to the one call that claimed it, to the edit that carried it.     *)
(* With one reconciliation at a time, what it read of the execution is     *)
(* what the execution still says when it writes.                           *)
(*                                                                         *)
(* And what Corpus promises of a source for any chunks and generations,    *)
(* with one ingest or deletion of it at a time: a call that has staged a   *)
(* generation knows which of its points are there, and gated.              *)
(***************************************************************************)
EXTENDS Procedures, Corpus, FiniteSetTheorems, WellFoundedInduction, NaturalsInduction, TLAPS

JudgeRec == [pc : {"idle", "judge", "bundle", "consume", "mint", "claim", "settle"},
             by : Agents \cup {Nil}, action : Actions \cup {Nil},
             no : 1 .. MaxExec + 1, seen : SUBSET Steps, todo : SUBSET Steps,
             verdict : {"allow", "rethink", "block"}, bundle : Modes \cup {Nil},
             lacks : SUBSET Steps, claims : SUBSET Steps,
             paid : SUBSET (Steps \X (1 .. MaxAcks))]
SettleRec == [pc : {"idle", "read", "drop", "open", "write"},
              action : Actions \cup {Nil}, no : 1 .. MaxExec + 1,
              todo : SUBSET Steps, raw : ExecRecord \cup {Nil}]

\* An action some step matches.  Where a call is, what it still has to do.
Matched == {a \in Actions : Matches[a] # {}}
Working == {"judge", "bundle", "consume", "mint", "claim"}
Sound(j) == /\ j.pc \in Working => j.todo # {}
            /\ j.pc = "claim" => j.lacks # {}
            /\ j.pc \in {"consume", "mint"} => j.bundle \in Modes
            /\ j.pc # "idle" => j.by \in Agents /\ j.action \in Matched
CallInv ==
    /\ \A c \in Calls : Sound(judging[c])
    /\ \A r \in Reconciles : settling[r].pc # "idle" =>
          settling[r].todo # {} /\ settling[r].action \in Matched
    /\ \A x \in pending : x.action \in Matched
    /\ IsFiniteSet(waived) /\ IsFiniteSet(advised)

\* An acknowledgement is held once.
PermitInv ==
    /\ \A p \in permits : p.ack \in DOMAIN acks /\ acks[p.ack] = [by |-> p.by, id |-> p.id]
    /\ \A p, q \in permits : p.ack = q.ack => p = q
    /\ \A c \in Calls : \A x \in judging[c].paid :
          /\ x[2] \in DOMAIN acks
          /\ acks[x[2]].by = judging[c].by
          /\ acks[x[2]].id.step = x[1]
          /\ acks[x[2]].id.action = judging[c].action
          /\ acks[x[2]].id.no = judging[c].no
          /\ \A p \in permits : p.ack # x[2]
    /\ \A c, d \in Calls : \A x \in judging[c].paid, y \in judging[d].paid :
          x[2] = y[2] => c = d
    /\ \A w \in waived :
          /\ w.ack \in DOMAIN acks
          /\ acks[w.ack].by = w.by
          /\ acks[w.ack].id.step = w.step
          /\ acks[w.ack].id.action = w.action
          /\ acks[w.ack].id.no = w.no
          /\ \A p \in permits : p.ack # w.ack
          /\ \A c \in Calls : \A x \in judging[c].paid : x[2] # w.ack
    /\ \A v, w \in waived : v.ack = w.ack => v = w

\* A latch that is set was claimed by one call, or by one edit that went ahead.
WarnInv ==
    /\ \A c \in Calls : \A t \in judging[c].claims :
          /\ <<t, judging[c].no>> \in warned
          /\ \A v \in advised : ~(v[1] = t /\ v[2] = judging[c].no)
          /\ \A d \in Calls : t \in judging[d].claims /\ judging[d].no = judging[c].no => c = d
    /\ \A v \in advised : <<v[1], v[2]>> \in warned
    /\ \A v, w \in advised : v[1] = w[1] /\ v[2] = w[2] => v = w

IInv == ProcTypeOK /\ CallInv /\ PermitInv /\ WarnInv

-----------------------------------------------------------------------------
(* The first of a set of steps, and the records *)

LEMMA FirstIn ==
  ASSUME NEW S \in SUBSET Steps, S # {}
  PROVE  First(S) \in S
<1>1. S \subseteq Nat
  BY RunbookAssumption DEF Steps
<1>2. \E s \in S : \A t \in S : ~(<<t, s>> \in OpToRel(<, Nat))
  BY <1>1, NatLessThanWellFounded, WFMin
<1>3. \A s, t \in Nat : <<t, s>> \in OpToRel(<, Nat) <=> t < s
  BY DEF OpToRel
<1>4. \A s, t \in S : ~(t < s) <=> s <= t
  BY <1>1
<1>5. \E s \in S : \A t \in S : s <= t
  BY <1>1, <1>2, <1>3, <1>4
<1> QED
  BY <1>5 DEF First

LEMMA Typing ==
  ASSUME ProcTypeOK
  PROVE  /\ judging \in [Calls -> JudgeRec]
         /\ settling \in [Reconciles -> SettleRec]
         /\ NoJudging \in JudgeRec
         /\ NoSettling \in SettleRec
  BY RunbookAssumption DEF ProcTypeOK, JudgeRec, SettleRec, NoJudging, NoSettling

LEMMA NumberIs ==
  ASSUME NEW x \in ExecRecord \cup {Nil}
  PROVE  EffectiveNo(x) \in Nat /\ 1 <= EffectiveNo(x) /\ Observed(x) \in SUBSET Steps
  BY RunbookAssumption DEF EffectiveNo, Observed, ExecRecord

\* What the rest of a call's judgement keeps.
LEMMA NextStepIs ==
  ASSUME NEW j \in JudgeRec, NEW s \in j.todo, j.by \in Agents, j.action \in Matched
  PROVE  /\ NextStep(j, s) \in JudgeRec
         /\ NextStep(j, s).pc \in {"judge", "settle"}
         /\ Sound(NextStep(j, s))
         /\ NextStep(j, s).by = j.by /\ NextStep(j, s).action = j.action
         /\ NextStep(j, s).no = j.no /\ NextStep(j, s).paid = j.paid
         /\ NextStep(j, s).claims = j.claims
  BY DEF NextStep, JudgeRec, Sound, Working

-----------------------------------------------------------------------------
(* How each step of a call moves the call *)

\* Call c becomes another call of the right shape, and the others stay.
Moves(c) == /\ judging' \in [Calls -> JudgeRec]
            /\ \A d \in Calls : d # c => judging'[d] = judging[d]
            /\ Sound(judging'[c])
\* It carries what it carried.
Carries(c) == /\ judging'[c].by = judging[c].by /\ judging'[c].action = judging[c].action
              /\ judging'[c].no = judging[c].no /\ judging'[c].paid = judging[c].paid
              /\ judging'[c].claims = judging[c].claims

LEMMA Moved ==
  ASSUME ProcTypeOK, CallInv, NEW c \in Calls, NEW j \in JudgeRec, Sound(j),
         judging' = [judging EXCEPT ![c] = j]
  PROVE  Moves(c) /\ judging'[c] = j
  BY Typing DEF Moves

LEMMA BeginMoves ==
  ASSUME ProcTypeOK, CallInv, NEW c \in Calls, NEW m \in Agents, NEW a \in Actions,
         Begin(c, m, a)
  PROVE  Moves(c) /\ judging'[c].paid = {} /\ judging'[c].claims = {}
<1> DEFINE j == [NoJudging EXCEPT !.pc = "judge", !.by = m, !.action = a,
                    !.no = EffectiveNo(exec), !.seen = Observed(exec), !.todo = Matches[a]]
<1>1. EffectiveNo(exec) \in 1 .. MaxExec + 1 /\ Observed(exec) \in SUBSET Steps
  BY RunbookAssumption, NumberIs DEF Begin, ProcTypeOK
<1>2. Matches[a] \in SUBSET Steps /\ Matches[a] # {}
  BY RunbookAssumption DEF Begin
<1>3. j \in JudgeRec /\ j.pc = "judge" /\ j.by = m /\ j.action = a /\ j.todo = Matches[a]
      /\ j.paid = {} /\ j.claims = {}
  BY <1>1, <1>2 DEF NoJudging, JudgeRec
<1>4. Sound(j)
  BY <1>2, <1>3 DEF Sound, Working, Matched
<1>5. judging' = [judging EXCEPT ![c] = j]
  BY DEF Begin
<1> HIDE DEF j
<1> QED
  BY <1>3, <1>4, <1>5, Moved

LEMMA JudgeMoves ==
  ASSUME ProcTypeOK, CallInv, NEW c \in Calls, Judge(c)
  PROVE  Moves(c) /\ Carries(c)
<1> DEFINE i    == judging[c]
           s    == First(i.todo)
           j    == [i EXCEPT !.seen = i.seen \cup {s}]
           lack == MissingLoadBearing(s, j.seen)
<1>1. i \in JudgeRec /\ i.pc = "judge" /\ i.todo # {} /\ i.by \in Agents /\ i.action \in Matched
  BY Typing DEF Judge, CallInv, Sound, Working
<1>2. s \in i.todo /\ s \in Steps
  BY <1>1, FirstIn DEF JudgeRec
<1>3. /\ j \in JudgeRec /\ j.by = i.by /\ j.action = i.action /\ j.no = i.no
      /\ j.paid = i.paid /\ j.claims = i.claims /\ j.todo = i.todo /\ j.pc = "judge"
      /\ j.bundle = i.bundle
  BY <1>1, <1>2 DEF JudgeRec
<1>4. lack \in SUBSET Steps
  BY RunbookAssumption DEF MissingLoadBearing
<1>5. judging' = [judging EXCEPT ![c] =
            IF lack = {} THEN NextStep(j, s)
            ELSE IF j.action \in Edits THEN [j EXCEPT !.pc = "claim", !.lacks = lack]
            ELSE IF mode = "advise" THEN NextStep(j, s)
            ELSE IF mode = "block" THEN [NextStep(j, s) EXCEPT !.verdict = "block"]
            ELSE [j EXCEPT !.pc = IF j.bundle = Nil THEN "bundle" ELSE "consume"]]
  BY DEF Judge
<1> DEFINE Fine(k) == /\ k \in JudgeRec /\ Sound(k) /\ k.by = i.by /\ k.action = i.action
                      /\ k.no = i.no /\ k.paid = i.paid /\ k.claims = i.claims
<1> HIDE DEF s, j, lack
<1>6. Fine(NextStep(j, s))
  BY <1>1, <1>2, <1>3, NextStepIs
<1>7. Fine([NextStep(j, s) EXCEPT !.verdict = "block"])
  <2> DEFINE n == NextStep(j, s)
  <2> HIDE DEF n
  <2>1. n \in JudgeRec /\ Fine(n)
    BY <1>6 DEF n
  <2>2. Fine([n EXCEPT !.verdict = "block"])
    BY <2>1 DEF JudgeRec, Sound
  <2> QED
    BY <2>2 DEF n
<1>8. lack # {} => Fine([j EXCEPT !.pc = "claim", !.lacks = lack])
  BY <1>1, <1>3, <1>4 DEF JudgeRec, Sound, Working
<1>9. Fine([j EXCEPT !.pc = IF j.bundle = Nil THEN "bundle" ELSE "consume"])
  BY <1>1, <1>3 DEF JudgeRec, Sound, Working
<1>10. \E k : Fine(k) /\ judging' = [judging EXCEPT ![c] = k]
  BY <1>5, <1>6, <1>7, <1>8, <1>9
<1> QED
  BY <1>10, Moved DEF Carries

LEMMA ReadBundleMoves ==
  ASSUME ProcTypeOK, CallInv, NEW c \in Calls, ReadBundle(c)
  PROVE  Moves(c) /\ Carries(c)
<1> DEFINE i == judging[c]
           k == [i EXCEPT !.bundle = mode, !.pc = "consume"]
<1>1. i \in JudgeRec /\ i.todo # {} /\ i.by \in Agents /\ i.action \in Matched /\ mode \in Modes
  BY Typing DEF ReadBundle, CallInv, Sound, Working, ProcTypeOK
<1>2. /\ k \in JudgeRec /\ Sound(k) /\ k.by = i.by /\ k.action = i.action
      /\ k.no = i.no /\ k.paid = i.paid /\ k.claims = i.claims
  BY <1>1 DEF JudgeRec, Sound, Working
<1>3. judging' = [judging EXCEPT ![c] = k]
  BY <1>1, Typing DEF ReadBundle
<1> HIDE DEF k
<1> QED
  BY <1>2, <1>3, Moved DEF Carries

\* A permit is taken by the call it authorises, or destroyed.
LEMMA ConsumeMoves ==
  ASSUME ProcTypeOK, CallInv, NEW c \in Calls, ConsumePermit(c)
  PROVE  /\ Moves(c)
         /\ \/ Carries(c) /\ permits' \subseteq permits
            \/ \E p \in permits :
                  /\ permits' = permits \ {p}
                  /\ judging'[c].paid = judging[c].paid \cup {<<p.id.step, p.ack>>}
                  /\ judging'[c].by = judging[c].by /\ judging'[c].by = p.by
                  /\ judging'[c].action = judging[c].action /\ judging'[c].action = p.id.action
                  /\ judging'[c].no = judging[c].no /\ judging'[c].no = p.id.no
                  /\ judging'[c].claims = judging[c].claims
<1> DEFINE i  == judging[c]
           s  == First(i.todo)
           id == ChallengeId(i, s)
           m  == [i EXCEPT !.pc = "mint"]
           n  == NextStep(i, s)
<1>1. /\ i \in JudgeRec /\ i.pc = "consume" /\ i.todo # {} /\ i.by \in Agents
      /\ i.action \in Matched /\ i.bundle \in Modes
  BY Typing DEF ConsumePermit, CallInv, Sound, Working
<1>2. s \in i.todo /\ s \in Steps
  BY <1>1, FirstIn DEF JudgeRec
<1>3. /\ n \in JudgeRec /\ Sound(n) /\ n.by = i.by /\ n.action = i.action /\ n.no = i.no
      /\ n.paid = i.paid /\ n.claims = i.claims
  BY <1>1, <1>2, NextStepIs
<1>4. /\ m \in JudgeRec /\ Sound(m) /\ m.by = i.by /\ m.action = i.action /\ m.no = i.no
      /\ m.paid = i.paid /\ m.claims = i.claims
  BY <1>1 DEF JudgeRec, Sound, Working
<1>5. id.step = s /\ id.action = i.action /\ id.no = i.no
  BY DEF ChallengeId
<1>6. \/ \E p \in permits :
            /\ p.id = id
            /\ permits' = Spend(p)
            /\ judging' = [judging EXCEPT ![c] =
                  IF p.by = i.by THEN [n EXCEPT !.paid = i.paid \cup {<<s, p.ack>>}] ELSE m]
      \/ judging' = [judging EXCEPT ![c] = m] /\ UNCHANGED permits
  <2>1. [judging EXCEPT ![c].pc = "mint"] = [judging EXCEPT ![c] = m]
    BY <1>1, Typing
  <2> HIDE DEF n, m
  <2> QED
    BY <2>1 DEF ConsumePermit, n, m
<1> HIDE DEF s, id, m, n
<1>7. ASSUME NEW p \in permits, p.id = id, p.by = i.by
      PROVE  LET k == [n EXCEPT !.paid = i.paid \cup {<<s, p.ack>>}]
             IN /\ k \in JudgeRec /\ Sound(k) /\ k.by = i.by /\ k.action = i.action
                /\ k.no = i.no /\ k.paid = i.paid \cup {<<s, p.ack>>} /\ k.claims = i.claims
  <2>1. p.ack \in 1 .. MaxAcks
    BY DEF ProcTypeOK
  <2>2. i.paid \cup {<<s, p.ack>>} \in SUBSET (Steps \X (1 .. MaxAcks))
    BY <1>1, <1>2, <2>1 DEF JudgeRec
  <2> QED
    BY <1>3, <2>2 DEF JudgeRec, Sound
<1>8. ASSUME NEW p \in permits, p.id = id, permits' = Spend(p), p.by = i.by,
             judging' = [judging EXCEPT ![c] = [n EXCEPT !.paid = i.paid \cup {<<s, p.ack>>}]]
      PROVE  /\ Moves(c)
             /\ permits' = permits \ {p}
             /\ judging'[c].paid = i.paid \cup {<<p.id.step, p.ack>>}
             /\ judging'[c].by = i.by /\ i.by = p.by
             /\ judging'[c].action = i.action /\ i.action = p.id.action
             /\ judging'[c].no = i.no /\ i.no = p.id.no
             /\ judging'[c].claims = i.claims
  <2> DEFINE k == [n EXCEPT !.paid = i.paid \cup {<<s, p.ack>>}]
  <2>1. /\ k \in JudgeRec /\ Sound(k) /\ k.by = i.by /\ k.action = i.action
        /\ k.no = i.no /\ k.paid = i.paid \cup {<<s, p.ack>>} /\ k.claims = i.claims
    BY <1>7, <1>8
  <2>2. judging' = [judging EXCEPT ![c] = k]
    BY <1>8
  <2> HIDE DEF k
  <2>3. Moves(c) /\ judging'[c] = k
    BY <2>1, <2>2, Moved
  <2> QED
    BY <1>5, <1>8, <2>1, <2>3 DEF Spend
<1>9. CASE judging' = [judging EXCEPT ![c] = m] /\ permits' \subseteq permits
  BY <1>4, <1>9, Moved DEF Carries
<1> QED
  BY <1>6, <1>8, <1>9 DEF Spend

LEMMA MintMoves ==
  ASSUME ProcTypeOK, CallInv, NEW c \in Calls, MintChallenge(c)
  PROVE  Moves(c) /\ Carries(c) /\ challenges' \subseteq Challenge
<1> DEFINE i == judging[c]
           s == First(i.todo)
           n == NextStep(i, s)
           k == [n EXCEPT !.verdict = IF i.verdict = "block" THEN "block" ELSE "rethink"]
<1>1. /\ i \in JudgeRec /\ i.todo # {} /\ i.by \in Agents
      /\ i.action \in Matched /\ i.bundle \in Modes
  BY Typing DEF MintChallenge, CallInv, Sound, Working
<1>2. s \in i.todo /\ s \in Steps
  BY <1>1, FirstIn DEF JudgeRec
<1>3. /\ n \in JudgeRec /\ Sound(n) /\ n.by = i.by /\ n.action = i.action /\ n.no = i.no
      /\ n.paid = i.paid /\ n.claims = i.claims
  BY <1>1, <1>2, NextStepIs
<1>4. ChallengeId(i, s) \in Challenge
  BY <1>1, <1>2 DEF ChallengeId, Challenge, JudgeRec, Matched
<1>5. judging' = [judging EXCEPT ![c] = k] /\ challenges' = challenges \cup {ChallengeId(i, s)}
  BY DEF MintChallenge
<1> HIDE DEF n, s
<1>6. /\ k \in JudgeRec /\ Sound(k) /\ k.by = i.by /\ k.action = i.action /\ k.no = i.no
      /\ k.paid = i.paid /\ k.claims = i.claims
  BY <1>3 DEF JudgeRec, Sound
<1> HIDE DEF k
<1> QED
  BY <1>4, <1>5, <1>6, Moved DEF Carries, ProcTypeOK

\* An edit claims a latch nobody has set.
LEMMA ClaimMoves ==
  ASSUME ProcTypeOK, CallInv, NEW c \in Calls, ClaimWarn(c)
  PROVE  /\ Moves(c)
         /\ judging'[c].by = judging[c].by /\ judging'[c].action = judging[c].action
         /\ judging'[c].no = judging[c].no /\ judging'[c].paid = judging[c].paid
         /\ \E t \in Steps :
               /\ warned' = warned \cup {<<t, judging[c].no>>}
               /\ judging'[c].claims = IF <<t, judging[c].no>> \in warned THEN judging[c].claims
                                       ELSE judging[c].claims \cup {t}
<1> DEFINE i == judging[c]
           t == First(i.lacks)
           s == First(i.todo)
           k == IF <<t, i.no>> \in warned THEN i ELSE [i EXCEPT !.claims = i.claims \cup {t}]
           l == [k EXCEPT !.lacks = i.lacks \ {t}]
<1>1. /\ i \in JudgeRec /\ i.pc = "claim" /\ i.todo # {} /\ i.lacks # {} /\ i.by \in Agents
      /\ i.action \in Matched
  BY Typing DEF ClaimWarn, CallInv, Sound, Working
<1>2. s \in i.todo /\ t \in i.lacks /\ t \in Steps
  BY <1>1, FirstIn DEF JudgeRec
<1>3. /\ warned' = warned \cup {<<t, i.no>>}
      /\ judging' = [judging EXCEPT ![c] = IF i.lacks = {t} THEN NextStep(k, s) ELSE l]
  BY DEF ClaimWarn
<1> HIDE DEF t, s
<1>4. /\ k \in JudgeRec /\ k.by = i.by /\ k.action = i.action /\ k.no = i.no /\ k.pc = "claim"
      /\ k.paid = i.paid /\ k.todo = i.todo
      /\ k.claims = IF <<t, i.no>> \in warned THEN i.claims ELSE i.claims \cup {t}
  BY <1>1, <1>2 DEF JudgeRec
<1> HIDE DEF k
<1>5. /\ NextStep(k, s) \in JudgeRec /\ Sound(NextStep(k, s)) /\ NextStep(k, s).by = i.by
      /\ NextStep(k, s).action = i.action /\ NextStep(k, s).no = i.no
      /\ NextStep(k, s).paid = i.paid /\ NextStep(k, s).claims = k.claims
  BY <1>1, <1>2, <1>4, NextStepIs
<1>6. i.lacks # {t} =>
         /\ l \in JudgeRec /\ Sound(l) /\ l.by = i.by /\ l.action = i.action /\ l.no = i.no
         /\ l.paid = i.paid /\ l.claims = k.claims
  BY <1>1, <1>2, <1>4 DEF JudgeRec, Sound, Working
<1> HIDE DEF l
<1>7. CASE i.lacks = {t}
  BY <1>2, <1>3, <1>4, <1>5, <1>7, Moved
<1>8. CASE i.lacks # {t}
  BY <1>2, <1>3, <1>4, <1>6, <1>8, Moved
<1> QED
  BY <1>7, <1>8

LEMMA EndMoves ==
  ASSUME ProcTypeOK, CallInv, NEW c \in Calls, Allow(c) \/ Refuse(c)
  PROVE  /\ Moves(c)
         /\ judging[c].pc = "settle"
         /\ judging'[c].paid = {} /\ judging'[c].claims = {}
<1>1. judging' = [judging EXCEPT ![c] = NoJudging] /\ judging[c].pc = "settle"
  BY DEF Allow, Refuse
<1>2. Sound(NoJudging) /\ NoJudging.paid = {} /\ NoJudging.claims = {}
  BY DEF Sound, Working, NoJudging
<1> QED
  BY <1>1, <1>2, Typing, Moved

-----------------------------------------------------------------------------
(* Every variable has its type, and every call and reconciliation is sound *)

LEMMA ImageFinite ==
  ASSUME NEW S, IsFiniteSet(S), NEW T, NEW f \in [S -> T]
  PROVE  IsFiniteSet({f[x] : x \in S})
<1> DEFINE U == {f[x] : x \in S}
<1>1. f \in Surjection(S, U)
  BY DEF Surjection
<1> QED
  BY <1>1, FS_Surjection

\* What an allowed call adds to the history.
LEMMA AllowAdds ==
  ASSUME ProcTypeOK, CallInv, NEW c \in Calls, Allow(c)
  PROVE  /\ waived' \subseteq [ack : 1 .. MaxAcks, by : Agents, step : Steps, action : Actions,
                               no : 1 .. MaxExec + 1, use : Nat]
         /\ advised' \subseteq Steps \X (1 .. MaxExec + 1) \X Nat
         /\ IsFiniteSet(waived') /\ IsFiniteSet(advised')
         /\ \A w \in waived' \ waived : \E x \in judging[c].paid :
               /\ w.ack = x[2] /\ w.step = x[1] /\ w.by = judging[c].by
               /\ w.action = judging[c].action /\ w.no = judging[c].no
               /\ w.use = Cardinality(waived)
         /\ \A v \in advised' \ advised :
               v[1] \in judging[c].claims /\ v[2] = judging[c].no /\ v[3] = Cardinality(advised)
         /\ waived \subseteq waived' /\ advised \subseteq advised'
<1> DEFINE j == judging[c]
           W == [x \in j.paid |-> [ack |-> x[2], by |-> j.by, step |-> x[1], action |-> j.action,
                                   no |-> j.no, use |-> Cardinality(waived)]]
           A == [t \in j.claims |-> <<t, j.no, Cardinality(advised)>>]
           Ws == {W[x] : x \in j.paid}
           As == {A[t] : t \in j.claims}
           WT == [ack : 1 .. MaxAcks, by : Agents, step : Steps, action : Actions,
                  no : 1 .. MaxExec + 1, use : Nat]
<1>1. /\ j \in JudgeRec /\ j.by \in Agents /\ j.action \in Actions
  BY Typing DEF Allow, CallInv, Sound, Matched
<1>2. Cardinality(waived) \in Nat /\ Cardinality(advised) \in Nat
  BY FS_CardinalityType DEF CallInv
<1>3. IsFiniteSet(Steps) /\ IsFiniteSet(1 .. MaxAcks)
  BY RunbookAssumption, FS_Interval DEF Steps
<1>4. IsFiniteSet(j.paid) /\ IsFiniteSet(j.claims)
  BY <1>1, <1>3, FS_Product, FS_Subset DEF JudgeRec
<1>5. W \in [j.paid -> WT] /\ A \in [j.claims -> Steps \X (1 .. MaxExec + 1) \X Nat]
  BY <1>1, <1>2 DEF JudgeRec
<1>6. waived' = waived \cup Ws /\ advised' = advised \cup As
  BY DEF Allow
<1>7. IsFiniteSet(Ws) /\ IsFiniteSet(As)
  <2> DEFINE AT == Steps \X (1 .. MaxExec + 1) \X Nat
             S  == j.paid
             R  == j.claims
  <2>1. W \in [S -> WT] /\ A \in [R -> AT] /\ IsFiniteSet(S) /\ IsFiniteSet(R)
    BY <1>4, <1>5
  <2> HIDE DEF W, A, WT, AT, S, R
  <2>2. IsFiniteSet({W[x] : x \in S})
    BY <2>1, ImageFinite
  <2>3. IsFiniteSet({A[t] : t \in R})
    BY <2>1, ImageFinite
  <2> QED
    BY <2>2, <2>3 DEF S, R
<1>8. IsFiniteSet(waived') /\ IsFiniteSet(advised')
  <2> HIDE DEF Ws, As
  <2> QED
    BY <1>6, <1>7, FS_Union DEF CallInv
<1>9. Ws \subseteq WT /\ As \subseteq Steps \X (1 .. MaxExec + 1) \X Nat
  BY <1>5
<1>10. waived \subseteq WT /\ advised \subseteq Steps \X (1 .. MaxExec + 1) \X Nat
  BY DEF ProcTypeOK
<1>11. /\ \A w \in Ws : \E x \in judging[c].paid :
             /\ w.ack = x[2] /\ w.step = x[1] /\ w.by = judging[c].by
             /\ w.action = judging[c].action /\ w.no = judging[c].no
             /\ w.use = Cardinality(waived)
       /\ \A v \in As :
             v[1] \in judging[c].claims /\ v[2] = judging[c].no /\ v[3] = Cardinality(advised)
  <2>1. \A x \in j.paid :
           /\ W[x].ack = x[2] /\ W[x].step = x[1] /\ W[x].by = j.by
           /\ W[x].action = j.action /\ W[x].no = j.no /\ W[x].use = Cardinality(waived)
    OBVIOUS
  <2>2. \A t \in j.claims : A[t][1] = t /\ A[t][2] = j.no /\ A[t][3] = Cardinality(advised)
    OBVIOUS
  <2> HIDE DEF W, A
  <2> QED
    BY <2>1, <2>2
<1> HIDE DEF Ws, As, WT
<1>12. waived' \subseteq WT /\ advised' \subseteq Steps \X (1 .. MaxExec + 1) \X Nat
  BY <1>6, <1>9, <1>10
<1> QED
  BY <1>6, <1>8, <1>11, <1>12 DEF WT

LEMMA CallTyped ==
  ASSUME CallInv, NEW c \in Calls, Moves(c)
  PROVE  judging' \in [Calls -> JudgeRec] /\ \A d \in Calls : Sound(judging'[d])
  BY DEF Moves, CallInv

\* Reconciliation r becomes another of the right shape.
LEMMA SettleTyped ==
  ASSUME ProcTypeOK, CallInv, NEW r \in Reconciles, NEW q \in SettleRec,
         q.pc # "idle" => q.todo # {} /\ q.action \in Matched,
         settling' = [settling EXCEPT ![r] = q]
  PROVE  /\ settling' \in [Reconciles -> SettleRec]
         /\ \A x \in Reconciles : settling'[x].pc # "idle" =>
               settling'[x].todo # {} /\ settling'[x].action \in Matched
  BY Typing DEF CallInv

LEMMA RecordedIs ==
  ASSUME NEW q \in SettleRec, NEW s \in q.todo, q.action \in Matched
  PROVE  /\ Recorded(q, s) \in SettleRec
         /\ Recorded(q, s).pc # "idle" => Recorded(q, s).todo # {} /\ Recorded(q, s).action \in Matched
<1>1. CASE q.todo = {s}
  BY <1>1, RunbookAssumption DEF Recorded, SettleRec, NoSettling
<1>2. CASE q.todo # {s}
  <2> DEFINE k == [q EXCEPT !.pc = "read", !.todo = q.todo \ {s}, !.raw = Nil]
  <2>1. Recorded(q, s) = k
    BY <1>2 DEF Recorded
  <2>2. k \in SettleRec /\ k.todo # {} /\ k.action = q.action
    BY <1>2 DEF SettleRec
  <2> HIDE DEF k
  <2> QED
    BY <2>1, <2>2
<1> QED
  BY <1>1, <1>2

\* A settlement that starts has steps to record.
LEMMA StartsTyped ==
  ASSUME NEW a \in Matched, NEW n \in 1 .. MaxExec + 1
  PROVE  LET q == [NoSettling EXCEPT !.pc = "read", !.action = a, !.no = n, !.todo = Matches[a]]
         IN q \in SettleRec /\ q.todo # {} /\ q.action \in Matched
  BY RunbookAssumption DEF NoSettling, SettleRec, Matched

LEMMA TypeStep ==
  ASSUME ProcTypeOK, CallInv, [ProcNext]_procVars
  PROVE  ProcTypeOK' /\ CallInv'
<1> USE DEF KeepHistory
<1>1. CASE UNCHANGED procVars
  BY <1>1 DEF procVars, ProcTypeOK, CallInv, Idle
<1>2. ASSUME NEW c \in Calls, Moves(c),
             UNCHANGED <<mode, exec, pending, settling, acks, waived, succeeded, advised>>,
             challenges' \subseteq Challenge, permits' \subseteq permits,
             warned' \subseteq Steps \X (1 .. MaxExec + 1)
      PROVE  ProcTypeOK' /\ CallInv'
  <2>1. judging' \in [Calls -> JudgeRec] /\ \A d \in Calls : Sound(judging'[d])
    BY <1>2, CallTyped
  <2> QED
    BY <1>2, <2>1 DEF ProcTypeOK, CallInv, JudgeRec
<1>3. ASSUME NEW c \in Calls, NEW m \in Agents, NEW a \in Actions, Begin(c, m, a)
      PROVE  ProcTypeOK' /\ CallInv'
  <2>1. /\ UNCHANGED <<mode, exec, pending, settling, acks, waived, succeeded, advised>>
        /\ UNCHANGED <<challenges, permits, warned>>
    BY <1>3 DEF Begin
  <2> QED
    BY <1>2, <1>3, <2>1, BeginMoves DEF ProcTypeOK
<1>4. ASSUME NEW c \in Calls, Judge(c) \/ ReadBundle(c)
      PROVE  ProcTypeOK' /\ CallInv'
  <2>1. /\ UNCHANGED <<mode, exec, pending, settling, acks, waived, succeeded, advised>>
        /\ UNCHANGED <<challenges, permits, warned>>
    BY <1>4 DEF Judge, ReadBundle
  <2>2. Moves(c)
    BY <1>4, JudgeMoves, ReadBundleMoves
  <2> QED
    BY <1>2, <2>1, <2>2 DEF ProcTypeOK
<1>5. ASSUME NEW c \in Calls, ConsumePermit(c) \/ MintChallenge(c)
      PROVE  ProcTypeOK' /\ CallInv'
  <2>1. UNCHANGED <<mode, exec, pending, settling, acks, waived, succeeded, advised, warned>>
    BY <1>5 DEF ConsumePermit, MintChallenge
  <2>2. Moves(c)
    BY <1>5, ConsumeMoves, MintMoves
  <2>3. permits' \subseteq permits
    BY <1>5, ConsumeMoves DEF MintChallenge
  <2>4. challenges' \subseteq Challenge
    BY <1>5, MintMoves DEF ConsumePermit, ProcTypeOK
  <2> QED
    BY <1>2, <2>1, <2>2, <2>3, <2>4 DEF ProcTypeOK
<1>6. ASSUME NEW c \in Calls, ClaimWarn(c)
      PROVE  ProcTypeOK' /\ CallInv'
  <2>1. /\ UNCHANGED <<mode, exec, pending, settling, acks, waived, succeeded, advised>>
        /\ UNCHANGED <<challenges, permits>>
    BY <1>6 DEF ClaimWarn
  <2>2. Moves(c)
    BY <1>6, ClaimMoves
  <2>3. judging[c].no \in 1 .. MaxExec + 1
    BY Typing DEF JudgeRec
  <2>4. warned' \subseteq Steps \X (1 .. MaxExec + 1)
    <3>1. PICK t \in Steps : warned' = warned \cup {<<t, judging[c].no>>}
      BY <1>6, ClaimMoves
    <3>2. <<t, judging[c].no>> \in Steps \X (1 .. MaxExec + 1)
      BY <2>3
    <3> QED
      BY <3>1, <3>2 DEF ProcTypeOK
  <2> QED
    BY <1>2, <2>1, <2>2, <2>4 DEF ProcTypeOK
<1>7. ASSUME NEW c \in Calls, Refuse(c)
      PROVE  ProcTypeOK' /\ CallInv'
  <2>1. /\ UNCHANGED <<mode, exec, pending, settling, acks, waived, succeeded, advised>>
        /\ UNCHANGED <<challenges, permits>>
        /\ warned' \subseteq warned
    BY <1>7 DEF Refuse
  <2> QED
    BY <1>2, <1>7, <2>1, EndMoves DEF ProcTypeOK
<1>8. ASSUME NEW c \in Calls, Allow(c)
      PROVE  ProcTypeOK' /\ CallInv'
  <2> DEFINE j == judging[c]
  <2>1. UNCHANGED <<mode, exec, challenges, permits, warned, acks>>
    BY <1>8 DEF Allow
  <2>2. judging' \in [Calls -> JudgeRec] /\ \A d \in Calls : Sound(judging'[d])
    BY <1>8, CallTyped, EndMoves
  <2>3. j.action \in Matched /\ j.no \in 1 .. MaxExec + 1
    BY <1>8, Typing DEF Allow, CallInv, Sound, JudgeRec
  <2>4. /\ settling' \in [Reconciles -> SettleRec]
        /\ \A x \in Reconciles : settling'[x].pc # "idle" =>
              settling'[x].todo # {} /\ settling'[x].action \in Matched
    <3>1. CASE UNCHANGED settling
      BY <3>1, Typing DEF CallInv
    <3>2. ASSUME NEW r \in Reconciles,
                 settling' = [settling EXCEPT ![r] = [NoSettling EXCEPT !.pc = "read",
                           !.action = j.action, !.no = j.no, !.todo = Matches[j.action]]]
          PROVE  <2>4!:
      <4> HIDE DEF j
      <4> QED
        BY <2>3, <3>2, StartsTyped, SettleTyped
    <3> QED
      BY <1>8, <3>1, <3>2 DEF Allow
  <2>5. /\ pending' \subseteq [action : Actions, no : 1 .. MaxExec + 1]
        /\ \A x \in pending' : x.action \in Matched
    <3>1. \/ pending' = pending
          \/ pending' = pending \cup {[action |-> j.action, no |-> j.no]}
      BY <1>8 DEF Allow
    <3>2. /\ [action |-> j.action, no |-> j.no] \in [action : Actions, no : 1 .. MaxExec + 1]
          /\ [action |-> j.action, no |-> j.no].action \in Matched
      BY <2>3 DEF Matched
    <3>3. pending \subseteq [action : Actions, no : 1 .. MaxExec + 1]
          /\ \A x \in pending : x.action \in Matched
      BY DEF ProcTypeOK, CallInv
    <3> HIDE DEF j
    <3> QED
      BY <3>1, <3>2, <3>3
  <2>6. succeeded' \subseteq Steps \X (1 .. MaxExec + 1)
    BY <1>8, <2>3, RunbookAssumption DEF Allow, ProcTypeOK, Matched
  <2> HIDE DEF j
  <2> QED
    BY <1>8, <2>1, <2>2, <2>4, <2>5, <2>6, AllowAdds DEF ProcTypeOK, CallInv, JudgeRec, SettleRec
<1>9. ASSUME UNCHANGED <<mode, judging, challenges, permits, warned, acks, waived, advised>>,
             pending' \subseteq pending, exec' \in ExecRecord \cup {Nil},
             succeeded' \subseteq Steps \X (1 .. MaxExec + 1),
             settling' \in [Reconciles -> SettleRec],
             \A x \in Reconciles : settling'[x].pc # "idle" =>
                settling'[x].todo # {} /\ settling'[x].action \in Matched
      PROVE  ProcTypeOK' /\ CallInv'
  BY <1>9 DEF ProcTypeOK, CallInv, SettleRec
<1>10. /\ exec \in ExecRecord \cup {Nil} /\ succeeded \subseteq Steps \X (1 .. MaxExec + 1)
       /\ settling \in [Reconciles -> SettleRec]
       /\ \A x \in Reconciles : settling[x].pc # "idle" =>
             settling[x].todo # {} /\ settling[x].action \in Matched
  BY Typing DEF ProcTypeOK, CallInv
<1>11. ASSUME NEW r \in Reconciles, NEW x \in pending, NEW ok \in BOOLEAN, TakePending(r, x, ok)
       PROVE  ProcTypeOK' /\ CallInv'
  <2>1. x.action \in Matched /\ x.no \in 1 .. MaxExec + 1
    BY DEF ProcTypeOK, CallInv
  <2>2. succeeded' \subseteq Steps \X (1 .. MaxExec + 1)
    BY <1>10, <1>11, <2>1, RunbookAssumption DEF TakePending, Matched
  <2>3. \/ settling' = settling
        \/ settling' = [settling EXCEPT ![r] = [NoSettling EXCEPT !.pc = "read",
                           !.action = x.action, !.no = x.no, !.todo = Matches[x.action]]]
    BY <1>11 DEF TakePending
  <2>4. /\ settling' \in [Reconciles -> SettleRec]
        /\ \A y \in Reconciles : settling'[y].pc # "idle" =>
              settling'[y].todo # {} /\ settling'[y].action \in Matched
    BY <1>10, <2>1, <2>3, StartsTyped, SettleTyped
  <2>5. UNCHANGED <<mode, judging, challenges, permits, warned, acks, waived, advised>>
        /\ exec' = exec /\ pending' \subseteq pending
    BY <1>11 DEF TakePending
  <2> QED
    BY <1>9, <1>10, <2>2, <2>4, <2>5
<1>12. ASSUME NEW x \in pending, PendingExpires(x)
       PROVE  ProcTypeOK' /\ CallInv'
  BY <1>9, <1>10, <1>12 DEF PendingExpires
\* The steps of a reconciliation after the first.
<1>13. ASSUME NEW r \in Reconciles, ReadExec(r) \/ DropExec(r) \/ OpenExec(r) \/ WriteExec(r)
       PROVE  ProcTypeOK' /\ CallInv'
  <2> DEFINE q == settling[r]
  <2>1. /\ UNCHANGED <<mode, judging, challenges, permits, warned, acks, waived, advised>>
        /\ UNCHANGED <<pending, succeeded>>
    BY <1>13 DEF ReadExec, DropExec, OpenExec, WriteExec
  <2>2. q \in SettleRec /\ q.todo # {} /\ q.action \in Matched
    BY <1>10, <1>13 DEF ReadExec, DropExec, OpenExec, WriteExec
  <2>3. First(q.todo) \in q.todo /\ First(q.todo) \in Steps
    BY <2>2, FirstIn DEF SettleRec
  <2>4. q.action \in Actions /\ q.no \in 1 .. MaxExec + 1 /\ q.raw \in ExecRecord \cup {Nil}
    BY <2>2 DEF SettleRec, Matched
  <2> DEFINE Fit(k) == k \in SettleRec /\ (k.pc # "idle" => k.todo # {} /\ k.action \in Matched)
  <2>5. Fit(Recorded(q, First(q.todo)))
    BY <2>2, <2>3, <2>4, RecordedIs
  <2>6. \A v \in {"read", "drop", "open", "write"} : Fit([q EXCEPT !.pc = v])
    BY <2>2 DEF SettleRec
  <2>7. Fit([q EXCEPT !.pc = "write", !.raw = exec])
    BY <1>10, <2>2 DEF SettleRec
  <2>8. /\ [settling EXCEPT ![r].pc = "open"] = [settling EXCEPT ![r] = [q EXCEPT !.pc = "open"]]
        /\ [settling EXCEPT ![r].pc = "write"] = [settling EXCEPT ![r] = [q EXCEPT !.pc = "write"]]
    BY <1>10
  <2>9. \E k : Fit(k) /\ settling' = [settling EXCEPT ![r] = k]
    <3>1. CASE ReadExec(r)
      <4> DEFINE Rec == Recorded(q, First(q.todo))
                 Op  == [q EXCEPT !.pc = "open"]
                 Dr  == [q EXCEPT !.pc = "drop"]
                 Wr  == [q EXCEPT !.pc = "write", !.raw = exec]
      <4>1. settling' = [settling EXCEPT ![r] =
               IF Stale(q, exec) THEN Rec
               ELSE IF exec = Nil THEN Op ELSE IF exec.closed THEN Dr ELSE Wr]
        BY <3>1 DEF ReadExec
      <4>2. Fit(Rec) /\ Fit(Op) /\ Fit(Dr) /\ Fit(Wr)
        BY <2>5, <2>6, <2>7
      <4> HIDE DEF Rec, Op, Dr, Wr, Fit, q
      <4> QED
        BY <4>1, <4>2
    <3>2. CASE DropExec(r)
      BY <2>6, <2>8, <3>2 DEF DropExec
    <3>3. CASE OpenExec(r)
      BY <2>6, <2>8, <3>3 DEF OpenExec
    <3>4. CASE WriteExec(r)
      BY <2>5, <3>4 DEF WriteExec
    <3> QED
      BY <1>13, <3>1, <3>2, <3>3, <3>4
  <2>10. /\ settling' \in [Reconciles -> SettleRec]
         /\ \A x \in Reconciles : settling'[x].pc # "idle" =>
               settling'[x].todo # {} /\ settling'[x].action \in Matched
    BY <2>9, SettleTyped
  <2>11. exec' \in ExecRecord \cup {Nil}
    <3>1. CASE ReadExec(r) \/ DropExec(r)
      BY <1>10, <3>1 DEF ReadExec, DropExec
    <3>2. CASE OpenExec(r)
      BY <1>10, <2>4, <3>2 DEF OpenExec, ExecRecord
    <3>3. CASE WriteExec(r)
      <4> DEFINE s    == First(q.todo)
                 N    == IF exec = Nil THEN 1 ELSE exec.no
                 seen == (IF q.raw = Nil THEN {} ELSE q.raw.observed) \cup {s}
                 ends == s = LastStep /\ q.action \notin Edits
                 shut == IF ends THEN TRUE ELSE IF exec = Nil THEN FALSE ELSE exec.closed
      <4>1. exec' = [no |-> N, observed |-> seen, closed |-> shut]
        BY <3>3 DEF WriteExec
      <4>2. N \in 1 .. MaxExec + 1
        BY <1>10, RunbookAssumption DEF ExecRecord
      <4>3. seen \in SUBSET Steps
        BY <2>3, <2>4 DEF ExecRecord
      <4>4. shut \in BOOLEAN
        BY <1>10 DEF ExecRecord
      <4> HIDE DEF N, seen, shut
      <4> QED
        BY <4>1, <4>2, <4>3, <4>4 DEF ExecRecord
    <3> QED
      BY <1>13, <3>1, <3>2, <3>3
  <2> QED
    BY <1>9, <1>10, <2>1, <2>10, <2>11
<1>14. ASSUME NEW m \in Agents, NEW id \in challenges, Acknowledge(m, id)
       PROVE  ProcTypeOK' /\ CallInv'
  <2>1. Len(acks) \in Nat /\ Len(acks) < MaxAcks /\ id \in Challenge
    BY <1>14 DEF Acknowledge, ProcTypeOK
  <2>2. [id |-> id, by |-> m, ack |-> Len(acks) + 1]
           \in [id : Challenge, by : Agents, ack : 1 .. MaxAcks]
    BY <2>1, RunbookAssumption
  <2>3. permits' \subseteq [id : Challenge, by : Agents, ack : 1 .. MaxAcks]
    BY <1>14, <2>2 DEF Acknowledge, ProcTypeOK
  <2>4. acks' \in Seq([by : Agents, id : Challenge])
    BY <1>14, <2>1 DEF Acknowledge, ProcTypeOK
  <2> QED
    BY <1>14, <2>3, <2>4 DEF Acknowledge, ProcTypeOK, CallInv
<1>15. ASSUME NEW id \in challenges, ChallengeExpires(id)
       PROVE  ProcTypeOK' /\ CallInv'
  BY <1>15 DEF ChallengeExpires, ProcTypeOK, CallInv
<1>16. ASSUME NEW p \in permits, PermitExpires(p)
       PROVE  ProcTypeOK' /\ CallInv'
  BY <1>16 DEF PermitExpires, ProcTypeOK, CallInv
<1>17. ASSUME NEW x \in Modes, SetMode(x)
       PROVE  ProcTypeOK' /\ CallInv'
  BY <1>17 DEF SetMode, ProcTypeOK, CallInv
<1> QED
  BY <1>1, <1>3, <1>4, <1>5, <1>6, <1>7, <1>8, <1>11, <1>12, <1>13, <1>14, <1>15, <1>16, <1>17
     DEF ProcNext

-----------------------------------------------------------------------------
(* An acknowledgement is held once *)

\* Each call carries what it carried, or nothing, and no permit is new.
LEMMA PermitsElsewhere ==
  ASSUME PermitInv, UNCHANGED <<acks, waived>>, permits' \subseteq permits,
         \A c \in Calls : \/ judging'[c].paid = {}
                          \/ /\ judging'[c].paid = judging[c].paid
                             /\ judging'[c].by = judging[c].by
                             /\ judging'[c].action = judging[c].action
                             /\ judging'[c].no = judging[c].no
  PROVE  PermitInv'
<1>1. \A c \in Calls : judging'[c].paid # {} =>
         /\ judging'[c].paid = judging[c].paid /\ judging'[c].by = judging[c].by
         /\ judging'[c].action = judging[c].action /\ judging'[c].no = judging[c].no
  OBVIOUS
<1>2. \A c \in Calls : judging'[c].paid \subseteq judging[c].paid
  OBVIOUS
<1> QED
  BY <1>1, <1>2 DEF PermitInv

LEMMA PermitStep ==
  ASSUME ProcTypeOK, CallInv, PermitInv, [ProcNext]_procVars
  PROVE  PermitInv'
<1> USE DEF KeepHistory
<1>1. CASE UNCHANGED procVars
  BY <1>1 DEF procVars, PermitInv
<1>2. ASSUME NEW c \in Calls, Moves(c), Carries(c) \/ judging'[c].paid = {},
             UNCHANGED <<acks, waived>>, permits' \subseteq permits
      PROVE  PermitInv'
  BY <1>2, PermitsElsewhere DEF Moves, Carries
<1>3. ASSUME NEW c \in Calls, NEW m \in Agents, NEW a \in Actions, Begin(c, m, a)
      PROVE  PermitInv'
  <2>1. UNCHANGED <<acks, waived, permits>>
    BY <1>3 DEF Begin
  <2> QED
    BY <1>2, <1>3, <2>1, BeginMoves
<1>4. ASSUME NEW c \in Calls, Judge(c) \/ ReadBundle(c) \/ MintChallenge(c) \/ Refuse(c)
      PROVE  PermitInv'
  <2>1. UNCHANGED <<acks, waived, permits>>
    BY <1>4 DEF Judge, ReadBundle, MintChallenge, Refuse
  <2>2. Moves(c) /\ (Carries(c) \/ judging'[c].paid = {})
    BY <1>4, JudgeMoves, ReadBundleMoves, MintMoves, EndMoves
  <2> QED
    BY <1>2, <2>1, <2>2
<1>5. ASSUME NEW c \in Calls, ClaimWarn(c)
      PROVE  PermitInv'
  <2>1. UNCHANGED <<acks, waived, permits>>
    BY <1>5 DEF ClaimWarn
  <2> QED
    BY <1>5, <2>1, ClaimMoves, PermitsElsewhere DEF Moves
\* The permit goes over to the call.
<1>6. ASSUME NEW c \in Calls, ConsumePermit(c)
      PROVE  PermitInv'
  <2>1. UNCHANGED <<acks, waived>> /\ Moves(c)
    BY <1>6, ConsumeMoves DEF ConsumePermit
  <2>2. CASE Carries(c) /\ permits' \subseteq permits
    BY <1>2, <2>1, <2>2
  <2>3. ASSUME NEW p \in permits,
               permits' = permits \ {p},
               judging'[c].paid = judging[c].paid \cup {<<p.id.step, p.ack>>},
               judging'[c].by = judging[c].by /\ judging'[c].by = p.by,
               judging'[c].action = judging[c].action /\ judging'[c].action = p.id.action,
               judging'[c].no = judging[c].no /\ judging'[c].no = p.id.no
        PROVE  PermitInv'
    <3> DEFINE y == <<p.id.step, p.ack>>
    <3>1. /\ p.ack \in DOMAIN acks /\ acks[p.ack].by = p.by
          /\ acks[p.ack].id = p.id
          /\ \A q \in permits' : q.ack # p.ack /\ q \in permits
      <4>1. p.ack \in DOMAIN acks /\ acks[p.ack] = [by |-> p.by, id |-> p.id]
        BY DEF PermitInv
      <4>2. \A q \in permits' : q.ack # p.ack /\ q \in permits
        BY <2>3 DEF PermitInv
      <4> QED
        BY <4>1, <4>2
    <3>2. y[1] = p.id.step /\ y[2] = p.ack
      OBVIOUS
    <3>3. \A d \in Calls : \A x \in judging'[d].paid :
             \/ x \in judging[d].paid
             \/ d = c /\ x = y
      BY <2>1, <2>3 DEF Moves
    <3>4. \A d \in Calls : /\ judging'[d].by = judging[d].by
                           /\ judging'[d].action = judging[d].action
                           /\ judging'[d].no = judging[d].no
      BY <2>1, <2>3 DEF Moves
    <3>5. (\A d \in Calls : \A x \in judging[d].paid : x[2] # p.ack)
          /\ \A w \in waived : w.ack # p.ack
      BY DEF PermitInv
    <3> HIDE DEF y
    <3>6. \A d \in Calls : \A x \in judging'[d].paid :
             /\ x[2] \in DOMAIN acks
             /\ acks[x[2]].by = judging'[d].by
             /\ acks[x[2]].id.step = x[1]
             /\ acks[x[2]].id.action = judging'[d].action
             /\ acks[x[2]].id.no = judging'[d].no
             /\ \A q \in permits' : q.ack # x[2]
      BY <2>3, <3>1, <3>2, <3>3, <3>4 DEF PermitInv
    <3>7. \A d, e \in Calls : \A x \in judging'[d].paid, z \in judging'[e].paid :
             x[2] = z[2] => d = e
      BY <3>2, <3>3, <3>5 DEF PermitInv
    <3>8. \A w \in waived : /\ \A q \in permits' : q.ack # w.ack
                            /\ \A d \in Calls : \A x \in judging'[d].paid : x[2] # w.ack
      BY <3>1, <3>2, <3>3, <3>5 DEF PermitInv
    <3> QED
      BY <2>1, <3>1, <3>6, <3>7, <3>8 DEF PermitInv
  <2> QED
    BY <1>6, <2>2, <2>3, ConsumeMoves
\* The call goes ahead with what it has paid.
<1>7. ASSUME NEW c \in Calls, Allow(c)
      PROVE  PermitInv'
  <2> DEFINE j == judging[c]
  <2>1. UNCHANGED <<acks, permits>> /\ Moves(c) /\ judging'[c].paid = {}
    BY <1>7, EndMoves DEF Allow
  <2>2. \A w \in waived' \ waived : \E x \in j.paid :
           /\ w.ack = x[2] /\ w.step = x[1] /\ w.by = j.by
           /\ w.action = j.action /\ w.no = j.no /\ w.use = Cardinality(waived)
    BY <1>7, AllowAdds
  <2>3. \A d \in Calls : \A x \in judging'[d].paid :
           d # c /\ x \in judging[d].paid /\ judging'[d] = judging[d]
    BY <2>1 DEF Moves
  <2>4. \A w \in waived' \ waived :
           /\ w.ack \in DOMAIN acks
           /\ acks[w.ack].by = w.by /\ acks[w.ack].id.step = w.step
           /\ acks[w.ack].id.action = w.action /\ acks[w.ack].id.no = w.no
           /\ \A p \in permits : p.ack # w.ack
           /\ \A d \in Calls : \A x \in judging'[d].paid : x[2] # w.ack
           /\ \A v \in waived : v.ack # w.ack
    BY <2>2, <2>3 DEF PermitInv
  <2>5. \A v, w \in waived' \ waived : v.ack = w.ack => v = w
    <3>1. waived' \ waived \subseteq [ack : 1 .. MaxAcks, by : Agents, step : Steps,
                                      action : Actions, no : 1 .. MaxExec + 1, use : Nat]
      BY <1>7, AllowAdds
    <3>2. \A v, w \in waived' \ waived : v.ack = w.ack =>
             v.step = w.step /\ v.by = w.by /\ v.action = w.action /\ v.no = w.no /\ v.use = w.use
      BY <2>2, <2>4
    <3> QED
      BY <3>1, <3>2
  <2> QED
    BY <2>1, <2>3, <2>4, <2>5 DEF PermitInv
\* A new acknowledgement, held by a new permit.
<1>8. ASSUME NEW m \in Agents, NEW id \in challenges, Acknowledge(m, id)
      PROVE  PermitInv'
  <2> DEFINE n   == Len(acks) + 1
             new == [id |-> id, by |-> m, ack |-> n]
  <2>1. /\ UNCHANGED <<judging, waived>> /\ acks' = Append(acks, [by |-> m, id |-> id])
        /\ \A p \in permits' : p \in permits \/ p = new
        /\ acks \in Seq([by : Agents, id : Challenge])
    BY <1>8 DEF Acknowledge, ProcTypeOK
  <2>2. /\ \A k \in DOMAIN acks : k \in DOMAIN acks' /\ acks'[k] = acks[k] /\ k # n
        /\ n \in DOMAIN acks' /\ acks'[n] = [by |-> m, id |-> id]
    BY <2>1
  <2>3. new.ack = n /\ new.by = m /\ new.id = id
    OBVIOUS
  <2> HIDE DEF n, new
  <2>4. \A p \in permits' : p.ack \in DOMAIN acks' /\ acks'[p.ack] = [by |-> p.by, id |-> p.id]
    <3>1. \A p \in permits : p.ack \in DOMAIN acks /\ acks[p.ack] = [by |-> p.by, id |-> p.id]
      BY DEF PermitInv
    <3>2. new.ack \in DOMAIN acks' /\ acks'[new.ack] = [by |-> new.by, id |-> new.id]
      BY <2>2, <2>3
    <3>3. \A p \in permits : p.ack \in DOMAIN acks' /\ acks'[p.ack] = [by |-> p.by, id |-> p.id]
      BY <2>2, <3>1
    <3> QED
      BY <2>1, <3>2, <3>3
  <2>5. \A p, q \in permits' : p.ack = q.ack => p = q
    BY <2>1, <2>2, <2>3 DEF PermitInv
  <2>6. \A c \in Calls : \A x \in judging[c].paid :
           /\ x[2] \in DOMAIN acks' /\ acks'[x[2]] = acks[x[2]]
           /\ \A p \in permits' : p.ack # x[2]
    BY <2>1, <2>2, <2>3 DEF PermitInv
  <2>7. \A w \in waived :
           /\ w.ack \in DOMAIN acks' /\ acks'[w.ack] = acks[w.ack]
           /\ \A p \in permits' : p.ack # w.ack
    BY <2>1, <2>2, <2>3 DEF PermitInv
  <2> QED
    BY <2>1, <2>4, <2>5, <2>6, <2>7 DEF PermitInv
<1>9. ASSUME NEW p \in permits, PermitExpires(p)
      PROVE  PermitInv'
  BY <1>9, PermitsElsewhere DEF PermitExpires
<1>10. CASE UNCHANGED <<acks, waived, permits, judging>>
  BY <1>10, PermitsElsewhere
<1>11. ASSUME NEW r \in Reconciles, \/ \E x \in pending, ok \in BOOLEAN : TakePending(r, x, ok)
                                    \/ ReadExec(r) \/ DropExec(r) \/ OpenExec(r) \/ WriteExec(r)
       PROVE  PermitInv'
  <2>1. UNCHANGED <<acks, waived, permits, judging>>
    BY <1>11 DEF TakePending, ReadExec, DropExec, OpenExec, WriteExec
  <2> QED
    BY <1>10, <2>1
<1>12. CASE \/ \E x \in pending : PendingExpires(x)
            \/ \E id \in challenges : ChallengeExpires(id)
            \/ \E x \in Modes : SetMode(x)
  <2>1. UNCHANGED <<acks, waived, permits, judging>>
    BY <1>12 DEF PendingExpires, ChallengeExpires, SetMode
  <2> QED
    BY <1>10, <2>1
<1> QED
  BY <1>1, <1>3, <1>4, <1>5, <1>6, <1>7, <1>8, <1>9, <1>11, <1>12 DEF ProcNext

-----------------------------------------------------------------------------
(* A warning is claimed once *)

LEMMA WarningsElsewhere ==
  ASSUME WarnInv, UNCHANGED <<warned, advised>>,
         \A c \in Calls : \/ judging'[c].claims = {}
                          \/ /\ judging'[c].claims = judging[c].claims
                             /\ judging'[c].no = judging[c].no
  PROVE  WarnInv'
<1>1. \A c \in Calls : \A t \in judging'[c].claims :
         t \in judging[c].claims /\ judging'[c].no = judging[c].no
  OBVIOUS
<1> QED
  BY <1>1 DEF WarnInv

LEMMA WarnStep ==
  ASSUME ProcTypeOK, CallInv, WarnInv, [ProcNext]_procVars
  PROVE  WarnInv'
<1> USE DEF KeepHistory
<1>1. CASE UNCHANGED procVars
  BY <1>1 DEF procVars, WarnInv
<1>2. ASSUME NEW c \in Calls, Moves(c), Carries(c) \/ judging'[c].claims = {},
             UNCHANGED <<warned, advised>>
      PROVE  WarnInv'
  BY <1>2, WarningsElsewhere DEF Moves, Carries
<1>3. ASSUME NEW c \in Calls, NEW m \in Agents, NEW a \in Actions, Begin(c, m, a)
      PROVE  WarnInv'
  <2>1. UNCHANGED <<warned, advised>>
    BY <1>3 DEF Begin
  <2> QED
    BY <1>2, <1>3, <2>1, BeginMoves
<1>4. ASSUME NEW c \in Calls, Judge(c) \/ ReadBundle(c) \/ MintChallenge(c)
      PROVE  WarnInv'
  <2>1. UNCHANGED <<warned, advised>>
    BY <1>4 DEF Judge, ReadBundle, MintChallenge
  <2>2. Moves(c) /\ Carries(c)
    BY <1>4, JudgeMoves, ReadBundleMoves, MintMoves
  <2> QED
    BY <1>2, <2>1, <2>2
<1>5. ASSUME NEW c \in Calls, ConsumePermit(c)
      PROVE  WarnInv'
  <2>1. UNCHANGED <<warned, advised>>
    BY <1>5 DEF ConsumePermit
  <2>2. Moves(c) /\ judging'[c].claims = judging[c].claims /\ judging'[c].no = judging[c].no
    BY <1>5, ConsumeMoves DEF Carries
  <2> QED
    BY <2>1, <2>2, WarningsElsewhere DEF Moves
<1>6. ASSUME NEW c \in Calls, ClaimWarn(c)
      PROVE  WarnInv'
  <2>1. advised' = advised /\ Moves(c) /\ judging'[c].no = judging[c].no
    BY <1>6, ClaimMoves DEF ClaimWarn
  <2>2. PICK t \in Steps :
           /\ warned' = warned \cup {<<t, judging[c].no>>}
           /\ judging'[c].claims = IF <<t, judging[c].no>> \in warned THEN judging[c].claims
                                   ELSE judging[c].claims \cup {t}
    BY <1>6, ClaimMoves
  <2>3. CASE <<t, judging[c].no>> \in warned
    <3>1. warned' = warned /\ judging'[c].claims = judging[c].claims
      BY <2>2, <2>3
    <3> QED
      BY <2>1, <3>1, WarningsElsewhere DEF Moves
  <2>4. CASE <<t, judging[c].no>> \notin warned
    <3>1. \A d \in Calls : \A u \in judging'[d].claims :
             /\ judging'[d].no = judging[d].no
             /\ u \in judging[d].claims \/ (d = c /\ u = t)
      BY <2>1, <2>2, <2>4 DEF Moves
    <3>2. \A d \in Calls : ~(t \in judging[d].claims /\ judging[d].no = judging[c].no)
      BY <2>4 DEF WarnInv
    <3>3. \A v \in advised : ~(v[1] = t /\ v[2] = judging[c].no)
      BY <2>4 DEF WarnInv
    <3>4. warned \subseteq warned' /\ <<t, judging[c].no>> \in warned'
      BY <2>2
    <3> QED
      BY <2>1, <3>1, <3>2, <3>3, <3>4 DEF WarnInv
  <2> QED
    BY <2>3, <2>4
\* The edit goes ahead and carries its warnings.
<1>7. ASSUME NEW c \in Calls, Allow(c)
      PROVE  WarnInv'
  <2> DEFINE j == judging[c]
  <2>1. warned' = warned /\ Moves(c) /\ judging'[c].claims = {}
    BY <1>7, EndMoves DEF Allow
  <2>2. \A d \in Calls : \A t \in judging'[d].claims :
           d # c /\ t \in judging[d].claims /\ judging'[d] = judging[d]
    BY <2>1 DEF Moves
  <2>3. \A v \in advised' \ advised :
           v[1] \in j.claims /\ v[2] = j.no /\ v[3] = Cardinality(advised)
    BY <1>7, AllowAdds
  <2>4. \A v \in advised' \ advised :
           /\ <<v[1], v[2]>> \in warned
           /\ \A w \in advised : ~(w[1] = v[1] /\ w[2] = v[2])
           /\ \A d \in Calls : \A t \in judging'[d].claims : ~(v[1] = t /\ v[2] = judging'[d].no)
    <3>1. \A t \in j.claims :
             /\ <<t, j.no>> \in warned
             /\ \A v \in advised : ~(v[1] = t /\ v[2] = j.no)
             /\ \A d \in Calls : t \in judging[d].claims /\ judging[d].no = j.no => c = d
      BY DEF WarnInv
    <3> HIDE DEF j
    <3>2. \A v \in advised' \ advised : \A d \in Calls : \A t \in judging'[d].claims :
             ~(v[1] = t /\ v[2] = judging'[d].no)
      BY <2>2, <2>3, <3>1
    <3>3. \A v \in advised' \ advised : /\ <<v[1], v[2]>> \in warned
                                        /\ \A w \in advised : ~(w[1] = v[1] /\ w[2] = v[2])
      BY <2>3, <3>1
    <3> QED
      BY <3>2, <3>3
  <2>5. \A v, w \in advised' \ advised : v[1] = w[1] /\ v[2] = w[2] => v = w
    <3>1. advised' \subseteq Steps \X (1 .. MaxExec + 1) \X Nat
      BY <1>7, AllowAdds
    <3>2. \A v, w \in advised' \ advised : v[3] = w[3]
      BY <2>3
    <3> QED
      BY <3>1, <3>2
  <2>6. \A d \in Calls : \A t \in judging'[d].claims :
           /\ <<t, judging'[d].no>> \in warned
           /\ \A v \in advised : ~(v[1] = t /\ v[2] = judging'[d].no)
           /\ \A e \in Calls : t \in judging'[e].claims /\ judging'[e].no = judging'[d].no => d = e
    BY <2>2 DEF WarnInv
  <2>7. /\ \A v \in advised' : <<v[1], v[2]>> \in warned
        /\ \A v, w \in advised' : v[1] = w[1] /\ v[2] = w[2] => v = w
    BY <2>4, <2>5 DEF WarnInv
  <2>8. \A d \in Calls : \A t \in judging'[d].claims : \A v \in advised' :
           ~(v[1] = t /\ v[2] = judging'[d].no)
    BY <2>4, <2>6
  <2> QED
    BY <2>1, <2>6, <2>7, <2>8 DEF WarnInv
\* A refused edit gives back what it alone had claimed.
<1>8. ASSUME NEW c \in Calls, Refuse(c)
      PROVE  WarnInv'
  <2>1. advised' = advised /\ Moves(c) /\ judging'[c].claims = {}
    BY <1>8, EndMoves DEF Refuse
  <2>2. \A x : x \in warned' <=> x \in warned /\ \A t \in judging[c].claims : x # <<t, judging[c].no>>
    BY <1>8 DEF Refuse, Released
  <2>3. \A d \in Calls : \A t \in judging'[d].claims :
           d # c /\ t \in judging[d].claims /\ judging'[d] = judging[d]
    BY <2>1 DEF Moves
  <2>4. \A d \in Calls : \A t \in judging'[d].claims : <<t, judging'[d].no>> \in warned'
    BY <2>2, <2>3 DEF WarnInv
  <2>5. \A v \in advised : <<v[1], v[2]>> \in warned'
    BY <2>2 DEF WarnInv
  <2> QED
    BY <2>1, <2>3, <2>4, <2>5 DEF WarnInv
<1>9. CASE UNCHANGED <<warned, advised, judging>>
  BY <1>9, WarningsElsewhere
<1>10. ASSUME NEW r \in Reconciles, \/ \E x \in pending, ok \in BOOLEAN : TakePending(r, x, ok)
                                    \/ ReadExec(r) \/ DropExec(r) \/ OpenExec(r) \/ WriteExec(r)
       PROVE  WarnInv'
  <2>1. UNCHANGED <<warned, advised, judging>>
    BY <1>10 DEF TakePending, ReadExec, DropExec, OpenExec, WriteExec
  <2> QED
    BY <1>9, <2>1
<1>11. CASE \/ \E x \in pending : PendingExpires(x)
            \/ \E m \in Agents, id \in challenges : Acknowledge(m, id)
            \/ \E id \in challenges : ChallengeExpires(id)
            \/ \E p \in permits : PermitExpires(p)
            \/ \E x \in Modes : SetMode(x)
  <2>1. UNCHANGED <<warned, advised, judging>>
    BY <1>11 DEF PendingExpires, Acknowledge, ChallengeExpires, PermitExpires, SetMode
  <2> QED
    BY <1>9, <2>1
<1> QED
  BY <1>1, <1>3, <1>4, <1>5, <1>6, <1>7, <1>8, <1>10, <1>11 DEF ProcNext

-----------------------------------------------------------------------------
(* The theorems *)

\* The inductive invariant: types, and what permits and warnings are held by.
THEOREM ProcInvariant == ProcSpec => []IInv
<1>1. ProcInit => IInv
  <2> SUFFICES ASSUME ProcInit
               PROVE  IInv
    OBVIOUS
  <2>1. ProcTypeOK
    BY RunbookAssumption
       DEF ProcInit, ProcTypeOK, NoJudging, NoSettling, Modes, Challenge, ExecRecord
  <2>2. CallInv
    BY FS_EmptySet DEF ProcInit, CallInv, Sound, Working, NoJudging, NoSettling
  <2>3. PermitInv /\ WarnInv
    BY DEF ProcInit, PermitInv, WarnInv, NoJudging
  <2> QED
    BY <2>1, <2>2, <2>3 DEF IInv
<1>2. IInv /\ [ProcNext]_procVars => IInv'
  BY TypeStep, PermitStep, WarnStep DEF IInv
<1> QED
  BY <1>1, <1>2, PTL DEF ProcSpec

\* Every variable has its type, in particular every call has a step to judge
\* while it is in the loop (enforce.py, evaluate).
THEOREM ProcTypeCorrect == ProcSpec => []ProcTypeOK
<1>1. IInv => ProcTypeOK
  BY DEF IInv
<1> QED
  BY <1>1, ProcInvariant, PTL

\* consume_permit is a GETDEL, and the permit is bound to member, command,
\* step and execution: an acknowledgement lets one command through.
THEOREM PermitsAreOneUse == ProcSpec => []OneUsePermits
<1>1. IInv => OneUsePermits
  BY DEF IInv, PermitInv, OneUsePermits
<1> QED
  BY <1>1, ProcInvariant, PTL

\* claim_warn is a SET NX, and an edit that is refused gives back only what it
\* claimed itself: no two edits that went ahead carried the same warning.
THEOREM WarnedAtMostOnce == ProcSpec => []WarnedOnce
<1>1. IInv => WarnedOnce
  BY DEF IInv, WarnInv, WarnedOnce
<1> QED
  BY <1>1, ProcInvariant, PTL

-----------------------------------------------------------------------------
(* One ingest or deletion of a source at a time *)

OneCorpusCall == \A i, j \in Ingests : i = j

\* The chunks of generation g up to k, gated or live.
Has(g, k, l) == \A n \in 1 .. k : [gen |-> g, chunk |-> n, live |-> l] \in points

CorpusWorks == [pc : {"idle", "stage", "commit", "sweep", "record", "list",
                      "chunks", "unrecord", "unlist"},
                by : Writers \cup {Absent}, visibility : Scopes \cup {Absent},
                gen : 0 .. MaxGens, next : 1 .. LastChunk + 1]

\* A generation is staged from its first chunk, by one call, and is gated until
\* all of it is there; what is live was whole when it was flipped.
GenInv ==
    /\ \A p \in points : p.gen <= generations
    /\ RecallIsWhole
    /\ \A i \in Ingests :
          LET w == work[i] IN
          /\ w.gen <= generations
          /\ w.pc \in {"stage", "commit", "sweep"} => w.gen \in Gens
          /\ w.pc = "stage" => w.next <= LastChunk /\ Has(w.gen, w.next - 1, FALSE)
          /\ w.pc = "commit" => Has(w.gen, LastChunk, FALSE)
          /\ w.pc \in {"stage", "commit"} => \A p \in points : p.gen = w.gen => ~p.live
          /\ w.pc = "sweep" => Whole(w.gen)
          /\ w.pc \in {"stage", "commit", "sweep", "record"}
               => w.by \in Writers /\ w.visibility \in Scopes

CorpusInv == CorpusTypeOK /\ GenInv

\* What a call becomes, by step.
LEMMA WorkSteps ==
  ASSUME CorpusTypeOK, OneCorpusCall, NEW i \in Ingests
  PROVE  /\ NoWork \in CorpusWorks /\ NoWork.pc = "idle" /\ NoWork.gen = 0
         /\ work[i] \in CorpusWorks
         /\ \A w \in CorpusWorks : work' = [work EXCEPT ![i] = w]
              => work' \in [Ingests -> CorpusWorks] /\ \A j \in Ingests : work'[j] = w
<1>1. NoWork \in CorpusWorks /\ NoWork.pc = "idle" /\ NoWork.gen = 0
  BY CorpusAssumption DEF NoWork, CorpusWorks
<1>2. work \in [Ingests -> CorpusWorks]
  BY DEF CorpusTypeOK, CorpusWorks
<1> QED
  BY <1>1, <1>2 DEF OneCorpusCall

LEMMA GoesOn ==
  ASSUME CorpusTypeOK, OneCorpusCall, NEW i \in Ingests,
         NEW q \in {"sweep", "record", "list", "unrecord", "unlist"}, Goto(i, q)
  PROVE  /\ work' \in [Ingests -> CorpusWorks]
         /\ \A j \in Ingests : /\ work'[j].pc = q /\ work'[j].gen = work[i].gen
                               /\ work'[j].by = work[i].by
                               /\ work'[j].visibility = work[i].visibility
<1> DEFINE w == [work[i] EXCEPT !.pc = q]
<1>1. work[i] \in CorpusWorks
  BY WorkSteps
<1>2. /\ w \in CorpusWorks /\ w.pc = q /\ w.gen = work[i].gen
      /\ w.by = work[i].by /\ w.visibility = work[i].visibility
  BY <1>1 DEF CorpusWorks
<1>3. work' = [work EXCEPT ![i] = w]
  BY DEF Goto
<1> HIDE DEF w
<1> QED
  BY <1>2, <1>3, WorkSteps

LEMMA Finishes ==
  ASSUME CorpusTypeOK, OneCorpusCall, NEW i \in Ingests, Finish(i)
  PROVE  /\ work' \in [Ingests -> CorpusWorks]
         /\ \A j \in Ingests : work'[j].pc = "idle" /\ work'[j].gen = 0
BY WorkSteps DEF Finish

\* An ingest opens a generation no chunk has.
LEMMA BeginIngestStep ==
  ASSUME OneCorpusCall, CorpusInv, NEW i \in Ingests, NEW m \in Writers, NEW v \in Scopes,
         BeginIngest(i, m, v)
  PROVE  CorpusInv'
<1> DEFINE w == [pc |-> "stage", by |-> m, visibility |-> v, gen |-> generations + 1, next |-> 1]
<1>1. CorpusTypeOK /\ GenInv /\ generations \in Nat /\ generations < MaxGens
  BY CorpusAssumption DEF CorpusInv, CorpusTypeOK, BeginIngest
<1>2. /\ w \in CorpusWorks /\ w.pc = "stage" /\ w.gen = generations + 1 /\ w.next = 1
      /\ w.gen \in Gens /\ w.by \in Writers /\ w.visibility \in Scopes
  BY <1>1, CorpusAssumption DEF CorpusWorks, Gens
<1>3. /\ work' = [work EXCEPT ![i] = w] /\ generations' = generations + 1
      /\ UNCHANGED <<points, record, listed>>
  BY DEF BeginIngest
<1> HIDE DEF w
<1>4. work' \in [Ingests -> CorpusWorks] /\ \A j \in Ingests : work'[j] = w
  BY <1>1, <1>2, <1>3, WorkSteps
<1>5. CorpusTypeOK'
  BY <1>1, <1>3, <1>4, CorpusAssumption DEF CorpusTypeOK, CorpusWorks
<1>6. \A p \in points : p.gen \in Nat /\ p.gen <= generations
  BY <1>1, CorpusAssumption DEF GenInv, CorpusTypeOK, Point, Gens
<1>7. RecallIsWhole'
  BY <1>1, <1>3 DEF GenInv, RecallIsWhole, Whole
<1>8. \A p \in points' : p.gen <= generations'
  BY <1>1, <1>3, <1>6
<1>9. \A k \in Ingests :
          /\ work'[k].gen <= generations'
          /\ work'[k].pc = "stage" /\ work'[k].gen \in Gens
          /\ work'[k].next <= LastChunk /\ work'[k].next - 1 = 0
          /\ work'[k].by \in Writers /\ work'[k].visibility \in Scopes
          /\ \A p \in points' : p.gen # work'[k].gen
  BY <1>1, <1>2, <1>3, <1>4, <1>6, CorpusAssumption
<1>10. \A g, l : Has(g, 0, l)'
  BY DEF Has
<1>11. GenInv'
  BY <1>7, <1>8, <1>9, <1>10 DEF GenInv
<1> QED
  BY <1>5, <1>11 DEF CorpusInv

\* The next chunk of a generation none of which is live.
LEMMA StageChunkStep ==
  ASSUME OneCorpusCall, CorpusInv, NEW i \in Ingests, StageChunk(i)
  PROVE  CorpusInv'
<1> DEFINE c == work[i]
           p == Staged(i)
           q == IF c.next = LastChunk THEN "commit" ELSE "stage"
           w == [c EXCEPT !.next = c.next + 1, !.pc = q]
<1>1. CorpusTypeOK /\ GenInv
  BY DEF CorpusInv
<1>2. /\ c \in CorpusWorks /\ c.pc = "stage" /\ c.gen \in Gens /\ c.gen <= generations
      /\ c.next <= LastChunk /\ Has(c.gen, c.next - 1, FALSE)
      /\ \A x \in points : x.gen = c.gen => ~x.live
      /\ c.by \in Writers /\ c.visibility \in Scopes
  BY <1>1, WorkSteps DEF StageChunk, At, GenInv
<1>3. c.next \in 1 .. LastChunk /\ LastChunk \in Nat
  BY <1>2, CorpusAssumption DEF CorpusWorks
<1>4. /\ w \in CorpusWorks /\ w.pc = q /\ w.gen = c.gen /\ w.next = c.next + 1
      /\ w.by = c.by /\ w.visibility = c.visibility
  <2>1. c.next + 1 \in 1 .. LastChunk + 1 /\ q \in {"stage", "commit"}
    BY <1>3
  <2> QED
    BY <1>2, <2>1 DEF CorpusWorks
<1>5. /\ work' = [work EXCEPT ![i] = w] /\ points' = points \cup {p}
      /\ UNCHANGED <<record, listed, generations>>
  <2>1. [work EXCEPT ![i].next = @ + 1,
                     ![i].pc   = IF work[i].next = LastChunk THEN "commit" ELSE "stage"]
        = [work EXCEPT ![i] = w]
    BY <1>1 DEF CorpusTypeOK
  <2> HIDE DEF w
  <2> QED
    BY <2>1 DEF StageChunk
<1>6. p \in Point /\ p.gen = c.gen /\ ~p.live /\ p = [gen |-> c.gen, chunk |-> c.next, live |-> FALSE]
  BY <1>2, <1>3 DEF Staged, Point, Chunks
<1> HIDE DEF w, p
<1>7. work' \in [Ingests -> CorpusWorks] /\ \A j \in Ingests : work'[j] = w
  BY <1>1, <1>4, <1>5, WorkSteps
<1>8. CorpusTypeOK'
  BY <1>1, <1>5, <1>6, <1>7 DEF CorpusTypeOK, CorpusWorks
<1>9. \A x \in points' : x.gen <= generations' /\ (x.gen = c.gen => ~x.live)
  BY <1>1, <1>2, <1>5, <1>6 DEF GenInv
<1>10. RecallIsWhole'
  <2>1. \A x \in points' : x.live => x \in points
    BY <1>5, <1>6
  <2> QED
    BY <1>1, <1>5, <2>1 DEF GenInv, RecallIsWhole, Whole
<1>11. \A n \in 1 .. c.next : [gen |-> c.gen, chunk |-> n, live |-> FALSE] \in points'
  <2> SUFFICES ASSUME NEW n \in 1 .. c.next
               PROVE  [gen |-> c.gen, chunk |-> n, live |-> FALSE] \in points'
    OBVIOUS
  <2>1. n = c.next \/ n \in 1 .. c.next - 1
    BY <1>3
  <2> QED
    BY <1>2, <1>5, <1>6, <2>1 DEF Has
<1>12. \A j \in Ingests : /\ work'[j].pc = q /\ work'[j].gen = c.gen
                          /\ work'[j].next = c.next + 1
                          /\ work'[j].by = c.by /\ work'[j].visibility = c.visibility
  BY <1>4, <1>7
<1>13. \A g, k : g = c.gen /\ k = c.next => Has(g, k, FALSE)'
  BY <1>11 DEF Has
<1>14. /\ c.next \in Nat /\ c.next + 1 - 1 = c.next /\ (q = "stage" => c.next + 1 <= LastChunk)
       /\ q = "commit" => c.next = LastChunk
       /\ q \in {"stage", "commit"}
  BY <1>3
<1> HIDE DEF c, q
<1>15. \A j \in Ingests :
          /\ work'[j].gen <= generations'
          /\ work'[j].gen \in Gens /\ work'[j].gen = c.gen
          /\ work'[j].pc \in {"stage", "commit"}
          /\ work'[j].pc = "stage"
               => work'[j].next <= LastChunk /\ work'[j].next - 1 = c.next
          /\ work'[j].pc = "commit" => LastChunk = c.next
          /\ \A x \in points' : x.gen = work'[j].gen => ~x.live
          /\ work'[j].by \in Writers /\ work'[j].visibility \in Scopes
  <2> TAKE j \in Ingests
  <2>1. generations' = generations
    BY <1>5
  <2>2. /\ work'[j].pc = q /\ work'[j].gen = c.gen /\ work'[j].next = c.next + 1
        /\ work'[j].by = c.by /\ work'[j].visibility = c.visibility
    BY <1>12
  <2>3. /\ work'[j].gen <= generations' /\ work'[j].gen \in Gens /\ work'[j].gen = c.gen
        /\ work'[j].by \in Writers /\ work'[j].visibility \in Scopes
    BY <1>2, <2>1, <2>2
  <2>4. /\ work'[j].pc \in {"stage", "commit"}
        /\ work'[j].pc = "stage" => work'[j].next <= LastChunk /\ work'[j].next - 1 = c.next
        /\ work'[j].pc = "commit" => LastChunk = c.next
    <3>1. work'[j].next - 1 = c.next
      BY <1>14, <2>2
    <3>2. work'[j].pc = "stage" => work'[j].next <= LastChunk
      BY <1>14, <2>2
    <3>3. work'[j].pc \in {"stage", "commit"} /\ (work'[j].pc = "commit" => LastChunk = c.next)
      BY <1>14, <2>2
    <3> QED
      BY <3>1, <3>2, <3>3
  <2>5. \A x \in points' : x.gen = work'[j].gen => ~x.live
    BY <1>9, <2>2
  <2> QED
    BY <2>3, <2>4, <2>5
<1>16. \A j \in Ingests :
          /\ work'[j].pc = "stage" => Has(work[j].gen, work[j].next - 1, FALSE)'
          /\ work'[j].pc = "commit" => Has(work[j].gen, LastChunk, FALSE)'
  BY <1>13, <1>15 DEF Has
<1>17. GenInv'
  BY <1>9, <1>10, <1>15, <1>16 DEF GenInv
<1> QED
  BY <1>8, <1>17 DEF CorpusInv

\* The flip makes a generation live that is all there, and no other.
LEMMA CommitStep ==
  ASSUME OneCorpusCall, CorpusInv, NEW i \in Ingests, CommitGeneration(i)
  PROVE  CorpusInv' /\ \A g \in Gens : Whole(g) => Whole(g)'
<1> DEFINE g == work[i].gen
           Flip(p) == [p EXCEPT !.live = p.live \/ p.gen = g]
<1>1. CorpusTypeOK /\ GenInv
  BY DEF CorpusInv
<1>2. /\ g \in Gens /\ g <= generations /\ Has(g, LastChunk, FALSE)
      /\ work[i].by \in Writers /\ work[i].visibility \in Scopes
  BY <1>1 DEF CommitGeneration, At, GenInv
<1>3. \A p \in points : /\ Flip(p) \in Point /\ Flip(p).gen = p.gen /\ Flip(p).chunk = p.chunk
                        /\ Flip(p).live <=> p.live \/ p.gen = g
                        /\ p.live => Flip(p) = p
  <2> SUFFICES ASSUME NEW p \in points
               PROVE  /\ Flip(p) \in Point /\ Flip(p).gen = p.gen /\ Flip(p).chunk = p.chunk
                      /\ Flip(p).live <=> p.live \/ p.gen = g
                      /\ p.live => Flip(p) = p
    OBVIOUS
  <2>1. p \in Point
    BY <1>1 DEF CorpusTypeOK
  <2>2. /\ Flip(p) \in Point /\ Flip(p).gen = p.gen /\ Flip(p).chunk = p.chunk
        /\ Flip(p).live <=> p.live \/ p.gen = g
    BY <2>1 DEF Point
  <2>3. p.live => Flip(p) = p
    BY <2>1 DEF Point
  <2> QED
    BY <2>2, <2>3
<1>4. points' = {Flip(p) : p \in points} /\ UNCHANGED <<record, listed, generations>>
  BY DEF CommitGeneration
<1>5. /\ work' \in [Ingests -> CorpusWorks]
      /\ \A j \in Ingests : /\ work'[j].pc = "sweep" /\ work'[j].gen = g
                            /\ work'[j].by = work[i].by
                            /\ work'[j].visibility = work[i].visibility
  BY <1>1, GoesOn DEF CommitGeneration
<1>6. \A h \in Gens : Whole(h) => Whole(h)'
  <2> SUFFICES ASSUME NEW h \in Gens, Whole(h), NEW k \in Chunks
               PROVE  [gen |-> h, chunk |-> k, live |-> TRUE] \in points'
    BY DEF Whole
  <2> DEFINE p == [gen |-> h, chunk |-> k, live |-> TRUE]
  <2>1. p \in points /\ p.live
    BY DEF Whole
  <2> HIDE DEF p, Flip
  <2>2. Flip(p) = p
    BY <1>3, <2>1
  <2> QED
    BY <1>4, <2>1, <2>2 DEF p
<1>7. \A h : h = g => Whole(h)'
  <2> SUFFICES ASSUME NEW k \in Chunks
               PROVE  [gen |-> g, chunk |-> k, live |-> TRUE] \in points'
    BY DEF Whole
  <2> DEFINE p == [gen |-> g, chunk |-> k, live |-> FALSE]
  <2>1. p \in points /\ p.gen = g /\ p.chunk = k
    BY <1>2 DEF Has, Chunks
  <2> HIDE DEF p, Flip, g
  <2>2. /\ Flip(p) \in Point /\ Flip(p).gen = g /\ Flip(p).chunk = k
        /\ Flip(p).live
    BY <1>3, <2>1
  <2>3. Flip(p) = [gen |-> g, chunk |-> k, live |-> TRUE]
    BY <2>2 DEF Point
  <2> QED
    BY <1>4, <2>1, <2>3
<1> HIDE DEF Flip
<1>8. RecallIsWhole'
  <2> SUFFICES ASSUME NEW x \in points', x.live PROVE Whole(x.gen)'
    BY DEF RecallIsWhole
  <2>1. PICK p \in points : x = Flip(p)
    BY <1>4
  <2>2. x.gen = p.gen /\ (p.live \/ p.gen = g) /\ p.gen \in Gens
    BY <1>1, <1>3, <2>1 DEF CorpusTypeOK, Point
  <2>3. p.live => Whole(p.gen)
    BY <1>1 DEF GenInv, RecallIsWhole
  <2>4. \A h \in Gens : h = p.gen => Whole(h)'
    BY <1>6, <1>7, <2>2, <2>3
  <2> QED
    BY <2>2, <2>4 DEF Whole
<1>9. CorpusTypeOK'
  BY <1>1, <1>3, <1>4, <1>5 DEF CorpusTypeOK, CorpusWorks
<1>10. \A x \in points' : x.gen <= generations'
  BY <1>1, <1>3, <1>4 DEF GenInv
<1>11. \A j \in Ingests : /\ work'[j].pc = "sweep" /\ work'[j].gen = g
                          /\ Whole(work[j].gen)'
                          /\ work'[j].by \in Writers /\ work'[j].visibility \in Scopes
  BY <1>2, <1>5, <1>7 DEF Whole
<1> HIDE DEF g
<1>12. GenInv'
  BY <1>2, <1>4, <1>8, <1>10, <1>11 DEF GenInv
<1> QED
  BY <1>6, <1>9, <1>12 DEF CorpusInv

\* The sweep leaves the generation that was flipped.
LEMMA SweepStep ==
  ASSUME OneCorpusCall, CorpusInv, NEW i \in Ingests, SweepOthers(i)
  PROVE  CorpusInv' /\ SomeWhole'
<1> DEFINE g == work[i].gen
<1>1. CorpusTypeOK /\ GenInv
  BY DEF CorpusInv
<1>2. /\ g \in Gens /\ g <= generations /\ Whole(g)
      /\ work[i].by \in Writers /\ work[i].visibility \in Scopes
  BY <1>1 DEF SweepOthers, At, GenInv
<1>3. points' = {p \in points : p.gen = g} /\ UNCHANGED <<record, listed, generations>>
  BY DEF SweepOthers, Swept
<1>4. /\ work' \in [Ingests -> CorpusWorks]
      /\ \A j \in Ingests : /\ work'[j].pc = "record" /\ work'[j].gen = g
                            /\ work'[j].by \in Writers /\ work'[j].visibility \in Scopes
  BY <1>1, <1>2, GoesOn DEF SweepOthers
<1>5. \A k \in Chunks : [gen |-> g, chunk |-> k, live |-> TRUE] \in points'
  BY <1>2, <1>3 DEF Whole
<1> HIDE DEF g
<1>6. CorpusTypeOK'
  BY <1>1, <1>3, <1>4 DEF CorpusTypeOK, CorpusWorks
<1>7. RecallIsWhole'
  BY <1>3, <1>5 DEF RecallIsWhole, Whole
<1>8. GenInv'
  BY <1>1, <1>2, <1>3, <1>4, <1>7 DEF GenInv
<1>9. SomeWhole'
  BY <1>2, <1>5 DEF SomeWhole, Whole
<1> QED
  BY <1>6, <1>8, <1>9 DEF CorpusInv

\* The steps that leave the points or empty them, and stage nothing.
LEMMA RestStep ==
  ASSUME OneCorpusCall, CorpusInv, NEW i \in Ingests,
         \/ SetRecord(i) \/ ListSource(i) \/ DeleteChunks(i) \/ DeleteRecord(i)
         \/ UnlistSource(i) \/ IngestFails(i) \/ \E m \in Writers : BeginDelete(i, m)
  PROVE  CorpusInv' /\ (points' = points \/ At(i, "chunks"))
<1>1. CorpusTypeOK /\ GenInv /\ work[i] \in CorpusWorks
  BY WorkSteps DEF CorpusInv
<1>2. /\ (points' = points) \/ (points' = {} /\ At(i, "chunks"))
      /\ generations' = generations /\ listed' \in BOOLEAN
  BY <1>1
  DEF SetRecord, ListSource, DeleteChunks, DeleteRecord, UnlistSource, IngestFails, BeginDelete,
      CorpusTypeOK
<1>3. record' \in Record \cup {Absent}
  <2>1. CASE SetRecord(i)
    <3>1. record' = [member |-> work[i].by, visibility |-> work[i].visibility]
      BY <2>1 DEF SetRecord
    <3>2. work[i].by \in Writers /\ work[i].visibility \in Scopes
      BY <1>1, <2>1 DEF SetRecord, At, GenInv
    <3> QED
      BY <3>1, <3>2 DEF Record
  <2>2. CASE ~SetRecord(i)
    BY <1>1, <2>2 DEF ListSource, DeleteChunks, DeleteRecord, UnlistSource, IngestFails,
       BeginDelete, CorpusTypeOK
  <2> QED
    BY <2>1, <2>2
<1>4. /\ work' \in [Ingests -> CorpusWorks]
      /\ \A j \in Ingests : /\ work'[j].pc \notin {"stage", "commit", "sweep", "record"}
                            /\ work'[j].gen \in {work[i].gen, 0}
  <2>1. ASSUME NEW m \in Writers, BeginDelete(i, m)
        PROVE  /\ work' \in [Ingests -> CorpusWorks]
               /\ \A j \in Ingests : work'[j].pc = "chunks" /\ work'[j].gen = 0
    <3> DEFINE w == [NoWork EXCEPT !.pc = "chunks", !.by = m]
    <3>1. w \in CorpusWorks
      BY <1>1, WorkSteps DEF CorpusWorks
    <3>2. w.pc = "chunks" /\ w.gen = 0
      BY DEF NoWork
    <3>3. work' = [work EXCEPT ![i] = w]
      BY <2>1 DEF BeginDelete
    <3> HIDE DEF w
    <3> QED
      BY <1>1, <3>1, <3>2, <3>3, WorkSteps
  <2>2. CASE SetRecord(i) \/ DeleteChunks(i) \/ DeleteRecord(i)
    BY <1>1, <2>2, GoesOn DEF SetRecord, DeleteChunks, DeleteRecord
  <2>3. CASE ListSource(i) \/ UnlistSource(i) \/ IngestFails(i)
    BY <1>1, <2>3, Finishes DEF ListSource, UnlistSource, IngestFails
  <2> QED
    BY <2>1, <2>2, <2>3
<1>5. CorpusTypeOK'
  <2>1. points' \subseteq Point /\ generations' \in 0 .. MaxGens
    BY <1>1, <1>2 DEF CorpusTypeOK
  <2>2. listed' \in BOOLEAN
    BY <1>2
  <2>3. work' \in [Ingests -> CorpusWorks]
    BY <1>4
  <2> QED
    BY <1>3, <2>1, <2>2, <2>3, Zenon DEF CorpusTypeOK, CorpusWorks
<1>6. work[i].gen <= generations /\ 0 <= generations
  <2>1. work[i].gen <= generations
    BY <1>1 DEF GenInv
  <2>2. 0 <= generations
    BY <1>1, CorpusAssumption DEF CorpusTypeOK
  <2> QED
    BY <2>1, <2>2
<1>7. RecallIsWhole'
  BY <1>1, <1>2 DEF GenInv, RecallIsWhole, Whole
<1>8. GenInv'
  BY <1>1, <1>2, <1>4, <1>6, <1>7 DEF GenInv
<1> QED
  BY <1>2, <1>5, <1>8 DEF CorpusInv

LEMMA CorpusSteps ==
  ASSUME OneCorpusCall, CorpusInv, [CorpusNext]_corpusVars
  PROVE  /\ CorpusInv'
         /\ SomeWhole => SomeWhole' \/ \E i \in Ingests : At(i, "chunks")
<1>1. CASE UNCHANGED corpusVars
  BY <1>1
  DEF corpusVars, CorpusInv, CorpusTypeOK, GenInv, RecallIsWhole, Has, Whole, SomeWhole
<1>2. ASSUME NEW i \in Ingests, NEW m \in Writers, NEW v \in Scopes, BeginIngest(i, m, v)
      PROVE  CorpusInv' /\ points' = points
  BY <1>2, BeginIngestStep DEF BeginIngest
<1>3. ASSUME NEW i \in Ingests, StageChunk(i)
      PROVE  CorpusInv' /\ points \subseteq points'
  BY <1>3, StageChunkStep DEF StageChunk
<1>4. ASSUME points \subseteq points'
      PROVE  SomeWhole => SomeWhole'
  BY <1>4 DEF SomeWhole, Whole
<1>5. ASSUME NEW i \in Ingests, CommitGeneration(i)
      PROVE  CorpusInv' /\ (SomeWhole => SomeWhole')
  BY <1>5, CommitStep DEF SomeWhole
<1> QED
  BY <1>1, <1>2, <1>3, <1>4, <1>5, SweepStep, RestStep DEF CorpusNext

LEMMA CorpusStarts == CorpusInit => CorpusInv
<1>1. NoWork \in CorpusWorks /\ NoWork.pc = "idle" /\ NoWork.gen = 0
  BY CorpusAssumption DEF NoWork, CorpusWorks
<1> SUFFICES ASSUME CorpusInit PROVE CorpusInv
  OBVIOUS
<1>2. /\ work \in [Ingests -> CorpusWorks]
      /\ \A i \in Ingests : work[i].pc = "idle" /\ work[i].gen = 0
  BY <1>1 DEF CorpusInit
<1>3. CorpusTypeOK
  <2>1. points \subseteq Point /\ record \in Record \cup {Absent}
    BY DEF CorpusInit
  <2>2. generations \in 0 .. MaxGens
    BY CorpusAssumption DEF CorpusInit
  <2>3. listed \in BOOLEAN
    BY DEF CorpusInit
  <2> QED
    BY <1>2, <2>1, <2>2, <2>3, Zenon DEF CorpusTypeOK, CorpusWorks
<1>4. GenInv
  <2>1. points = {} /\ generations = 0
    BY DEF CorpusInit
  <2>2. RecallIsWhole /\ \A p \in points : p.gen <= generations
    BY <2>1 DEF RecallIsWhole
  <2>3. \A i \in Ingests : /\ work[i].gen <= generations
                           /\ work[i].pc \notin {"stage", "commit", "sweep", "record"}
    BY <1>2, <2>1
  <2> QED
    BY <2>2, <2>3 DEF GenInv
<1> QED
  BY <1>3, <1>4 DEF CorpusInv

\* pipeline.py:127: with one ingest or deletion of a source at a time, wherever
\* each fails, a chunk can be recalled only with the whole of its generation.
THEOREM WholeIsRecalled == ASSUME OneCorpusCall PROVE CorpusSpec => []RecallIsWhole
<1>1. CorpusInit => CorpusInv
  BY CorpusStarts
<1>2. CorpusInv /\ [CorpusNext]_corpusVars => CorpusInv'
  BY CorpusSteps
<1>3. CorpusInv => RecallIsWhole
  BY DEF CorpusInv, GenInv
<1> QED
  BY <1>1, <1>2, <1>3, PTL DEF CorpusSpec

\* pipeline.py:100: and with one ingest or deletion of a source at a time, the
\* source stays recallable in full until a deletion removes its chunks.
THEOREM DeletionAloneEmpties == ASSUME OneCorpusCall PROVE CorpusSpec => OnlyDeletionEmpties
<1> DEFINE Kept == SomeWhole => SomeWhole' \/ \E i \in Ingests : At(i, "chunks")
<1>1. CorpusInit => CorpusInv
  BY CorpusStarts
<1>2. CorpusInv /\ [CorpusNext]_corpusVars => CorpusInv' /\ [Kept]_corpusVars
  BY CorpusSteps
<1> HIDE DEF Kept
<1>3. CorpusSpec => [][Kept]_corpusVars
  BY <1>1, <1>2, PTL DEF CorpusSpec
<1> QED
  BY <1>3 DEF Kept, OnlyDeletionEmpties

-----------------------------------------------------------------------------
(* One reconciliation at a time *)

OneReconcile == \A r, u \in Reconciles : r = u

\* The steps a reconciliation has still to record were done, among S; what it
\* read of the execution is what x, the execution, still says.
DoneIn(q, S)  == q.pc # "idle" => \A s \in q.todo : <<s, q.no>> \in S
ReadsIn(q, x) == /\ q.pc \in {"read", "drop", "open"} => q.raw = Nil
                 /\ q.pc = "open" => x = Nil
                 /\ q.pc = "write" =>
                       /\ x # Nil /\ x.no = q.no
                       /\ x.observed = IF q.raw = Nil THEN {} ELSE q.raw.observed

EvidenceInv ==
    /\ exec # Nil => \A s \in exec.observed : <<s, exec.no>> \in succeeded
    /\ \A r \in Reconciles : DoneIn(settling[r], succeeded) /\ ReadsIn(settling[r], exec)

LEMMA SettlesAs ==
  ASSUME OneReconcile, ProcTypeOK, NEW r \in Reconciles, NEW k,
         settling' = [settling EXCEPT ![r] = k],
         DoneIn(k, succeeded'), ReadsIn(k, exec'),
         exec' # Nil => \A s \in exec'.observed : <<s, exec'.no>> \in succeeded'
  PROVE  EvidenceInv'
<1>1. \A u \in Reconciles : settling'[u] = k
  BY Typing DEF OneReconcile
<1>2. \A u \in Reconciles : DoneIn(settling'[u], succeeded') /\ ReadsIn(settling'[u], exec')
  BY <1>1
<1> QED
  BY <1>2 DEF EvidenceInv

\* A settlement that starts with what was just done.
LEMMA SettlingStarts ==
  ASSUME ProcTypeOK, EvidenceInv, OneReconcile, NEW r \in Reconciles, NEW a, NEW n,
         exec' = exec, succeeded' = succeeded \cup (Matches[a] \X {n}),
         settling' = [settling EXCEPT ![r] = [NoSettling EXCEPT !.pc = "read",
                        !.action = a, !.no = n, !.todo = Matches[a]]]
  PROVE  EvidenceInv'
<1> DEFINE k == [NoSettling EXCEPT !.pc = "read", !.action = a, !.no = n, !.todo = Matches[a]]
<1>1. k.pc = "read" /\ k.todo = Matches[a] /\ k.no = n /\ k.raw = Nil
  BY DEF NoSettling
<1> HIDE DEF k
<1>2. DoneIn(k, succeeded') /\ ReadsIn(k, exec')
  BY <1>1 DEF DoneIn, ReadsIn
<1>3. exec' # Nil => \A s \in exec'.observed : <<s, exec'.no>> \in succeeded'
  BY DEF EvidenceInv
<1> QED
  BY <1>2, <1>3, SettlesAs DEF k

\* A reconciliation's own steps.
LEMMA EvidenceMoves ==
  ASSUME ProcTypeOK, CallInv, EvidenceInv, OneReconcile, NEW r \in Reconciles,
         ReadExec(r) \/ DropExec(r) \/ OpenExec(r) \/ WriteExec(r)
  PROVE  EvidenceInv'
<1> DEFINE q == settling[r]
           s == First(q.todo)
<1>1. /\ settling \in [Reconciles -> SettleRec] /\ q \in SettleRec
      /\ q.pc # "idle" /\ q.todo # {}
      /\ exec \in ExecRecord \cup {Nil} /\ succeeded' = succeeded
  <2>1. q.pc # "idle" /\ succeeded' = succeeded
    BY DEF ReadExec, DropExec, OpenExec, WriteExec, KeepHistory
  <2>2. settling \in [Reconciles -> SettleRec] /\ exec \in ExecRecord \cup {Nil}
    BY Typing DEF ProcTypeOK
  <2> QED
    BY <2>1, <2>2 DEF CallInv
<1>2. s \in q.todo
  BY <1>1, FirstIn DEF SettleRec
<1>3. DoneIn(q, succeeded) /\ ReadsIn(q, exec)
  BY DEF EvidenceInv
<1>4. exec # Nil => \A t \in exec.observed : <<t, exec.no>> \in succeeded
  BY DEF EvidenceInv
<1>5. DoneIn(Recorded(q, s), succeeded) /\ \A x : ReadsIn(Recorded(q, s), x)
  <2>1. CASE q.todo = {s}
    <3>1. NoSettling.pc = "idle"
      BY DEF NoSettling
    <3> QED
      BY <2>1, <3>1 DEF Recorded, DoneIn, ReadsIn
  <2>2. CASE q.todo # {s}
    <3> DEFINE k == [q EXCEPT !.pc = "read", !.todo = q.todo \ {s}, !.raw = Nil]
    <3>1. k.pc = "read" /\ k.todo = q.todo \ {s} /\ k.raw = Nil /\ k.no = q.no
      BY <1>1 DEF SettleRec
    <3>2. Recorded(q, s) = k
      BY <2>2 DEF Recorded
    <3> HIDE DEF k, s, q
    <3> QED
      BY <1>1, <1>3, <3>1, <3>2 DEF DoneIn, ReadsIn
  <2> QED
    BY <2>1, <2>2
<1>6. \A v : LET k == [q EXCEPT !.pc = v]
             IN  k.pc = v /\ k.todo = q.todo /\ k.no = q.no /\ k.raw = q.raw
  BY <1>1 DEF SettleRec
<1>7. /\ [settling EXCEPT ![r].pc = "open"] = [settling EXCEPT ![r] = [q EXCEPT !.pc = "open"]]
      /\ [settling EXCEPT ![r].pc = "write"] = [settling EXCEPT ![r] = [q EXCEPT !.pc = "write"]]
  BY <1>1
<1>8. CASE ReadExec(r)
  <2> DEFINE Op == [q EXCEPT !.pc = "open"]
             Dr == [q EXCEPT !.pc = "drop"]
             Wr == [q EXCEPT !.pc = "write", !.raw = exec]
             Rec == Recorded(q, s)
  <2>1. /\ exec' = exec /\ q.pc = "read"
        /\ settling' = [settling EXCEPT ![r] =
             IF Stale(q, exec) THEN Rec
             ELSE IF exec = Nil THEN Op ELSE IF exec.closed THEN Dr ELSE Wr]
    BY <1>8 DEF ReadExec
  <2>2. q.raw = Nil
    BY <1>3, <2>1 DEF ReadsIn
  <2>3. /\ DoneIn(Op, succeeded) /\ (exec = Nil => ReadsIn(Op, exec))
        /\ DoneIn(Dr, succeeded) /\ ReadsIn(Dr, exec)
    BY <1>1, <1>3, <1>6, <2>2 DEF DoneIn, ReadsIn
  <2>4. Wr.pc = "write" /\ Wr.todo = q.todo /\ Wr.no = q.no /\ Wr.raw = exec
    BY <1>1 DEF SettleRec
  <2>5. exec # Nil /\ ~exec.closed /\ ~Stale(q, exec) => exec.no = q.no
    BY DEF Stale, EffectiveNo
  <2> HIDE DEF Op, Dr, Wr, Rec, q, s
  <2>6. /\ DoneIn(Wr, succeeded)
        /\ exec # Nil /\ ~exec.closed /\ ~Stale(q, exec) => ReadsIn(Wr, exec)
    BY <1>1, <1>3, <2>4, <2>5 DEF DoneIn, ReadsIn
  <2>7. \E k : /\ settling' = [settling EXCEPT ![r] = k]
               /\ DoneIn(k, succeeded) /\ ReadsIn(k, exec)
    BY <1>5, <2>1, <2>3, <2>6 DEF Rec
  <2> QED
    BY <1>1, <1>4, <2>1, <2>7, SettlesAs
<1>9. CASE DropExec(r)
  <2> DEFINE k == [q EXCEPT !.pc = "open"]
  <2>1. settling' = [settling EXCEPT ![r] = k] /\ exec' = Nil /\ q.pc = "drop"
    BY <1>7, <1>9 DEF DropExec
  <2>2. k.pc = "open" /\ k.todo = q.todo /\ k.no = q.no /\ k.raw = Nil
    BY <1>3, <1>6, <2>1 DEF ReadsIn
  <2> HIDE DEF k, q
  <2>3. DoneIn(k, succeeded') /\ ReadsIn(k, exec')
    BY <1>1, <1>3, <2>1, <2>2 DEF DoneIn, ReadsIn
  <2> QED
    BY <2>1, <2>3, SettlesAs
<1>10. CASE OpenExec(r)
  <2> DEFINE k == [q EXCEPT !.pc = "write"]
  <2>1. settling' = [settling EXCEPT ![r] = k] /\ q.pc = "open"
        /\ exec' = IF exec = Nil THEN [no |-> q.no, observed |-> {}, closed |-> FALSE]
                   ELSE [exec EXCEPT !.no = q.no]
    BY <1>7, <1>10 DEF OpenExec
  <2>2. exec = Nil /\ q.raw = Nil
    BY <1>3, <2>1 DEF ReadsIn
  <2>3. k.pc = "write" /\ k.todo = q.todo /\ k.no = q.no /\ k.raw = Nil
    BY <1>6, <2>2
  <2>4. exec'.no = q.no /\ exec'.observed = {}
    BY <2>1, <2>2
  <2>5. exec' # Nil
    <3>1. exec' \in ExecRecord
      BY <1>1, <2>1, <2>2 DEF ExecRecord, SettleRec
    <3> QED
      BY <3>1, NilAssumption
  <2> HIDE DEF k, q
  <2>6. DoneIn(k, succeeded') /\ ReadsIn(k, exec')
    BY <1>1, <1>3, <2>1, <2>3, <2>4, <2>5 DEF DoneIn, ReadsIn
  <2> QED
    BY <2>1, <2>4, <2>6, SettlesAs
<1>11. CASE WriteExec(r)
  <2> DEFINE seen == (IF q.raw = Nil THEN {} ELSE q.raw.observed) \cup {s}
             k    == Recorded(q, s)
  <2>1. /\ settling' = [settling EXCEPT ![r] = k] /\ q.pc = "write"
        /\ exec'.no = (IF exec = Nil THEN 1 ELSE exec.no)
        /\ exec'.observed = seen
    BY <1>11 DEF WriteExec
  <2>2. exec # Nil /\ exec.no = q.no /\ seen = exec.observed \cup {s}
    BY <1>3, <2>1 DEF ReadsIn
  <2>3. <<s, q.no>> \in succeeded
    BY <1>1, <1>2, <1>3 DEF DoneIn
  <2> HIDE DEF seen, k, q, s
  <2>4. \A t \in exec'.observed : <<t, exec'.no>> \in succeeded'
    BY <1>1, <1>4, <2>1, <2>2, <2>3
  <2>5. DoneIn(k, succeeded') /\ ReadsIn(k, exec')
    BY <1>1, <1>5 DEF k
  <2> QED
    BY <2>1, <2>4, <2>5, SettlesAs
<1> QED
  BY <1>8, <1>9, <1>10, <1>11

\* record_observation: with one reconciliation at a time, an execution has
\* evidence only of steps that were done, and were judged in that execution.
THEOREM EvidenceSucceeded == ASSUME OneReconcile PROVE ProcSpec => []EvidenceIsSuccess
<1>1. ProcInit => EvidenceInv
  BY DEF ProcInit, EvidenceInv, DoneIn, ReadsIn, NoSettling
<1>2. IInv /\ EvidenceInv /\ [ProcNext]_procVars => EvidenceInv'
  <2> SUFFICES ASSUME IInv, EvidenceInv, [ProcNext]_procVars PROVE EvidenceInv'
    OBVIOUS
  <2>1. ProcTypeOK /\ CallInv
    BY DEF IInv
  <2>2. ASSUME UNCHANGED <<exec, settling, succeeded>> PROVE EvidenceInv'
    BY <2>2 DEF EvidenceInv
  <2>3. ASSUME NEW c \in Calls, Allow(c) PROVE EvidenceInv'
    <3>1. CASE judging[c].action \in Edits
      <4> DEFINE a == judging[c].action
                 n == judging[c].no
      <4>1. PICK r \in Reconciles :
               settling' = [settling EXCEPT ![r] = [NoSettling EXCEPT !.pc = "read",
                              !.action = a, !.no = n, !.todo = Matches[a]]]
        BY <2>3, <3>1 DEF Allow
      <4>2. exec' = exec /\ succeeded' = succeeded \cup (Matches[a] \X {n})
        BY <2>3, <3>1 DEF Allow
      <4> HIDE DEF a, n
      <4> QED
        BY <2>1, <4>1, <4>2, SettlingStarts
    <3>2. CASE judging[c].action \notin Edits
      BY <2>2, <2>3, <3>2 DEF Allow
    <3> QED
      BY <3>1, <3>2
  <2>4. ASSUME NEW r \in Reconciles, NEW x \in pending, NEW ok \in BOOLEAN, TakePending(r, x, ok)
        PROVE  EvidenceInv'
    <3>1. CASE ok
      BY <2>1, <2>4, <3>1, SettlingStarts DEF TakePending, Succeeds
    <3>2. CASE ~ok
      BY <2>2, <2>4, <3>2 DEF TakePending, Succeeds
    <3> QED
      BY <3>1, <3>2
  <2>5. \/ UNCHANGED <<exec, settling, succeeded>>
        \/ \E c \in Calls : Allow(c)
        \/ \E r \in Reconciles : \/ \E x \in pending, ok \in BOOLEAN : TakePending(r, x, ok)
                                 \/ ReadExec(r) \/ DropExec(r) \/ OpenExec(r) \/ WriteExec(r)
    BY DEF ProcNext, procVars, Begin, Judge, ReadBundle, ConsumePermit, MintChallenge, ClaimWarn,
       Refuse, PendingExpires, Acknowledge, ChallengeExpires, PermitExpires, SetMode, KeepHistory
  <2> QED
    BY <2>1, <2>2, <2>3, <2>4, <2>5, EvidenceMoves
<1>3. EvidenceInv => EvidenceIsSuccess
  BY DEF EvidenceInv, EvidenceIsSuccess
<1> QED
  BY <1>1, <1>2, <1>3, ProcInvariant, PTL DEF ProcSpec
===============================================================================

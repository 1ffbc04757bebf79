------------------------------ MODULE PermitRules ------------------------------
(***************************************************************************)
(* What a permit promises (hands/src/firekeep_hands/broker/permits.py, the *)
(* module's docstring): it starts pending, a person moves it to approved   *)
(* or denied, it is consumed once and only from approved, its expiry holds *)
(* for approved as well, and nothing leaves denied, expired or consumed.   *)
(***************************************************************************)
EXTENDS Naturals

CONSTANTS Permits, TTL

VARIABLES state, deadline, now

rulesVars == <<state, deadline, now>>

Living == {"pending", "approved"}

RulesInit == /\ state = [p \in Permits |-> "none"]
             /\ deadline = [p \in Permits |-> 0]
             /\ now = 0

Lapsing(p) == state[p] \in Living /\ now >= deadline[p] /\ state'[p] = "expired"

\* Any permits that are due lapse; of the others at most p moves.
Elsewhere(p) == \A q \in Permits \ {p} : state'[q] = state[q] \/ Lapsing(q)

Mint(p) == /\ state[p] = "none" /\ state'[p] = "pending"
           /\ deadline' = [deadline EXCEPT ![p] = now + TTL]

Answer(p) == /\ state[p] = "pending" /\ now < deadline[p]
             /\ state'[p] \in {"approved", "denied"}
             /\ UNCHANGED deadline

Spend(p) == /\ state[p] = "approved" /\ now < deadline[p]
            /\ state'[p] = "consumed"
            /\ UNCHANGED deadline

Rest(p) == (state'[p] = state[p] \/ Lapsing(p)) /\ UNCHANGED deadline

RulesTick == now' = now + 1 /\ UNCHANGED <<state, deadline>>

RulesNext ==
  \/ RulesTick
  \/ /\ UNCHANGED now
     /\ \E p \in Permits : /\ Elsewhere(p)
                           /\ Mint(p) \/ Answer(p) \/ Spend(p) \/ Rest(p)

RulesSpec == RulesInit /\ [][RulesNext]_rulesVars
===============================================================================

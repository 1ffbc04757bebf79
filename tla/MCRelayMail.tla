------------------------------ MODULE MCRelayMail ------------------------------
(* Relay's mail, its task queue and its bulletin board, and the night shifts *)
(* that live off the queue.  They share no key, so a behaviour is one of     *)
(* them alone; of the night shifts either two that drain what sessions left, *)
(* or one at a time, between nightly passes that post for it, which writes   *)
(* one result for a task.  Tasks expire in the latter only.                  *)
EXTENDS RelayMail, RelayTasks, NightShift, TLC

CONSTANTS w1, w2, u1, u2, p, q, a, b

MCSymmetry == Permutations({w1, w2}) \cup Permutations({u1, u2}) \cup Permutations({p, q})

VARIABLE part

DeskInit == /\ MailInit /\ TasksInit /\ NightInit
            /\ part \in {"mail", "tasks", "board", "drain", "fleet"}
            /\ part # "mail" => \A l \in Names : row[l] = Absent

Drain == /\ NightNext
         /\ UNCHANGED <<pass, open, declined, marker>>
         /\ \A n \in DOMAIN posted' : posted'[n].status # "gone"

AtWork == {w \in Shifts : shift[w].pc # "off"}

Fleet == /\ NightNext
         /\ \A n \in DOMAIN posted' : posted'[n].subject \in Subjects
         /\ Cardinality(AtWork') <= 1
         /\ AtWork' # {} => pass' = NoPass
         /\ AtWork # {} => UNCHANGED <<pass, marker, declined>>
         /\ \A n \in TaskIds : stored'[n] <= 1 /\ (leases[n] # leases'[n] => AtWork # {})

DeskNext ==
    /\ UNCHANGED part
    /\ \/ part = "mail"  /\ MailNext  /\ UNCHANGED <<taskVars, nightVars>>
       \/ part = "tasks" /\ TaskNext  /\ UNCHANGED <<mailVars, nightVars>>
       \/ part = "board" /\ BoardNext /\ UNCHANGED <<mailVars, nightVars>>
       \/ part = "drain" /\ Drain     /\ UNCHANGED <<mailVars, taskVars>>
       \/ part = "fleet" /\ Fleet     /\ UNCHANGED <<mailVars, taskVars>>

DeskSpec == DeskInit /\ [][DeskNext]_<<mailVars, taskVars, nightVars, part>>
================================================================================

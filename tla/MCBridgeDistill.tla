---------------------------- MODULE MCBridgeDistill ---------------------------
(* One session, two calls in flight, and the distillation worker; or, in    *)
(* the other part, no crashes and the operator's requeue.                   *)
EXTENDS BridgeDistill, TLC

CONSTANTS alice, l1, s1, c1, c2

MCMembers1  == {alice}
MCLabels1   == {l1}
MCSessions1 == {s1}
MCCalls     == {c1, c2}
NoGrades    == {}

MCOps       == {"start", "update", "complete", "requeue"}

VARIABLE part

DistillInit == Init /\ part \in {"worker", "requeue"}
DistillNext == /\ Next
               /\ UNCHANGED part
               /\ part = "worker"  => \A c \in Calls : call'[c] # Idle => call'[c].op # "requeue"
               /\ part = "requeue" =>
                     /\ crashes' = 0
                     /\ \A c, d \in Calls : c # d /\ Idle \notin {call'[c], call'[d]} =>
                           "requeue" \in {call'[c].op, call'[d].op}
DistillSpec == DistillInit /\ [][DistillNext]_<<vars, part>> /\ Fairness

\* The worker resolves every queued session, whatever fails; not one whose
\* requeue wrote its state after the worker was done with it.
QueuedIsResolved ==
  \A s \in Sessions : part = "worker" /\ Queued(s) ~> ~Queued(s)
===============================================================================

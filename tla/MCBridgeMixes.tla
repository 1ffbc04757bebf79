----------------------------- MODULE MCBridgeMixes -----------------------------
(* Two calls in flight.  Every tool under every label at once is out of     *)
(* reach, so that a behaviour keeps to one mix: some of the tools, on some  *)
(* of the labels.                                                           *)
EXTENDS MCBridgeSession

Mixes == {[ops |-> {"start", "complete", "reap"},   labels |-> {l1}],
          [ops |-> {"complete", "abandon", "reap"}, labels |-> {l1}],
          [ops |-> {"start", "abandon", "reap"},    labels |-> {l1}],
          [ops |-> {"start", "resume", "complete"}, labels |-> {l1}],
          [ops |-> {"start", "resume"},             labels |-> {l1, l2}]}

VARIABLE mix

MixInit == /\ SessionInit /\ mix \in Mixes
           /\ \A s \in Sessions : meta[s] # NoMeta => meta[s].label \in mix.labels
MixNext == /\ Begins(mix.ops, mix.labels) \/ Continues \/ Outside
           /\ UNCHANGED mix
MixSpec == MixInit /\ [][MixNext]_<<sessionVars, mix>>
===============================================================================

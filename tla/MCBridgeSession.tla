---------------------------- MODULE MCBridgeSession ---------------------------
(* Sessions of two members under one or two labels.  How many calls are in  *)
(* flight and which tools they call is chosen per run.                      *)
EXTENDS BridgeSession, TLC

CONSTANTS alice, bob, l1, l2, s1, s2, c1, c2

MCMembers   == {alice, bob}
MCLabels1   == {l1}
MCLabels2   == {l1, l2}
MCSessions2 == {s1, s2}
MCCall      == {c1}
MCCalls     == {c1, c2}
TwoGrades   == {"success", "failure"}
NoGrades    == {}

AllOps      == {"start", "resume", "update", "complete", "abandon", "reap"}

\* Sessions and calls are interchangeable; alice is the deployment owner.
Symmetric1 == Permutations(MCSessions2)
Symmetric2 == Permutations(MCSessions2) \cup Permutations(MCCalls)
===============================================================================

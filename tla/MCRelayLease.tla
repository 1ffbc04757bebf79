----------------------------- MODULE MCRelayLease -----------------------------
(* Two labels, two members (so two members can use one label), and two      *)
(* requests in flight at a time.                                            *)
EXTENDS RelayLease, TLC

CONSTANTS alice, bob, l1, l2, p1, p2

MCLabels  == {l1, l2}
MCMembers == {alice, bob}
MCProcs   == {p1, p2}
===============================================================================

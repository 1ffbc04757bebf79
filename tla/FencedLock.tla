------------------------------ MODULE FencedLock ------------------------------
(***************************************************************************)
(* What a Relay lease promises, with nothing of how it is stored: at most  *)
(* one owner holds the resource, every grant opens a new epoch, and an     *)
(* epoch that has ended never comes back.  RelayLease is shown to          *)
(* implement it.                                                           *)
(***************************************************************************)
EXTENDS Naturals

CONSTANTS
  Owners,       \* who may hold the resource
  Nobody,       \* "the resource is free"; not one of the owners
  MaxEpoch      \* bound on the number of grants explored

VARIABLES
  owner,        \* who holds the resource now
  epoch         \* number of grants so far; names the current (or last) one

lockVars == <<owner, epoch>>

LockInit == /\ owner \in Owners \cup {Nobody}
            /\ epoch \in {0, 1}
            /\ (owner # Nobody) => epoch = 1

Grant(o) == /\ owner = Nobody
            /\ epoch < MaxEpoch
            /\ owner' = o
            /\ epoch' = epoch + 1

End == /\ owner # Nobody
       /\ owner' = Nobody
       /\ UNCHANGED epoch

LockNext == End \/ \E o \in Owners : Grant(o)

LockSpec == LockInit /\ [][LockNext]_lockVars
===============================================================================

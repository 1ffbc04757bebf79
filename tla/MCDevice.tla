------------------------------- MODULE MCDevice -------------------------------
(* What runs on a member's device, and the server it joins.  A behaviour is  *)
(* of one part: the permits of one step that asks for one again and again,   *)
(* of whose relay tasks only the one the bridge may still read is updated;   *)
(* two threads that notify of two prompts; two join codes, a device that may *)
(* post twice and one removal.                                               *)
EXTENDS HandsPermits, HandsAnnounce, JoinClient, TLC

CONSTANTS p1, p2, t1, t2, c1, c2, kit, phone, http, chord, j1, j2, h1, h2,
          Parts

MCPermits    == {p1, p2}
MCTasks      == {t1, t2}
MCChallenges == {c1}
MCPrompts    == {c1, c2}
MCCreds      == {kit, phone}
MCThreads    == {http, chord}
MCTickets    == {j1, j2}
MCHashes     == {h1, h2}
MCRequests   == Clients \X Attempts

VARIABLE part

Readable == {permit[p].phone_task_id : p \in Pending} \ {NoTask}

DeviceInit == PermitInit /\ AnnounceInit /\ JoinInit /\ part \in Parts

DeviceNext ==
  /\ UNCHANGED part
  /\ \/ /\ part = "permits"
        /\ Local \/ UpdateTasks(Readable)
        /\ UNCHANGED <<announceVars, allVars>>
     \/ part = "announce" /\ AnnounceNext /\ UNCHANGED <<permitVars, allVars>>
     \/ part = "join" /\ JoinNext /\ UNCHANGED <<permitVars, announceVars>>

DeviceSpec == DeviceInit /\ [][DeviceNext]_<<permitVars, announceVars, allVars, part>>

\* Permits, tasks, tickets and hashes are only compared for equality.  Of the
\* swapped pairs only the part's own occurs in a behaviour.
Swap(f, a, b) == IF f THEN (a :> b) @@ (b :> a) ELSE (a :> a) @@ (b :> b)
Symmetry == {Swap(f, p1, p2) @@ Swap(f, j1, j2) @@ Swap(g, t1, t2) @@ Swap(g, h1, h2) : f, g \in BOOLEAN}
===============================================================================

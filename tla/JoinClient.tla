------------------------------ MODULE JoinClient ------------------------------
(***************************************************************************)
(* firekeep join (client/firekeep_client/join.py) against the server of    *)
(* Enrollment: a device writes its secret to pending-join.json, posts the  *)
(* secret's hash, writes the configuration, and deletes the pending file.  *)
(* It may crash between any two steps, and a post may time out while the   *)
(* server still works on it; --resume posts the same secret again.         *)
(*                                                                         *)
(* Left out: the reachability check and the pinned CA before the post, and *)
(* accepting a member invite, which is Enrollment's Accept followed by a   *)
(* join with the code it answers; and the fresh secret made when the       *)
(* server answers that the name is taken: secrets are random.              *)
(***************************************************************************)
EXTENDS Enrollment

CONSTANTS Clients, MaxAttempts

Attempts == 1 .. MaxAttempts
ASSUME AttemptAssumption == MaxAttempts \in Nat /\ Clients \X Attempts \subseteq Requests

VARIABLES pending,     \* pending-join.json: a ticket and the secret made for it
          config,      \* the secret in config.ini
          join,        \* the running command: what it will do next
          attempt,     \* posts so far: names the request in flight
          forgotten    \* history: secrets this device gave up

clientVars == <<pending, config, join, attempt, forgotten>>
allVars == <<vars, clientVars>>

NoPending == [ticket |-> None, hash |-> None, stale |-> FALSE]

Current(c) == <<c, attempt[c]>>
Minted == {req[r].hash : r \in Requests} \cup {pending[c].hash : c \in Clients}
              \cup {config[c] : c \in Clients} \cup forgotten

JoinInit ==
    /\ Init
    /\ pending = [c \in Clients |-> NoPending]
    /\ config = [c \in Clients |-> None]
    /\ join = [c \in Clients |-> "off"]
    /\ attempt = [c \in Clients |-> 0]
    /\ forgotten = {}

-----------------------------------------------------------------------------
\* join CODE: a pending file younger than a day is refused, an older one is
\* swept; the secret is on disk before anything is sent.
Start(c, t) ==
    /\ join[c] = "off"
    /\ pending[c] = NoPending \/ pending[c].stale
    /\ attempt[c] < MaxAttempts
    /\ \E h \in Hashes \ Minted :
          pending' = [pending EXCEPT ![c] = [ticket |-> t, hash |-> h, stale |-> FALSE]]
    /\ forgotten' = forgotten \cup ({pending[c].hash} \ {None})
    /\ join' = [join EXCEPT ![c] = "prepared"]
    /\ UNCHANGED <<vars, config, attempt>>

\* join CODE --resume: the pending file must be for this code.
Resume(c) ==
    /\ join[c] = "off"
    /\ pending[c] # NoPending
    /\ ~pending[c].stale
    /\ attempt[c] < MaxAttempts
    /\ join' = [join EXCEPT ![c] = "prepared"]
    /\ UNCHANGED <<vars, pending, config, attempt, forgotten>>

PostJoin(c) ==
    /\ join[c] = "prepared"
    /\ attempt[c] < MaxAttempts
    /\ attempt' = [attempt EXCEPT ![c] = @ + 1]
    /\ Submit(<<c, attempt[c] + 1>>, pending[c].ticket, pending[c].hash)
    /\ join' = [join EXCEPT ![c] = "posted"]
    /\ UNCHANGED <<members, invites, tickets, creds, issuing, removal, registered,
                   pending, config, forgotten>>

\* The answer arrives; a refusal ends the command and keeps the pending file.
Answered(c) ==
    /\ join[c] = "posted"
    /\ req[Current(c)].pc = "answered"
    /\ join' = [join EXCEPT ![c] = IF req[Current(c)].out \in {"ok", "replay"}
                                   THEN "enrolled" ELSE "off"]
    /\ UNCHANGED <<vars, pending, config, attempt, forgotten>>

\* upsert_server replaces the configuration file in one rename.
WriteConfig(c) ==
    /\ join[c] = "enrolled"
    /\ config' = [config EXCEPT ![c] = pending[c].hash]
    /\ forgotten' = forgotten \cup ({config[c]} \ {None, pending[c].hash})
    /\ join' = [join EXCEPT ![c] = "configured"]
    /\ UNCHANGED <<vars, pending, attempt>>

DropPending(c) ==
    /\ join[c] = "configured"
    /\ pending' = [pending EXCEPT ![c] = NoPending]
    /\ join' = [join EXCEPT ![c] = "off"]
    /\ UNCHANGED <<vars, config, attempt, forgotten>>

\* A crash, or a post that timed out: the server may still work on it.
Crash(c) ==
    /\ join[c] # "off"
    /\ join' = [join EXCEPT ![c] = "off"]
    /\ UNCHANGED <<vars, pending, config, attempt, forgotten>>

\* A pending file is a day old no sooner than its ticket: both last a day.
PendingAges(c) ==
    /\ pending[c] # NoPending
    /\ join[c] = "off"
    /\ ~pending[c].stale
    /\ tickets[pending[c].ticket].late
    /\ pending' = [pending EXCEPT ![c].stale = TRUE]
    /\ UNCHANGED <<vars, config, join, attempt, forgotten>>

ClientStep(c) ==
    \/ \E t \in Tickets : Start(c, t)
    \/ Resume(c)
    \/ PostJoin(c)
    \/ Answered(c)
    \/ WriteConfig(c)
    \/ DropPending(c)
    \/ Crash(c)
    \/ PendingAges(c)

JoinNext == \/ ServerNext /\ UNCHANGED clientVars
            \/ \E c \in Clients : ClientStep(c)

JoinSpec == JoinInit /\ [][JoinNext]_allVars

-----------------------------------------------------------------------------
(* Properties *)

JoinTypeOK ==
    /\ pending \in [Clients -> [ticket : Tickets \cup {None}, hash : Hashes \cup {None},
                               stale : BOOLEAN]]
    /\ config \in [Clients -> Hashes \cup {None}]
    /\ join \in [Clients -> {"off", "prepared", "posted", "enrolled", "configured"}]
    /\ attempt \in [Clients -> 0 .. MaxAttempts]
    /\ forgotten \subseteq Hashes

\* Crash-safe: whatever stops between the steps, a credential the server
\* registered for this device is in its pending file or its configuration,
\* until the device itself gives the secret up (a newer join, or a day).
NoOrphanedCredential ==
    \A x \in registered :
        \/ x[2] \in forgotten
        \/ \E c \in Clients : x[2] \in {pending[c].hash, config[c]}

\* A device that lost the answer can have it again: as long as the credential
\* and the ticket's record exist, resuming replays the redemption.
LostAnswerReplays ==
    \A c \in Clients :
        ( /\ <<pending[c].ticket, pending[c].hash>> \in registered
          /\ creds[pending[c].hash] # None
          /\ Present(pending[c].ticket) )
        => Outcome(pending[c].ticket, pending[c].hash, NoTicket) = "replay"

\* Both type invariants.
TypesOK == TypeOK /\ JoinTypeOK

\* join.py calls itself crash-safe: a registered credential is never lost by
\* its device, and the device can have a lost answer again by resuming.
CrashSafeJoin == NoOrphanedCredential /\ LostAnswerReplays
=============================================================================

----------------------------- MODULE Enrollment -----------------------------
(***************************************************************************)
(* How a device gets a credential, and how a member loses every one of     *)
(* them: join tickets (cortex/app/enroll), member invites                  *)
(* (cortex/app/members) and the removal and restoration of members         *)
(* (auth/members.py), all on one Redis database.                           *)
(*                                                                         *)
(* One action is one command, transaction or script of that database; a    *)
(* handler that reads and later writes is two actions with the value it    *)
(* read kept between them (req, issuing, removal).  A scan is one read.    *)
(* A credential is named by the hash its holder registered; the device id  *)
(* that a redemption mints is named by the hash it registers.              *)
(*                                                                         *)
(* Left out: scopes and the connection a ticket describes (fixed when it   *)
(* is issued), the hourly attempt limit (it refuses and changes nothing),  *)
(* tickets from before members were recorded, and keys made by hand for    *)
(* the owner.                                                              *)
(***************************************************************************)
EXTENDS Naturals, FiniteSets

CONSTANTS Members,      \* member ids
          Owner,        \* the deployment owner
          Tickets,      \* ticket ids: of a join code and of a member invite
          Hashes,       \* hashes of client-made secrets
          Requests,     \* redemptions in flight
          Removers,     \* runs of remove_member in flight
          None          \* an absent field or record

ASSUME OwnerAssumption == Owner \in Members
ASSUME NoneAssumption  == None \notin Members /\ None \notin Hashes

VARIABLES members,      \* auth:member:<id>, its status
          invites,      \* auth:member_invite:<tid>
          tickets,      \* auth:enroll:<tid>
          creds,        \* auth:key:<hash>, with its mapping and index entry
          issuing,      \* join codes whose member was checked, not yet written
          req,          \* redemptions
          removal,      \* removals
          registered    \* history: the pairs <<ticket, hash>> ever registered

vars == <<members, invites, tickets, creds, issuing, req, removal, registered>>

NoInvite  == [state |-> "none", member |-> None]
NoTicket  == [state |-> "none", member |-> None, device |-> None,
              late |-> FALSE, hash |-> None]
NoRequest == [pc |-> "idle", ticket |-> None, hash |-> None, snap |-> NoTicket,
              out |-> None]
NoRemoval == [pc |-> "idle", member |-> None, already |-> FALSE,
              todo |-> {}, undisturbed |-> FALSE]

Outcomes == {"ok", "replay", "unknown", "used", "credential_gone", "expired",
             "ticket_changed", "member_inactive", "cred_exists"}

InviteRecord  == [state : {"none", "open", "used", "gone"}, member : Members \cup {None}]
TicketRecord  == [state : {"none", "open", "used", "gone"},
                  member : Members \cup {None}, device : Hashes \cup {None},
                  late : BOOLEAN, hash : Hashes \cup {None}]
CredRecord    == [member : Members, device : Hashes, via : Tickets]
IssueRecord   == [ticket : Tickets, member : Members, device : Hashes \cup {None}]
RequestRecord == [pc : {"idle", "received", "read", "answered"},
                  ticket : Tickets \cup {None}, hash : Hashes \cup {None},
                  snap : TicketRecord, out : Outcomes \cup {None}]
RemovalRecord == [pc : {"idle", "loaded", "flipped", "sweeping", 
                        "cancelling", "done"},
                  member : Members \cup {None}, already : BOOLEAN,
                  todo : SUBSET (Hashes \cup Tickets), undisturbed : BOOLEAN]

TypeOK ==
    /\ members \in [Members -> {"absent", "active", "removed"}]
    /\ invites \in [Tickets -> InviteRecord]
    /\ tickets \in [Tickets -> TicketRecord]
    /\ creds \in [Hashes -> CredRecord \cup {None}]
    /\ issuing \subseteq IssueRecord
    /\ req \in [Requests -> RequestRecord]
    /\ removal \in [Removers -> RemovalRecord]
    /\ registered \subseteq Tickets \X Hashes

Init ==
    /\ members = [m \in Members |-> IF m = Owner THEN "active" ELSE "absent"]
    /\ invites = [t \in Tickets |-> NoInvite]
    /\ tickets = [t \in Tickets |-> NoTicket]
    /\ creds = [h \in Hashes |-> None]
    /\ issuing = {}
    /\ req = [r \in Requests |-> NoRequest]
    /\ removal = [p \in Removers |-> NoRemoval]
    /\ registered = {}

-----------------------------------------------------------------------------
(* Join codes *)

CredsOf(m)      == {h \in Hashes : creds[h] # None /\ creds[h].member = m}
OwnersOfDevice(d) == {creds[h].member : h \in {k \in Hashes : creds[k] # None
                                                /\ creds[k].device = d}}
OpenTicketsOf(m) == {t \in Tickets : tickets[t].state = "open" /\ tickets[t].member = m}

\* A ticket id is the hash of a fresh random secret.
FreshTicket(t) == /\ tickets[t].state = "none"
                  /\ invites[t].state = "none"
                  /\ \A i \in issuing : i.ticket # t

\* Mutant: a regenerated device goes to whoever asked for it.
InviteMember_Issuer(t, m, d) ==
    /\ FreshTicket(t)
    /\ d # None => OwnersOfDevice(d) # {}
    /\ members[m] = "active"
    /\ issuing' = issuing \cup {[ticket |-> t, member |-> m, device |-> d]}
    /\ UNCHANGED <<members, invites, tickets, creds, req, removal, registered>>

\* A new device belongs to the member named, a regenerated one to the one
\* member its credentials name; the member must be active.
InviteMember(t, m, d) ==
    /\ FreshTicket(t)
    /\ d # None => OwnersOfDevice(d) = {m}
    /\ members[m] = "active"
    /\ issuing' = issuing \cup {[ticket |-> t, member |-> m, device |-> d]}
    /\ UNCHANGED <<members, invites, tickets, creds, req, removal, registered>>

NewTicket(m, d) == [NoTicket EXCEPT !.state = "open", !.member = m, !.device = d]

Issue(i) ==
    /\ i \in issuing
    /\ issuing' = issuing \ {i}
    /\ tickets' = [tickets EXCEPT ![i.ticket] = NewTicket(i.member, i.device)]
    /\ UNCHANGED <<members, invites, creds, req, removal, registered>>

\* Cancelling deletes the record, redeemed or not.
CancelTicket(t) ==
    /\ tickets[t].state \in {"open", "used"}
    /\ tickets' = [tickets EXCEPT ![t] = [@ EXCEPT !.state = "gone"]]
    /\ UNCHANGED <<members, invites, creds, issuing, req, removal, registered>>

TicketExpires(t) ==
    /\ tickets[t].state \in {"open", "used"}
    /\ ~tickets[t].late
    /\ tickets' = [tickets EXCEPT ![t] = [@ EXCEPT !.late = TRUE]]
    /\ UNCHANGED <<members, invites, creds, issuing, req, removal, registered>>

\* The record outlives its expiry by days, as a tombstone, and then goes.
TombstoneGoes(t) ==
    /\ tickets[t].state \in {"open", "used"}
    /\ tickets[t].late
    /\ tickets' = [tickets EXCEPT ![t] = [@ EXCEPT !.state = "gone"]]
    /\ UNCHANGED <<members, invites, creds, issuing, req, removal, registered>>

-----------------------------------------------------------------------------
(* Redemption: an advisory read of the ticket, then one script *)

\* A client makes a secret for one ticket.
Submit(r, t, h) ==
    /\ req[r].pc = "idle"
    /\ \A q \in Requests : req[q].hash = h => req[q].ticket = t
    /\ req' = [req EXCEPT ![r] = [NoRequest EXCEPT !.pc = "received",
                                                   !.ticket = t, !.hash = h]]

Present(t) == tickets[t].state \in {"open", "used"}

ReadTicket(r) ==
    /\ req[r].pc = "received"
    /\ LET t == req[r].ticket IN
       req' = [req EXCEPT ![r] = [@ EXCEPT !.pc = "read",
                    !.snap = IF Present(t) THEN tickets[t] ELSE NoTicket]]
    /\ UNCHANGED <<members, invites, tickets, creds, issuing, removal, registered>>

\* Mutants: a spent ticket is refused only to the device that spent it; the
\* member is not looked at; expiry is checked before replay.
Outcome_Respend(t, h, snap) ==
    IF ~Present(t) THEN "unknown"
    ELSE IF tickets[t].hash = h THEN "replay"
    ELSE IF members[tickets[t].member] # "active" THEN "member_inactive" ELSE "ok"
Outcome_AnyMember(t, h, snap) ==
    IF tickets[t].state = "open" /\ snap.member = tickets[t].member THEN "ok" ELSE "used"
Outcome_ExpiryFirst(t, h, snap) ==
    IF ~Present(t) THEN "unknown"
    ELSE IF tickets[t].late THEN "expired"
    ELSE IF tickets[t].state = "used"
        THEN IF tickets[t].hash = h THEN "replay" ELSE "used"
    ELSE IF members[tickets[t].member] # "active" THEN "member_inactive" ELSE "ok"

\* The checks of the script, in its order.
Outcome(t, h, snap) ==
    IF ~Present(t) THEN "unknown"
    ELSE IF tickets[t].state = "used" THEN
        IF tickets[t].hash # h THEN "used"
        ELSE IF creds[h] = None THEN "credential_gone" ELSE "replay"
    ELSE IF tickets[t].late THEN "expired"
    ELSE IF snap.member # tickets[t].member \/ snap.device # tickets[t].device
        THEN "ticket_changed"
    ELSE IF members[tickets[t].member] # "active" THEN "member_inactive"
    ELSE IF creds[h] # None THEN "cred_exists"
    ELSE "ok"

\* ENROLL_CONSUME: spends the ticket and registers the credential, or neither.
Redeem(r) ==
    /\ req[r].pc = "read"
    /\ LET t   == req[r].ticket
           h   == req[r].hash
           out == Outcome(t, h, req[r].snap)
           dev == IF req[r].snap.device = None THEN h ELSE req[r].snap.device
       IN /\ req' = [req EXCEPT ![r] = [@ EXCEPT !.pc = "answered", !.out = out,
                                              !.snap = NoTicket]]
          /\ IF out = "ok"
             THEN /\ creds' = [creds EXCEPT ![h] = [member |-> req[r].snap.member,
                                                    device |-> dev, via |-> t]]
                  /\ tickets' = [tickets EXCEPT ![t] = [@ EXCEPT !.state = "used", !.hash = h]]
                  /\ registered' = registered \cup {<<t, h>>}
             ELSE UNCHANGED <<creds, tickets, registered>>
    /\ UNCHANGED <<members, invites, issuing, removal>>

\* revoke_key, and the expiry of the record itself.
Revoke(h) ==
    /\ creds[h] # None
    /\ creds' = [creds EXCEPT ![h] = None]
    /\ UNCHANGED <<members, invites, tickets, issuing, req, removal, registered>>

-----------------------------------------------------------------------------
(* Member invites: the transactions watch what they read *)

InviteMemberAsNew(t, m) ==
    /\ FreshTicket(t)
    /\ members[m] = "absent"
    /\ \A u \in Tickets : invites[u].member # m
    /\ invites' = [invites EXCEPT ![t] = [state |-> "open", member |-> m]]
    /\ UNCHANGED <<members, tickets, creds, issuing, req, removal, registered>>

\* Accepting again answers with the same code and changes nothing.
Accept(t) ==
    /\ invites[t].state = "open"
    /\ LET m == invites[t].member IN
       /\ members' = [members EXCEPT ![m] = "active"]
       /\ tickets' = [tickets EXCEPT ![t] = NewTicket(m, None)]
    /\ invites' = [invites EXCEPT ![t] = [@ EXCEPT !.state = "used"]]
    /\ UNCHANGED <<creds, issuing, req, removal, registered>>

\* Cancelled by an administrator, or expired; one already accepted only
\* answers with its code again.
InviteGoes(t) ==
    /\ invites[t].state = "open"
    /\ invites' = [invites EXCEPT ![t] = [@ EXCEPT !.state = "gone"]]
    /\ UNCHANGED <<members, tickets, creds, issuing, req, removal, registered>>

-----------------------------------------------------------------------------
(* Removal and restoration *)

\* The row is loaded; the owner is refused; so is a member never accepted.
LoadMember(p, m) ==
    /\ removal[p].pc \in {"idle", "done"}
    /\ m # Owner
    /\ members[m] # "absent"
    /\ removal' = [removal EXCEPT ![p] =
          [NoRemoval EXCEPT !.pc = "loaded", !.member = m,
                            !.already = (members[m] = "removed"),
                            !.undisturbed = TRUE]]
    /\ UNCHANGED <<members, invites, tickets, creds, issuing, req, registered>>

\* Step 1: the status, unless the row said it was removed already.
FlipStatus(p) ==
    /\ removal[p].pc = "loaded"
    /\ members' = IF removal[p].already THEN members
                  ELSE [members EXCEPT ![removal[p].member] = "removed"]
    /\ removal' = [removal EXCEPT ![p] = [@ EXCEPT !.pc = "flipped", !.already = FALSE]]
    /\ UNCHANGED <<invites, tickets, creds, issuing, req, registered>>

\* Step 2: list the member's credentials, then delete each.
ListCredentials(p) ==
    /\ removal[p].pc = "flipped"
    /\ removal' = [removal EXCEPT ![p] = [@ EXCEPT !.pc = "sweeping",
                                                   !.todo = CredsOf(removal[p].member)]]
    /\ UNCHANGED <<members, invites, tickets, creds, issuing, req, registered>>

DeleteCredential(p) ==
    /\ removal[p].pc = "sweeping"
    /\ \E h \in removal[p].todo \cap Hashes :
          /\ creds' = [creds EXCEPT ![h] = None]
          /\ removal' = [removal EXCEPT ![p] = [@ EXCEPT !.todo = removal[p].todo \ {h}]]
    /\ UNCHANGED <<members, invites, tickets, issuing, req, registered>>

\* Step 3: the same for the member's unredeemed join codes.
ListTickets(p) ==
    /\ removal[p].pc = "sweeping"
    /\ removal[p].todo = {}
    /\ removal' = [removal EXCEPT ![p] = [@ EXCEPT !.pc = "cancelling",
                                                   !.todo = OpenTicketsOf(removal[p].member)]]
    /\ UNCHANGED <<members, invites, tickets, creds, issuing, req, registered>>

DeleteTicket(p) ==
    /\ removal[p].pc = "cancelling"
    /\ \E t \in removal[p].todo \cap Tickets :
          /\ tickets' = [tickets EXCEPT ![t] = [@ EXCEPT !.state = "gone"]]
          /\ removal' = [removal EXCEPT ![p] = [@ EXCEPT !.todo = removal[p].todo \ {t}]]
    /\ UNCHANGED <<members, invites, creds, issuing, req, registered>>

RemovalReturns(p) ==
    /\ removal[p].pc = "cancelling"
    /\ removal[p].todo = {}
    /\ removal' = [removal EXCEPT ![p] = [@ EXCEPT !.pc = "done"]]
    /\ UNCHANGED <<members, invites, tickets, creds, issuing, req, registered>>

\* A removal of someone else is not disturbed by restoring m.
Undisturbed(p, m) == IF removal[p].member = m THEN FALSE ELSE removal[p].undisturbed

\* Restoring makes the member active; the route also mints a join code, the
\* command line leaves that to a later invite.
Restore(m, t) ==
    /\ members[m] = "removed"
    /\ FreshTicket(t)
    /\ members' = [members EXCEPT ![m] = "active"]
    /\ \/ issuing' = issuing \cup {[ticket |-> t, member |-> m, device |-> None]}
       \/ UNCHANGED issuing
    /\ removal' = [p \in Removers |-> [removal[p] EXCEPT !.undisturbed = Undisturbed(p, m)]]
    /\ UNCHANGED <<invites, tickets, creds, req, registered>>

\* The process stops: what was in flight is lost, what was written stays.
Restart ==
    /\ \/ issuing # {}
       \/ \E r \in Requests : req[r].pc \in {"received", "read"}
       \/ \E p \in Removers : removal[p].pc \notin {"idle", "done"}
    /\ issuing' = {}
    /\ req' = [r \in Requests |-> IF req[r].pc \in {"received", "read"}
                                  THEN [req[r] EXCEPT !.pc = "answered", !.snap = NoTicket]
                                  ELSE req[r]]
    /\ removal' = [p \in Removers |-> IF removal[p].pc = "done" THEN removal[p]
                                      ELSE NoRemoval]
    /\ UNCHANGED <<members, invites, tickets, creds, registered>>

-----------------------------------------------------------------------------
\* Every step of the server but the arrival of a request.
ServerNext ==
    \/ \E t \in Tickets, m \in Members, d \in Hashes \cup {None} : InviteMember(t, m, d)
    \/ \E i \in issuing : Issue(i)
    \/ \E t \in Tickets : \/ CancelTicket(t)
                          \/ TicketExpires(t)
                          \/ TombstoneGoes(t)
    \/ \E r \in Requests : ReadTicket(r) \/ Redeem(r)
    \/ \E h \in Hashes : Revoke(h)
    \/ \E t \in Tickets, m \in Members : InviteMemberAsNew(t, m)
    \/ \E t \in Tickets : Accept(t) \/ InviteGoes(t)
    \/ \E p \in Removers, m \in Members : LoadMember(p, m)
    \/ \E p \in Removers : \/ FlipStatus(p)
                           \/ ListCredentials(p)
                           \/ DeleteCredential(p)
                           \/ ListTickets(p)
                           \/ DeleteTicket(p)
                           \/ RemovalReturns(p)
    \/ \E m \in Members, t \in Tickets : Restore(m, t)
    \/ Restart

Arrive == \E r \in Requests, t \in Tickets, h \in Hashes :
             /\ Submit(r, t, h)
             /\ UNCHANGED <<members, invites, tickets, creds, issuing, removal, registered>>

Next == ServerNext \/ Arrive

Spec == Init /\ [][Next]_vars

-----------------------------------------------------------------------------
(* Properties *)

\* A join code is single-use: whatever retries, restarts, cancellations and
\* concurrent devices there are, the script registers one secret for it.
OneCredentialPerTicket ==
    \A a, b \in registered : a[1] = b[1] => a = b

\* Regenerating a device never moves it to another member: all live
\* credentials of one device name the same member, also when codes for it
\* were issued before some were revoked.
DeviceKeepsMember ==
    \A h, k \in Hashes :
        (creds[h] # None /\ creds[k] # None /\ creds[h].device = creds[k].device)
            => creds[h].member = creds[k].member

\* When a removal returns and nobody restored the member meanwhile, no
\* credential of the member is left and none appears: registration and the
\* status flip meet in the script, and the sweep comes after the flip.
RemovalRevokes ==
    \A p \in Removers :
        (removal[p].pc = "done" /\ removal[p].undisturbed)
            => CredsOf(removal[p].member) = {}
=============================================================================

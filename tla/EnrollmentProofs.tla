--------------------------- MODULE EnrollmentProofs ---------------------------
(***************************************************************************)
(* For every number of tickets, secrets, members, requests and removals:   *)
(* a join code registers one secret, a removal that nobody undoes leaves   *)
(* its member without a credential, and a device keeps its member.  They   *)
(* hold of the server alone (Spec) and of the server with the joining      *)
(* devices (JoinSpec), whose steps are steps of the server or leave it     *)
(* alone.                                                                  *)
(***************************************************************************)
EXTENDS JoinClient, TLAPS

\* What codes and invites are before they are spent.
TicketInv ==
  /\ \A i \in issuing : /\ tickets[i.ticket].state = "none"
                        /\ invites[i.ticket].state = "none"
  /\ \A i, j \in issuing : i.ticket = j.ticket => i = j
  /\ \A t \in Tickets : invites[t].state = "open" => tickets[t].state = "none"
  /\ \A t \in Tickets : tickets[t].state = "open" => tickets[t].member \in Members
  /\ \A p \in Removers : removal[p].pc = "cancelling"
       => \A t \in removal[p].todo \cap Tickets : tickets[t].state # "none"
  /\ \A x \in registered : /\ tickets[x[1]].state \in {"used", "gone"}
                           /\ tickets[x[1]].hash = x[2]

\* Whom invites are for, and how far removals have come.
MemberInv ==
  /\ \A t \in Tickets : invites[t].state = "open" =>
       /\ invites[t].member \in Members
       /\ members[invites[t].member] = "absent"
  /\ \A t, u \in Tickets : (invites[t].member = invites[u].member /\ t # u)
       => invites[t].member = None
  /\ \A p \in Removers : removal[p].pc # "idle" =>
       /\ removal[p].member \in Members
       /\ members[removal[p].member] # "absent"

SweepInv ==
  \A p \in Removers : removal[p].undisturbed =>
    LET m == removal[p].member IN
    /\ removal[p].pc = "loaded" /\ removal[p].already => members[m] = "removed"
    /\ removal[p].pc \notin {"idle", "loaded"} => members[m] = "removed"
    /\ removal[p].pc = "sweeping" => CredsOf(m) \subseteq removal[p].todo
    /\ removal[p].pc \in {"cancelling", "done"} => CredsOf(m) = {}

ReqInv ==
  \A r \in Requests : req[r].pc # "idle" => req[r].ticket \in Tickets /\ req[r].hash \in Hashes

IInv == TypeOK /\ TicketInv /\ MemberInv /\ SweepInv /\ ReqInv

-------------------------------------------------------------------------------
(* Records *)

Pcs  == {"idle", "received", "read", "answered"}
RPcs == {"idle", "loaded", "flipped", "sweeping", "cancelling", "done"}

LEMMA EmptyRecords ==
  /\ NoInvite \in InviteRecord /\ NoTicket \in TicketRecord
  /\ NoRequest \in RequestRecord /\ NoRemoval \in RemovalRecord
  /\ NoInvite.state = "none" /\ NoInvite.member = None /\ NoTicket.state = "none"
  /\ NoRemoval.pc = "idle" /\ ~NoRemoval.undisturbed
BY DEF NoInvite, NoTicket, NoRequest, NoRemoval, InviteRecord, TicketRecord,
       RequestRecord, RemovalRecord

LEMMA TicketUpdates ==
  ASSUME NEW x \in TicketRecord, NEW h \in Hashes
  PROVE  /\ [x EXCEPT !.state = "used", !.hash = h] \in TicketRecord
         /\ [x EXCEPT !.state = "used", !.hash = h].state = "used"
         /\ [x EXCEPT !.state = "used", !.hash = h].hash = h
BY DEF TicketRecord

LEMMA TicketEnds ==
  ASSUME NEW x \in TicketRecord
  PROVE  /\ [x EXCEPT !.state = "gone"] \in TicketRecord
         /\ [x EXCEPT !.state = "gone"].state = "gone"
         /\ [x EXCEPT !.state = "gone"].hash = x.hash
         /\ [x EXCEPT !.late = TRUE] \in TicketRecord
         /\ [x EXCEPT !.late = TRUE].state = x.state
         /\ [x EXCEPT !.late = TRUE].hash = x.hash
         /\ [x EXCEPT !.late = TRUE].member = x.member
BY DEF TicketRecord

LEMMA NewTicketIs ==
  ASSUME NEW m \in Members, NEW d \in Hashes \cup {None}
  PROVE  /\ NewTicket(m, d) \in TicketRecord
         /\ NewTicket(m, d).state = "open"
         /\ NewTicket(m, d).member = m
BY DEF TicketRecord, NewTicket, NoTicket

LEMMA InviteUpdates ==
  ASSUME NEW x \in InviteRecord, NEW s \in {"none", "open", "used", "gone"}
  PROVE  /\ [x EXCEPT !.state = s] \in InviteRecord
         /\ [x EXCEPT !.state = s].state = s
         /\ [x EXCEPT !.state = s].member = x.member
BY DEF InviteRecord

LEMMA RequestUpdates ==
  ASSUME NEW x \in RequestRecord, NEW c \in Pcs, NEW o \in Outcomes,
         NEW k \in TicketRecord, NEW t \in Tickets, NEW h \in Hashes
  PROVE  /\ [x EXCEPT !.pc = c, !.snap = k] \in RequestRecord
         /\ [x EXCEPT !.pc = c, !.out = o, !.snap = k] \in RequestRecord
         /\ [NoRequest EXCEPT !.pc = c, !.ticket = t, !.hash = h] \in RequestRecord
BY EmptyRecords DEF RequestRecord, Pcs, NoRequest

LEMMA RemovalUpdates ==
  ASSUME NEW x \in RemovalRecord, NEW c \in RPcs, NEW s \in SUBSET (Hashes \cup Tickets),
         NEW b \in BOOLEAN, NEW m \in Members
  PROVE  LET a1 == [x EXCEPT !.pc = c, !.already = b]
             a2 == [x EXCEPT !.pc = c, !.todo = s]
             a3 == [x EXCEPT !.todo = s]
             a4 == [x EXCEPT !.pc = c]
             a5 == [x EXCEPT !.undisturbed = b]
             a6 == [NoRemoval EXCEPT !.pc = c, !.member = m, !.already = b,
                                     !.undisturbed = TRUE]
         IN /\ {a1, a2, a3, a4, a5, a6} \subseteq RemovalRecord
            /\ a1.pc = c /\ a2.pc = c /\ a4.pc = c /\ a3.pc = x.pc /\ a5.pc = x.pc
            /\ a1.member = x.member /\ a2.member = x.member /\ a3.member = x.member
            /\ a4.member = x.member /\ a5.member = x.member
            /\ a1.undisturbed = x.undisturbed /\ a2.undisturbed = x.undisturbed
            /\ a3.undisturbed = x.undisturbed /\ a4.undisturbed = x.undisturbed
            /\ a5.undisturbed = b /\ a5.already = x.already /\ a5.todo = x.todo
            /\ a2.todo = s /\ a3.todo = s /\ a4.todo = x.todo
            /\ a3.already = x.already
            /\ a6.pc = c /\ a6.member = m /\ a6.already = b /\ a6.todo = {}
BY DEF RemovalRecord, RPcs, NoRemoval

-------------------------------------------------------------------------------
(* Types *)

LEMMA StepType ==
  ASSUME IInv, Next
  PROVE  TypeOK'
<1> USE DEF IInv, TypeOK
<1>1. ASSUME NEW t \in Tickets, NEW m \in Members, NEW d \in Hashes \cup {None},
             InviteMember(t, m, d)
      PROVE  TypeOK'
  BY <1>1 DEF InviteMember, IssueRecord
<1>2. ASSUME NEW i \in issuing, Issue(i)
      PROVE  TypeOK'
  <2>1. i.ticket \in Tickets /\ NewTicket(i.member, i.device) \in TicketRecord
    BY NewTicketIs DEF IssueRecord
  <2> QED
    BY <1>2, <2>1 DEF Issue
<1>3. ASSUME NEW t \in Tickets, CancelTicket(t) \/ TicketExpires(t) \/ TombstoneGoes(t)
      PROVE  TypeOK'
  <2>1. /\ [tickets[t] EXCEPT !.state = "gone"] \in TicketRecord
        /\ [tickets[t] EXCEPT !.late = TRUE] \in TicketRecord
    BY TicketEnds
  <2> QED
    BY <1>3, <2>1 DEF CancelTicket, TicketExpires, TombstoneGoes
<1>4. ASSUME NEW r \in Requests, ReadTicket(r)
      PROVE  TypeOK'
  <2>1. req[r] \in RequestRecord /\ req[r].ticket \in Tickets
    BY <1>4 DEF ReadTicket, ReqInv
  <2> DEFINE k == IF Present(req[r].ticket) THEN tickets[req[r].ticket] ELSE NoTicket
  <2>2. k \in TicketRecord
    BY <2>1, EmptyRecords
  <2>3. [req[r] EXCEPT !.pc = "read", !.snap = k] \in RequestRecord
    BY <2>1, <2>2 DEF RequestRecord
  <2> HIDE DEF k
  <2> QED
    BY <1>4, <2>3 DEF ReadTicket, k
<1>5. ASSUME NEW r \in Requests, Redeem(r)
      PROVE  TypeOK'
  <2> DEFINE t   == req[r].ticket
             h   == req[r].hash
             snap == req[r].snap
             out == Outcome(t, h, snap)
             dev == IF snap.device = None THEN h ELSE snap.device
             c   == [member |-> snap.member, device |-> dev, via |-> t]
  <2>1. req[r] \in RequestRecord /\ t \in Tickets /\ h \in Hashes /\ snap \in TicketRecord
    BY <1>5 DEF Redeem, ReqInv, RequestRecord
  <2>2. tickets[t] \in TicketRecord
    BY <2>1
  <2>3. out \in Outcomes
    BY DEF Outcome, Outcomes
  <2>4. [req[r] EXCEPT !.pc = "answered", !.out = out, !.snap = NoTicket] \in RequestRecord
    <3> HIDE DEF out, t, h, snap
    <3> QED  BY <2>1, <2>3, EmptyRecords DEF RequestRecord
  <2>5. req' \in [Requests -> RequestRecord]
    <3> HIDE DEF out
    <3>1. req' = [req EXCEPT ![r] = [req[r] EXCEPT !.pc = "answered", !.out = out,
                                                   !.snap = NoTicket]]
      BY <1>5 DEF Redeem, out
    <3> QED  BY <2>4, <3>1
  <2>6. CASE out = "ok"
    <3>1. Present(t) /\ tickets[t].state # "used" /\ snap.member = tickets[t].member
      BY <2>6 DEF Outcome
    <3>2. snap.member \in Members /\ snap.device \in Hashes \cup {None}
      BY <2>1, <3>1 DEF TicketInv, Present, TicketRecord
    <3>3. c \in CredRecord /\ [tickets[t] EXCEPT !.state = "used", !.hash = h] \in TicketRecord
      BY <2>1, <2>2, <3>2, TicketUpdates DEF CredRecord
    <3>4. /\ creds' = [creds EXCEPT ![h] = c]
          /\ tickets' = [tickets EXCEPT ![t] = [tickets[t] EXCEPT !.state = "used", !.hash = h]]
          /\ registered' = registered \cup {<<t, h>>}
          /\ UNCHANGED <<members, invites, issuing, removal>>
      BY <1>5, <2>6 DEF Redeem
    <3> HIDE DEF c, out, t, h, snap
    <3> QED  BY <2>1, <2>5, <3>3, <3>4
  <2>7. CASE out # "ok"
    <3>1. UNCHANGED <<creds, tickets, registered, members, invites, issuing, removal>>
      BY <1>5, <2>7 DEF Redeem
    <3> QED  BY <2>5, <3>1
  <2> QED
    BY <2>6, <2>7
<1>6. ASSUME NEW h \in Hashes, Revoke(h)
      PROVE  TypeOK'
  BY <1>6 DEF Revoke
<1>7. ASSUME NEW t \in Tickets, NEW m \in Members, InviteMemberAsNew(t, m)
      PROVE  TypeOK'
  <2>1. [state |-> "open", member |-> m] \in InviteRecord
    BY DEF InviteRecord
  <2> QED
    BY <1>7, <2>1 DEF InviteMemberAsNew
<1>8. ASSUME NEW t \in Tickets, Accept(t)
      PROVE  TypeOK'
  <2>1. invites[t] \in InviteRecord /\ invites[t].member \in Members
    BY <1>8 DEF Accept, MemberInv
  <2>2. /\ NewTicket(invites[t].member, None) \in TicketRecord
        /\ [invites[t] EXCEPT !.state = "used"] \in InviteRecord
    BY <2>1, NewTicketIs, InviteUpdates
  <2> QED
    BY <1>8, <2>1, <2>2 DEF Accept
<1>9. ASSUME NEW t \in Tickets, InviteGoes(t)
      PROVE  TypeOK'
  <2>1. [invites[t] EXCEPT !.state = "gone"] \in InviteRecord
    BY InviteUpdates
  <2> QED
    BY <1>9, <2>1 DEF InviteGoes
<1>10. ASSUME NEW p \in Removers, NEW m \in Members, LoadMember(p, m)
       PROVE  TypeOK'
  <2>1. [NoRemoval EXCEPT !.pc = "loaded", !.member = m, !.already = (members[m] = "removed"),
                          !.undisturbed = TRUE] \in RemovalRecord
    BY DEF NoRemoval, RemovalRecord
  <2> QED
    BY <1>10, <2>1 DEF LoadMember
<1>11. ASSUME NEW p \in Removers, FlipStatus(p)
       PROVE  TypeOK'
  <2>1. removal[p].member \in Members
    BY <1>11 DEF FlipStatus, MemberInv
  <2>2. [removal[p] EXCEPT !.pc = "flipped", !.already = FALSE] \in RemovalRecord
    BY DEF RemovalRecord
  <2> QED
    BY <1>11, <2>1, <2>2 DEF FlipStatus
<1>12. ASSUME NEW p \in Removers, ListCredentials(p) \/ ListTickets(p)
       PROVE  TypeOK'
  <2>1. /\ [removal[p] EXCEPT !.pc = "sweeping", !.todo = CredsOf(removal[p].member)]
              \in RemovalRecord
        /\ [removal[p] EXCEPT !.pc = "cancelling", !.todo = OpenTicketsOf(removal[p].member)]
              \in RemovalRecord
    <3>1. CredsOf(removal[p].member) \subseteq Hashes /\ OpenTicketsOf(removal[p].member) \subseteq Tickets
      BY DEF CredsOf, OpenTicketsOf
    <3> QED  BY <3>1 DEF RemovalRecord
  <2> QED
    BY <1>12, <2>1 DEF ListCredentials, ListTickets
<1>13. ASSUME NEW p \in Removers, DeleteCredential(p) \/ DeleteTicket(p)
       PROVE  TypeOK'
  <2>1. ASSUME NEW S \in SUBSET (Hashes \cup Tickets)
        PROVE  [removal[p] EXCEPT !.todo = S] \in RemovalRecord
    BY DEF RemovalRecord
  <2>2. removal[p].todo \in SUBSET (Hashes \cup Tickets)
    BY DEF RemovalRecord
  <2> DEFINE without(x) == [removal[p] EXCEPT !.todo = removal[p].todo \ {x}]
  <2>5. ASSUME NEW x  PROVE without(x) \in RemovalRecord
    BY <2>1, <2>2
  <2>3. CASE DeleteCredential(p)
    <3>1. PICK h \in Hashes :
            /\ creds' = [creds EXCEPT ![h] = None]
            /\ removal' = [removal EXCEPT ![p] = without(h)]
      BY <2>3 DEF DeleteCredential
    <3> HIDE DEF without
    <3>2. removal' \in [Removers -> RemovalRecord]
      BY <2>5, <3>1
    <3> QED  BY <2>3, <3>1, <3>2 DEF DeleteCredential
  <2>4. CASE DeleteTicket(p)
    <3>1. PICK t \in Tickets :
            /\ tickets' = [tickets EXCEPT ![t] = [tickets[t] EXCEPT !.state = "gone"]]
            /\ removal' = [removal EXCEPT ![p] = without(t)]
      BY <2>4 DEF DeleteTicket
    <3> HIDE DEF without
    <3>2. removal' \in [Removers -> RemovalRecord]
      BY <2>5, <3>1
    <3>3. [tickets[t] EXCEPT !.state = "gone"] \in TicketRecord
      BY TicketEnds
    <3> QED  BY <2>4, <3>1, <3>2, <3>3 DEF DeleteTicket
  <2> QED
    BY <1>13, <2>3, <2>4
<1>14. ASSUME NEW p \in Removers, RemovalReturns(p)
       PROVE  TypeOK'
  <2>1. [removal[p] EXCEPT !.pc = "done"] \in RemovalRecord
    BY DEF RemovalRecord
  <2> QED
    BY <1>14, <2>1 DEF RemovalReturns
<1>15. ASSUME NEW m \in Members, NEW t \in Tickets, Restore(m, t)
       PROVE  TypeOK'
  <2>1. ASSUME NEW p \in Removers, NEW b \in BOOLEAN
        PROVE  [removal[p] EXCEPT !.undisturbed = b] \in RemovalRecord
    BY DEF RemovalRecord
  <2>2. ASSUME NEW p \in Removers
        PROVE  Undisturbed(p, m) \in BOOLEAN
    BY DEF Undisturbed, RemovalRecord
  <2>3. removal' \in [Removers -> RemovalRecord]
    BY <1>15, <2>1, <2>2 DEF Restore
  <2> QED
    BY <1>15, <2>3 DEF Restore, IssueRecord
<1>16. ASSUME Restart
       PROVE  TypeOK'
  <2>1. ASSUME NEW r \in Requests
        PROVE  [req[r] EXCEPT !.pc = "answered", !.snap = NoTicket] \in RequestRecord
    BY EmptyRecords DEF RequestRecord
  <2>2. NoRemoval \in RemovalRecord
    BY EmptyRecords
  <2> QED
    BY <1>16, <2>1, <2>2 DEF Restart
<1>17. ASSUME Arrive
       PROVE  TypeOK'
  <2>1. ASSUME NEW t \in Tickets, NEW h \in Hashes
        PROVE  [NoRequest EXCEPT !.pc = "received", !.ticket = t, !.hash = h] \in RequestRecord
    BY EmptyRecords DEF RequestRecord
  <2> QED
    BY <1>17, <2>1 DEF Arrive, Submit
<1> QED
  BY <1>1, <1>2, <1>3, <1>4, <1>5, <1>6, <1>7, <1>8, <1>9, <1>10, <1>11, <1>12, <1>13,
     <1>14, <1>15, <1>16, <1>17 DEF Next, ServerNext

-------------------------------------------------------------------------------
(* Codes and invites *)

\* Removals keep what they know of tickets when no ticket changes and no list
\* of tickets grows.
Lists == \A p \in Removers : removal'[p].pc = "cancelling" =>
           /\ removal[p].pc = "cancelling"
           /\ removal'[p].todo \subseteq removal[p].todo

LEMMA ListsKept ==
  ASSUME TypeOK, NEW p \in Removers, NEW c \in RPcs \ {"cancelling"},
         NEW a \in RemovalRecord, a.pc = c, removal' = [removal EXCEPT ![p] = a]
  PROVE  Lists
BY DEF Lists, TypeOK

LEMMA TicketsKept ==
  ASSUME TypeOK, TicketInv, Lists, UNCHANGED <<invites, tickets, issuing, registered>>
  PROVE  TicketInv'
BY DEF TicketInv, Lists

LEMMA SomeTicketEnds ==
  ASSUME TypeOK, TicketInv, Lists, NEW t \in Tickets, NEW x \in TicketRecord,
         tickets[t].state # "none", x.hash = tickets[t].hash,
         x.state # "gone" => (x.state = tickets[t].state /\ x.member = tickets[t].member),
         tickets' = [tickets EXCEPT ![t] = x],
         UNCHANGED <<invites, issuing, registered>>
  PROVE  TicketInv'
BY DEF TicketInv, Lists, TypeOK, IssueRecord

LEMMA StepTicket ==
  ASSUME IInv, Next
  PROVE  TicketInv'
<1> USE DEF IInv
<1>0. (UNCHANGED removal) => Lists
  BY DEF Lists
<1>1. ASSUME NEW t \in Tickets, NEW m \in Members, NEW d \in Hashes \cup {None},
             InviteMember(t, m, d)
      PROVE  TicketInv'
  BY <1>1 DEF InviteMember, FreshTicket, TicketInv
<1>2. ASSUME NEW i \in issuing, Issue(i)
      PROVE  TicketInv'
  <2>1. i.ticket \in Tickets /\ i.member \in Members /\ i.device \in Hashes \cup {None}
    BY DEF IssueRecord, TypeOK
  <2> DEFINE x == NewTicket(i.member, i.device)
  <2>2. x.state = "open" /\ x.member \in Members
    BY <2>1, NewTicketIs
  <2>3. /\ issuing' = issuing \ {i} /\ tickets' = [tickets EXCEPT ![i.ticket] = x]
        /\ UNCHANGED <<invites, removal, registered>>
    BY <1>2 DEF Issue
  <2>4. \A j \in issuing : j.ticket \in Tickets
    BY DEF IssueRecord, TypeOK
  <2> HIDE DEF x
  <2> QED
    BY <2>1, <2>2, <2>3, <2>4 DEF TicketInv, TypeOK
<1>3. ASSUME NEW t \in Tickets, CancelTicket(t) \/ TicketExpires(t) \/ TombstoneGoes(t)
      PROVE  TicketInv'
  <2> DEFINE x == [tickets[t] EXCEPT !.state = "gone"]
             y == [tickets[t] EXCEPT !.late = TRUE]
  <2>1. /\ x \in TicketRecord /\ x.state = "gone" /\ x.hash = tickets[t].hash
        /\ y \in TicketRecord /\ y.state = tickets[t].state /\ y.hash = tickets[t].hash
        /\ y.member = tickets[t].member
    BY TicketEnds DEF TypeOK
  <2>2. /\ tickets' = [tickets EXCEPT ![t] = x] \/ tickets' = [tickets EXCEPT ![t] = y]
        /\ tickets[t].state # "none"
        /\ UNCHANGED <<invites, issuing, registered, removal>>
    BY <1>3 DEF CancelTicket, TicketExpires, TombstoneGoes
  <2> HIDE DEF x, y
  <2> QED
    <3>1. CASE tickets' = [tickets EXCEPT ![t] = x]
      BY <1>0, <2>1, <2>2, <3>1, SomeTicketEnds, Zenon
    <3>2. CASE tickets' = [tickets EXCEPT ![t] = y]
      BY <1>0, <2>1, <2>2, <3>2, SomeTicketEnds, Zenon
    <3> QED  BY <2>2, <3>1, <3>2
<1>4. ASSUME NEW r \in Requests, ReadTicket(r)
      PROVE  TicketInv'
  BY <1>0, <1>4, TicketsKept DEF ReadTicket
<1>5. ASSUME NEW r \in Requests, Redeem(r)
      PROVE  TicketInv'
  <2> DEFINE t   == req[r].ticket
             h   == req[r].hash
             out == Outcome(t, h, req[r].snap)
             x   == [tickets[t] EXCEPT !.state = "used", !.hash = h]
  <2>1. t \in Tickets /\ h \in Hashes /\ tickets[t] \in TicketRecord
    BY <1>5 DEF Redeem, ReqInv, TypeOK
  <2>2. UNCHANGED <<invites, issuing, removal>>
    BY <1>5 DEF Redeem
  <2>3. CASE out = "ok"
    <3>1. tickets[t].state = "open"
      BY <2>3, <2>1 DEF Outcome, Present, TicketRecord
    <3>2. x.state = "used" /\ x.hash = h
      BY <2>1, TicketUpdates
    <3>3. tickets' = [tickets EXCEPT ![t] = x] /\ registered' = registered \cup {<<t, h>>}
      BY <1>5, <2>3 DEF Redeem
    <3>4. \A i \in issuing : i.ticket \in Tickets /\ i.ticket # t
      BY <3>1 DEF TicketInv, IssueRecord, TypeOK
    <3>5. \A y \in registered : y[1] \in Tickets /\ y[1] # t
      BY <3>1 DEF TicketInv, TypeOK
    <3> HIDE DEF x, t, h, out
    <3> QED  BY <2>1, <2>2, <3>1, <3>2, <3>3, <3>4, <3>5 DEF TicketInv, TypeOK
  <2>4. CASE out # "ok"
    BY <1>0, <1>5, <2>4, TicketsKept DEF Redeem
  <2> QED
    BY <2>3, <2>4
<1>6. ASSUME NEW h \in Hashes, Revoke(h)
      PROVE  TicketInv'
  BY <1>0, <1>6, TicketsKept DEF Revoke
<1>7. ASSUME NEW t \in Tickets, NEW m \in Members, InviteMemberAsNew(t, m)
      PROVE  TicketInv'
  <2> DEFINE v == [state |-> "open", member |-> m]
  <2>1. \A i \in issuing : i.ticket \in Tickets
    BY DEF IssueRecord, TypeOK
  <2>2. v.state = "open"
    OBVIOUS
  <2>3. /\ invites' = [invites EXCEPT ![t] = v] /\ FreshTicket(t)
        /\ UNCHANGED <<tickets, issuing, registered, removal>>
    BY <1>7 DEF InviteMemberAsNew
  <2> HIDE DEF v
  <2> QED
    BY <2>1, <2>2, <2>3 DEF FreshTicket, TicketInv, TypeOK
<1>8. ASSUME NEW t \in Tickets, Accept(t)
      PROVE  TicketInv'
  <2> DEFINE x == NewTicket(invites[t].member, None)
             v == [invites[t] EXCEPT !.state = "used"]
  <2>1. x.state = "open" /\ x.member \in Members /\ v.state = "used"
    BY <1>8, NewTicketIs, InviteUpdates DEF Accept, MemberInv, TypeOK
  <2>2. tickets[t].state = "none" /\ invites[t].state = "open"
    BY <1>8 DEF Accept, TicketInv
  <2>3. \A i \in issuing : i.ticket \in Tickets /\ i.ticket # t
    BY <2>2 DEF TicketInv, IssueRecord, TypeOK
  <2>4. \A y \in registered : y[1] \in Tickets /\ y[1] # t
    BY <2>2 DEF TicketInv, TypeOK
  <2>5. /\ tickets' = [tickets EXCEPT ![t] = x] /\ invites' = [invites EXCEPT ![t] = v]
        /\ UNCHANGED <<issuing, registered, removal>>
    BY <1>8 DEF Accept
  <2> HIDE DEF x, v
  <2> QED
    BY <2>1, <2>2, <2>3, <2>4, <2>5 DEF TicketInv, TypeOK
<1>9. ASSUME NEW t \in Tickets, InviteGoes(t)
      PROVE  TicketInv'
  <2> DEFINE v == [invites[t] EXCEPT !.state = "gone"]
  <2>1. v.state = "gone"
    BY InviteUpdates DEF TypeOK
  <2>2. \A i \in issuing : i.ticket \in Tickets /\ i.ticket # t
    BY <1>9 DEF InviteGoes, TicketInv, IssueRecord, TypeOK
  <2>3. /\ invites' = [invites EXCEPT ![t] = v]
        /\ UNCHANGED <<tickets, issuing, registered, removal>>
    BY <1>9 DEF InviteGoes
  <2> HIDE DEF v
  <2> QED
    BY <2>1, <2>2, <2>3 DEF TicketInv, TypeOK
<1>10. ASSUME NEW p \in Removers, NEW m \in Members, LoadMember(p, m)
       PROVE  TicketInv'
  <2> DEFINE a == [NoRemoval EXCEPT !.pc = "loaded", !.member = m,
                     !.already = (members[m] = "removed"), !.undisturbed = TRUE]
  <2>1. a \in RemovalRecord /\ a.pc = "loaded"
    BY DEF NoRemoval, RemovalRecord
  <2> QED
    BY <1>10, <2>1, ListsKept, TicketsKept DEF LoadMember, RPcs
<1>11. ASSUME NEW p \in Removers,
              FlipStatus(p) \/ ListCredentials(p) \/ RemovalReturns(p)
       PROVE  TicketInv'
  <2> DEFINE a == [removal[p] EXCEPT !.pc = "flipped", !.already = FALSE]
             b == [removal[p] EXCEPT !.pc = "sweeping", !.todo = CredsOf(removal[p].member)]
             c == [removal[p] EXCEPT !.pc = "done"]
  <2>1. /\ a \in RemovalRecord /\ a.pc = "flipped" /\ b \in RemovalRecord /\ b.pc = "sweeping"
        /\ c \in RemovalRecord /\ c.pc = "done"
    <3>1. CredsOf(removal[p].member) \subseteq Hashes
      BY DEF CredsOf
    <3> QED  BY <3>1 DEF RemovalRecord, TypeOK
  <2>2. /\ \/ removal' = [removal EXCEPT ![p] = a]
           \/ removal' = [removal EXCEPT ![p] = b]
           \/ removal' = [removal EXCEPT ![p] = c]
        /\ UNCHANGED <<invites, tickets, issuing, registered>>
    BY <1>11 DEF FlipStatus, ListCredentials, RemovalReturns
  <2> HIDE DEF a, b, c
  <2>3. Lists
    BY <2>1, <2>2 DEF Lists, TypeOK
  <2> QED
    BY <2>2, <2>3, TicketsKept
<1>12. ASSUME NEW p \in Removers, DeleteCredential(p)
       PROVE  TicketInv'
  <2>1. PICK h \in Hashes : removal' = [removal EXCEPT ![p] =
                              [removal[p] EXCEPT !.todo = removal[p].todo \ {h}]]
    BY <1>12 DEF DeleteCredential
  <2>2. [removal[p] EXCEPT !.todo = removal[p].todo \ {h}].pc = "sweeping"
    BY <1>12 DEF DeleteCredential, RemovalRecord, TypeOK
  <2>3. Lists
    BY <2>1, <2>2 DEF Lists, TypeOK
  <2> QED
    BY <1>12, <2>3, TicketsKept DEF DeleteCredential
<1>13. ASSUME NEW p \in Removers, ListTickets(p)
       PROVE  TicketInv'
  <2> DEFINE a == [removal[p] EXCEPT !.pc = "cancelling",
                                     !.todo = OpenTicketsOf(removal[p].member)]
  <2>1. a.todo = OpenTicketsOf(removal[p].member)
    BY DEF RemovalRecord, TypeOK
  <2>2. /\ removal' = [removal EXCEPT ![p] = a]
        /\ UNCHANGED <<invites, tickets, issuing, registered>>
    BY <1>13 DEF ListTickets
  <2> HIDE DEF a
  <2> QED
    BY <2>1, <2>2 DEF TicketInv, TypeOK, OpenTicketsOf
<1>14. ASSUME NEW p \in Removers, DeleteTicket(p)
       PROVE  TicketInv'
  <2>1. PICK t \in removal[p].todo \cap Tickets :
          /\ tickets' = [tickets EXCEPT ![t] = [tickets[t] EXCEPT !.state = "gone"]]
          /\ removal' = [removal EXCEPT ![p] =
                           [removal[p] EXCEPT !.todo = removal[p].todo \ {t}]]
    BY <1>14 DEF DeleteTicket
  <2> DEFINE x == [tickets[t] EXCEPT !.state = "gone"]
             a == [removal[p] EXCEPT !.todo = removal[p].todo \ {t}]
  <2>2. x \in TicketRecord /\ x.state = "gone" /\ x.hash = tickets[t].hash
    BY TicketEnds DEF TypeOK
  <2>3. a.todo = removal[p].todo \ {t} /\ removal[p].pc = "cancelling"
    BY <1>14 DEF RemovalRecord, TypeOK, DeleteTicket
  <2>4. tickets[t].state # "none"
    BY <2>3 DEF TicketInv
  <2>5. tickets' = [tickets EXCEPT ![t] = x] /\ removal' = [removal EXCEPT ![p] = a]
        /\ UNCHANGED <<invites, issuing, registered>>
    BY <1>14, <2>1 DEF DeleteTicket
  <2> HIDE DEF x, a
  <2>6. Lists
    BY <2>3, <2>5 DEF Lists, TypeOK
  <2> QED
    BY <2>2, <2>4, <2>5, <2>6, SomeTicketEnds, Zenon
<1>15. ASSUME NEW m \in Members, NEW t \in Tickets, Restore(m, t)
       PROVE  TicketInv'
  <2>1. ASSUME NEW p \in Removers
        PROVE  /\ removal'[p].pc = removal[p].pc /\ removal'[p].todo = removal[p].todo
    <3>1. removal'[p] = [removal[p] EXCEPT !.undisturbed = Undisturbed(p, m)]
      BY <1>15 DEF Restore
    <3> QED  BY <3>1 DEF RemovalRecord, TypeOK
  <2> QED
    BY <1>15, <2>1 DEF Restore, FreshTicket, TicketInv
<1>16. ASSUME Restart
       PROVE  TicketInv'
  <2>1. Lists
    BY <1>16, EmptyRecords DEF Restart, Lists
  <2> QED
    BY <1>16, <2>1 DEF Restart, TicketInv, Lists
<1>17. ASSUME Arrive
       PROVE  TicketInv'
  BY <1>0, <1>17, TicketsKept DEF Arrive
<1> QED
  BY <1>1, <1>2, <1>3, <1>4, <1>5, <1>6, <1>7, <1>8, <1>9, <1>10, <1>11, <1>12, <1>13,
     <1>14, <1>15, <1>16, <1>17 DEF Next, ServerNext

-------------------------------------------------------------------------------
(* Requests, members and removals *)

LEMMA StepReq ==
  ASSUME IInv, Next
  PROVE  ReqInv'
<1> USE DEF IInv, ReqInv
<1>1. CASE UNCHANGED req
  BY <1>1
<1>2. ASSUME NEW r \in Requests, ReadTicket(r)
      PROVE  ReqInv'
  <2> DEFINE k == IF Present(req[r].ticket) THEN tickets[req[r].ticket] ELSE NoTicket
             q == [req[r] EXCEPT !.pc = "read", !.snap = k]
  <2>1. q.ticket = req[r].ticket /\ q.hash = req[r].hash /\ req[r].pc # "idle"
    <3> HIDE DEF k
    <3> QED  BY <1>2 DEF ReadTicket, RequestRecord, TypeOK
  <2>2. req' = [req EXCEPT ![r] = q]
    BY <1>2 DEF ReadTicket
  <2> HIDE DEF q
  <2> QED
    BY <2>1, <2>2 DEF TypeOK
<1>3. ASSUME NEW r \in Requests, Redeem(r)
      PROVE  ReqInv'
  <2> DEFINE out == Outcome(req[r].ticket, req[r].hash, req[r].snap)
             q   == [req[r] EXCEPT !.pc = "answered", !.out = out, !.snap = NoTicket]
  <2>1. q.ticket = req[r].ticket /\ q.hash = req[r].hash /\ req[r].pc # "idle"
    <3> HIDE DEF out
    <3> QED  BY <1>3 DEF Redeem, RequestRecord, TypeOK
  <2>2. req' = [req EXCEPT ![r] = q]
    BY <1>3 DEF Redeem
  <2> HIDE DEF q
  <2> QED
    BY <2>1, <2>2 DEF TypeOK
<1>4. ASSUME Restart
      PROVE  ReqInv'
  <2>1. ASSUME NEW r \in Requests
        PROVE  req'[r].pc # "idle" => /\ req[r].pc # "idle"
                                      /\ req'[r].ticket = req[r].ticket
                                      /\ req'[r].hash = req[r].hash
    <3>1. CASE req[r].pc \in {"received", "read"}
      <4>1. req'[r] = [req[r] EXCEPT !.pc = "answered", !.snap = NoTicket]
        BY <1>4, <3>1 DEF Restart
      <4> QED  BY <3>1, <4>1 DEF RequestRecord, TypeOK
    <3>2. CASE req[r].pc \notin {"received", "read"}
      BY <1>4, <3>2 DEF Restart
    <3> QED  BY <3>1, <3>2
  <2> QED
    BY <2>1
<1>5. ASSUME Arrive
      PROVE  ReqInv'
  <2>1. PICK r \in Requests, t \in Tickets, h \in Hashes : Submit(r, t, h)
    BY <1>5 DEF Arrive
  <2> DEFINE q == [NoRequest EXCEPT !.pc = "received", !.ticket = t, !.hash = h]
  <2>2. q.ticket = t /\ q.hash = h
    BY DEF NoRequest
  <2>3. req' = [req EXCEPT ![r] = q]
    BY <2>1 DEF Submit
  <2> HIDE DEF q
  <2> QED
    BY <2>2, <2>3 DEF TypeOK
<1> QED
  BY <1>1, <1>2, <1>3, <1>4, <1>5 DEF Next, ServerNext, InviteMember, Issue, CancelTicket,
     TicketExpires, TombstoneGoes, Revoke, InviteMemberAsNew, Accept, InviteGoes, LoadMember,
     FlipStatus, ListCredentials, DeleteCredential, ListTickets, DeleteTicket,
     RemovalReturns, Restore

\* What a step of one removal may do to the two invariants about removals.
MayRun(p, a) ==
  /\ a \in RemovalRecord
  /\ a.pc # "idle" => a.member \in Members /\ members[a.member] # "absent"
  /\ a.undisturbed =>
       /\ a.pc = "loaded" /\ a.already => members[a.member] = "removed"
       /\ a.pc \notin {"idle", "loaded"} => members[a.member] = "removed"
       /\ a.pc = "sweeping" => CredsOf(a.member) \subseteq a.todo
       /\ a.pc \in {"cancelling", "done"} => CredsOf(a.member) = {}

LEMMA OneRuns ==
  ASSUME IInv, NEW p \in Removers, NEW a, MayRun(p, a),
         removal' = [removal EXCEPT ![p] = a],
         UNCHANGED <<members, invites, creds>>
  PROVE  MemberInv' /\ SweepInv'
<1>1. /\ \A h : CredsOf(h)' = CredsOf(h)
      /\ \A q \in Removers : removal'[q] = IF q = p THEN a ELSE removal[q]
  BY DEF CredsOf, IInv, TypeOK
<1>2. MemberInv'
  BY <1>1 DEF IInv, MemberInv, MayRun
<1>3. SweepInv'
  BY <1>1 DEF IInv, SweepInv, MayRun
<1> QED
  BY <1>2, <1>3

LEMMA NoneRuns ==
  ASSUME IInv, UNCHANGED <<members, invites, creds, removal>>
  PROVE  MemberInv' /\ SweepInv'
BY DEF IInv, MemberInv, SweepInv, CredsOf

\* Credentials may go, and those of active members may come.
LEMMA CredsMove ==
  ASSUME IInv, UNCHANGED <<members, invites, removal>>,
         \A h \in Hashes : \/ creds'[h] = creds[h]
                           \/ creds'[h] = None
                           \/ members[creds'[h].member] = "active"
  PROVE  MemberInv' /\ SweepInv'
<1>1. MemberInv'
  BY DEF IInv, MemberInv
<1>2. ASSUME NEW m \in Members, members[m] = "removed"
      PROVE  CredsOf(m)' \subseteq CredsOf(m)
  BY <1>2 DEF CredsOf
<1>3. SweepInv'
  BY <1>2 DEF IInv, SweepInv, MemberInv
<1> QED
  BY <1>1, <1>3

LEMMA StepMember ==
  ASSUME IInv, Next
  PROVE  MemberInv' /\ SweepInv'
<1>1. ASSUME NEW r \in Requests, Redeem(r)
      PROVE  MemberInv' /\ SweepInv'
  <2> DEFINE t   == req[r].ticket
             h   == req[r].hash
             snap == req[r].snap
             out == Outcome(t, h, snap)
             dev == IF snap.device = None THEN h ELSE snap.device
             c   == [member |-> snap.member, device |-> dev, via |-> t]
  <2>1. UNCHANGED <<members, invites, removal>>
    BY <1>1 DEF Redeem
  <2>2. CASE out = "ok"
    <3>1. members[c.member] = "active"
      BY <2>2 DEF Outcome
    <3>2. creds' = [creds EXCEPT ![h] = c]
      BY <1>1, <2>2 DEF Redeem
    <3> HIDE DEF c, h, t
    <3>3. \A k \in Hashes : creds'[k] = creds[k] \/ members[creds'[k].member] = "active"
      BY <3>1, <3>2 DEF IInv, TypeOK
    <3> QED  BY <2>1, <3>3, CredsMove
  <2>3. CASE out # "ok"
    BY <1>1, <2>3, NoneRuns DEF Redeem
  <2> QED
    BY <2>2, <2>3
<1>2. ASSUME NEW h \in Hashes, Revoke(h)
      PROVE  MemberInv' /\ SweepInv'
  <2>1. \A k \in Hashes : creds'[k] = creds[k] \/ creds'[k] = None
    BY <1>2 DEF Revoke, IInv, TypeOK
  <2> QED
    BY <1>2, <2>1, CredsMove DEF Revoke
<1>3. ASSUME NEW t \in Tickets, NEW m \in Members, InviteMemberAsNew(t, m)
      PROVE  MemberInv' /\ SweepInv'
  <2> DEFINE v == [state |-> "open", member |-> m]
  <2>1. v.member = m /\ members[m] = "absent" /\ \A u \in Tickets : invites[u].member # m
    BY <1>3 DEF InviteMemberAsNew
  <2>2. invites' = [invites EXCEPT ![t] = v] /\ UNCHANGED <<members, creds, removal>>
    BY <1>3 DEF InviteMemberAsNew
  <2> HIDE DEF v
  <2>3. MemberInv'
    BY <2>1, <2>2 DEF IInv, MemberInv, TypeOK
  <2>4. SweepInv'
    BY <2>2 DEF IInv, SweepInv, CredsOf
  <2> QED
    BY <2>3, <2>4
<1>4. ASSUME NEW t \in Tickets, Accept(t)
      PROVE  MemberInv' /\ SweepInv'
  <2> DEFINE m == invites[t].member
             v == [invites[t] EXCEPT !.state = "used"]
  <2>1. v.state = "used" /\ v.member = m
    BY InviteUpdates DEF IInv, TypeOK
  <2>2. /\ m \in Members /\ members[m] = "absent"
        /\ \A u \in Tickets : u # t => invites[u].member # m
    BY <1>4, NoneAssumption DEF Accept, IInv, MemberInv
  <2>3. /\ invites' = [invites EXCEPT ![t] = v] /\ members' = [members EXCEPT ![m] = "active"]
        /\ UNCHANGED <<creds, removal>>
    BY <1>4 DEF Accept
  <2> HIDE DEF v, m
  <2>4. MemberInv'
    BY <2>1, <2>2, <2>3 DEF IInv, MemberInv, TypeOK
  <2>5. \A p \in Removers : removal[p].pc # "idle" => removal[p].member # m
    BY <2>2 DEF IInv, MemberInv
  <2>6. SweepInv'
    BY <2>2, <2>3, <2>5 DEF IInv, SweepInv, CredsOf, TypeOK, MemberInv
  <2> QED
    BY <2>4, <2>6
<1>5. ASSUME NEW t \in Tickets, InviteGoes(t)
      PROVE  MemberInv' /\ SweepInv'
  <2> DEFINE v == [invites[t] EXCEPT !.state = "gone"]
  <2>1. v.state = "gone" /\ v.member = invites[t].member
    BY InviteUpdates DEF IInv, TypeOK
  <2>2. invites' = [invites EXCEPT ![t] = v] /\ UNCHANGED <<members, creds, removal>>
    BY <1>5 DEF InviteGoes
  <2> HIDE DEF v
  <2>3. MemberInv'
    BY <2>1, <2>2 DEF IInv, MemberInv, TypeOK
  <2>4. SweepInv'
    BY <2>2 DEF IInv, SweepInv, CredsOf
  <2> QED
    BY <2>3, <2>4
<1>6. ASSUME NEW p \in Removers, NEW m \in Members, LoadMember(p, m)
      PROVE  MemberInv' /\ SweepInv'
  <2> DEFINE a == [NoRemoval EXCEPT !.pc = "loaded", !.member = m,
                     !.already = (members[m] = "removed"), !.undisturbed = TRUE]
  <2>1. /\ a \in RemovalRecord /\ a.pc = "loaded" /\ a.member = m
        /\ a.already => members[m] = "removed"
    BY DEF NoRemoval, RemovalRecord
  <2>2. /\ removal' = [removal EXCEPT ![p] = a] /\ members[m] # "absent"
        /\ UNCHANGED <<members, invites, creds>>
    BY <1>6 DEF LoadMember
  <2> HIDE DEF a
  <2>3. MayRun(p, a)
    BY <2>1, <2>2 DEF MayRun
  <2> QED
    BY <2>2, <2>3, OneRuns, Zenon
<1>7. ASSUME NEW p \in Removers, FlipStatus(p)
      PROVE  MemberInv' /\ SweepInv'
  <2> DEFINE m == removal[p].member
             a == [removal[p] EXCEPT !.pc = "flipped", !.already = FALSE]
  <2>1. /\ a.pc = "flipped" /\ a.member = m /\ a.undisturbed = removal[p].undisturbed
        /\ m \in Members /\ members[m] # "absent"
    BY <1>7 DEF FlipStatus, IInv, TypeOK, RemovalRecord, MemberInv
  <2>2. /\ removal' = [removal EXCEPT ![p] = a] /\ UNCHANGED <<invites, creds>>
        /\ members' = IF removal[p].already THEN members
                      ELSE [members EXCEPT ![m] = "removed"]
        /\ removal[p].pc = "loaded"
    BY <1>7 DEF FlipStatus
  <2> HIDE DEF a, m
  <2>3. \A k \in Members : \/ members'[k] = members[k]
                           \/ k = m /\ members'[k] = "removed"
    BY <2>1, <2>2 DEF IInv, TypeOK
  <2>4. \A q \in Removers : q # p => removal'[q] = removal[q]
    BY <2>2 DEF IInv, TypeOK
  <2>5. removal'[p] = a
    BY <2>2 DEF IInv, TypeOK
  <2>6. MemberInv'
    BY <2>1, <2>2, <2>3, <2>4, <2>5 DEF IInv, MemberInv
  <2>7. removal[p].undisturbed => members'[m] = "removed"
    BY <2>1, <2>2 DEF IInv, TypeOK, SweepInv, m
  <2>8. \A k : CredsOf(k)' = CredsOf(k)
    BY <2>2 DEF CredsOf
  <2>9. SweepInv'
    <3> SUFFICES ASSUME NEW q \in Removers, removal'[q].undisturbed
                 PROVE  LET k == removal'[q].member IN
                   /\ removal'[q].pc = "loaded" /\ removal'[q].already => members'[k] = "removed"
                   /\ removal'[q].pc \notin {"idle", "loaded"} => members'[k] = "removed"
                   /\ removal'[q].pc = "sweeping" => CredsOf(k) \subseteq removal'[q].todo
                   /\ removal'[q].pc \in {"cancelling", "done"} => CredsOf(k) = {}
      BY <2>8 DEF SweepInv
    <3>1. CASE q = p
      BY <2>1, <2>5, <2>7, <3>1
    <3>2. CASE q # p
      BY <2>3, <2>4, <3>2 DEF IInv, SweepInv, MemberInv
    <3> QED  BY <3>1, <3>2
  <2> QED
    BY <2>6, <2>9
<1>8. ASSUME NEW p \in Removers, ListCredentials(p)
      PROVE  MemberInv' /\ SweepInv'
  <2> DEFINE a == [removal[p] EXCEPT !.pc = "sweeping", !.todo = CredsOf(removal[p].member)]
  <2>1. /\ a \in RemovalRecord /\ a.pc = "sweeping" /\ a.member = removal[p].member
        /\ a.todo = CredsOf(removal[p].member) /\ a.undisturbed = removal[p].undisturbed
    <3>1. CredsOf(removal[p].member) \subseteq Hashes
      BY DEF CredsOf
    <3> QED  BY <3>1 DEF RemovalRecord, IInv, TypeOK
  <2>2. /\ removal' = [removal EXCEPT ![p] = a] /\ removal[p].pc = "flipped"
        /\ UNCHANGED <<members, invites, creds>>
    BY <1>8 DEF ListCredentials
  <2> HIDE DEF a
  <2>3. MayRun(p, a)
    BY <2>1, <2>2 DEF MayRun, IInv, MemberInv, SweepInv
  <2> QED
    BY <2>2, <2>3, OneRuns, Zenon
<1>9. ASSUME NEW p \in Removers, DeleteCredential(p)
      PROVE  MemberInv' /\ SweepInv'
  <2>1. PICK h \in removal[p].todo \cap Hashes :
          /\ creds' = [creds EXCEPT ![h] = None]
          /\ removal' = [removal EXCEPT ![p] =
                           [removal[p] EXCEPT !.todo = removal[p].todo \ {h}]]
    BY <1>9 DEF DeleteCredential
  <2> DEFINE a == [removal[p] EXCEPT !.todo = removal[p].todo \ {h}]
  <2>2. /\ a.pc = "sweeping" /\ a.member = removal[p].member /\ a.already = removal[p].already
        /\ a.todo = removal[p].todo \ {h} /\ a.undisturbed = removal[p].undisturbed
        /\ removal[p].pc = "sweeping"
    BY <1>9 DEF DeleteCredential, RemovalRecord, IInv, TypeOK
  <2>3. /\ removal' = [removal EXCEPT ![p] = a] /\ creds' = [creds EXCEPT ![h] = None]
        /\ UNCHANGED <<members, invites>>
    BY <1>9, <2>1 DEF DeleteCredential
  <2> HIDE DEF a
  <2>4. /\ \A q \in Removers : removal'[q] = IF q = p THEN a ELSE removal[q]
        /\ \A m : CredsOf(m)' = CredsOf(m) \ {h}
    BY <2>3 DEF IInv, TypeOK, CredsOf
  <2>5. MemberInv'
    BY <2>2, <2>3, <2>4 DEF IInv, MemberInv
  <2>6. SweepInv'
    BY <2>2, <2>3, <2>4 DEF IInv, SweepInv
  <2> QED
    BY <2>5, <2>6
<1>10. ASSUME NEW p \in Removers, ListTickets(p) \/ DeleteTicket(p) \/ RemovalReturns(p)
       PROVE  MemberInv' /\ SweepInv'
  <2>1. PICK a : /\ removal' = [removal EXCEPT ![p] = a]
                 /\ a.member = removal[p].member /\ a.undisturbed = removal[p].undisturbed
                 /\ a.pc \in {"cancelling", "done"}
                 /\ \/ removal[p].pc = "sweeping" /\ removal[p].todo = {}
                    \/ removal[p].pc = "cancelling"
                 /\ a \in RemovalRecord
    <3>1. CASE ListTickets(p)
      <4> DEFINE a == [removal[p] EXCEPT !.pc = "cancelling",
                                         !.todo = OpenTicketsOf(removal[p].member)]
      <4>1. OpenTicketsOf(removal[p].member) \subseteq Tickets
        BY DEF OpenTicketsOf
      <4>2. /\ a \in RemovalRecord /\ a.pc = "cancelling" /\ a.member = removal[p].member
            /\ a.undisturbed = removal[p].undisturbed
        BY <4>1 DEF RemovalRecord, IInv, TypeOK
      <4>3. removal' = [removal EXCEPT ![p] = a] /\ removal[p].pc = "sweeping" /\ removal[p].todo = {}
        BY <3>1 DEF ListTickets
      <4> HIDE DEF a
      <4> QED  BY <4>2, <4>3
    <3>2. CASE RemovalReturns(p)
      <4> DEFINE a == [removal[p] EXCEPT !.pc = "done"]
      <4>1. /\ a \in RemovalRecord /\ a.pc = "done" /\ a.member = removal[p].member
            /\ a.undisturbed = removal[p].undisturbed
        BY DEF RemovalRecord, IInv, TypeOK
      <4>2. removal' = [removal EXCEPT ![p] = a] /\ removal[p].pc = "cancelling"
        BY <3>2 DEF RemovalReturns
      <4> HIDE DEF a
      <4> QED  BY <4>1, <4>2
    <3>3. CASE DeleteTicket(p)
      <4>1. PICK t \in removal[p].todo \cap Tickets : removal' = [removal EXCEPT ![p] =
                           [removal[p] EXCEPT !.todo = removal[p].todo \ {t}]]
        BY <3>3 DEF DeleteTicket
      <4> DEFINE a == [removal[p] EXCEPT !.todo = removal[p].todo \ {t}]
      <4>2. /\ a \in RemovalRecord /\ a.pc = removal[p].pc /\ a.member = removal[p].member
            /\ a.undisturbed = removal[p].undisturbed
        BY DEF RemovalRecord, IInv, TypeOK
      <4>3. removal' = [removal EXCEPT ![p] = a] /\ removal[p].pc = "cancelling"
        BY <3>3, <4>1 DEF DeleteTicket
      <4> HIDE DEF a
      <4> QED  BY <4>2, <4>3
    <3> QED  BY <1>10, <3>1, <3>2, <3>3
  <2>2. UNCHANGED <<members, invites, creds>>
    BY <1>10 DEF ListTickets, DeleteTicket, RemovalReturns
  <2>3. MayRun(p, a)
    BY <2>1 DEF MayRun, IInv, MemberInv, SweepInv
  <2> QED
    BY <2>1, <2>2, <2>3, OneRuns, Zenon
<1>11. ASSUME NEW m \in Members, NEW t \in Tickets, Restore(m, t)
       PROVE  MemberInv' /\ SweepInv'
  <2>1. ASSUME NEW p \in Removers
        PROVE  /\ removal'[p].pc = removal[p].pc /\ removal'[p].todo = removal[p].todo
               /\ removal'[p].member = removal[p].member
               /\ removal'[p].already = removal[p].already
               /\ removal'[p].undisturbed => removal[p].undisturbed /\ removal[p].member # m
    <3>1. removal'[p] = [removal[p] EXCEPT !.undisturbed = Undisturbed(p, m)]
      BY <1>11 DEF Restore
    <3>2. Undisturbed(p, m) => removal[p].undisturbed /\ removal[p].member # m
      BY DEF Undisturbed
    <3> QED  BY <3>1, <3>2 DEF RemovalRecord, IInv, TypeOK
  <2>2. /\ members[m] = "removed" /\ members' = [members EXCEPT ![m] = "active"]
        /\ UNCHANGED <<invites, creds>>
    BY <1>11 DEF Restore
  <2>3. MemberInv'
    BY <2>1, <2>2 DEF IInv, MemberInv, TypeOK
  <2>4. \A k : CredsOf(k)' = CredsOf(k)
    BY <2>2 DEF CredsOf
  <2>5. SweepInv'
    BY <2>1, <2>2, <2>4 DEF IInv, SweepInv, TypeOK, MemberInv
  <2> QED
    BY <2>3, <2>5
<1>12. ASSUME Restart
       PROVE  MemberInv' /\ SweepInv'
  <2>1. \A p \in Removers : removal'[p] = removal[p] \/ removal'[p] = NoRemoval
    BY <1>12 DEF Restart
  <2>2. \A k : CredsOf(k)' = CredsOf(k)
    BY <1>12 DEF CredsOf, Restart
  <2> QED
    BY <1>12, <2>1, <2>2, EmptyRecords DEF Restart, IInv, MemberInv, SweepInv
<1> QED
  BY <1>1, <1>2, <1>3, <1>4, <1>5, <1>6, <1>7, <1>8, <1>9, <1>10, <1>11, <1>12, NoneRuns
  DEF Next, ServerNext, Arrive, InviteMember, Issue, CancelTicket, TicketExpires,
      TombstoneGoes, ReadTicket

-------------------------------------------------------------------------------
(* The server *)

LEMMA InitInv == Init => IInv
<1> SUFFICES ASSUME Init PROVE IInv
  OBVIOUS
<1>1. TypeOK
  BY EmptyRecords, OwnerAssumption DEF Init, TypeOK
<1>2. TicketInv
  BY EmptyRecords DEF Init, TicketInv
<1>3. MemberInv
  BY EmptyRecords DEF Init, MemberInv
<1>4. SweepInv
  BY EmptyRecords DEF Init, SweepInv
<1>5. ReqInv
  BY DEF Init, ReqInv, NoRequest
<1> QED
  BY <1>1, <1>2, <1>3, <1>4, <1>5 DEF IInv

LEMMA StepInv == IInv /\ [Next]_vars => IInv'
<1> SUFFICES ASSUME IInv, [Next]_vars PROVE IInv'
  OBVIOUS
<1>1. CASE Next
  BY <1>1, StepType, StepTicket, StepMember, StepReq DEF IInv
<1>2. CASE UNCHANGED vars
  BY <1>2 DEF vars, IInv, TypeOK, TicketInv, MemberInv, SweepInv, ReqInv, CredsOf
<1> QED
  BY <1>1, <1>2

\* What the invariant says to a reader.
LEMMA InvMeans == IInv => TypeOK /\ OneCredentialPerTicket /\ RemovalRevokes
<1> SUFFICES ASSUME IInv PROVE OneCredentialPerTicket /\ RemovalRevokes
  BY DEF IInv
<1>1. OneCredentialPerTicket
  BY DEF IInv, TicketInv, TypeOK, OneCredentialPerTicket
<1>2. RemovalRevokes
  BY DEF IInv, SweepInv, RemovalRevokes
<1> QED
  BY <1>1, <1>2

\* Every reachable state of the server satisfies the inductive invariant.
THEOREM ServerInvariant == Spec => []IInv
BY InitInv, StepInv, PTL DEF Spec

\* ENROLL_CONSUME: at most one secret is ever registered for a join code.
THEOREM OneCredential == Spec => []OneCredentialPerTicket
<1>1. IInv => OneCredentialPerTicket
  BY InvMeans
<1> QED
  BY <1>1, ServerInvariant, PTL

\* remove_member: once it returns, and until the member is restored, no
\* credential names the member.
THEOREM Removal == Spec => []RemovalRevokes
<1>1. IInv => RemovalRevokes
  BY InvMeans
<1> QED
  BY <1>1, ServerInvariant, PTL

-------------------------------------------------------------------------------
(* Devices *)

\* The member of device d: a device is named by the first secret registered for it.
HomeOf(d, m) == \E t \in Tickets : <<t, d>> \in registered /\ tickets[t].member = m

\* A secret is sent for one ticket only, so that a device has one member; every
\* credential, code and code to come for the device names that member.
DeviceInv ==
  /\ \A h \in Hashes : creds[h] # None => HomeOf(creds[h].device, creds[h].member)
  /\ \A i \in issuing : i.device # None => HomeOf(i.device, i.member)
  /\ \A t \in Tickets : tickets[t].state # "none" /\ tickets[t].device # None
       => HomeOf(tickets[t].device, tickets[t].member)
  /\ \A x \in registered : \E q \in Requests : <<req[q].ticket, req[q].hash>> = x
  /\ \A q, r \in Requests : req[q].hash # None /\ req[q].hash = req[r].hash
       => req[q].ticket = req[r].ticket
  /\ \A q \in Requests : req[q].pc = "idle" => req[q].hash = None

LEMMA OneHome ==
  ASSUME TypeOK, DeviceInv, NEW d \in Hashes, NEW m, NEW n, HomeOf(d, m), HomeOf(d, n)
  PROVE  m = n
<1>1. PICK t \in Tickets : <<t, d>> \in registered /\ tickets[t].member = m
  BY DEF HomeOf
<1>2. PICK u \in Tickets : <<u, d>> \in registered /\ tickets[u].member = n
  BY DEF HomeOf
<1>3. PICK q \in Requests : <<req[q].ticket, req[q].hash>> = <<t, d>>
  BY <1>1 DEF DeviceInv
<1>4. PICK r \in Requests : <<req[r].ticket, req[r].hash>> = <<u, d>>
  BY <1>2 DEF DeviceInv
<1>5. t = u
  BY <1>3, <1>4, NoneAssumption DEF DeviceInv
<1> QED
  BY <1>1, <1>2, <1>5

\* A ticket that was issued keeps its member and its device.
LEMMA TicketSteps ==
  ASSUME IInv, Next, NEW t \in Tickets
  PROVE  \/ /\ tickets'[t].member = tickets[t].member
            /\ tickets'[t].device = tickets[t].device
            /\ tickets'[t].state # "none" => tickets[t].state # "none"
         \/ tickets[t].state = "none" /\ tickets'[t].device = None
         \/ /\ tickets[t].state = "none"
            /\ \E i \in issuing : /\ tickets'[t].member = i.member
                                  /\ tickets'[t].device = i.device
<1> DEFINE Keeps(y) == /\ y.member = tickets[t].member /\ y.device = tickets[t].device
                       /\ y.state # "none" => tickets[t].state # "none"
<1>1. tickets[t] \in TicketRecord /\ TypeOK /\ TicketInv
  BY DEF IInv, TypeOK
<1>2. /\ Keeps(tickets[t])
      /\ tickets[t].state # "none" => Keeps([tickets[t] EXCEPT !.state = "gone"])
      /\ Keeps([tickets[t] EXCEPT !.late = TRUE])
      /\ \A h : tickets[t].state # "none"
                => Keeps([tickets[t] EXCEPT !.state = "used", !.hash = h])
  BY <1>1 DEF TicketRecord
<1>3. ASSUME NEW m \in Members \cup {None}, NEW d
      PROVE  NewTicket(m, d).member = m /\ NewTicket(m, d).device = d
  BY DEF NewTicket, NoTicket
<1>4. ASSUME NEW i \in issuing, Issue(i), i.ticket = t
      PROVE  /\ tickets[t].state = "none"
             /\ tickets'[t].member = i.member /\ tickets'[t].device = i.device
  BY <1>1, <1>3, <1>4 DEF Issue, TicketInv, TypeOK, IssueRecord
<1>5. ASSUME Accept(t)
      PROVE  tickets[t].state = "none" /\ tickets'[t].device = None
  <2>1. tickets'[t] = NewTicket(invites[t].member, None)
    BY <1>1, <1>5 DEF Accept, TypeOK
  <2>2. invites[t].member \in Members
    BY <1>5 DEF Accept, IInv, MemberInv
  <2> QED
    BY <1>1, <1>3, <1>5, <2>1, <2>2 DEF Accept, TicketInv
<1>6. ASSUME NEW p \in Removers, DeleteTicket(p) PROVE Keeps(tickets'[t])
  <2>1. PICK u \in removal[p].todo \cap Tickets :
           tickets' = [tickets EXCEPT ![u] = [tickets[u] EXCEPT !.state = "gone"]]
    BY <1>6 DEF DeleteTicket
  <2>2. tickets[u].state # "none"
    BY <1>1, <1>6, <2>1 DEF DeleteTicket, TicketInv
  <2> HIDE DEF Keeps
  <2> QED
    BY <1>1, <1>2, <2>1, <2>2 DEF TypeOK
<1>7. ASSUME NEW r \in Requests, Redeem(r) PROVE Keeps(tickets'[t])
  <2>1. \/ tickets' = tickets
        \/ /\ Present(req[r].ticket)
           /\ tickets' = [tickets EXCEPT ![req[r].ticket] =
                            [tickets[req[r].ticket] EXCEPT !.state = "used", !.hash = req[r].hash]]
    BY <1>7 DEF Redeem, Outcome
  <2>2. CASE req[r].ticket = t
    <3>1. \/ tickets'[t] = tickets[t]
          \/ /\ tickets[t].state # "none"
             /\ tickets'[t] = [tickets[t] EXCEPT !.state = "used", !.hash = req[r].hash]
      BY <1>1, <2>1, <2>2 DEF TypeOK, Present
    <3>2. tickets[t].state # "none"
            => Keeps([tickets[t] EXCEPT !.state = "used", !.hash = req[r].hash])
      BY <1>2
    <3> HIDE DEF Keeps
    <3> QED
      BY <1>2, <3>1, <3>2
  <2>3. CASE req[r].ticket # t
    <3>1. tickets'[t] = tickets[t]
      BY <1>1, <2>1, <2>3 DEF TypeOK
    <3> QED
      BY <3>1
  <2> QED
    BY <2>2, <2>3
<1>8. ASSUME NEW u \in Tickets, CancelTicket(u) \/ TicketExpires(u) \/ TombstoneGoes(u)
      PROVE  Keeps(tickets'[t])
  <2> HIDE DEF Keeps
  <2> QED
    BY <1>1, <1>2, <1>8 DEF CancelTicket, TicketExpires, TombstoneGoes, TypeOK
<1>9. CASE tickets'[t] = tickets[t]
  BY <1>9
<1> HIDE DEF Keeps
<1>10. \/ Keeps(tickets'[t]) \/ tickets'[t] = tickets[t] \/ Accept(t)
       \/ \E i \in issuing : Issue(i) /\ i.ticket = t
  BY <1>1, <1>6, <1>7, <1>8
  DEF Next, ServerNext, Arrive, Submit, InviteMember, Issue, ReadTicket, Revoke,
      InviteMemberAsNew, Accept, InviteGoes, LoadMember, FlipStatus, ListCredentials,
      DeleteCredential, ListTickets, RemovalReturns, Restore, Restart, TypeOK
<1> QED
  BY <1>4, <1>5, <1>9, <1>10 DEF Keeps

\* A request keeps its ticket and its secret.
LEMMA RequestSteps ==
  ASSUME IInv, Next, NEW q \in Requests
  PROVE  \/ /\ req'[q].ticket = req[q].ticket /\ req'[q].hash = req[q].hash
            /\ req'[q].pc = "idle" => req[q].pc = "idle"
         \/ /\ req[q].pc = "idle" /\ req'[q].pc # "idle"
            /\ \A r \in Requests : req[r].hash = req'[q].hash => req[r].ticket = req'[q].ticket
            /\ \A r \in Requests \ {q} : req'[r] = req[r]
<1>1. TypeOK /\ req[q] \in RequestRecord
  BY DEF IInv, TypeOK
<1> DEFINE Keeps(y) == /\ y.ticket = req[q].ticket /\ y.hash = req[q].hash
                       /\ y.pc = "idle" => req[q].pc = "idle"
<1>2. ASSUME NEW k, NEW o
      PROVE  /\ Keeps([req[q] EXCEPT !.pc = "read", !.snap = k])
             /\ Keeps([req[q] EXCEPT !.pc = "answered", !.out = o, !.snap = k])
             /\ Keeps([req[q] EXCEPT !.pc = "answered", !.snap = k])
  BY <1>1 DEF RequestRecord
<1>3. ASSUME NEW r \in Requests, ReadTicket(r) \/ Redeem(r)
      PROVE  Keeps(req'[q])
  <2> DEFINE snap == IF Present(req[r].ticket) THEN tickets[req[r].ticket] ELSE NoTicket
             out  == Outcome(req[r].ticket, req[r].hash, req[r].snap)
  <2>1. CASE q # r
    <3>1. req'[q] = req[q]
      BY <1>1, <1>3, <2>1 DEF ReadTicket, Redeem, TypeOK
    <3> QED
      BY <3>1
  <2>2. CASE q = r /\ ReadTicket(r)
    <3>1. req'[q] = [req[q] EXCEPT !.pc = "read", !.snap = snap]
      BY <1>1, <2>2 DEF ReadTicket, TypeOK
    <3>2. Keeps([req[q] EXCEPT !.pc = "read", !.snap = snap])
      BY <1>2
    <3> HIDE DEF snap, Keeps
    <3> QED
      BY <3>1, <3>2
  <2>3. CASE q = r /\ Redeem(r)
    <3>1. req'[q] = [req[q] EXCEPT !.pc = "answered", !.out = out, !.snap = NoTicket]
      BY <1>1, <2>3 DEF Redeem, TypeOK
    <3>2. Keeps([req[q] EXCEPT !.pc = "answered", !.out = out, !.snap = NoTicket])
      BY <1>2
    <3> HIDE DEF out, Keeps
    <3> QED
      BY <3>1, <3>2
  <2> QED
    BY <1>3, <2>1, <2>2, <2>3
<1>4. ASSUME Restart
      PROVE  Keeps(req'[q])
  <2>1. \/ req'[q] = req[q]
        \/ req'[q] = [req[q] EXCEPT !.pc = "answered", !.snap = NoTicket]
    BY <1>4 DEF Restart
  <2>2. Keeps([req[q] EXCEPT !.pc = "answered", !.snap = NoTicket])
    BY <1>2
  <2> HIDE DEF Keeps
  <2>3. Keeps(req[q])
    BY DEF Keeps
  <2> QED
    BY <2>1, <2>2, <2>3
<1>5. ASSUME NEW r \in Requests, NEW t \in Tickets, NEW h \in Hashes, Submit(r, t, h)
      PROVE  \/ req'[q] = req[q]
             \/ /\ req[q].pc = "idle" /\ req'[q].pc # "idle"
                /\ \A s \in Requests : req[s].hash = req'[q].hash => req[s].ticket = req'[q].ticket
                /\ \A s \in Requests \ {q} : req'[s] = req[s]
  <2> DEFINE n == [NoRequest EXCEPT !.pc = "received", !.ticket = t, !.hash = h]
  <2>1. n.pc = "received" /\ n.ticket = t /\ n.hash = h
    BY DEF NoRequest
  <2>2. req' = [req EXCEPT ![r] = n] /\ req[r].pc = "idle"
        /\ \A s \in Requests : req[s].hash = h => req[s].ticket = t
    BY <1>5 DEF Submit
  <2> HIDE DEF n
  <2> QED
    BY <1>1, <2>1, <2>2 DEF TypeOK
<1>6. CASE req' = req
  BY <1>6
<1>7. \/ req' = req \/ Restart \/ (\E r \in Requests : ReadTicket(r) \/ Redeem(r))
      \/ \E r \in Requests, t \in Tickets, h \in Hashes : Submit(r, t, h)
  BY DEF Next, ServerNext, Arrive, InviteMember, Issue, CancelTicket, TicketExpires,
     TombstoneGoes, Revoke, InviteMemberAsNew, Accept, InviteGoes, LoadMember, FlipStatus,
     ListCredentials, DeleteCredential, ListTickets, DeleteTicket, RemovalReturns, Restore
<1> QED
  BY <1>3, <1>4, <1>5, <1>6, <1>7

\* A registered secret stays registered, for a ticket that keeps its member.
LEMMA HomeStays ==
  ASSUME IInv, Next, NEW d, NEW m, HomeOf(d, m)
  PROVE  HomeOf(d, m)'
<1>1. PICK t \in Tickets : <<t, d>> \in registered /\ tickets[t].member = m
  BY DEF HomeOf
<1>2. tickets[t].state # "none"
  BY <1>1 DEF IInv, TicketInv, TypeOK
<1>3. tickets'[t].member = m
  BY <1>1, <1>2, TicketSteps
<1>4. registered \subseteq registered'
  BY DEF Next, ServerNext, Arrive, InviteMember, Issue, CancelTicket, TicketExpires,
     TombstoneGoes, ReadTicket, Redeem, Revoke, InviteMemberAsNew, Accept, InviteGoes,
     LoadMember, FlipStatus, ListCredentials, DeleteCredential, ListTickets, DeleteTicket,
     RemovalReturns, Restore, Restart
<1> QED
  BY <1>1, <1>3, <1>4 DEF HomeOf

\* What a redemption that is granted writes: the credential of the ticket's
\* member, and of the ticket's device or a device named by the new secret.
LEMMA GrantedAs ==
  ASSUME IInv, NEW r \in Requests, Redeem(r)
  PROVE  \/ UNCHANGED <<creds, registered>>
         \/ \E t \in Tickets, h \in Hashes, c \in CredRecord :
               /\ req[r].ticket = t /\ req[r].hash = h
               /\ tickets[t].state = "open"
               /\ creds' = [creds EXCEPT ![h] = c]
               /\ registered' = registered \cup {<<t, h>>}
               /\ c.member = tickets[t].member
               /\ c.device = IF tickets[t].device = None THEN h ELSE tickets[t].device
<1> DEFINE t == req[r].ticket
           h == req[r].hash
           d == IF req[r].snap.device = None THEN h ELSE req[r].snap.device
           c == [member |-> req[r].snap.member, device |-> d, via |-> t]
<1>1. CASE Outcome(t, h, req[r].snap) # "ok"
  BY <1>1 DEF Redeem
<1>2. CASE Outcome(t, h, req[r].snap) = "ok"
  <2>1. /\ creds' = [creds EXCEPT ![h] = c]
        /\ registered' = registered \cup {<<t, h>>}
    BY <1>2 DEF Redeem
  <2>2. /\ tickets[t].state = "open"
        /\ req[r].snap.member = tickets[t].member /\ req[r].snap.device = tickets[t].device
    BY <1>2 DEF Outcome, Present
  <2>3. t \in Tickets /\ h \in Hashes
    BY DEF Redeem, IInv, ReqInv
  <2>4. /\ tickets[t].member \in Members /\ tickets[t].device \in Hashes \cup {None}
    BY <2>2, <2>3 DEF IInv, TicketInv, TypeOK, TicketRecord
  <2>5. c \in CredRecord
    BY <2>2, <2>3, <2>4 DEF CredRecord
  <2> QED
    BY <2>1, <2>2, <2>3, <2>5
<1> QED
  BY <1>1, <1>2

LEMMA DeviceSteps == IInv /\ DeviceInv /\ Next => DeviceInv'
<1> SUFFICES ASSUME IInv, DeviceInv, Next PROVE DeviceInv'
  OBVIOUS
<1>1. TypeOK /\ TypeOK'
  BY StepInv DEF IInv
<1>2. \A h \in Hashes : creds'[h] # None => HomeOf(creds[h].device, creds[h].member)'
  <2> SUFFICES ASSUME NEW h \in Hashes, creds'[h] # None
               PROVE  HomeOf(creds[h].device, creds[h].member)'
    OBVIOUS
  <2>1. CASE creds'[h] = creds[h]
    <3>1. HomeOf(creds[h].device, creds[h].member)
      BY <2>1 DEF DeviceInv
    <3>2. \A d, m : d = creds[h].device /\ m = creds[h].member => HomeOf(d, m)'
      BY <3>1, HomeStays
    <3> QED
      BY <2>1, <3>2 DEF HomeOf
  <2>2. ASSUME NEW r \in Requests, Redeem(r), creds'[h] # creds[h]
        PROVE  HomeOf(creds[h].device, creds[h].member)'
    <3>1. PICK t \in Tickets, k \in Hashes, c \in CredRecord :
             /\ tickets[t].state = "open"
             /\ creds' = [creds EXCEPT ![k] = c]
             /\ registered' = registered \cup {<<t, k>>}
             /\ c.member = tickets[t].member
             /\ c.device = IF tickets[t].device = None THEN k ELSE tickets[t].device
      BY <2>2, GrantedAs
    <3>2. h = k /\ creds'[h] = c
      BY <1>1, <2>2, <3>1 DEF TypeOK
    <3>3. tickets'[t].member = tickets[t].member
      BY <3>1, TicketSteps
    <3>4. CASE tickets[t].device = None
      BY <3>1, <3>2, <3>3, <3>4 DEF HomeOf
    <3>5. CASE tickets[t].device # None
      <4>1. HomeOf(c.device, c.member)
        BY <3>1, <3>5 DEF DeviceInv
      <4>2. \A d, m : d = c.device /\ m = c.member => HomeOf(d, m)'
        BY <4>1, HomeStays
      <4> QED
        BY <3>2, <4>2 DEF HomeOf
    <3> QED
      BY <3>4, <3>5
  <2>3. \/ creds'[h] = creds[h] \/ creds'[h] = None \/ \E r \in Requests : Redeem(r)
    BY <1>1
    DEF Next, ServerNext, Arrive, InviteMember, Issue, CancelTicket, TicketExpires,
        TombstoneGoes, ReadTicket, Revoke, InviteMemberAsNew, Accept, InviteGoes,
        LoadMember, FlipStatus, ListCredentials, DeleteCredential, ListTickets,
        DeleteTicket, RemovalReturns, Restore, Restart, TypeOK
  <2> QED
    BY <2>1, <2>2, <2>3
<1>3. \A i \in issuing' : i.device # None => HomeOf(i.device, i.member)'
  <2> SUFFICES ASSUME NEW i \in issuing', i.device # None
               PROVE  HomeOf(i.device, i.member)'
    OBVIOUS
  <2>1. ASSUME NEW t \in Tickets, NEW m \in Members, NEW d \in Hashes \cup {None},
               InviteMember(t, m, d), i \notin issuing
        PROVE  HomeOf(i.device, i.member)
    <3>1. i.device = d /\ i.member = m /\ OwnersOfDevice(d) = {m}
      BY <2>1 DEF InviteMember
    <3>2. PICK h \in Hashes : creds[h] # None /\ creds[h].device = d /\ creds[h].member = m
      BY <3>1 DEF OwnersOfDevice
    <3> QED
      BY <3>1, <3>2 DEF DeviceInv
  <2>2. ASSUME NEW m \in Members, NEW t \in Tickets, Restore(m, t)
        PROVE  i \in issuing
    BY <2>2 DEF Restore
  <2>3. \/ i \in issuing
        \/ \E t \in Tickets, m \in Members, d \in Hashes \cup {None} : InviteMember(t, m, d)
        \/ \E m \in Members, t \in Tickets : Restore(m, t)
    BY DEF Next, ServerNext, Arrive, Issue, CancelTicket, TicketExpires,
        TombstoneGoes, ReadTicket, Redeem, Revoke, InviteMemberAsNew, Accept, InviteGoes,
        LoadMember, FlipStatus, ListCredentials, DeleteCredential, ListTickets,
        DeleteTicket, RemovalReturns, Restart
  <2>4. HomeOf(i.device, i.member)
    BY <2>1, <2>2, <2>3 DEF DeviceInv
  <2> QED
    BY <2>4, HomeStays
<1>4. \A t \in Tickets : tickets'[t].state # "none" /\ tickets'[t].device # None
        => HomeOf(tickets[t].device, tickets[t].member)'
  <2> SUFFICES ASSUME NEW t \in Tickets, tickets'[t].state # "none",
                      tickets'[t].device # None
               PROVE  HomeOf(tickets[t].device, tickets[t].member)'
    OBVIOUS
  <2>1. HomeOf(tickets'[t].device, tickets'[t].member)
    BY TicketSteps DEF DeviceInv
  <2>2. \A d, m : d = tickets'[t].device /\ m = tickets'[t].member => HomeOf(d, m)'
    BY <2>1, HomeStays
  <2> QED
    BY <2>2 DEF HomeOf
<1>5. ASSUME NEW q \in Requests, req[q].hash # None
      PROVE  req'[q].ticket = req[q].ticket /\ req'[q].hash = req[q].hash
  BY <1>5, RequestSteps DEF DeviceInv
<1>6. \A x \in registered' : \E q \in Requests : <<req'[q].ticket, req'[q].hash>> = x
  <2> SUFFICES ASSUME NEW x \in registered'
               PROVE  \E q \in Requests : <<req'[q].ticket, req'[q].hash>> = x
    OBVIOUS
  <2>1. \/ x \in registered
        \/ \E r \in Requests : Redeem(r) /\ x \notin registered
    BY DEF Next, ServerNext, Arrive, InviteMember, Issue, CancelTicket, TicketExpires,
        TombstoneGoes, ReadTicket, Revoke, InviteMemberAsNew, Accept, InviteGoes,
        LoadMember, FlipStatus, ListCredentials, DeleteCredential, ListTickets,
        DeleteTicket, RemovalReturns, Restore, Restart
  <2>2. \E q \in Requests : <<req[q].ticket, req[q].hash>> = x /\ req[q].hash # None
    <3>1. CASE x \in registered
      BY <1>1, <3>1, NoneAssumption DEF DeviceInv, TypeOK
    <3>2. ASSUME NEW r \in Requests, Redeem(r), x \notin registered
          PROVE  <<req[r].ticket, req[r].hash>> = x /\ req[r].hash # None
      BY <3>2, GrantedAs, NoneAssumption
    <3> QED
      BY <2>1, <3>1, <3>2
  <2> QED
    BY <1>5, <2>2
<1>7. \A q, r \in Requests : req'[q].hash # None /\ req'[q].hash = req'[r].hash
        => req'[q].ticket = req'[r].ticket
  <2> SUFFICES ASSUME NEW q \in Requests, NEW r \in Requests,
                      req'[q].hash # None, req'[q].hash = req'[r].hash
               PROVE  req'[q].ticket = req'[r].ticket
    OBVIOUS
  <2> DEFINE Same(x) == req'[x].ticket = req[x].ticket /\ req'[x].hash = req[x].hash
             New(x)  == /\ \A y \in Requests : req[y].hash = req'[x].hash
                                                  => req[y].ticket = req'[x].ticket
                        /\ \A y \in Requests \ {x} : req'[y] = req[y]
  <2>1. (Same(q) \/ New(q)) /\ (Same(r) \/ New(r))
    BY RequestSteps
  <2> QED
    BY <2>1 DEF DeviceInv
<1>8. \A q \in Requests : req'[q].pc = "idle" => req'[q].hash = None
  BY RequestSteps DEF DeviceInv
<1> QED
  BY <1>2, <1>3, <1>4, <1>6, <1>7, <1>8 DEF DeviceInv

LEMMA DeviceStarts == Init => DeviceInv
BY DEF Init, DeviceInv, NoTicket, NoRequest

\* invite_member: whatever codes are issued, redeemed and revoked in whatever
\* order, a device that is regenerated stays with the member it belongs to.
THEOREM DevicesKeepMembers == Spec => []DeviceKeepsMember
<1>1. IInv /\ DeviceInv /\ [Next]_vars => DeviceInv'
  <2>1. ASSUME DeviceInv, UNCHANGED vars PROVE DeviceInv'
    <3>1. UNCHANGED <<tickets, creds, issuing, req, registered>>
      BY <2>1 DEF vars
    <3>2. \A d, m : HomeOf(d, m) => HomeOf(d, m)'
      BY <3>1 DEF HomeOf
    <3>3. \A h \in Hashes : creds'[h] # None => HomeOf(creds[h].device, creds[h].member)'
      BY <2>1, <3>1 DEF DeviceInv, HomeOf
    <3>4. \A i \in issuing' : i.device # None => HomeOf(i.device, i.member)'
      BY <2>1, <3>1, <3>2 DEF DeviceInv
    <3>5. \A t \in Tickets : tickets'[t].state # "none" /\ tickets'[t].device # None
            => HomeOf(tickets[t].device, tickets[t].member)'
      BY <2>1, <3>1 DEF DeviceInv, HomeOf
    <3> QED
      BY <2>1, <3>1, <3>3, <3>4, <3>5 DEF DeviceInv
  <2> QED
    BY <2>1, DeviceSteps
<1>2. IInv /\ DeviceInv => DeviceKeepsMember
  <2> SUFFICES ASSUME IInv, DeviceInv, NEW h \in Hashes, NEW k \in Hashes,
                      creds[h] # None, creds[k] # None, creds[h].device = creds[k].device
               PROVE  creds[h].member = creds[k].member
    BY DEF DeviceKeepsMember
  <2>1. TypeOK /\ creds[h].device \in Hashes
    BY DEF IInv, TypeOK, CredRecord
  <2>2. /\ HomeOf(creds[h].device, creds[h].member)
        /\ HomeOf(creds[h].device, creds[k].member)
    BY DEF DeviceInv
  <2> QED
    BY <2>1, <2>2, OneHome
<1> QED
  BY <1>1, <1>2, InitInv, StepInv, DeviceStarts, PTL DEF Spec

-------------------------------------------------------------------------------
(* The joining devices *)

\* A running command has a pending file, and has written to the
\* configuration what the file holds before it deletes the file.
ClientInv ==
  /\ JoinTypeOK
  /\ \A c \in Clients : pending[c] # NoPending => /\ pending[c].ticket \in Tickets
                                                  /\ pending[c].hash \in Hashes
  /\ \A c \in Clients : join[c] # "off" => pending[c] # NoPending
  /\ \A c \in Clients : join[c] = "configured" => config[c] = pending[c].hash

\* The secrets the devices hold or gave up.
Kept == {pending[c].hash : c \in Clients} \cup {config[c] : c \in Clients} \cup forgotten

HeldInv ==
  /\ \A r \in Requests : req[r].pc # "idle" => req[r].hash \in Kept
  /\ \A x \in registered : x[2] \in Kept

JInv == IInv /\ ClientInv /\ HeldInv

PendingRecord == [ticket : Tickets \cup {None}, hash : Hashes \cup {None}, stale : BOOLEAN]

LEMMA ClientStepInv ==
  ASSUME IInv, ClientInv, NEW c \in Clients, ClientStep(c)
  PROVE  /\ ClientInv'
         /\ Kept \ {None} \subseteq Kept'
         /\ Next \/ UNCHANGED vars
         /\ \/ UNCHANGED vars
            \/ \E r \in Requests : Submit(r, pending[c].ticket, pending[c].hash)
                                   /\ UNCHANGED <<pending, registered>>
<1> USE DEF ClientInv, JoinTypeOK
<1>1. ASSUME NEW t \in Tickets, Start(c, t)
      PROVE  ClientInv' /\ Kept \ {None} \subseteq Kept' /\ UNCHANGED vars
  <2>1. PICK h \in Hashes :
          pending' = [pending EXCEPT ![c] = [ticket |-> t, hash |-> h, stale |-> FALSE]]
    BY <1>1 DEF Start
  <2> DEFINE x == [ticket |-> t, hash |-> h, stale |-> FALSE]
  <2>2. x.ticket = t /\ x.hash = h /\ x # NoPending /\ x \in PendingRecord
    BY NoneAssumption DEF NoPending, PendingRecord
  <2>3. pending' = [pending EXCEPT ![c] = x]
    BY <2>1
  <2> HIDE DEF x
  <2>4. ClientInv'
    BY <1>1, <2>2, <2>3 DEF Start, PendingRecord
  <2>5. Kept \ {None} \subseteq Kept'
    BY <1>1, <2>3 DEF Start, Kept
  <2> QED  BY <1>1, <2>4, <2>5 DEF Start
<1>2. ASSUME Resume(c) \/ Answered(c) \/ Crash(c)
      PROVE  ClientInv' /\ Kept \ {None} \subseteq Kept' /\ UNCHANGED vars
  <2>1. /\ UNCHANGED <<vars, pending, config, attempt, forgotten>>
        /\ \E s \in {"off", "prepared", "enrolled"} :
              join' = [join EXCEPT ![c] = s] /\ (s # "off" => pending[c] # NoPending)
    <3>1. CASE Resume(c)
      BY <3>1 DEF Resume
    <3>2. CASE Answered(c)
      BY <3>2 DEF Answered
    <3>3. CASE Crash(c)
      BY <3>3 DEF Crash
    <3> QED  BY <1>2, <3>1, <3>2, <3>3
  <2>2. ClientInv'
    BY <2>1
  <2> QED
    BY <2>1, <2>2 DEF Kept
<1>3. ASSUME PostJoin(c)
      PROVE  /\ ClientInv' /\ Kept \ {None} \subseteq Kept'
             /\ Arrive
             /\ \E r \in Requests : Submit(r, pending[c].ticket, pending[c].hash)
                                    /\ UNCHANGED <<pending, registered>>
  <2>1. attempt[c] + 1 \in Attempts
    BY <1>3, AttemptAssumption DEF PostJoin, Attempts
  <2>2. <<c, attempt[c] + 1>> \in Requests
    BY <2>1, AttemptAssumption
  <2>3. pending[c].ticket \in Tickets /\ pending[c].hash \in Hashes
    BY <1>3 DEF PostJoin
  <2>4. ClientInv'
    BY <1>3, <2>1 DEF PostJoin, Attempts
  <2>5. Kept' = Kept
    BY <1>3 DEF PostJoin, Kept
  <2> QED
    BY <1>3, <2>2, <2>3, <2>4, <2>5 DEF PostJoin, Arrive
<1>4. ASSUME WriteConfig(c)
      PROVE  ClientInv' /\ Kept \ {None} \subseteq Kept' /\ UNCHANGED vars
  <2>1. ClientInv'
    BY <1>4 DEF WriteConfig
  <2>2. Kept \ {None} \subseteq Kept'
    BY <1>4 DEF WriteConfig, Kept
  <2> QED
    BY <1>4, <2>1, <2>2 DEF WriteConfig
<1>5. ASSUME DropPending(c)
      PROVE  ClientInv' /\ Kept \ {None} \subseteq Kept' /\ UNCHANGED vars
  <2>1. NoPending \in PendingRecord
    BY DEF NoPending, PendingRecord
  <2>2. ClientInv'
    BY <1>5, <2>1 DEF DropPending, PendingRecord
  <2>3. config[c] = pending[c].hash
    BY <1>5 DEF DropPending
  <2>4. Kept \ {None} \subseteq Kept'
    BY <1>5, <2>3 DEF DropPending, Kept
  <2> QED
    BY <1>5, <2>2, <2>4 DEF DropPending
<1>6. ASSUME PendingAges(c)
      PROVE  ClientInv' /\ Kept \ {None} \subseteq Kept' /\ UNCHANGED vars
  <2> DEFINE x == [pending[c] EXCEPT !.stale = TRUE]
  <2>1. /\ x \in PendingRecord /\ x.ticket = pending[c].ticket /\ x.hash = pending[c].hash
        /\ x # NoPending
    BY DEF PendingRecord, NoPending
  <2>2. pending' = [pending EXCEPT ![c] = x] /\ UNCHANGED <<vars, config, join, attempt, forgotten>>
    BY <1>6 DEF PendingAges
  <2>3. pending[c] # NoPending
    BY <1>6 DEF PendingAges
  <2> HIDE DEF x
  <2>4. ClientInv'
    BY <2>1, <2>2, <2>3 DEF PendingRecord
  <2>5. Kept \ {None} \subseteq Kept'
    BY <2>1, <2>2 DEF Kept
  <2> QED
    BY <2>2, <2>4, <2>5
<1> QED
  BY <1>1, <1>2, <1>3, <1>4, <1>5, <1>6 DEF ClientStep, Next

LEMMA InitJoin == JoinInit => JInv
<1> SUFFICES ASSUME JoinInit PROVE JInv
  OBVIOUS
<1>1. IInv
  BY InitInv DEF JoinInit
<1>2. ClientInv
  BY AttemptAssumption DEF JoinInit, ClientInv, JoinTypeOK, NoPending
<1>3. HeldInv
  BY DEF JoinInit, Init, HeldInv, NoRequest
<1> QED
  BY <1>1, <1>2, <1>3 DEF JInv

\* A step of the server alone makes requests of no new secrets.
LEMMA ServerKeepsHeld ==
  ASSUME IInv, HeldInv, ServerNext, UNCHANGED clientVars
  PROVE  HeldInv'
<1>1. Kept' = Kept
  BY DEF Kept, clientVars
<1>2. ASSUME NEW r \in Requests, ReadTicket(r)
      PROVE  HeldInv'
  <2> DEFINE q == req'[r]
  <2>1. /\ req' = [req EXCEPT ![r] = [req[r] EXCEPT !.pc = "read",
                     !.snap = IF Present(req[r].ticket) THEN tickets[req[r].ticket] ELSE NoTicket]]
        /\ req[r].pc # "idle" /\ UNCHANGED registered
    BY <1>2 DEF ReadTicket
  <2>2. \A s \in Requests : req'[s].hash = req[s].hash
    BY <2>1 DEF IInv, TypeOK, RequestRecord
  <2>3. \A s \in Requests : req'[s].pc # "idle" => req[s].pc # "idle"
    BY <2>1 DEF IInv, TypeOK
  <2> QED
    BY <1>1, <2>1, <2>2, <2>3 DEF HeldInv
<1>3. ASSUME NEW r \in Requests, Redeem(r)
      PROVE  HeldInv'
  <2> DEFINE o == Outcome(req[r].ticket, req[r].hash, req[r].snap)
  <2>1. /\ req' = [req EXCEPT ![r] = [req[r] EXCEPT !.pc = "answered", !.out = o,
                                                    !.snap = NoTicket]]
        /\ req[r].pc # "idle"
        /\ registered' \subseteq registered \cup {<<req[r].ticket, req[r].hash>>}
    BY <1>3 DEF Redeem
  <2> HIDE DEF o
  <2>2. \A s \in Requests : req'[s].hash = req[s].hash
    BY <2>1 DEF IInv, TypeOK, RequestRecord
  <2>3. \A s \in Requests : req'[s].pc # "idle" => req[s].pc # "idle"
    BY <2>1 DEF IInv, TypeOK
  <2> QED
    BY <1>1, <2>1, <2>2, <2>3 DEF HeldInv
<1>4. ASSUME Restart
      PROVE  HeldInv'
  <2>1. ASSUME NEW s \in Requests
        PROVE  req'[s].hash = req[s].hash /\ (req'[s].pc # "idle" => req[s].pc # "idle")
    <3>1. CASE req[s].pc \in {"received", "read"}
      <4>1. req'[s] = [req[s] EXCEPT !.pc = "answered", !.snap = NoTicket]
        BY <1>4, <3>1 DEF Restart
      <4> QED  BY <3>1, <4>1 DEF RequestRecord, IInv, TypeOK
    <3>2. CASE req[s].pc \notin {"received", "read"}
      BY <1>4, <3>2 DEF Restart
    <3> QED  BY <3>1, <3>2
  <2>2. UNCHANGED registered
    BY <1>4 DEF Restart
  <2> QED
    BY <1>1, <2>1, <2>2 DEF HeldInv
<1>5. CASE UNCHANGED <<req, registered>>
  BY <1>1, <1>5 DEF HeldInv
<1> QED
  BY <1>2, <1>3, <1>4, <1>5 DEF ServerNext, InviteMember, Issue, CancelTicket,
     TicketExpires, TombstoneGoes, Revoke, InviteMemberAsNew, Accept, InviteGoes, LoadMember,
     FlipStatus, ListCredentials, DeleteCredential, ListTickets, DeleteTicket,
     RemovalReturns, Restore

LEMMA StepJoin == JInv /\ [JoinNext]_allVars => JInv' /\ [Next]_vars
<1> SUFFICES ASSUME JInv, [JoinNext]_allVars PROVE JInv' /\ [Next]_vars
  OBVIOUS
<1> USE DEF JInv
<1>1. CASE ServerNext /\ UNCHANGED clientVars
  <2>1. Next
    BY <1>1 DEF Next
  <2>2. IInv'
    BY <2>1, StepInv
  <2>3. ClientInv'
    BY <1>1 DEF ClientInv, JoinTypeOK, clientVars
  <2> QED
    BY <1>1, <2>1, <2>2, <2>3, ServerKeepsHeld
<1>2. ASSUME NEW c \in Clients, ClientStep(c)
      PROVE  JInv' /\ [Next]_vars
  <2>1. /\ ClientInv' /\ Kept \ {None} \subseteq Kept' /\ [Next]_vars
        /\ \/ UNCHANGED vars
           \/ \E r \in Requests : Submit(r, pending[c].ticket, pending[c].hash)
                                   /\ UNCHANGED <<pending, registered>>
    BY <1>2, ClientStepInv
  <2>2. IInv'
    BY <2>1, StepInv
  <2>3. None \notin Hashes
    BY NoneAssumption
  <2>4. \A r \in Requests : req[r].pc # "idle" => req[r].hash \in Kept'
    BY <2>1, <2>3 DEF HeldInv, IInv, ReqInv
  <2>5. \A x \in registered : x[2] \in Kept'
    BY <2>1, <2>3 DEF HeldInv, IInv, TypeOK
  <2>6. HeldInv'
    <3>1. CASE UNCHANGED vars
      BY <2>4, <2>5, <3>1 DEF HeldInv, vars
    <3>2. ASSUME NEW r \in Requests, Submit(r, pending[c].ticket, pending[c].hash),
                 UNCHANGED <<pending, registered>>
          PROVE  HeldInv'
      <4> DEFINE q == [NoRequest EXCEPT !.pc = "received", !.ticket = pending[c].ticket,
                                        !.hash = pending[c].hash]
      <4>1. q.hash = pending[c].hash
        BY DEF NoRequest
      <4>2. req' = [req EXCEPT ![r] = q]
        BY <3>2 DEF Submit
      <4> HIDE DEF q
      <4>3. pending[c].hash \in Kept'
        BY <3>2 DEF Kept
      <4>4. \A s \in Requests : req'[s] = IF s = r THEN q ELSE req[s]
        BY <4>2 DEF IInv, TypeOK
      <4> QED
        BY <2>4, <2>5, <3>2, <4>1, <4>3, <4>4 DEF HeldInv
    <3> QED  BY <2>1, <3>1, <3>2
  <2> QED
    BY <2>1, <2>2, <2>6
<1>3. CASE UNCHANGED allVars
  <2>1. UNCHANGED vars /\ UNCHANGED clientVars
    BY <1>3 DEF allVars
  <2>2. IInv' /\ [Next]_vars
    BY <2>1, StepInv
  <2>3. ClientInv'
    BY <2>1 DEF ClientInv, JoinTypeOK, clientVars
  <2>4. HeldInv'
    BY <2>1 DEF HeldInv, Kept, vars, clientVars
  <2> QED
    BY <2>2, <2>3, <2>4
<1> QED
  BY <1>1, <1>2, <1>3 DEF JoinNext

\* A state of the invariant is crash-safe: see CrashSafe.
LEMMA JoinMeans == JInv => TypesOK /\ CrashSafeJoin
<1> SUFFICES ASSUME JInv PROVE TypesOK /\ CrashSafeJoin
  OBVIOUS
<1>1. TypesOK
  BY DEF JInv, IInv, ClientInv, TypesOK
<1>2. NoOrphanedCredential
  BY NoneAssumption DEF JInv, IInv, TypeOK, HeldInv, NoOrphanedCredential, Kept
<1>3. LostAnswerReplays
  <2> SUFFICES ASSUME NEW c \in Clients,
                      <<pending[c].ticket, pending[c].hash>> \in registered,
                      creds[pending[c].hash] # None, Present(pending[c].ticket)
               PROVE  Outcome(pending[c].ticket, pending[c].hash, NoTicket) = "replay"
    BY DEF LostAnswerReplays
  <2> DEFINE x == <<pending[c].ticket, pending[c].hash>>
  <2>1. tickets[x[1]].state \in {"used", "gone"} /\ tickets[x[1]].hash = x[2]
    BY DEF JInv, IInv, TicketInv
  <2>2. tickets[pending[c].ticket].state = "used"
        /\ tickets[pending[c].ticket].hash = pending[c].hash
    BY <2>1 DEF Present
  <2> QED
    BY <2>2 DEF Outcome
<1> QED
  BY <1>1, <1>2, <1>3 DEF CrashSafeJoin

\* Devices that join only do to the server what its specification allows.
THEOREM JoinIsServer == JoinSpec => Spec
<1>1. JoinInit => Init
  BY DEF JoinInit
<1> QED
  BY <1>1, InitJoin, StepJoin, PTL DEF JoinSpec, Spec

\* Types of the server's records and of the device's files.
THEOREM JoinTypes == JoinSpec => []TypesOK
<1>1. JInv => TypesOK
  BY JoinMeans
<1> QED
  BY <1>1, InitJoin, StepJoin, PTL DEF JoinSpec

\* join.py: wherever the device stops, a credential registered for it is in
\* its pending file or configuration, or was given up; and while the
\* credential and the ticket's record exist, resuming is answered as a replay.
THEOREM CrashSafe == JoinSpec => []CrashSafeJoin
<1>1. JInv => CrashSafeJoin
  BY JoinMeans
<1> QED
  BY <1>1, InitJoin, StepJoin, PTL DEF JoinSpec
===============================================================================

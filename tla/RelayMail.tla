------------------------------ MODULE RelayMail ------------------------------
(***************************************************************************)
(* Relay's presence rows and direct messages (relay/app/presence.py,       *)
(* dm.py and the routes that call them).  A presence row binds a label to  *)
(* the member whose verified key wrote it; a message is addressed to the   *)
(* member its recipient's label was bound to when it was sent.             *)
(*                                                                         *)
(* A call is two or three Redis commands; what a command read is kept in   *)
(* the call.  Authentication is on and there is one workspace.             *)
(*                                                                         *)
(* Left out: what a row says of its agent (goal, host, heartbeat time: an  *)
(* idle row is kept), the index of rows (it only lists them), the text of  *)
(* a message, and the limit of a read.                                     *)
(***************************************************************************)
EXTENDS Naturals, Sequences, SequencesExt

CONSTANTS MailMembers,    \* members with a key
          MailOwner,      \* the deployment owner
          MailAdmins,     \* members whose key is an administrator's
          Names,          \* labels
          Writers,        \* calls in flight
          MaxMail,        \* bound on the messages sent
          Absent, Unbound \* no row, and a row without an owner

ASSUME BoundAssumption == MaxMail \in Nat

VARIABLES row,       \* nr:presence:<label>: the member it names
          inbox,     \* nr:dm:<label>, newest first
          wcall,     \* the calls
          addressee, \* history: whom each message sent is addressed to
          readers    \* history: pairs of a message and who was shown it or marked it

mailVars == <<row, inbox, wcall, addressee, readers>>

Holders  == MailMembers \cup {Absent, Unbound}
Mail     == [id : 1 .. MaxMail, read : BOOLEAN]
NoWCall  == [pc |-> "idle", by |-> Absent, label |-> Absent, saw |-> Absent, list |-> <<>>]

MailTypeOK ==
    /\ row \in [Names -> Holders]
    /\ inbox \in [Names -> Seq(Mail)]
    /\ wcall \in [Writers -> [pc : {"idle", "register", "heartbeat", "deregister", "dm", "push", "mark"},
                              by : MailMembers \cup {Absent}, label : Names \cup {Absent},
                              saw : Holders, list : Seq(Mail)]]
    /\ addressee \in Seq(MailMembers \cup {Unbound})
    /\ readers \subseteq (1 .. MaxMail) \X MailMembers

\* A row may date from before rows had owners.
MailInit ==
    /\ row \in [Names -> {Absent, Unbound}]
    /\ inbox = [l \in Names |-> <<>>]
    /\ wcall = [w \in Writers |-> NoWCall]
    /\ addressee = <<>>
    /\ readers = {}

-----------------------------------------------------------------------------
Bound(x) == x \in MailMembers

\* owns and administers; what has no owner belongs to the deployment owner.
Administers(m, x) == \/ m \in MailAdmins
                     \/ IF Bound(x) THEN x = m ELSE m = MailOwner
HeldByOther(l, m) == Bound(row[l]) /\ ~Administers(m, row[l])

\* The head of a call: it reads the row of the label it names.
Begin(w, m, l, pc) ==
    /\ wcall[w].pc = "idle"
    /\ wcall' = [wcall EXCEPT ![w] = [NoWCall EXCEPT !.pc = pc, !.by = m, !.label = l,
                                                     !.saw = row[l]]]
    /\ UNCHANGED <<row, inbox, addressee, readers>>

End(w) == wcall' = [wcall EXCEPT ![w] = NoWCall]

RegisterRead(w, m, l) == (Bound(row[l]) => row[l] = m) /\ Begin(w, m, l, "register")

\* The write names its caller whatever the row is by now.
RegisterWrite(w) ==
    /\ wcall[w].pc = "register"
    /\ row' = [row EXCEPT ![wcall[w].label] = wcall[w].by]
    /\ End(w)
    /\ UNCHANGED <<inbox, addressee, readers>>

HeartbeatRead(w, m, l) ==
    /\ row[l] # Absent
    /\ Bound(row[l]) => row[l] = m
    /\ Begin(w, m, l, "heartbeat")

\* An unbound row is adopted.  Otherwise the owner is not written: if the row
\* went in between, one without an owner comes back.
HeartbeatWrite(w) ==
    /\ wcall[w].pc = "heartbeat"
    /\ LET l == wcall[w].label IN
       row' = [row EXCEPT ![l] = IF wcall[w].saw = Unbound THEN wcall[w].by
                                 ELSE IF @ = Absent THEN Unbound ELSE @]
    /\ End(w)
    /\ UNCHANGED <<inbox, addressee, readers>>

DeregisterRead(w, m, l) ==
    /\ Bound(row[l]) => Administers(m, row[l])
    /\ Begin(w, m, l, "deregister")

DeregisterWrite(w) ==
    /\ wcall[w].pc = "deregister"
    /\ row' = [row EXCEPT ![wcall[w].label] = Absent]
    /\ End(w)
    /\ UNCHANGED <<inbox, addressee, readers>>

-----------------------------------------------------------------------------
(* Direct messages *)

\* handle_post_dm: the sender's label is not another member's ...
PostDm(w, m, from, l) ==
    /\ ~HeldByOther(from, m)
    /\ Begin(w, m, l, "dm")

\* ... then who holds the recipient's is read ...
ReadAddressee(w) ==
    /\ wcall[w].pc = "dm"
    /\ wcall' = [wcall EXCEPT ![w].pc = "push", ![w].saw = row[wcall[w].label]]
    /\ UNCHANGED <<row, inbox, addressee, readers>>

\* Mutant: the address is the row as it was read.
Address_Raw(x) == x

\* label_owner: the member a row names, if it names one.
Address(x) == IF Bound(x) THEN x ELSE Unbound

\* ... and the message is pushed with that address, the inbox's day starting anew.
Push(w) ==
    /\ wcall[w].pc = "push"
    /\ Len(addressee) < MaxMail
    /\ LET l == wcall[w].label IN
       inbox' = [inbox EXCEPT ![l] = <<[id |-> Len(addressee) + 1, read |-> FALSE]>> \o @]
    /\ addressee' = Append(addressee, Address(wcall[w].saw))
    /\ End(w)
    /\ UNCHANGED <<row, readers>>

\* Mutant: whoever holds the label may read what is in its inbox.
VisibleTo_Holder(x, l, m) == Administers(m, row[l])

\* The address in the message decides, not who holds the label l.
VisibleTo(x, l, m) == Administers(m, addressee[x.id])

Shown(list, l, m) == {list[i].id : i \in {j \in DOMAIN list : VisibleTo(list[j], l, m)}}

GetDms(m, l) ==
    /\ inbox[l] # <<>>
    /\ readers' = readers \cup (Shown(inbox[l], l, m) \X {m})
    /\ UNCHANGED <<row, inbox, wcall, addressee>>

\* mark_read reads the whole list ...
MarkRead(w, m, l) ==
    /\ wcall[w].pc = "idle"
    /\ inbox[l] # <<>>
    /\ wcall' = [wcall EXCEPT ![w] = [NoWCall EXCEPT !.pc = "mark", !.by = m, !.label = l,
                                                     !.list = inbox[l]]]
    /\ UNCHANGED <<row, inbox, addressee, readers>>

\* Mutant: the new list is pushed on top of the old one.
MarkWrite_NoDelete(w) ==
    /\ wcall[w].pc = "mark"
    /\ LET l == wcall[w].label IN
       inbox' = [inbox EXCEPT ![l] = wcall[w].list \o @]
    /\ End(w)
    /\ UNCHANGED <<row, addressee, readers>>

\* ... and replaces the list when it marked something.
MarkWrite(w) ==
    /\ wcall[w].pc = "mark"
    /\ LET l    == wcall[w].label
           list == wcall[w].list
           mine == {i \in DOMAIN list : VisibleTo(list[i], l, wcall[w].by) /\ ~list[i].read}
       IN IF mine = {} THEN UNCHANGED <<inbox, readers>>
          ELSE /\ inbox' = [inbox EXCEPT ![l] =
                      [i \in DOMAIN list |-> IF i \in mine THEN [list[i] EXCEPT !.read = TRUE]
                                             ELSE list[i]]]
               /\ readers' = readers \cup ({list[i].id : i \in mine} \X {wcall[w].by})
    /\ End(w)
    /\ UNCHANGED <<row, addressee>>

\* An inbox goes a day after the last push or mark.
InboxExpires(l) ==
    /\ inbox[l] # <<>>
    /\ inbox' = [inbox EXCEPT ![l] = <<>>]
    /\ UNCHANGED <<row, wcall, addressee, readers>>

\* A call is abandoned by a restart or a failed command.
CallFails(w) ==
    /\ wcall[w].pc # "idle"
    /\ End(w)
    /\ UNCHANGED <<row, inbox, addressee, readers>>

MailNext ==
    \/ \E w \in Writers, m \in MailMembers, l \in Names :
          \/ RegisterRead(w, m, l)
          \/ HeartbeatRead(w, m, l)
          \/ DeregisterRead(w, m, l)
          \/ \E from \in Names : PostDm(w, m, from, l)
          \/ MarkRead(w, m, l)
    \/ \E w \in Writers : \/ RegisterWrite(w)
                          \/ HeartbeatWrite(w)
                          \/ DeregisterWrite(w)
                          \/ ReadAddressee(w)
                          \/ Push(w)
                          \/ MarkWrite(w)
                          \/ CallFails(w)
    \/ \E m \in MailMembers, l \in Names : GetDms(m, l)
    \/ \E l \in Names : InboxExpires(l)

MailSpec == MailInit /\ [][MailNext]_mailVars

-----------------------------------------------------------------------------
(* Properties *)

\* Rebinding a label never exposes what was sent to its previous holder: a
\* message is shown to, and marked by, the member who held the label when it
\* was sent, an administrator, or for an unheld label the deployment owner.
MailStaysPrivate ==
    \A x \in readers : Administers(x[2], addressee[x[1]])

\* Calls that mark an inbox at the same time never leave a message in it twice.
MailOnce ==
    \A l \in Names : \A i, j \in DOMAIN inbox[l] :
        inbox[l][i].id = inbox[l][j].id => i = j
=============================================================================

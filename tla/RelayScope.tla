------------------------------ MODULE RelayScope -------------------------------
(***************************************************************************)
(* One FirekeepScope session of Relay (relay/app/scope.py): the screens an  *)
(* agent posts, the answers people give on two surfaces, the arbiter that   *)
(* lets the first answer win, and the decision each answer becomes in       *)
(* Bridge.  A call reads, is suspended, and writes: each Redis command that *)
(* decides something is a step, and a call may fail between any two.        *)
(***************************************************************************)
EXTENDS Naturals, Sequences

CONSTANTS
  Screens,       \* screen ids
  Owner,         \* the member who created the session
  Admins,        \* members with an admin key (the dashboard)
  Choices,       \* what an answer may say
  Surfaces,      \* calls in flight
  Ttl,           \* TTL_SECONDS
  AbandonAfter,  \* ABANDON_AFTER_SECONDS
  MaxDay         \* bound on the time explored

CONSTANTS NoScope, NoScreen, NoAnswer, NoCall

ASSUME ScopeTimes == /\ Ttl \in Nat \ {0}
                     /\ AbandonAfter \in Nat
                     /\ MaxDay \in Nat

VARIABLES
  scope,     \* nr:scope:session: status, origin, days without activity
  screen,    \* nr:scope:screens, a hash of the screens
  listed,    \* how often a screen is in nr:scope:screens_order
  arbiter,   \* nr:scope:answer of a screen, and the days it has left
  marker,    \* nr:scope:persisted of a screen: the days it has left
  left,      \* days left of the session's own keys; 0: no expiry
  pending,   \* the calls in flight
  decided,   \* history: what Bridge was told about a screen, and when
  day

scopeVars == <<scope, screen, listed, arbiter, marker, left, pending, decided, day>>

Answers  == [choice : Choices, deferred : BOOLEAN]
Scopes   == [status : {"active", "completed", "abandoned"}, mcp : BOOLEAN,
             idle : 0..AbandonAfter]
ScreenRecs == [status : {"pending", "resolved"}, answer : Answers \cup {NoAnswer}]
Told     == [key : {Owner} \cup Admins, choice : Choices, day : 0..MaxDay]

MirrorCalls  == [pc : {"mirror", "list"}, s : Screens, new : BOOLEAN]
AnswerCalls  == [pc : {"arbiter", "resolve", "tell"}, s : Screens,
                 by : {Owner} \cup Admins, mcp : BOOLEAN, answer : Answers]
CollectCalls == [pc : {"mark"}, todo : SUBSET (Screens \X Answers)]
                \cup [pc : {"collect"}, todo : SUBSET (Screens \X Answers),
                      item : Screens \X Answers]
CloseCalls   == [pc : {"close", "expire"}, verdict : {"completed", "abandoned"}]
InFlight     == MirrorCalls \cup AnswerCalls \cup CollectCalls \cup CloseCalls
Arbiters     == [answer : Answers, left : 0..Ttl]

ASSUME NothingIsARecord == /\ NoScope \notin Scopes /\ NoScreen \notin ScreenRecs
                           /\ NoAnswer \notin Arbiters /\ NoCall \notin InFlight

ScopeTypeOK ==
  /\ scope   \in Scopes \cup {NoScope}
  /\ screen  \in [Screens -> ScreenRecs \cup {NoScreen}]
  /\ listed  \in [Screens -> Nat]
  /\ arbiter \in [Screens -> Arbiters \cup {NoAnswer}]
  /\ marker  \in [Screens -> 0..Ttl]
  /\ left    \in [session : 0..Ttl, screens : 0..Ttl, order : 0..Ttl]
  /\ pending \in [Surfaces -> InFlight \cup {NoCall}]
  /\ decided \in [Screens -> Seq(Told)]
  /\ day     \in 0..MaxDay

ScopeInit == /\ scope = NoScope
             /\ screen  = [s \in Screens |-> NoScreen]
             /\ listed  = [s \in Screens |-> 0]
             /\ arbiter = [s \in Screens |-> NoAnswer]
             /\ marker  = [s \in Screens |-> 0]
             /\ left    = [session |-> 0, screens |-> 0, order |-> 0]
             /\ pending = [c \in Surfaces |-> NoCall]
             /\ decided = [s \in Screens |-> <<>>]
             /\ day     = 0

-------------------------------------------------------------------------------
(* The session.                                                             *)

\* A scope id that is gone may be used again; what Bridge was told about the
\* new session's screens is nothing yet.
CreateSession(mcp) ==
  /\ scope = NoScope
  /\ scope' = [status |-> "active", mcp |-> mcp, idle |-> 0]
  /\ decided' = [s \in Screens |-> <<>>]
  /\ UNCHANGED <<screen, listed, arbiter, marker, left, pending, day>>

At(c, pc)     == pending[c] # NoCall /\ pending[c].pc = pc
Suspend(c, r) == pending[c] = NoCall /\ pending' = [pending EXCEPT ![c] = r]
Resume(c, pc) == pending' = [pending EXCEPT ![c].pc = pc]
Finish(c)     == pending' = [pending EXCEPT ![c] = NoCall]

Touched == [scope EXCEPT !.idle = 0]

\* scope_complete by the owner, or the sweep that listing the sessions runs.
CloseRead(c, verdict) ==
  /\ scope # NoScope /\ scope.status = "active"
  /\ verdict = "abandoned" => scope.idle = AbandonAfter
  /\ Suspend(c, [pc |-> "close", verdict |-> verdict])
  /\ UNCHANGED <<scope, screen, listed, arbiter, marker, left, decided, day>>

CloseStatus(c) ==
  /\ At(c, "close")
  /\ scope' = [scope EXCEPT !.status = pending[c].verdict]
  /\ Resume(c, "expire")
  /\ UNCHANGED <<screen, listed, arbiter, marker, left, decided, day>>

Shown(s) == listed[s] > 0 /\ screen[s] # NoScreen

\* EXPIRE of every key there is, the answers of the listed screens included.
CloseExpire(c) ==
  /\ At(c, "expire")
  /\ left' = [session |-> Ttl,
              screens |-> IF \E s \in Screens : screen[s] # NoScreen THEN Ttl ELSE 0,
              order   |-> IF \E s \in Screens : listed[s] > 0 THEN Ttl ELSE 0]
  /\ arbiter' = [s \in Screens |->
                   IF Shown(s) /\ arbiter[s] # NoAnswer
                   THEN [arbiter[s] EXCEPT !.left = Ttl] ELSE arbiter[s]]
  /\ Finish(c)
  /\ UNCHANGED <<scope, screen, listed, marker, decided, day>>

-------------------------------------------------------------------------------
(* mirror_screen, by the owner's agent; a retry names the same screen.      *)

MirrorRead(c, s) ==
  /\ scope # NoScope
  /\ screen[s] # NoScreen => screen[s].status = "pending"
  /\ Suspend(c, [pc |-> "mirror", s |-> s, new |-> screen[s] = NoScreen])
  /\ UNCHANGED <<scope, screen, listed, arbiter, marker, left, decided, day>>

MirrorWrite(c) ==
  /\ At(c, "mirror")
  /\ screen' = [screen EXCEPT ![pending[c].s] =
                  [status |-> "pending", answer |-> NoAnswer]]
  /\ IF pending[c].new THEN Resume(c, "list") ELSE Finish(c)
  /\ UNCHANGED <<scope, listed, arbiter, marker, left, decided, day>>

MirrorList(c) ==
  /\ At(c, "list")
  /\ listed' = [listed EXCEPT ![pending[c].s] = @ + 1]
  /\ scope' = Touched
  /\ Finish(c)
  /\ UNCHANGED <<screen, arbiter, marker, left, decided, day>>

-------------------------------------------------------------------------------
(* post_answer, by the owner or an admin.                                   *)

\* Mutant: whoever answers writes the decision.
Deferred_Never(who) == FALSE

\* An answer is deferred when the key that would be presented to Bridge is
\* not the owner's.
Deferred(who) == scope.mcp /\ who # Owner

AnswerRead(c, s, who, choice) ==
  /\ scope # NoScope
  /\ screen[s] # NoScreen
  /\ Suspend(c, [pc |-> "arbiter", s |-> s, by |-> who, mcp |-> scope.mcp,
                 answer |-> [choice |-> choice, deferred |-> Deferred(who)]])
  /\ UNCHANGED <<scope, screen, listed, arbiter, marker, left, decided, day>>

\* Mutant: SET without NX.
AnswerArbiter_Last(c) ==
  /\ At(c, "arbiter")
  /\ arbiter' = [arbiter EXCEPT ![pending[c].s] = [answer |-> pending[c].answer, left |-> 0]]
  /\ Resume(c, "resolve")
  /\ UNCHANGED <<scope, screen, listed, marker, left, decided, day>>

\* SET NX: the loser is told the answer that won.
AnswerArbiter(c) ==
  /\ At(c, "arbiter")
  /\ LET s == pending[c].s IN
     IF arbiter[s] = NoAnswer
     THEN /\ arbiter' = [arbiter EXCEPT ![s] = [answer |-> pending[c].answer, left |-> 0]]
          /\ Resume(c, "resolve")
     ELSE Finish(c) /\ UNCHANGED arbiter
  /\ UNCHANGED <<scope, screen, listed, marker, left, decided, day>>

AnswerResolve(c) ==
  /\ At(c, "resolve")
  /\ screen' = [screen EXCEPT ![pending[c].s] =
                  [status |-> "resolved", answer |-> pending[c].answer]]
  /\ scope' = Touched
  /\ IF pending[c].mcp /\ ~pending[c].answer.deferred
     THEN Resume(c, "tell") ELSE Finish(c)
  /\ UNCHANGED <<listed, arbiter, marker, left, decided, day>>

\* _persist_to_bridge: best effort, never retried.
Tell(s, who, choice) ==
  \/ decided' = [decided EXCEPT ![s] =
                   Append(@, [key |-> who, choice |-> choice, day |-> day])]
  \/ UNCHANGED decided

AnswerTell(c) ==
  /\ At(c, "tell")
  /\ Tell(pending[c].s, pending[c].by, pending[c].answer.choice)
  /\ Finish(c)
  /\ UNCHANGED <<scope, screen, listed, arbiter, marker, left, day>>

-------------------------------------------------------------------------------
(* collect_deferred_decisions, in each poll of the owner's agent.           *)

Owed == {<<s, screen[s].answer>> : s \in {t \in Screens :
           Shown(t) /\ screen[t].status = "resolved" /\ screen[t].answer.deferred}}

CollectRead(c) ==
  /\ scope # NoScope /\ scope.mcp
  /\ Owed # {}
  /\ Suspend(c, [pc |-> "mark", todo |-> Owed])
  /\ UNCHANGED <<scope, screen, listed, arbiter, marker, left, decided, day>>

GoOn(c, todo) == pending' = [pending EXCEPT ![c] =
                   IF todo = {} THEN NoCall ELSE [pc |-> "mark", todo |-> todo]]

\* Mutant: the marker is set, but not looked at.
CollectMark_Blind(c) ==
  /\ At(c, "mark")
  /\ \E item \in pending[c].todo :
       /\ marker' = [marker EXCEPT ![item[1]] = Ttl]
       /\ pending' = [pending EXCEPT ![c] =
            [pc |-> "collect", todo |-> pending[c].todo \ {item}, item |-> item]]
  /\ UNCHANGED <<scope, screen, listed, arbiter, left, decided, day>>

CollectMark(c) ==
  /\ At(c, "mark")
  /\ \E item \in pending[c].todo :
       IF marker[item[1]] = 0
       THEN /\ marker' = [marker EXCEPT ![item[1]] = Ttl]
            /\ pending' = [pending EXCEPT ![c] =
                 [pc |-> "collect", todo |-> pending[c].todo \ {item}, item |-> item]]
       ELSE GoOn(c, pending[c].todo \ {item}) /\ UNCHANGED marker
  /\ UNCHANGED <<scope, screen, listed, arbiter, left, decided, day>>

CollectTell(c) ==
  /\ At(c, "collect")
  /\ Tell(pending[c].item[1], Owner, pending[c].item[2].choice)
  /\ GoOn(c, pending[c].todo)
  /\ UNCHANGED <<scope, screen, listed, arbiter, marker, left, day>>

-------------------------------------------------------------------------------
(* Failures and time.                                                       *)

\* Redis refuses a command, or Relay stops, in the middle of a call.
Fail(c) == /\ pending[c] # NoCall
           /\ Finish(c)
           /\ UNCHANGED <<scope, screen, listed, arbiter, marker, left, decided, day>>

Less(n) == IF n = 0 THEN 0 ELSE n - 1

\* A day: far longer than any call, so none is in flight.  Keys that have no
\* time left are gone.
Day ==
  /\ day < MaxDay /\ \A c \in Surfaces : pending[c] = NoCall
  /\ day' = day + 1
  /\ scope' = IF scope = NoScope \/ left.session = 1 THEN NoScope
              ELSE [scope EXCEPT !.idle = IF @ < AbandonAfter THEN @ + 1 ELSE @]
  /\ screen' = IF left.screens = 1 THEN [s \in Screens |-> NoScreen] ELSE screen
  /\ listed' = IF left.order = 1 THEN [s \in Screens |-> 0] ELSE listed
  /\ left' = [session |-> Less(left.session), screens |-> Less(left.screens),
              order |-> Less(left.order)]
  /\ arbiter' = [s \in Screens |->
                   IF arbiter[s] = NoAnswer \/ arbiter[s].left = 1 THEN NoAnswer
                   ELSE [arbiter[s] EXCEPT !.left = Less(@)]]
  /\ marker' = [s \in Screens |-> Less(marker[s])]
  /\ UNCHANGED <<pending, decided>>

ScopeNext ==
  \/ Day
  \/ \E mcp \in BOOLEAN : CreateSession(mcp)
  \/ \E c \in Surfaces :
       \/ \E verdict \in {"completed", "abandoned"} : CloseRead(c, verdict)
       \/ CloseStatus(c) \/ CloseExpire(c)
       \/ \E s \in Screens : MirrorRead(c, s)
       \/ MirrorWrite(c) \/ MirrorList(c)
       \/ \E s \in Screens, who \in {Owner} \cup Admins, choice \in Choices :
            AnswerRead(c, s, who, choice)
       \/ AnswerArbiter(c) \/ AnswerResolve(c) \/ AnswerTell(c)
       \/ CollectRead(c) \/ CollectMark(c) \/ CollectTell(c)
       \/ Fail(c)

ScopeSpec == ScopeInit /\ [][ScopeNext]_scopeVars

-------------------------------------------------------------------------------
(* Properties.                                                              *)

\* scope.py:302-308: one answer wins - a resolved screen shows the answer the
\* arbiter holds, and Bridge is told no other.
OneAnswer ==
  \A s \in Screens :
    /\ (screen[s] # NoScreen /\ screen[s].status = "resolved") =>
         arbiter[s] # NoAnswer /\ screen[s].answer = arbiter[s].answer
    /\ \A i \in DOMAIN decided[s] :
         arbiter[s] # NoAnswer => decided[s][i].choice = arbiter[s].answer.choice

\* scope.py:21-34: Bridge is told of a decision with a key of the member who
\* owns the session, whoever answered.
OwnersKey ==
  \A s \in Screens : \A i \in DOMAIN decided[s] : decided[s][i].key = Owner

\* scope.py:357-385: while a marker lives, no second poll tells Bridge of the
\* same decision again.
ToldOncePerTtl ==
  \A s \in Screens : \A i, j \in DOMAIN decided[s] :
    i < j => decided[s][j].day >= decided[s][i].day + Ttl

-------------------------------------------------------------------------------
(* Why these hold (RelayProofs).                                       *)

Held(s) == arbiter[s] # NoAnswer

\* The session outlives every call, and its keys and its answers' end together.
LifeInv ==
  /\ scope = NoScope => left.session = 0 /\ \A c \in Surfaces : pending[c] = NoCall
  /\ scope # NoScope /\ scope.status = "active" => left.session = 0
  /\ \A c \in Surfaces : At(c, "close") \/ At(c, "expire") => left.session \in {0, Ttl}
  /\ \A c \in Surfaces : At(c, "expire") => scope.status # "active"
  /\ left.screens > 0 => \E s \in Screens : screen[s] # NoScreen
  /\ \A s \in Screens : Held(s) /\ arbiter[s].left > 0
       => left.session = arbiter[s].left /\ left.screens = arbiter[s].left

Winner(c) == At(c, "resolve") \/ At(c, "tell")

\* One call holds a screen's answer from the arbiter on; the owner's own answers
\* are the ones that are not deferred.
WinnerInv ==
  /\ \A c \in Surfaces : At(c, "arbiter") \/ Winner(c) =>
       pending[c].answer.deferred = (pending[c].mcp /\ pending[c].by # Owner)
  /\ \A c \in Surfaces : At(c, "tell") =>
       pending[c].mcp /\ ~pending[c].answer.deferred
  /\ \A c \in Surfaces : Winner(c) =>
       Held(pending[c].s) /\ arbiter[pending[c].s].answer = pending[c].answer
  /\ \A c, d \in Surfaces :
       Winner(c) /\ Winner(d) /\ pending[c].s = pending[d].s => c = d

ToCollect(c) == IF At(c, "mark") THEN pending[c].todo
                ELSE IF At(c, "collect") THEN pending[c].todo \cup {pending[c].item}
                ELSE {}

\* What a poll has read is what the arbiter holds, and whoever set the marker is
\* alone with the screen, the last telling a marker's life ago.
CollectInv ==
  /\ \A c \in Surfaces : \A item \in ToCollect(c) :
       Held(item[1]) /\ arbiter[item[1]].answer = item[2] /\ item[2].deferred
  /\ \A c \in Surfaces : At(c, "collect") =>
       /\ marker[pending[c].item[1]] = Ttl
       /\ \A i \in DOMAIN decided[pending[c].item[1]] :
            decided[pending[c].item[1]][i].day + Ttl <= day
  /\ \A c, d \in Surfaces :
       At(c, "collect") /\ At(d, "collect") /\ pending[c].item[1] = pending[d].item[1]
       => c = d

\* Bridge has been told of nothing the arbiter does not hold: once by an owner,
\* and of a deferred answer not after the marker's last setting.
ToldInv ==
  /\ \A s \in Screens : scope # NoScope /\ ~Held(s) => decided[s] = <<>>
  /\ \A c \in Surfaces : Winner(c) /\ ~pending[c].answer.deferred
       => decided[pending[c].s] = <<>>
  /\ \A s \in Screens : scope # NoScope /\ Held(s) /\ arbiter[s].answer.deferred
       => \A i \in DOMAIN decided[s] : decided[s][i].day + Ttl <= day + marker[s]
===============================================================================

------------------------------ MODULE RelayTasks ------------------------------
(***************************************************************************)
(* Relay's task queue and bulletin board (relay/app/tasks.py, bulletin.py).*)
(* A task's writers are the principals the auth layer verified; None is a  *)
(* caller nobody could verify.  An update reads the task and writes it in  *)
(* one transaction later; a creation and a deletion are several commands.  *)
(* A post to the board is one step here: its commands are about its own    *)
(* record, and about the board, which only this code writes.               *)
(*                                                                         *)
(* Left out: fields nothing is decided from (title, files, assignee, and   *)
(* the history, which an update rewrites from what it read), the filters   *)
(* of a listing, and the expiry of a task index that is touched by every   *)
(* creation.                                                               *)
(***************************************************************************)
EXTENDS Naturals

CONSTANTS Tasks, Principals, Updates,   \* task ids, verified callers, calls in flight
          Posts, MaxLife,               \* bulletin posts and their lifetimes
          Nil                           \* an absent field, record or principal

ASSUME LifeAssumption == MaxLife \in Nat

VARIABLES task,      \* nr:task:<id>
          index,     \* nr:tasks
          ucall,     \* calls in flight
          post,      \* nr:post:<id>: the time it has left
          board,     \* nr:bulletin: its members and the time it has left
          deleted    \* history: tasks that were deleted

taskVars == <<task, index, ucall, post, board, deleted>>

Statuses == {"pending", "working", "completed"}
Terminal == {"completed"}
Writer   == Principals \cup {Nil}

\* wrote is not stored: it is the caller of the last write, the answer included.
TaskRecord == [status : Statuses \cup {Nil}, created : Writer, updated : Writer,
               completed : Writer, expires : BOOLEAN, wrote : Writer]
NoUpdate == [pc |-> "idle", task |-> Nil, by |-> Nil, status |-> Nil, ends |-> Nil]

TasksTypeOK ==
    /\ task \in [Tasks -> TaskRecord \cup {Nil}]
    /\ index \subseteq Tasks
    /\ ucall \in [Updates -> [pc : {"idle", "created", "found", "read", "deleted"},
                              task : Tasks \cup {Nil}, by : Writer, status : Statuses \cup {Nil},
                              ends : Statuses \cup {Nil}]]
    /\ post \in [Posts -> 0 .. MaxLife \cup {Nil}]
    /\ board \in [posts : SUBSET Posts, life : 0 .. MaxLife]
    /\ deleted \subseteq Tasks

TasksInit ==
    /\ task = [t \in Tasks |-> Nil]
    /\ index = {}
    /\ ucall = [u \in Updates |-> NoUpdate]
    /\ post = [p \in Posts |-> Nil]
    /\ board = [posts |-> {}, life |-> 0]
    /\ deleted = {}

Others == UNCHANGED <<post, board>>
Finish(u) == ucall' = [ucall EXCEPT ![u] = NoUpdate]

-----------------------------------------------------------------------------
\* create_task: the hash; a task id is used once.
CreateHash(u, t, w) ==
    /\ ucall[u].pc = "idle"
    /\ task[t] = Nil /\ t \notin index \cup deleted
    /\ task' = [task EXCEPT ![t] = [status |-> "pending", created |-> w, updated |-> Nil,
                   completed |-> Nil, expires |-> FALSE, wrote |-> w]]
    /\ ucall' = [ucall EXCEPT ![u] = [NoUpdate EXCEPT !.pc = "created", !.task = t]]
    /\ UNCHANGED <<index, deleted>> /\ Others

\* ... its lifetime, and its place in the index.
CreateIndex(u) ==
    /\ ucall[u].pc = "created"
    /\ LET t == ucall[u].task IN
       /\ task' = IF task[t] = Nil THEN task ELSE [task EXCEPT ![t].expires = TRUE]
       /\ index' = index \cup {t}
    /\ Finish(u)
    /\ UNCHANGED deleted /\ Others

\* update_task: does the task exist, ...
UpdateFinds(u, t, w, s) ==
    /\ ucall[u].pc = "idle"
    /\ task[t] # Nil
    /\ ucall' = [ucall EXCEPT ![u] = [NoUpdate EXCEPT !.pc = "found", !.task = t,
                                                      !.by = w, !.status = s]]
    /\ UNCHANGED <<task, index, deleted>> /\ Others

\* ... the status it keeps, unless it is given one ...
UpdateReads(u) ==
    /\ ucall[u].pc = "found"
    /\ LET x == task[ucall[u].task]
           s == ucall[u].status
       IN ucall' = [ucall EXCEPT ![u].pc = "read",
             ![u].ends = IF s # Nil THEN s ELSE IF x = Nil THEN Nil ELSE x.status]
    /\ UNCHANGED <<task, index, deleted>> /\ Others

\* The hash a transaction creates when the task is gone by then.
Bare == [status |-> Nil, created |-> Nil, updated |-> Nil, completed |-> Nil,
         expires |-> FALSE, wrote |-> Nil]

\* Mutant: without a verified caller the stamps are left alone.
Stamps_Inherited(x, w, ends) ==
    [updated |-> IF w = Nil THEN x.updated ELSE w,
     completed |-> IF w = Nil THEN x.completed ELSE IF ends \in Terminal THEN w ELSE Nil]

\* Who is named after a write by w of a task that was last seen in status ends.
Stamps(x, w, ends) ==
    [updated |-> w, completed |-> IF ends \in Terminal THEN w ELSE Nil]

\* ... and one transaction for the fields and the stamps.
UpdateWrites(u) ==
    /\ ucall[u].pc = "read"
    /\ LET c == ucall[u]
           x == IF task[c.task] = Nil THEN Bare ELSE task[c.task]
           stamps == Stamps(x, c.by, c.ends)
       IN task' = [task EXCEPT ![c.task] =
             [x EXCEPT !.updated = stamps.updated, !.completed = stamps.completed, !.wrote = c.by,
                       !.status  = IF c.status = Nil THEN x.status ELSE c.status]]
    /\ Finish(u)
    /\ UNCHANGED <<index, deleted>> /\ Others

\* delete_task: the hash, then its place in the index.
DeleteHash(u, t) ==
    /\ ucall[u].pc = "idle"
    /\ t \in index
    /\ deleted' = deleted \cup (IF task[t] = Nil THEN {} ELSE {t})
    /\ task' = [task EXCEPT ![t] = Nil]
    /\ ucall' = [ucall EXCEPT ![u] = [NoUpdate EXCEPT !.pc = "deleted", !.task = t]]
    /\ UNCHANGED index /\ Others

DeleteIndex(u) ==
    /\ ucall[u].pc = "deleted"
    /\ index' = index \ {ucall[u].task}
    /\ Finish(u)
    /\ UNCHANGED <<task, deleted>> /\ Others

TaskExpires(t) ==
    /\ task[t] # Nil
    /\ task[t].expires
    /\ task' = [task EXCEPT ![t] = Nil]
    /\ UNCHANGED <<index, ucall, deleted>> /\ Others

\* list_tasks drops from the index what it found without a hash.
List ==
    /\ \E t \in index : task[t] = Nil
    /\ index' = {t \in index : task[t] # Nil}
    /\ UNCHANGED <<task, ucall, deleted>> /\ Others

UpdateFails(u) ==
    /\ ucall[u].pc # "idle"
    /\ Finish(u)
    /\ UNCHANGED <<task, index, deleted>> /\ Others

-----------------------------------------------------------------------------
(* The bulletin board *)

\* post_bulletin: the post, and a place on the board, whose own lifetime
\* becomes that of the post.
PostBulletin(p, life) ==
    /\ post[p] = Nil
    /\ post' = [post EXCEPT ![p] = life]
    /\ board' = [posts |-> board.posts \cup {p}, life |-> life]
    /\ UNCHANGED <<task, index, ucall, deleted>>

Hour ==
    /\ \E p \in Posts : post[p] \notin {Nil, 0}
    /\ post' = [p \in Posts |-> IF post[p] \in {Nil, 0} THEN post[p] ELSE post[p] - 1]
    /\ board' = IF board.life <= 1 THEN [posts |-> {}, life |-> 0]
                ELSE [board EXCEPT !.life = @ - 1]
    /\ UNCHANGED <<task, index, ucall, deleted>>

\* read_bulletin drops from the board what it found without a post.
ReadBulletin ==
    /\ \E p \in board.posts : post[p] = 0
    /\ board' = [board EXCEPT !.posts = {p \in board.posts : post[p] # 0}]
    /\ UNCHANGED <<task, index, ucall, post, deleted>>

TaskNext ==
    \/ \E u \in Updates, t \in Tasks, w \in Writer :
          \/ CreateHash(u, t, w)
          \/ \E s \in Statuses \cup {Nil} : UpdateFinds(u, t, w, s)
    \/ \E u \in Updates, t \in Tasks : DeleteHash(u, t)
    \/ \E u \in Updates : \/ CreateIndex(u)
                          \/ UpdateReads(u)
                          \/ UpdateWrites(u)
                          \/ DeleteIndex(u)
                          \/ UpdateFails(u)
    \/ \E t \in Tasks : TaskExpires(t)
    \/ List

BoardNext ==
    \/ \E p \in Posts, life \in 1 .. MaxLife : PostBulletin(p, life)
    \/ Hour
    \/ ReadBulletin

TasksNext == TaskNext \/ BoardNext

TasksSpec == TasksInit /\ [][TasksNext]_taskVars

-----------------------------------------------------------------------------
(* Properties *)

\* No reader sees a write's result under an earlier writer's name: whoever a
\* task says completed or updated it last wrote to it last.
CompletedByLastWriter ==
    \A t \in Tasks : task[t] # Nil =>
        /\ task[t].completed \in {Nil, task[t].wrote}
        /\ task[t].updated \in {Nil, task[t].wrote}
=============================================================================

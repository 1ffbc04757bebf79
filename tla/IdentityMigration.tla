--------------------------- MODULE IdentityMigration ---------------------------
(***************************************************************************)
(* The freeze migration of memory ids (memory_identity_migration.py): a    *)
(* dry run plans, a copy under new ids is made beside the live collection, *)
(* the operator flips to it, the graph's references and the recall counts  *)
(* are rewritten, a verification marks the run complete.  Each command may *)
(* stop anywhere and is run again.  Besides: the operator, who follows the *)
(* guide (backup-and-restore.md), writers outside the freeze, and the      *)
(* nightly scoring pass (owm.py), which translates the ids of old events.  *)
(*                                                                         *)
(* An id is minted from a text, in an old way and a new one; a text edited *)
(* later leaves its id behind.  Left out: references inside payloads,      *)
(* vectors, collection parameters and search parity, chain nodes and       *)
(* last_recalled (both rewritten as the rest is), skill scores, private    *)
(* collections and paths given by flag.                                    *)
(***************************************************************************)
EXTENDS FiniteSetsExt, Functions, Integers, TLC

CONSTANTS LastText,     \* texts are 1 .. LastText
          Stores,       \* the collections a run may find
          MaxWrites,    \* bound on writes outside the freeze
          RollsBack,    \* whether the operator may undo an attempt
          Other,        \* what is no memory: corpus, dreams, skills, quarantine
          Nothing       \* no point, no run, no plan, no file, no collection

VARIABLES source, shadow,  \* the collections: what each id holds; copies know their origins
          live, frozen,    \* QDRANT_COLLECTION and MIGRATION_FREEZE
          state,           \* mem:migration:v2:state
          plan, idmap,     \* the artifacts on disk
          cache, counted,  \* mem:idmap:v2 and mem:idmap:v2:count
          marker,          \* mem:migration:v2:complete
          refs,            \* MemoryRef nodes: by id, whose relationships each has
          hits,            \* memory:access_counts
          events, scored,  \* ids named by events in the window; live points with a score
          tool, writes

storeVars == <<source, shadow, live, frozen>>
fileVars  == <<plan, idmap, cache, counted, marker>>
sideVars  == <<refs, hits, events, scored>>
migrVars  == <<storeVars, state, fileVars, sideVars, tool, writes>>

Texts == 1 .. LastText
Ids   == 1 .. 2 * LastText
V2(m) == 2 * m      \* memory_point_id; 2m - 1 is the old id, which tells no more than any other

MigrSteps == <<"copy", "flipped", "graph_remap", "hash_fold", "verify">>
StepNo(s) == CHOOSE n \in DOMAIN MigrSteps : MigrSteps[n] = s
Groups == 2 * LastText + 1   \* the cursor past the last id: __groups__
IdleTool == [pc |-> "idle", todo |-> {}, folded |-> <<>>]

Contents == Texts \cup {Other, Nothing}
Copies   == [Ids -> [holds : Contents, from : SUBSET Ids]]
Progress == [step : {"copy", "flipped", "graph_remap", "hash_fold", "verify"},
             status : {"in_progress", "complete"}, cursor : 1 .. Groups, count : Nat]

ASSUME MigrAssumption ==
    /\ LastText \in Nat
    /\ Other \notin Texts /\ Nothing \notin Texts /\ Other # Nothing
    /\ Nothing \notin Copies /\ Nothing \notin Progress
    /\ Stores \subseteq [Ids -> Contents]

-----------------------------------------------------------------------------
(* Classification and the plan, of what a collection holds *)

Points(st)    == {i \in Ids : st[i] # Nothing}
Target(st, i) == IF st[i] \in Texts THEN V2(st[i]) ELSE i
Moving(st)    == {i \in Points(st) : Target(st, i) # i}
Mapping(st)   == [i \in Moving(st) |-> Target(st, i)]
Sharing(st, j) == {i \in Points(st) : st[i] \in Texts /\ Target(st, i) = j}
TargetGroups(st) == {j \in Ids : Cardinality(Sharing(st, j)) > 1}

\* A target held by something that is no memory and stays.
Conflicts(st) == {i \in Moving(st) : st[Target(st, i)] = Other}

Bucket(st, i) == IF st[i] = Other THEN "other" ELSE IF i = V2(st[i]) THEN "v2" ELSE "v1"
Counts(st) == [b \in {"other", "v2", "v1"} |-> Cardinality({i \in Points(st) : Bucket(st, i) = b})]
Expected(st) ==
    LET targets == {Target(st, i) : i \in {k \in Points(st) : st[k] \in Texts}} IN
    [Counts(st) EXCEPT !["v1"] = 0, !["v2"] = Cardinality(targets)]

Empty      == [i \in Ids |-> [holds |-> Nothing, from |-> {}]]
ShadowHolds == [i \in Ids |-> shadow[i].holds]

MigrInit ==
    /\ source \in Stores
    /\ shadow = Nothing /\ live = "source" /\ frozen = FALSE
    /\ state = Nothing /\ plan = Nothing /\ idmap = Nothing
    /\ cache = <<>> /\ counted = Nothing /\ marker = FALSE
    /\ events \in SUBSET {i \in Points(source) : source[i] \in Texts}
    /\ scored = events
    /\ refs = [i \in Ids |-> {i} \cap events]
    /\ hits = [i \in Ids |-> IF i \in events THEN 1 ELSE 0]
    /\ tool = IdleTool /\ writes = 0

-----------------------------------------------------------------------------
(* The operator and the rest of the deployment *)

ToolIdle == tool.pc = "idle"
StepTo(pc) == tool' = [tool EXCEPT !.pc = pc]

\* Workers stopped, MIGRATION_FREEZE=true.
Freeze ==
    /\ ~frozen /\ ~marker
    /\ frozen' = TRUE
    /\ UNCHANGED <<source, shadow, live, state, fileVars, sideVars, tool, writes>>

Flip ==
    /\ ToolIdle /\ frozen /\ live = "source" /\ shadow # Nothing
    /\ state # Nothing /\ state.step = "copy" /\ state.status = "complete"
    /\ live' = "shadow"
    /\ scored' = {Target(source, i) : i \in scored}
    /\ UNCHANGED <<source, shadow, frozen, state, fileVars, refs, hits, events, tool, writes>>

Unfreeze ==
    /\ ToolIdle /\ frozen
    /\ state # Nothing /\ state.step = "verify" /\ state.status = "complete"
    /\ frozen' = FALSE
    /\ UNCHANGED <<source, shadow, live, state, fileVars, sideVars, tool, writes>>

\* "delete the shadow collection and unset MIGRATION_FREEZE".
Rollback ==
    /\ RollsBack /\ ToolIdle /\ frozen /\ live = "source" /\ state # Nothing
    /\ shadow' = Nothing /\ frozen' = FALSE
    /\ UNCHANGED <<source, live, state, fileVars, sideVars, tool, writes>>

\* Outside the freeze a text is learned under its new id, or edited in place.
Learn(m) ==
    /\ ~frozen /\ live = "source" /\ writes < MaxWrites
    /\ \/ source[V2(m)] = Nothing /\ source' = [source EXCEPT ![V2(m)] = m]
       \/ \E i \in Ids : /\ source[i] \in Texts \ {m}
                         /\ source' = [source EXCEPT ![i] = m]
    /\ source' \in Stores
    /\ writes' = writes + 1
    /\ UNCHANGED <<shadow, live, frozen, state, fileVars, sideVars, tool>>

\* After a restart some fields of the cache may be gone.
CacheLoss(i) ==
    /\ marker /\ i \in DOMAIN cache
    /\ cache' = Restrict(cache, DOMAIN cache \ {i})
    /\ UNCHANGED <<storeVars, state, plan, idmap, counted, marker, sideVars, tool, writes>>

-----------------------------------------------------------------------------
(* The state machine *)

IsComplete(step) ==
    /\ state # Nothing
    /\ IF state.step = step THEN state.status = "complete"
       ELSE StepNo(state.step) > StepNo(step)

\* Mutant: any step may be the next.
PriorsComplete_Any(step) == state # Nothing

\* _require_step_complete.
PriorsComplete(step) == \A n \in 1 .. StepNo(step) - 1 : IsComplete(MigrSteps[n])

Reach(step, status) == state' = [state EXCEPT !.step = step, !.status = status]

\* _require_fingerprint.
SourceUnmoved == state.count = Cardinality(Points(source))

\* A crash, or the tool is stopped.
Stop ==
    /\ ~ToolIdle
    /\ tool' = IdleTool
    /\ UNCHANGED <<storeVars, state, fileVars, sideVars, writes>>

\* A dry run of the run's own shadow is refused.
DryRun ==
    /\ ToolIdle
    /\ plan' = source
    /\ UNCHANGED <<storeVars, state, idmap, cache, counted, marker, sideVars, tool, writes>>

-----------------------------------------------------------------------------
(* execute and resume: the copy *)

Planned == /\ plan # Nothing
           /\ Counts(source) = Counts(plan)
           /\ Conflicts(source) = {}

Execute ==
    /\ ToolIdle /\ frozen /\ live = "source" /\ Planned
    /\ \/ /\ state = Nothing /\ shadow = Nothing
          /\ state' = [step |-> "copy", status |-> "in_progress", cursor |-> 1,
                       count |-> Cardinality(Points(source))]
       \/ /\ state # Nothing /\ state.step = "copy" /\ state.status # "complete"
          /\ SourceUnmoved
          /\ UNCHANGED state
    /\ StepTo("map")
    /\ UNCHANGED <<storeVars, fileVars, sideVars, writes>>

WriteMap ==
    /\ tool.pc = "map"
    /\ idmap' = Mapping(source)
    /\ StepTo("mirror")
    /\ UNCHANGED <<storeVars, state, plan, cache, counted, marker, sideVars, writes>>

\* In batches, of which a stop leaves some.
MirrorMap ==
    /\ tool.pc = "mirror"
    /\ \E S \in SUBSET DOMAIN idmap :
          /\ cache' = Restrict(idmap, S) @@ cache
          /\ IF S = DOMAIN idmap THEN StepTo("create") ELSE tool' = IdleTool
    /\ UNCHANGED <<storeVars, state, plan, idmap, counted, marker, sideVars, writes>>

CreateShadow ==
    /\ tool.pc = "create"
    /\ shadow' = IF shadow = Nothing THEN Empty ELSE shadow
    /\ StepTo("copy")
    /\ UNCHANGED <<source, live, frozen, state, fileVars, sideVars, writes>>

Upsert(j, from) == shadow' = [shadow EXCEPT ![j] = [holds |-> source[CHOOSE i \in from : TRUE], from |-> from]]

\* The points that share a target are left to the groups.
Straight == {i \in Points(source) : i >= state.cursor}
NextPoint == Min(Straight)
Grouped(i) == source[i] \in Texts /\ Target(source, i) \in TargetGroups(source)

CopyPoint ==
    /\ tool.pc = "copy" /\ Straight # {}
    /\ IF Grouped(NextPoint) THEN UNCHANGED shadow
       ELSE Upsert(Target(source, NextPoint), {NextPoint})
    /\ StepTo("cursor")
    /\ UNCHANGED <<source, live, frozen, state, fileVars, sideVars, writes>>

SaveCursor ==
    /\ tool.pc = "cursor"
    /\ state' = [state EXCEPT !.cursor = NextPoint + 1]
    /\ StepTo("copy")
    /\ UNCHANGED <<storeVars, fileVars, sideVars, writes>>

StartGroups ==
    /\ tool.pc = "copy" /\ Straight = {}
    /\ state' = [state EXCEPT !.cursor = Groups]
    /\ tool' = [tool EXCEPT !.pc = "groups", !.todo = TargetGroups(source)]
    /\ UNCHANGED <<storeVars, fileVars, sideVars, writes>>

CopyGroup ==
    /\ tool.pc = "groups" /\ tool.todo # {}
    /\ Upsert(Min(tool.todo), Sharing(source, Min(tool.todo)))
    /\ tool' = [tool EXCEPT !.todo = @ \ {Min(tool.todo)}]
    /\ UNCHANGED <<source, live, frozen, state, fileVars, sideVars, writes>>

FinishCopy ==
    /\ tool.pc = "groups" /\ tool.todo = {}
    /\ Reach("copy", "complete")
    /\ tool' = IdleTool
    /\ UNCHANGED <<storeVars, fileVars, sideVars, writes>>

-----------------------------------------------------------------------------
(* mark-flipped, graph-remap, fold-hashes *)

MarkFlipped ==
    /\ ToolIdle /\ PriorsComplete("flipped") /\ live = "shadow"
    /\ Reach("flipped", "complete")
    /\ UNCHANGED <<storeVars, fileVars, sideVars, tool, writes>>

Nodes == {i \in Ids : refs[i] # {}}

RemapBegin ==
    /\ ToolIdle /\ frozen /\ PriorsComplete("graph_remap") /\ idmap # Nothing
    /\ Reach("graph_remap", "in_progress")
    /\ tool' = [tool EXCEPT !.pc = "rounds", !.todo = DOMAIN idmap \cap Nodes]
    /\ UNCHANGED <<storeVars, fileVars, sideVars, writes>>

\* What can move now: to an id that is free, one node each.
Movable(todo) == {i \in todo : /\ idmap[i] \notin Nodes
                               /\ \A k \in todo : idmap[k] = idmap[i] => i <= k}

RemapRound ==
    /\ tool.pc = "rounds" /\ Movable(tool.todo) # {}
    /\ LET moves == Movable(tool.todo) IN
       /\ refs' = [j \in Ids |-> IF \E i \in moves : idmap[i] = j
                                 THEN refs[Max({i \in moves : idmap[i] = j})]
                                 ELSE IF j \in moves THEN {} ELSE refs[j]]
       /\ tool' = [tool EXCEPT !.todo = @ \ moves]
    /\ UNCHANGED <<storeVars, state, fileVars, hits, events, scored, writes>>

\* A target held by a node that stays; two nodes that wait for each other are left.
Collisions(todo) == {i \in todo : idmap[i] \notin todo}

RemapMerge ==
    /\ tool.pc = "rounds" /\ Movable(tool.todo) = {}
    /\ refs' = [j \in Ids |-> refs[j] \cup UNION {refs[i] : i \in {k \in Collisions(tool.todo) : idmap[k] = j}}]
    /\ StepTo("delete")
    /\ UNCHANGED <<storeVars, state, fileVars, hits, events, scored, writes>>

RemapDelete ==
    /\ tool.pc = "delete"
    /\ refs' = [j \in Ids |-> IF j \in Collisions(tool.todo) THEN {} ELSE refs[j]]
    /\ StepTo("remapped")
    /\ UNCHANGED <<storeVars, state, fileVars, hits, events, scored, writes>>

RemapDone ==
    /\ tool.pc = "remapped"
    /\ Reach("graph_remap", "complete")
    /\ tool' = IdleTool
    /\ UNCHANGED <<storeVars, fileVars, sideVars, writes>>

\* HGETALL, and what it becomes through the map.
NewId(i) == IF i \in DOMAIN idmap THEN idmap[i] ELSE i
Folded == LET fields == {i \in Ids : hits[i] > 0} IN
          [j \in {NewId(i) : i \in fields} |-> MapThenSumSet(LAMBDA i : hits[i], {i \in fields : NewId(i) = j})]

FoldBegin ==
    /\ ToolIdle /\ frozen /\ PriorsComplete("hash_fold") /\ idmap # Nothing
    /\ Reach("hash_fold", "in_progress")
    /\ tool' = [tool EXCEPT !.pc = "hdel", !.folded = Folded]
    /\ UNCHANGED <<storeVars, fileVars, sideVars, writes>>

FoldDelete ==
    /\ tool.pc = "hdel"
    /\ hits' = [i \in Ids |-> IF i \in DOMAIN tool.folded THEN hits[i] ELSE 0]
    /\ StepTo("hset")
    /\ UNCHANGED <<storeVars, state, fileVars, refs, events, scored, writes>>

FoldWrite ==
    /\ tool.pc = "hset"
    /\ hits' = [i \in Ids |-> IF i \in DOMAIN tool.folded THEN tool.folded[i] ELSE hits[i]]
    /\ StepTo("folded")
    /\ UNCHANGED <<storeVars, state, fileVars, refs, events, scored, writes>>

FoldDone ==
    /\ tool.pc = "folded"
    /\ Reach("hash_fold", "complete")
    /\ tool' = IdleTool
    /\ UNCHANGED <<storeVars, fileVars, sideVars, writes>>

-----------------------------------------------------------------------------
(* verify *)

\* Mutant: the census is left to the sample.
CensusFits_Any == TRUE

CensusFits == shadow # Nothing /\ Counts(ShadowHolds) = Expected(plan)

\* A sample of the points that moved alone, none only if there is none.
Sampled(i) == i \in shadow[idmap[i]].from /\ shadow[idmap[i]].holds = source[i]
SampleFits ==
    LET alone == {i \in Moving(plan) \cap DOMAIN idmap : Target(plan, i) \notin TargetGroups(plan)} IN
    /\ DOMAIN idmap # {} => alone # {}
    /\ \E sample \in SUBSET alone : /\ alone # {} => sample # {}
                                    /\ \A i \in sample : Sampled(i)

Verify ==
    /\ ToolIdle /\ frozen /\ PriorsComplete("verify") /\ SourceUnmoved
    /\ idmap # Nothing /\ plan # Nothing
    /\ Cardinality(Points(plan)) = state.count
    /\ Reach("verify", "in_progress")
    /\ IF CensusFits /\ SampleFits THEN StepTo("mark") ELSE UNCHANGED tool
    /\ UNCHANGED <<storeVars, fileVars, sideVars, writes>>

WriteMarker ==
    /\ tool.pc = "mark"
    /\ marker' = TRUE
    /\ StepTo("count")
    /\ UNCHANGED <<storeVars, state, plan, idmap, cache, counted, sideVars, writes>>

WriteCount ==
    /\ tool.pc = "count"
    /\ counted' = Cardinality(DOMAIN idmap)
    /\ StepTo("verified")
    /\ UNCHANGED <<storeVars, state, plan, idmap, cache, marker, sideVars, writes>>

VerifyDone ==
    /\ tool.pc = "verified"
    /\ Reach("verify", "complete")
    /\ tool' = IdleTool
    /\ UNCHANGED <<storeVars, fileVars, sideVars, writes>>

-----------------------------------------------------------------------------
(* owm.py: a pass scores what events name and resets every other score *)

SkipSweep == marker /\ (DOMAIN cache = {} \/ counted # Cardinality(DOMAIN cache))

OwmPass ==
    /\ ~frozen
    /\ LET named == {IF e \in DOMAIN cache THEN cache[e] ELSE e : e \in events}
           holds == IF live = "source" THEN source ELSE ShadowHolds
           found == {i \in named : holds[i] \in Texts}
       IN  scored' = IF SkipSweep THEN scored \cup found ELSE found
    /\ UNCHANGED <<storeVars, state, fileVars, refs, hits, events, tool, writes>>

-----------------------------------------------------------------------------

MigrNext ==
    \/ Freeze \/ Flip \/ Unfreeze \/ Rollback
    \/ \E m \in Texts : Learn(m)
    \/ \E i \in Ids : CacheLoss(i)
    \/ Stop \/ DryRun
    \/ Execute \/ WriteMap \/ MirrorMap \/ CreateShadow
    \/ CopyPoint \/ SaveCursor \/ StartGroups \/ CopyGroup \/ FinishCopy
    \/ MarkFlipped
    \/ RemapBegin \/ RemapRound \/ RemapMerge \/ RemapDelete \/ RemapDone
    \/ FoldBegin \/ FoldDelete \/ FoldWrite \/ FoldDone
    \/ Verify \/ WriteMarker \/ WriteCount \/ VerifyDone
    \/ OwmPass

MigrSpec == MigrInit /\ [][MigrNext]_migrVars

-----------------------------------------------------------------------------
(* Properties *)

\* "Prove the shadow is the source, re-keyed - exactly" (verify's docstring): when
\* the completion marker is there, every point has its place in the shadow and
\* nothing else is in it, whatever was stopped, resumed or rolled back before.
MarkedIsWhole ==
    marker => \A j \in Ids :
        shadow[j].from = {i \in Points(source) : Target(source, i) = j}

\* What names memories by id follows them.  The graph is not remapped before the
\* flip, when "the remapped rows name ids the live collection lacks"; remapped, each
\* memory's relationships are at its new id, and at no other's; and folded, no
\* memory is counted twice ("a reset-to-absent crash window beats a silent
\* double-count").
NamesFollow ==
    /\ live = "source" => \A i \in Nodes : source[i] # Nothing
    /\ IsComplete("graph_remap") =>
           \A j \in Ids : refs[j] = {i \in events : Target(source, i) = j}
    /\ IsComplete("hash_fold") =>
           \A j \in Ids : hits[j] <= Cardinality({i \in events : Target(source, i) = j})

\* "Delete the shadow collection and unset MIGRATION_FREEZE to fully undo the attempt"
\* (backup-and-restore.md:263-264): a memory that events of the window name keeps its
\* score, before, after and without a migration.
ScoresSurvive ==
    \A i \in events : (IF live = "source" THEN i ELSE Target(source, i)) \in scored
===============================================================================

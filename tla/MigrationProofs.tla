---------------------------- MODULE MigrationProofs ----------------------------
(***************************************************************************)
(* The migration of memory ids, for any texts and any store: when the      *)
(* marker is set, the copy is the source under new ids, exactly; and what  *)
(* names memories by id follows them.                                      *)
(*                                                                         *)
(* What is copied is exact wherever the tool stops, as long as the source  *)
(* stays as it was when the run began.  That all of it is there has two    *)
(* reasons.  While nobody undoes the attempt, the cursor only passes what  *)
(* was copied.  When somebody does, the cursor goes on over an empty copy, *)
(* and it is the census of verify that counts what is missing.             *)
(*                                                                         *)
(* References and counts are rewritten after the flip, by the map that was *)
(* written before it: a relationship is at the old id or where the map     *)
(* takes it, and a count is the old one or the sum of what goes there.     *)
(***************************************************************************)
EXTENDS IdentityMigration, FiniteSetTheorems, WellFoundedInduction, NaturalsInduction, TLAPS

\* The points that hold what j is to hold, and a place in the copy as it is before
\* and after they were copied.
Origins(j) == {i \in Points(source) : Target(source, i) = j}
Blank(j)   == shadow[j] = [holds |-> Nothing, from |-> {}]
Exact(j)   == /\ Origins(j) # {}
              /\ shadow[j] = [holds |-> source[CHOOSE i \in Origins(j) : TRUE], from |-> Origins(j)]
AllExact   == \A j \in Ids : Origins(j) # {} => Exact(j)

CopyPcs  == {"map", "mirror", "create", "copy", "cursor", "groups"}
LaterPcs == {"rounds", "delete", "remapped", "hdel", "hset", "folded", "mark", "count", "verified"}

StoreOK == /\ source \in [Ids -> Contents] /\ shadow \in Copies \cup {Nothing}
           /\ live \in {"source", "shadow"} /\ frozen \in BOOLEAN /\ marker \in BOOLEAN
           /\ state \in Progress \cup {Nothing}
ToolOK  == /\ tool = [pc |-> tool.pc, todo |-> tool.todo, folded |-> tool.folded]
           /\ tool.pc \in {"idle"} \cup CopyPcs \cup LaterPcs /\ tool.todo \subseteq Ids

\* The step a run has reached, the collection that is live and what the tool does
\* belong together.
StageInv ==
  /\ state = Nothing => shadow = Nothing /\ live = "source" /\ tool.pc = "idle" /\ ~marker
  /\ state # Nothing => Conflicts(source) = {} /\ (state.step # "copy" => live = "shadow")
  /\ live = "shadow" => shadow # Nothing /\ (state.step = "copy" => state.status = "complete")
  /\ tool.pc \in CopyPcs => frozen /\ live = "source" /\ state.step = "copy" /\ state.status # "complete"
  /\ tool.pc \in {"copy", "cursor", "groups"} => shadow # Nothing
  /\ tool.pc = "cursor" => Straight # {}
  /\ tool.pc = "groups" => tool.todo \subseteq TargetGroups(source)
  /\ tool.pc \in LaterPcs => state.step # "copy"
  /\ marker => state.step # "copy"

CopyInv == shadow # Nothing => \A j \in Ids : Blank(j) \/ Exact(j)

CoreInv == StoreOK /\ ToolOK /\ StageInv /\ CopyInv

-------------------------------------------------------------------------------
(* Steps, the least of a set of ids, and points that share a target *)

LEMMA StepNos ==
  /\ StepNo("copy") = 1 /\ StepNo("flipped") = 2 /\ StepNo("graph_remap") = 3
  /\ StepNo("hash_fold") = 4 /\ StepNo("verify") = 5
BY DEF StepNo, MigrSteps

\* What comes after the copy is refused before it.
LEMMA AfterFlip ==
  ASSUME state \in Progress, NEW s \in {"graph_remap", "hash_fold", "verify"}, PriorsComplete(s)
  PROVE  state.step # "copy"
<1>1. IsComplete("flipped")
  BY StepNos DEF PriorsComplete, MigrSteps
<1>2. state.step = "copy" => ~(StepNo(state.step) > StepNo("flipped"))
  BY StepNos
<1> QED
  BY <1>1, <1>2 DEF IsComplete

LEMMA LeastId ==
  ASSUME NEW S \in SUBSET Ids, S # {}
  PROVE  Min(S) \in S /\ \A i \in S : Min(S) <= i
<1>1. S \subseteq Nat
  BY MigrAssumption DEF Ids
<1>2. \E s \in S : \A t \in S : ~(<<t, s>> \in OpToRel(<, Nat))
  BY <1>1, NatLessThanWellFounded, WFMin
<1>3. \A s, t \in Nat : <<t, s>> \in OpToRel(<, Nat) <=> t < s
  BY DEF OpToRel
<1>4. \A s, t \in S : ~(t < s) <=> s <= t
  BY <1>1
<1>5. \E s \in S : \A t \in S : s <= t
  BY <1>1, <1>2, <1>3, <1>4
<1> QED
  BY <1>5 DEF Min

LEMMA IdFacts ==
  /\ IsFiniteSet(Ids)
  /\ \A m \in Texts : V2(m) \in Ids
  /\ \A i \in Ids : i \in Nat /\ i + 1 \in 1 .. Groups /\ i < Groups
  /\ 1 \in 1 .. Groups /\ Groups \in 1 .. Groups
<1>1. IsFiniteSet(Ids)
  BY MigrAssumption, FS_Interval DEF Ids
<1> QED
  BY <1>1, MigrAssumption DEF Ids, Texts, V2, Groups

LEMMA Targets ==
  ASSUME source \in [Ids -> Contents], NEW i \in Points(source)
  PROVE  /\ i \in Ids /\ Target(source, i) \in Ids
         /\ source[i] \in Texts \/ source[i] = Other
BY IdFacts DEF Points, Target, Contents

LEMMA Two ==
  ASSUME NEW S \in SUBSET Ids
  PROVE  /\ IsFiniteSet(S) /\ Cardinality(S) \in Nat
         /\ Cardinality(S) > 1 <=> \E i, k \in S : i # k
<1>1. IsFiniteSet(S) /\ Cardinality(S) \in Nat
  BY IdFacts, FS_Subset, FS_CardinalityType
<1>2. ASSUME NEW i \in S, NEW k \in S, i # k PROVE Cardinality(S) > 1
  <2>1. Cardinality(S \ {i}) = Cardinality(S) - 1
    BY <1>1, FS_RemoveElement
  <2>2. IsFiniteSet(S \ {i}) /\ S \ {i} # {}
    BY <1>1, <1>2, FS_RemoveElement
  <2>3. Cardinality(S \ {i}) \in Nat /\ Cardinality(S \ {i}) # 0
    BY <2>2, FS_CardinalityType, FS_EmptySet
  <2> QED
    BY <1>1, <2>1, <2>3
<1>3. ASSUME ~ \E i, k \in S : i # k PROVE ~(Cardinality(S) > 1)
  <2>1. CASE S = {}
    BY <2>1, FS_EmptySet
  <2>2. CASE S # {}
    <3>1. PICK i : i \in S
      BY <2>2
    <3>2. S = {i}
      BY <1>3, <3>1
    <3> QED
      BY <3>2, FS_Singleton
  <2> QED
    BY <2>1, <2>2
<1> QED
  BY <1>1, <1>2, <1>3

\* Where nothing conflicts, a point that is copied alone is all its target is made
\* of, and a group is all of its target.
LEMMA Alone ==
  ASSUME source \in [Ids -> Contents], Conflicts(source) = {},
         NEW i \in Points(source), ~Grouped(i)
  PROVE  Origins(Target(source, i)) = {i}
<1> DEFINE j == Target(source, i)
<1>1. ASSUME NEW k \in Points(source), Target(source, k) = j, k # i PROVE FALSE
  <2>1. CASE source[i] \in Texts /\ source[k] \in Texts
    <3>1. i \in Sharing(source, j) /\ k \in Sharing(source, j) /\ Sharing(source, j) \subseteq Ids
      BY <1>1, <2>1 DEF Sharing, Points
    <3>2. j \in TargetGroups(source)
      BY <1>1, <3>1, Two, Targets DEF TargetGroups
    <3> QED
      BY <2>1, <3>2 DEF Grouped
  <2>2. CASE source[k] \notin Texts
    <3>1. source[k] = Other /\ k = j
      BY <1>1, <2>2, Targets DEF Target
    <3> QED
      BY <1>1, <3>1, MigrAssumption DEF Conflicts, Moving
  <2>3. CASE source[i] \notin Texts
    <3>1. source[i] = Other /\ i = j
      BY <2>3, Targets DEF Target
    <3> QED
      BY <1>1, <3>1 DEF Conflicts, Moving
  <2> QED
    BY <2>1, <2>2, <2>3
<1> QED
  BY <1>1 DEF Origins

LEMMA Together ==
  ASSUME source \in [Ids -> Contents], Conflicts(source) = {}, NEW j \in TargetGroups(source)
  PROVE  Sharing(source, j) = Origins(j) /\ Origins(j) # {}
<1>1. PICK i, k \in Sharing(source, j) : i # k
  BY Two DEF TargetGroups, Sharing, Points
<1>2. ASSUME NEW n \in Origins(j) PROVE n \in Sharing(source, j)
  <2>1. CASE source[n] \in Texts
    BY <2>1 DEF Origins, Sharing
  <2>2. CASE source[n] \notin Texts
    <3>1. source[n] = Other /\ n = j
      BY <1>2, <2>2, Targets DEF Origins, Target
    <3>2. PICK a \in Sharing(source, j) : a # j
      BY <1>1
    <3> QED
      BY <3>1, <3>2 DEF Conflicts, Moving, Sharing
  <2> QED
    BY <2>1, <2>2
<1> QED
  BY <1>1, <1>2 DEF Origins, Sharing

-------------------------------------------------------------------------------
(* What every step keeps *)

LEMMA CopyKept ==
  ASSUME CopyInv, UNCHANGED <<source, shadow>>
  PROVE  /\ CopyInv' /\ (AllExact => AllExact')
         /\ \A j : Origins(j)' = Origins(j) /\ (Blank(j) <=> Blank(j)') /\ (Exact(j) <=> Exact(j)')
         /\ \A i : Grouped(i)' = Grouped(i)
<1>1. \A j : Origins(j)' = Origins(j)
  BY DEF Origins
<1>2. \A j : (Blank(j) <=> Blank(j)') /\ (Exact(j) <=> Exact(j)')
  BY <1>1 DEF Blank, Exact
<1> QED
  BY <1>1, <1>2 DEF CopyInv, AllExact, Grouped

\* A step of the tool that goes to pc p, of the copy or not of the copy as before.
LEMMA PcStep ==
  ASSUME CoreInv, UNCHANGED <<source, shadow, live, frozen, state, marker>>,
         ToolOK', tool'.pc # "groups" /\ tool'.pc # "cursor",
         \/ tool'.pc = "idle"
         \/ tool.pc \in LaterPcs /\ tool'.pc \in LaterPcs
         \/ tool.pc \in CopyPcs /\ tool'.pc \in {"map", "mirror", "create"}
  PROVE  CoreInv'
<1>1. CopyInv'
  BY CopyKept DEF CoreInv
<1>2. StoreOK'
  BY DEF CoreInv, StoreOK
<1>3. StageInv'
  BY DEF CoreInv, StageInv, CopyPcs, LaterPcs
<1> QED
  BY <1>1, <1>2, <1>3 DEF CoreInv

LEMMA QuietSteps ==
  ASSUME CoreInv,
         \/ Stop \/ WriteMap \/ MirrorMap
         \/ RemapRound \/ RemapMerge \/ RemapDelete \/ FoldDelete \/ FoldWrite \/ WriteCount
  PROVE  CoreInv'
<1>1. ToolOK
  BY DEF CoreInv
<1>2. CASE Stop
  <2>1. tool'.pc = "idle" /\ ToolOK'
    BY <1>2 DEF Stop, IdleTool, ToolOK
  <2> QED
    BY <1>2, <2>1, PcStep DEF Stop, storeVars, fileVars
<1>3. CASE WriteMap
  <2>1. tool.pc \in CopyPcs /\ tool'.pc = "mirror" /\ ToolOK'
    BY <1>1, <1>3 DEF WriteMap, StepTo, ToolOK, CopyPcs
  <2> QED
    BY <1>3, <2>1, PcStep DEF WriteMap, storeVars
<1>4. CASE MirrorMap
  <2>1. tool.pc \in CopyPcs /\ tool'.pc \in {"create", "idle"} /\ ToolOK'
    BY <1>1, <1>4 DEF MirrorMap, StepTo, IdleTool, ToolOK, CopyPcs
  <2> QED
    BY <1>4, <2>1, PcStep DEF MirrorMap, storeVars
<1>5. CASE RemapRound
  <2>1. tool.pc = "rounds" /\ tool'.pc = "rounds" /\ ToolOK'
    BY <1>1, <1>5 DEF RemapRound, ToolOK
  <2> QED
    BY <1>5, <2>1, PcStep DEF RemapRound, storeVars, fileVars, LaterPcs
<1>6. CASE RemapMerge \/ RemapDelete \/ FoldDelete \/ FoldWrite \/ WriteCount
  <2>1. /\ tool.pc \in {"rounds", "delete", "hdel", "hset", "count"}
        /\ tool'.pc \in {"delete", "remapped", "hset", "folded", "verified"} /\ ToolOK'
    BY <1>1, <1>6 DEF RemapMerge, RemapDelete, FoldDelete, FoldWrite, WriteCount, StepTo, ToolOK, LaterPcs
  <2>2. UNCHANGED <<source, shadow, live, frozen, state, marker>>
    BY <1>6 DEF RemapMerge, RemapDelete, FoldDelete, FoldWrite, WriteCount, storeVars, fileVars
  <2> QED
    BY <2>1, <2>2, PcStep DEF LaterPcs
<1> QED
  BY <1>2, <1>3, <1>4, <1>5, <1>6

LEMMA OutsideSteps ==
  ASSUME CoreInv, Freeze \/ Unfreeze \/ (\E i \in Ids : CacheLoss(i)) \/ DryRun \/ OwmPass \/ UNCHANGED migrVars
  PROVE  CoreInv'
<1>1. UNCHANGED <<source, shadow, live, state, marker, tool>> /\ frozen' \in BOOLEAN
  BY DEF CoreInv, StoreOK, Freeze, Unfreeze, CacheLoss, DryRun, OwmPass, migrVars, storeVars, fileVars
<1>2. frozen' = frozen \/ frozen' \/ tool.pc = "idle"
  BY DEF Freeze, Unfreeze, CacheLoss, DryRun, OwmPass, migrVars, storeVars, ToolIdle
<1>3. CopyInv'
  BY <1>1, CopyKept DEF CoreInv
<1>4. StoreOK' /\ ToolOK'
  BY <1>1 DEF CoreInv, StoreOK, ToolOK
<1>5. StageInv'
  BY <1>1, <1>2 DEF CoreInv, StageInv, CopyPcs, Straight
<1> QED
  BY <1>3, <1>4, <1>5 DEF CoreInv

\* After the copy a run only goes through later steps.
LEMMA AfterCopy ==
  ASSUME NEW s \in {"flipped", "graph_remap", "hash_fold", "verify"}, PriorsComplete(s)
  PROVE  IsComplete("copy") /\ state # Nothing
<1>1. 1 \in 1 .. StepNo(s) - 1 /\ MigrSteps[1] = "copy"
  BY StepNos DEF MigrSteps
<1> QED
  BY <1>1 DEF PriorsComplete, IsComplete

Forward == MarkFlipped \/ RemapBegin \/ RemapDone \/ FoldBegin \/ FoldDone \/ Verify \/ VerifyDone

LEMMA ForwardSteps ==
  ASSUME CoreInv, Forward
  PROVE  /\ CoreInv' /\ state # Nothing /\ live = "shadow"
         /\ state'.step # "copy" /\ UNCHANGED <<source, shadow, live, frozen, plan, marker>>
         /\ tool'.pc \in {"idle"} \cup LaterPcs
         /\ tool'.pc = "mark" => (Verify /\ CensusFits) \/ tool.pc = "mark"
<1>1. StoreOK /\ ToolOK /\ StageInv /\ CopyInv
  BY DEF CoreInv
<1>2. UNCHANGED <<source, shadow, live, frozen, plan, marker>>
  BY DEF Forward, MarkFlipped, RemapBegin, RemapDone, FoldBegin, FoldDone, Verify, VerifyDone,
     storeVars, fileVars
<1>3. /\ ToolOK' /\ tool'.pc \in {"idle"} \cup LaterPcs
      /\ tool'.pc = "mark" => (Verify /\ CensusFits) \/ tool.pc = "mark"
  <2>1. CASE MarkFlipped
    BY <1>1, <2>1 DEF MarkFlipped, ToolOK, ToolIdle
  <2>2. CASE RemapBegin
    BY <1>1, <2>2 DEF RemapBegin, ToolOK, ToolIdle, Nodes, LaterPcs
  <2>3. CASE FoldBegin
    BY <1>1, <2>3 DEF FoldBegin, ToolOK, ToolIdle, LaterPcs
  <2>4. CASE RemapDone \/ FoldDone \/ VerifyDone
    BY <2>4 DEF RemapDone, FoldDone, VerifyDone, IdleTool, ToolOK
  <2>5. CASE Verify
    BY <1>1, <2>5 DEF Verify, ToolOK, ToolIdle, StepTo, LaterPcs
  <2> QED
    BY <2>1, <2>2, <2>3, <2>4, <2>5 DEF Forward
<1>4. state # Nothing /\ live = "shadow"
  <2>1. CASE MarkFlipped
    BY <2>1, AfterCopy DEF MarkFlipped
  <2>2. CASE RemapBegin \/ FoldBegin \/ Verify
    <3>1. PICK s \in {"graph_remap", "hash_fold", "verify"} : PriorsComplete(s)
      BY <2>2 DEF RemapBegin, FoldBegin, Verify
    <3>2. state # Nothing
      BY <3>1, AfterCopy
    <3>3. state.step # "copy"
      BY <1>1, <3>1, <3>2, AfterFlip DEF StoreOK
    <3> QED
      BY <1>1, <3>2, <3>3 DEF StageInv
  <2>3. CASE RemapDone \/ FoldDone \/ VerifyDone
    <3>1. tool.pc \in LaterPcs
      BY <2>3 DEF RemapDone, FoldDone, VerifyDone, LaterPcs
    <3> QED
      BY <1>1, <3>1 DEF StageInv, LaterPcs
  <2> QED
    BY <2>1, <2>2, <2>3 DEF Forward
<1>5. state' \in Progress /\ state'.step # "copy"
  <2>1. PICK s \in {"flipped", "graph_remap", "hash_fold", "verify"},
             t \in {"in_progress", "complete"} : Reach(s, t)
    BY DEF Forward, MarkFlipped, RemapBegin, RemapDone, FoldBegin, FoldDone, Verify, VerifyDone
  <2> QED
    BY <1>1, <1>4, <2>1 DEF Reach, StoreOK, Progress
<1>6. CopyInv'
  BY <1>1, <1>2, CopyKept
<1>7. StoreOK'
  BY <1>1, <1>2, <1>5 DEF StoreOK
<1>8. StageInv'
  BY <1>1, <1>2, <1>3, <1>4, <1>5, MigrAssumption DEF StageInv, CopyPcs, LaterPcs
<1> QED
  BY <1>2, <1>3, <1>4, <1>5, <1>6, <1>7, <1>8 DEF CoreInv

LEMMA MarkerStep ==
  ASSUME CoreInv, WriteMarker
  PROVE  CoreInv' /\ tool.pc = "mark" /\ tool'.pc = "count" /\ UNCHANGED <<source, shadow, live, frozen, state, plan>>
<1>1. UNCHANGED <<source, shadow, live, frozen, state, plan>> /\ marker' = TRUE
  BY DEF WriteMarker, storeVars
<1>2. tool.pc = "mark" /\ tool'.pc = "count" /\ ToolOK'
  BY DEF CoreInv, ToolOK, WriteMarker, StepTo, LaterPcs
<1>3. CopyInv'
  BY <1>1, CopyKept DEF CoreInv
<1>4. StoreOK'
  BY <1>1 DEF CoreInv, StoreOK
<1>5. StageInv'
  BY <1>1, <1>2 DEF CoreInv, StageInv, CopyPcs, LaterPcs
<1> QED
  BY <1>1, <1>2, <1>3, <1>4, <1>5 DEF CoreInv

\* The operator: a flip finds the copy complete, an undone one has not been flipped
\* to, and nobody writes to a collection that is being copied.
LEMMA OperatorSteps ==
  ASSUME CoreInv, state # Nothing => source' = source,
         Flip \/ Rollback \/ \E m \in Texts : Learn(m)
  PROVE  CoreInv'
<1>1. StoreOK /\ ToolOK /\ StageInv /\ CopyInv
  BY DEF CoreInv
<1>2. CASE Flip
  <2>1. UNCHANGED <<source, shadow, frozen, state, marker, tool>> /\ live' = "shadow"
    BY <1>2 DEF Flip, fileVars
  <2>2. CopyInv'
    BY <1>1, <2>1, CopyKept
  <2>3. StoreOK' /\ ToolOK'
    BY <1>1, <2>1 DEF StoreOK, ToolOK
  <2>4. StageInv'
    BY <1>1, <1>2, <2>1 DEF StageInv, Flip, ToolIdle, CopyPcs, LaterPcs
  <2> QED
    BY <2>2, <2>3, <2>4 DEF CoreInv
<1>3. CASE Rollback
  <2>1. UNCHANGED <<source, live, state, marker, tool>> /\ shadow' = Nothing /\ frozen' = FALSE
        /\ tool.pc = "idle" /\ live = "source" /\ state # Nothing
    BY <1>3 DEF Rollback, fileVars, ToolIdle
  <2>2. CopyInv'
    BY <2>1 DEF CopyInv
  <2>3. StoreOK' /\ ToolOK'
    BY <1>1, <2>1 DEF StoreOK, ToolOK
  <2>4. StageInv'
    BY <1>1, <2>1 DEF StageInv, CopyPcs, LaterPcs
  <2> QED
    BY <2>2, <2>3, <2>4 DEF CoreInv
<1>4. ASSUME NEW m \in Texts, Learn(m) PROVE CoreInv'
  <2>1. UNCHANGED <<shadow, live, frozen, state, marker, tool>>
    BY <1>4 DEF Learn, fileVars
  <2>2. source' \in [Ids -> Contents]
    BY <1>4, MigrAssumption DEF Learn
  <2>3. CASE state # Nothing
    <3>1. source' = source
      BY <2>3
    <3>2. CopyInv'
      BY <1>1, <2>1, <3>1, CopyKept
    <3>3. StoreOK' /\ ToolOK'
      BY <1>1, <2>1, <3>1 DEF StoreOK, ToolOK
    <3>4. StageInv'
      BY <1>1, <2>1, <3>1 DEF StageInv, Straight
    <3> QED
      BY <3>2, <3>3, <3>4 DEF CoreInv
  <2>4. CASE state = Nothing
    <3>1. StoreOK' /\ ToolOK'
      BY <1>1, <2>1, <2>2 DEF StoreOK, ToolOK
    <3>2. StageInv' /\ CopyInv'
      BY <1>1, <2>1, <2>4 DEF StageInv, CopyInv, CopyPcs, LaterPcs
    <3> QED
      BY <3>1, <3>2 DEF CoreInv
  <2> QED
    BY <2>3, <2>4
<1> QED
  BY <1>2, <1>3, <1>4

-------------------------------------------------------------------------------
(* The copy *)

LEMMA ExecuteStep ==
  ASSUME CoreInv, Execute
  PROVE  /\ CoreInv' /\ UNCHANGED <<source, shadow, live, frozen, plan, marker>>
         /\ plan # Nothing /\ frozen /\ tool.pc = "idle" /\ tool'.pc = "map"
         /\ state' \in Progress /\ state'.step = "copy" /\ state'.status # "complete"
         /\ state = Nothing => state'.cursor = 1
         /\ state # Nothing => state' = state
<1>1. StoreOK /\ ToolOK /\ StageInv /\ CopyInv
  BY DEF CoreInv
<1>2. /\ UNCHANGED <<source, shadow, live, frozen, plan, marker>> /\ plan # Nothing
      /\ frozen /\ live = "source" /\ tool.pc = "idle" /\ Conflicts(source) = {}
  BY DEF Execute, Planned, ToolIdle, storeVars, fileVars
<1>3. tool'.pc = "map" /\ ToolOK'
  BY <1>1 DEF Execute, StepTo, ToolOK, CopyPcs
<1>4. Cardinality(Points(source)) \in Nat
  BY Two DEF Points
<1>5. /\ state' \in Progress /\ state'.step = "copy" /\ state'.status # "complete"
      /\ state = Nothing => state'.cursor = 1
      /\ state # Nothing => state' = state
  <2>1. CASE state = Nothing
    BY <1>4, <2>1, IdFacts DEF Execute, Progress
  <2>2. CASE state # Nothing
    BY <1>1, <2>2 DEF Execute, StoreOK
  <2> QED
    BY <2>1, <2>2
<1>6. CopyInv'
  BY <1>1, <1>2, CopyKept
<1>7. StoreOK'
  BY <1>1, <1>2, <1>5 DEF StoreOK
<1>8. ~marker
  BY <1>1 DEF Execute, StageInv
<1>9. StageInv'
  BY <1>1, <1>2, <1>3, <1>5, <1>8, MigrAssumption DEF StageInv, CopyPcs, LaterPcs
<1> QED
  BY <1>2, <1>3, <1>5, <1>6, <1>7, <1>9 DEF CoreInv

LEMMA CreateStep ==
  ASSUME CoreInv, CreateShadow
  PROVE  /\ CoreInv' /\ tool.pc = "create" /\ tool'.pc = "copy"
         /\ UNCHANGED <<source, live, frozen, state, plan, marker>>
         /\ shadow # Nothing => shadow' = shadow
<1>1. StoreOK /\ ToolOK /\ StageInv /\ CopyInv
  BY DEF CoreInv
<1>2. /\ UNCHANGED <<source, live, frozen, state, plan, marker>>
      /\ shadow # Nothing => shadow' = shadow
      /\ shadow = Nothing => shadow' = Empty
  BY DEF CreateShadow, fileVars
<1>3. tool.pc = "create" /\ tool'.pc = "copy" /\ ToolOK'
  BY <1>1 DEF CreateShadow, StepTo, ToolOK, CopyPcs
<1>4. Empty \in Copies
  BY DEF Empty, Copies, Contents
<1>5. shadow' # Nothing /\ StoreOK'
  BY <1>1, <1>2, <1>4, MigrAssumption DEF StoreOK
<1>6. CopyInv'
  <2>1. CASE shadow # Nothing
    BY <1>1, <1>2, <2>1, CopyKept
  <2>2. CASE shadow = Nothing
    BY <1>2, <2>2 DEF CopyInv, Empty, Blank
  <2> QED
    BY <2>1, <2>2
<1>7. StageInv'
  BY <1>1, <1>2, <1>3, <1>5 DEF StageInv, CopyPcs, LaterPcs
<1> QED
  BY <1>2, <1>3, <1>5, <1>6, <1>7 DEF CoreInv

\* What is put in place j is all of it, and no other place changes.
LEMMA Placed ==
  ASSUME StoreOK, shadow # Nothing, CopyInv, UNCHANGED source,
         NEW j \in Ids, Origins(j) # {}, Upsert(j, Origins(j))
  PROVE  /\ shadow' \in Copies /\ shadow' # Nothing /\ Exact(j)' /\ CopyInv'
         /\ \A k \in Ids : Exact(k) => Exact(k)'
<1>1. shadow \in Copies
  BY DEF StoreOK
<1>2. Origins(j) \subseteq Ids /\ (CHOOSE i \in Origins(j) : TRUE) \in Origins(j)
  BY DEF Origins, Points
<1>3. [holds |-> source[CHOOSE i \in Origins(j) : TRUE], from |-> Origins(j)]
        \in [holds : Contents, from : SUBSET Ids]
  BY <1>2 DEF StoreOK
<1>4. shadow' \in Copies
  BY <1>1, <1>3 DEF Upsert, Copies
<1>5. \A k : Origins(k)' = Origins(k)
  BY DEF Origins
<1>6. Exact(j)'
  BY <1>1, <1>5 DEF Upsert, Copies, Exact
<1>7. \A k \in Ids : k # j => shadow'[k] = shadow[k]
  BY <1>1 DEF Upsert, Copies
<1>8. \A k \in Ids : k # j => (Exact(k) => Exact(k)') /\ (Blank(k) => Blank(k)')
  BY <1>5, <1>7 DEF Exact, Blank
<1> QED
  BY <1>4, <1>6, <1>8, MigrAssumption DEF CopyInv

LEMMA PointStep ==
  ASSUME CoreInv, CopyPoint
  PROVE  /\ CoreInv' /\ tool.pc = "copy" /\ tool'.pc = "cursor"
         /\ UNCHANGED <<source, live, frozen, state, plan, marker>>
         /\ \A j \in Ids : Exact(j) => Exact(j)'
         /\ NextPoint \in Straight
         /\ \A j \in Ids : ~Grouped(NextPoint) /\ j = Target(source, NextPoint) => Exact(j)'
<1>1. StoreOK /\ ToolOK /\ StageInv /\ CopyInv
  BY DEF CoreInv
<1>2. UNCHANGED <<source, live, frozen, state, plan, marker>> /\ Straight # {}
  BY DEF CopyPoint, fileVars
<1>3. tool.pc = "copy" /\ tool'.pc = "cursor" /\ ToolOK'
  BY <1>1 DEF CopyPoint, StepTo, ToolOK, CopyPcs
<1>4. NextPoint \in Straight /\ NextPoint \in Points(source)
  BY <1>2, LeastId DEF NextPoint, Straight, Points
<1>5. /\ shadow' \in Copies /\ shadow' # Nothing /\ CopyInv'
      /\ \A j \in Ids : Exact(j) => Exact(j)'
      /\ \A j \in Ids : ~Grouped(NextPoint) /\ j = Target(source, NextPoint) => Exact(j)'
  <2>1. CASE Grouped(NextPoint)
    <3>1. UNCHANGED <<source, shadow>>
      BY <1>2, <2>1 DEF CopyPoint
    <3>2. shadow # Nothing
      BY <1>1, <1>3 DEF StageInv
    <3> QED
      BY <1>1, <2>1, <3>1, <3>2, CopyKept DEF StoreOK
  <2>2. CASE ~Grouped(NextPoint)
    <3>1. shadow # Nothing /\ Conflicts(source) = {}
      BY <1>1, <1>3 DEF StageInv
    <3>2. PICK j \in Ids : j = Target(source, NextPoint)
      BY <1>1, <1>4, Targets DEF StoreOK
    <3>3. Origins(j) = {NextPoint}
      BY <1>1, <1>4, <2>2, <3>1, <3>2, Alone DEF StoreOK
    <3>4. Upsert(j, Origins(j))
      BY <2>2, <3>2, <3>3 DEF CopyPoint
    <3>5. Origins(j) # {}
      BY <3>3
    <3>6. /\ shadow' \in Copies /\ shadow' # Nothing /\ CopyInv' /\ Exact(j)'
          /\ \A k \in Ids : Exact(k) => Exact(k)'
      BY <1>1, <1>2, <3>1, <3>4, <3>5, Placed
    <3> QED
      BY <3>2, <3>6
  <2> QED
    BY <2>1, <2>2
<1>6. StoreOK'
  BY <1>1, <1>2, <1>5 DEF StoreOK
<1>7. Straight' = Straight
  BY <1>2 DEF Straight
<1>8. StageInv'
  BY <1>1, <1>2, <1>3, <1>5, <1>7 DEF StageInv, CopyPcs, LaterPcs
<1> QED
  BY <1>2, <1>3, <1>4, <1>5, <1>6, <1>8 DEF CoreInv

LEMMA CursorStep ==
  ASSUME CoreInv, SaveCursor
  PROVE  /\ CoreInv' /\ tool.pc = "cursor" /\ tool'.pc = "copy"
         /\ UNCHANGED <<source, shadow, live, frozen, plan, marker>>
         /\ state # Nothing /\ state'.step = state.step /\ state'.status = state.status
         /\ NextPoint \in Straight /\ (\A i \in Straight : NextPoint <= i)
         /\ state'.cursor = NextPoint + 1
<1>1. StoreOK /\ ToolOK /\ StageInv /\ CopyInv
  BY DEF CoreInv
<1>2. UNCHANGED <<source, shadow, live, frozen, plan, marker>>
  BY DEF SaveCursor, storeVars, fileVars
<1>3. tool.pc = "cursor" /\ tool'.pc = "copy" /\ ToolOK'
  BY <1>1 DEF SaveCursor, StepTo, ToolOK, CopyPcs
<1>4. NextPoint \in Straight /\ (\A i \in Straight : NextPoint <= i) /\ NextPoint \in Ids
  BY <1>1, <1>3, LeastId DEF NextPoint, Straight, Points, StageInv
<1>5. state # Nothing /\ state \in Progress
  BY <1>1, <1>3 DEF StageInv, StoreOK
<1>6. /\ state' \in Progress /\ state'.step = state.step /\ state'.status = state.status
      /\ state'.cursor = NextPoint + 1
  BY <1>4, <1>5, IdFacts DEF SaveCursor, Progress
<1>7. CopyInv'
  BY <1>1, <1>2, CopyKept
<1>8. StoreOK'
  BY <1>1, <1>2, <1>6 DEF StoreOK
<1>9. StageInv'
  BY <1>1, <1>2, <1>3, <1>5, <1>6, MigrAssumption DEF StageInv, CopyPcs, LaterPcs
<1> QED
  BY <1>2, <1>3, <1>4, <1>5, <1>6, <1>7, <1>8, <1>9 DEF CoreInv

LEMMA GroupsStep ==
  ASSUME CoreInv, StartGroups
  PROVE  /\ CoreInv' /\ tool.pc = "copy" /\ tool'.pc = "groups" /\ tool'.todo = TargetGroups(source)
         /\ UNCHANGED <<source, shadow, live, frozen, plan, marker>>
         /\ state # Nothing /\ state'.step = state.step /\ state'.status = state.status
         /\ Straight = {} /\ state'.cursor = Groups
<1>1. StoreOK /\ ToolOK /\ StageInv /\ CopyInv
  BY DEF CoreInv
<1>2. UNCHANGED <<source, shadow, live, frozen, plan, marker>> /\ Straight = {}
  BY DEF StartGroups, storeVars, fileVars
<1>3. tool.pc = "copy" /\ tool'.pc = "groups" /\ tool'.todo = TargetGroups(source) /\ ToolOK'
  BY <1>1 DEF StartGroups, ToolOK, CopyPcs, TargetGroups
<1>4. state # Nothing /\ state \in Progress
  BY <1>1, <1>3 DEF StageInv, StoreOK
<1>5. /\ state' \in Progress /\ state'.step = state.step /\ state'.status = state.status
      /\ state'.cursor = Groups
  BY <1>4, IdFacts DEF StartGroups, Progress
<1>6. CopyInv'
  BY <1>1, <1>2, CopyKept
<1>7. StoreOK'
  BY <1>1, <1>2, <1>5 DEF StoreOK
<1>8. StageInv'
  BY <1>1, <1>2, <1>3, <1>4, <1>5, MigrAssumption DEF StageInv, CopyPcs, LaterPcs
<1> QED
  BY <1>2, <1>3, <1>4, <1>5, <1>6, <1>7, <1>8 DEF CoreInv

LEMMA GroupStep ==
  ASSUME CoreInv, CopyGroup
  PROVE  /\ CoreInv' /\ tool.pc = "groups" /\ tool'.pc = "groups"
         /\ UNCHANGED <<source, live, frozen, state, plan, marker>>
         /\ \A j \in Ids : Exact(j) => Exact(j)'
         /\ \A j \in tool.todo : j \in tool'.todo \/ Exact(j)'
<1>1. StoreOK /\ ToolOK /\ StageInv /\ CopyInv
  BY DEF CoreInv
<1>2. UNCHANGED <<source, live, frozen, state, plan, marker>>
  BY DEF CopyGroup, fileVars
<1>3. PICK j \in Ids : j = Min(tool.todo) /\ j \in tool.todo /\ j \in TargetGroups(source)
  BY <1>1, LeastId DEF CopyGroup, ToolOK, StageInv
<1>4. tool.pc = "groups" /\ tool'.pc = "groups" /\ tool'.todo = tool.todo \ {j} /\ ToolOK'
  BY <1>1, <1>3 DEF CopyGroup, ToolOK, CopyPcs
<1>5. shadow # Nothing /\ Conflicts(source) = {}
  BY <1>1, <1>4 DEF StageInv
<1>6. Upsert(j, Origins(j)) /\ Origins(j) # {}
  BY <1>1, <1>3, <1>5, Together DEF CopyGroup, StoreOK
<1>7. /\ shadow' \in Copies /\ shadow' # Nothing /\ CopyInv' /\ Exact(j)'
      /\ \A k \in Ids : Exact(k) => Exact(k)'
  BY <1>1, <1>2, <1>3, <1>5, <1>6, Placed
<1>8. StoreOK'
  BY <1>1, <1>2, <1>7 DEF StoreOK
<1>9. StageInv'
  BY <1>1, <1>2, <1>4, <1>7 DEF StageInv, CopyPcs, LaterPcs
<1> QED
  BY <1>2, <1>4, <1>7, <1>8, <1>9 DEF CoreInv

LEMMA FinishStep ==
  ASSUME CoreInv, FinishCopy
  PROVE  /\ CoreInv' /\ tool.pc = "groups" /\ tool.todo = {} /\ tool'.pc = "idle"
         /\ UNCHANGED <<source, shadow, live, frozen, plan, marker>>
         /\ state # Nothing /\ state'.cursor = state.cursor /\ shadow # Nothing
<1>1. StoreOK /\ ToolOK /\ StageInv /\ CopyInv
  BY DEF CoreInv
<1>2. UNCHANGED <<source, shadow, live, frozen, plan, marker>> /\ tool.todo = {}
  BY DEF FinishCopy, storeVars, fileVars
<1>3. tool.pc = "groups" /\ tool'.pc = "idle" /\ ToolOK'
  BY DEF FinishCopy, IdleTool, ToolOK
<1>4. state # Nothing /\ state \in Progress /\ shadow # Nothing
  BY <1>1, <1>3 DEF StageInv, StoreOK
<1>5. /\ state' \in Progress /\ state'.step = "copy" /\ state'.status = "complete"
      /\ state'.cursor = state.cursor
  BY <1>4 DEF FinishCopy, Reach, Progress
<1>6. CopyInv'
  BY <1>1, <1>2, CopyKept
<1>7. StoreOK'
  BY <1>1, <1>2, <1>5 DEF StoreOK
<1>8. StageInv'
  BY <1>1, <1>2, <1>3, <1>4, <1>5, MigrAssumption DEF StageInv, CopyPcs, LaterPcs
<1> QED
  BY <1>2, <1>3, <1>4, <1>5, <1>6, <1>7, <1>8 DEF CoreInv

LEMMA CoreStarts == MigrInit => CoreInv
<1> SUFFICES ASSUME MigrInit PROVE CoreInv
  OBVIOUS
<1>1. StoreOK /\ ToolOK
  BY MigrAssumption DEF MigrInit, StoreOK, ToolOK, IdleTool
<1>2. StageInv /\ CopyInv
  BY DEF MigrInit, StageInv, CopyInv, IdleTool, CopyPcs, LaterPcs
<1> QED
  BY <1>1, <1>2 DEF CoreInv

LEMMA CoreSteps ==
  ASSUME CoreInv, [MigrNext]_migrVars, state # Nothing => source' = source
  PROVE  CoreInv'
<1>1. CASE Stop \/ WriteMap \/ MirrorMap \/ RemapRound \/ RemapMerge \/ RemapDelete
           \/ FoldDelete \/ FoldWrite \/ WriteCount
  BY <1>1, QuietSteps
<1>2. CASE Freeze \/ Unfreeze \/ (\E i \in Ids : CacheLoss(i)) \/ DryRun \/ OwmPass \/ UNCHANGED migrVars
  BY <1>2, OutsideSteps
<1>3. CASE Flip \/ Rollback \/ \E m \in Texts : Learn(m)
  BY <1>3, OperatorSteps
<1>4. CASE Forward
  BY <1>4, ForwardSteps
<1>5. CASE WriteMarker
  BY <1>5, MarkerStep
<1>6. CASE Execute \/ CreateShadow \/ CopyPoint \/ SaveCursor \/ StartGroups \/ CopyGroup \/ FinishCopy
  BY <1>6, ExecuteStep, CreateStep, PointStep, CursorStep, GroupsStep, GroupStep, FinishStep
<1> QED
  BY <1>1, <1>2, <1>3, <1>4, <1>5, <1>6 DEF MigrNext, Forward

LEMMA WholeIs ==
  ASSUME CoreInv, marker, shadow # Nothing, AllExact
  PROVE  MarkedIsWhole
<1> SUFFICES ASSUME NEW j \in Ids
             PROVE  shadow[j].from = {i \in Points(source) : Target(source, i) = j}
  BY DEF MarkedIsWhole
<1>1. shadow[j].from = Origins(j)
  <2>1. \E h : shadow[j] = [holds |-> h, from |-> Origins(j)]
    <3>1. CASE Origins(j) # {}
      BY <3>1 DEF AllExact, Exact
    <3>2. CASE Origins(j) = {}
      <4>1. Blank(j)
        BY <3>2 DEF CoreInv, CopyInv, Exact
      <4> QED
        BY <3>2, <4>1 DEF Blank
    <3> QED
      BY <3>1, <3>2
  <2> QED
    BY <2>1
<1> QED
  BY <1>1 DEF Origins

-------------------------------------------------------------------------------
(* An attempt that is not undone: the cursor only passes what was copied *)

Walked   == state # Nothing => \A j \in Ids : \A i \in Origins(j) :
              i < state.cursor /\ ~Grouped(i) => shadow # Nothing /\ Exact(j)
AtCursor == tool.pc = "cursor" => \A j \in Ids :
              ~Grouped(NextPoint) /\ j = Target(source, NextPoint) => Exact(j)
InGroups == tool.pc = "groups" =>
              state.cursor = Groups /\ \A j \in TargetGroups(source) : j \in tool.todo \/ Exact(j)
Copied   == state # Nothing /\ (state.step = "copy" => state.status = "complete") =>
              shadow # Nothing /\ AllExact
Held     == state # Nothing => frozen \/ live = "shadow"

WalkInv == Walked /\ AtCursor /\ InGroups /\ Copied /\ Held

\* Nothing is written while a run is under way: it is frozen, or has flipped.
LEMMA HeldStill ==
  ASSUME CoreInv, Held, [MigrNext]_migrVars, ~RollsBack, state # Nothing
  PROVE  source' = source /\ (shadow' # shadow => Execute \/ CreateShadow \/ CopyPoint \/ CopyGroup)
<1>1. ~Rollback
  BY DEF Rollback
<1>2. ASSUME NEW m \in Texts, Learn(m) PROVE FALSE
  BY <1>2 DEF Learn, Held
<1> QED
  BY <1>1, <1>2 DEF MigrNext, migrVars, storeVars, Freeze, Flip, Unfreeze, CacheLoss, Stop, DryRun,
     Execute, WriteMap, MirrorMap, CreateShadow, CopyPoint, SaveCursor, StartGroups, CopyGroup,
     FinishCopy, MarkFlipped, RemapBegin, RemapRound, RemapMerge, RemapDelete, RemapDone,
     FoldBegin, FoldDelete, FoldWrite, FoldDone, Verify, WriteMarker, WriteCount, VerifyDone, OwmPass

LEMMA WalkSame ==
  ASSUME CoreInv, WalkInv, UNCHANGED <<source, shadow, state>>, Held',
         tool' = tool \/ tool'.pc \notin {"cursor", "groups"}
  PROVE  WalkInv'
<1>1. /\ \A j : Origins(j)' = Origins(j) /\ (Exact(j) <=> Exact(j)')
      /\ \A i : Grouped(i)' = Grouped(i)
      /\ AllExact => AllExact'
  BY CopyKept DEF CoreInv
<1>2. Walked'
  BY <1>1 DEF WalkInv, Walked
<1>3. AtCursor'
  <2>1. NextPoint' = NextPoint
    BY DEF NextPoint, Straight
  <2> QED
    BY <1>1, <2>1 DEF WalkInv, AtCursor
<1>4. InGroups'
  BY <1>1 DEF WalkInv, InGroups
<1>5. Copied'
  BY <1>1 DEF WalkInv, Copied
<1> QED
  BY <1>2, <1>3, <1>4, <1>5 DEF WalkInv

\* All of it is there.
LEMMA WalkedAll ==
  ASSUME (shadow # Nothing)', AllExact', Held', tool'.pc \notin {"cursor", "groups"}
  PROVE  WalkInv'
BY DEF AllExact, WalkInv, Walked, AtCursor, InGroups, Copied

LEMMA WalkForward ==
  ASSUME CoreInv, WalkInv, Forward \/ WriteMarker
  PROVE  WalkInv'
<1>1. /\ CoreInv' /\ UNCHANGED <<source, shadow, live, frozen>> /\ state # Nothing
      /\ live = "shadow" /\ tool'.pc \notin {"cursor", "groups"}
  <2>1. CASE Forward
    BY <2>1, ForwardSteps DEF LaterPcs
  <2>2. CASE WriteMarker
    BY <2>2, MarkerStep DEF CoreInv, StageInv, LaterPcs
  <2> QED
    BY <2>1, <2>2
<1>2. shadow # Nothing /\ AllExact
  BY <1>1 DEF CoreInv, StageInv, WalkInv, Copied
<1>3. (shadow # Nothing)' /\ AllExact'
  BY <1>1, <1>2, CopyKept DEF CoreInv
<1>4. Held'
  BY <1>1 DEF Held
<1> QED
  BY <1>1, <1>3, <1>4, WalkedAll

LEMMA WalkCreate ==
  ASSUME CoreInv, WalkInv, CreateShadow
  PROVE  WalkInv'
<1>1. /\ CoreInv' /\ tool.pc = "create" /\ tool'.pc = "copy"
      /\ UNCHANGED <<source, live, frozen, state>>
      /\ shadow # Nothing => shadow' = shadow
  BY CreateStep
<1>2. Held'
  BY <1>1 DEF WalkInv, Held
<1>3. CASE shadow # Nothing
  BY <1>1, <1>2, <1>3, WalkSame
<1>4. CASE shadow = Nothing
  <2>1. (\A j : Origins(j)' = Origins(j)) /\ \A i : Grouped(i)' = Grouped(i)
    BY <1>1 DEF Origins, Grouped
  <2>2. Walked'
    BY <1>1, <1>4, <2>1 DEF WalkInv, Walked
  <2>3. Copied'
    BY <1>1 DEF CoreInv, StageInv, Copied, CopyPcs
  <2> QED
    BY <1>1, <1>2, <2>2, <2>3 DEF WalkInv, AtCursor, InGroups
<1> QED
  BY <1>3, <1>4

LEMMA WalkPoint ==
  ASSUME CoreInv, WalkInv, CopyPoint
  PROVE  WalkInv'
<1>1. /\ CoreInv' /\ tool.pc = "copy" /\ tool'.pc = "cursor"
      /\ UNCHANGED <<source, live, frozen, state>>
      /\ \A j \in Ids : Exact(j) => Exact(j)'
      /\ \A j \in Ids : ~Grouped(NextPoint) /\ j = Target(source, NextPoint) => Exact(j)'
  BY PointStep
<1>2. (\A j : Origins(j)' = Origins(j)) /\ (\A i : Grouped(i)' = Grouped(i)) /\ NextPoint' = NextPoint
  BY <1>1 DEF Origins, Grouped, NextPoint, Straight
<1>3. shadow' # Nothing
  BY <1>1 DEF CoreInv, StageInv
<1>4. Walked'
  BY <1>1, <1>2, <1>3 DEF WalkInv, Walked
<1>5. AtCursor'
  BY <1>1, <1>2 DEF AtCursor
<1>6. Copied'
  BY <1>1 DEF CoreInv, StageInv, Copied, CopyPcs
<1>7. Held'
  BY <1>1 DEF WalkInv, Held
<1> QED
  BY <1>1, <1>4, <1>5, <1>6, <1>7 DEF WalkInv, InGroups

LEMMA WalkCursor ==
  ASSUME CoreInv, WalkInv, SaveCursor
  PROVE  WalkInv'
<1>1. /\ CoreInv' /\ tool.pc = "cursor" /\ tool'.pc = "copy"
      /\ UNCHANGED <<source, shadow, live, frozen>>
      /\ state # Nothing /\ state'.step = state.step /\ state'.status = state.status
      /\ NextPoint \in Straight /\ (\A i \in Straight : NextPoint <= i)
      /\ state'.cursor = NextPoint + 1
  BY CursorStep
<1>2. /\ \A j : Origins(j)' = Origins(j) /\ (Exact(j) <=> Exact(j)')
      /\ \A i : Grouped(i)' = Grouped(i)
  BY <1>1, CopyKept DEF CoreInv
<1>3. shadow # Nothing /\ state.cursor \in Nat
  BY <1>1 DEF CoreInv, StageInv, StoreOK, Progress
<1>4. ASSUME NEW j \in Ids, NEW i \in Origins(j), i < NextPoint + 1, ~Grouped(i)
      PROVE  Exact(j)
  <2>1. CASE i < state.cursor
    BY <1>1, <1>4, <2>1 DEF WalkInv, Walked
  <2>2. CASE ~(i < state.cursor)
    <3>1. i \in Straight /\ i \in Nat /\ NextPoint \in Nat
      BY <1>1, <1>3, <1>4, <2>2, IdFacts DEF Straight, Origins, Points
    <3>2. i = NextPoint
      BY <1>1, <1>4, <3>1
    <3> QED
      BY <1>1, <1>4, <3>2 DEF WalkInv, AtCursor, Origins
  <2> QED
    BY <2>1, <2>2
<1>5. Walked'
  BY <1>1, <1>2, <1>3, <1>4 DEF Walked
<1>6. Copied'
  BY <1>1 DEF CoreInv, StageInv, Copied, CopyPcs
<1>7. Held'
  BY <1>1 DEF WalkInv, Held
<1> QED
  BY <1>1, <1>5, <1>6, <1>7 DEF WalkInv, AtCursor, InGroups

LEMMA WalkGroups ==
  ASSUME CoreInv, WalkInv, StartGroups
  PROVE  WalkInv'
<1>1. /\ CoreInv' /\ tool.pc = "copy" /\ tool'.pc = "groups" /\ tool'.todo = TargetGroups(source)
      /\ UNCHANGED <<source, shadow, live, frozen>>
      /\ state # Nothing /\ state'.step = state.step /\ state'.status = state.status
      /\ Straight = {} /\ state'.cursor = Groups
  BY GroupsStep
<1>2. /\ \A j : Origins(j)' = Origins(j) /\ (Exact(j) <=> Exact(j)')
      /\ \A i : Grouped(i)' = Grouped(i)
  BY <1>1, CopyKept DEF CoreInv
<1>3. shadow # Nothing /\ state.cursor \in Nat
  BY <1>1 DEF CoreInv, StageInv, StoreOK, Progress
<1>4. ASSUME NEW j \in Ids, NEW i \in Origins(j), ~Grouped(i) PROVE Exact(j)
  <2>1. i < state.cursor
    BY <1>1, <1>3, IdFacts DEF Straight, Origins, Points
  <2> QED
    BY <1>1, <1>4, <2>1 DEF WalkInv, Walked
<1>5. Walked'
  BY <1>1, <1>2, <1>3, <1>4 DEF Walked
<1>6. InGroups'
  BY <1>1 DEF InGroups
<1>7. Copied'
  BY <1>1 DEF CoreInv, StageInv, Copied, CopyPcs
<1>8. Held'
  BY <1>1 DEF WalkInv, Held
<1> QED
  BY <1>1, <1>5, <1>6, <1>7, <1>8 DEF WalkInv, AtCursor

LEMMA WalkGroup ==
  ASSUME CoreInv, WalkInv, CopyGroup
  PROVE  WalkInv'
<1>1. /\ CoreInv' /\ tool.pc = "groups" /\ tool'.pc = "groups"
      /\ UNCHANGED <<source, live, frozen, state>>
      /\ \A j \in Ids : Exact(j) => Exact(j)'
      /\ \A j \in tool.todo : j \in tool'.todo \/ Exact(j)'
  BY GroupStep
<1>2. (\A j : Origins(j)' = Origins(j)) /\ (\A i : Grouped(i)' = Grouped(i))
  BY <1>1 DEF Origins, Grouped
<1>3. shadow' # Nothing
  BY <1>1 DEF CoreInv, StageInv
<1>4. Walked'
  BY <1>1, <1>2, <1>3 DEF WalkInv, Walked
<1>5. InGroups'
  BY <1>1 DEF WalkInv, InGroups, TargetGroups
<1>6. Copied'
  BY <1>1 DEF CoreInv, StageInv, Copied, CopyPcs
<1>7. Held'
  BY <1>1 DEF WalkInv, Held
<1> QED
  BY <1>1, <1>4, <1>5, <1>6, <1>7 DEF WalkInv, AtCursor

\* Past the groups, every target has been written: by itself or with its group.
LEMMA WalkFinish ==
  ASSUME CoreInv, WalkInv, FinishCopy
  PROVE  WalkInv'
<1>1. /\ CoreInv' /\ tool.pc = "groups" /\ tool.todo = {} /\ tool'.pc = "idle"
      /\ UNCHANGED <<source, shadow, live, frozen>> /\ state # Nothing /\ shadow # Nothing
  BY FinishStep
<1>2. state.cursor = Groups /\ \A j \in TargetGroups(source) : Exact(j)
  BY <1>1 DEF WalkInv, InGroups
<1>3. ASSUME NEW j \in Ids, Origins(j) # {} PROVE Exact(j)
  <2>1. PICK i \in Origins(j) : TRUE
    BY <1>3
  <2>2. CASE Grouped(i)
    BY <1>2, <2>1, <2>2 DEF Grouped, Origins
  <2>3. CASE ~Grouped(i)
    BY <1>1, <1>2, <2>1, <2>3, IdFacts DEF WalkInv, Walked, Origins, Points
  <2> QED
    BY <2>2, <2>3
<1>4. (shadow # Nothing)' /\ AllExact'
  BY <1>1, <1>3, CopyKept DEF AllExact, CoreInv
<1>5. Held'
  BY <1>1 DEF WalkInv, Held
<1> QED
  BY <1>1, <1>4, <1>5, WalkedAll

LEMMA WalkSteps ==
  ASSUME CoreInv, WalkInv, [MigrNext]_migrVars, ~RollsBack
  PROVE  CoreInv' /\ WalkInv'
<1>1. CoreInv' /\ (state # Nothing => source' = source)
  BY CoreSteps, HeldStill DEF WalkInv
<1>2. CASE state' = Nothing
  BY <1>1, <1>2 DEF CoreInv, StageInv, WalkInv, Walked, AtCursor, InGroups, Copied, Held
<1>3. CASE state = Nothing /\ state' # Nothing
  <2>1. state' # state
    BY <1>3
  <2>2. CASE Execute
    <3>1. /\ frozen /\ frozen' = frozen /\ tool'.pc = "map" /\ state'.cursor = 1
          /\ state'.step = "copy" /\ state'.status # "complete"
      BY <1>3, <2>2, ExecuteStep
    <3>2. \A i \in Ids : ~(i < 1)
      BY MigrAssumption DEF Ids
    <3>3. Walked'
      BY <3>1, <3>2 DEF Walked, Origins, Points
    <3> QED
      BY <1>1, <3>1, <3>3 DEF WalkInv, AtCursor, InGroups, Copied, Held
  <2>3. CASE Forward
    BY <1>3, <2>3, ForwardSteps
  <2>4. CASE SaveCursor \/ StartGroups \/ FinishCopy
    BY <1>3, <2>4, CursorStep, GroupsStep, FinishStep
  <2>5. CASE ~(Execute \/ Forward \/ SaveCursor \/ StartGroups \/ FinishCopy)
    <3>1. state' = state
      BY <2>5 DEF MigrNext, Forward, migrVars, storeVars, Freeze, Flip, Unfreeze, Rollback, Learn,
         CacheLoss, Stop, DryRun, WriteMap, MirrorMap, CreateShadow, CopyPoint, CopyGroup,
         RemapRound, RemapMerge, RemapDelete, FoldDelete, FoldWrite, WriteMarker, WriteCount, OwmPass
    <3> QED
      BY <2>1, <3>1
  <2> QED
    BY <2>2, <2>3, <2>4, <2>5
<1>4. CASE state # Nothing /\ state' # Nothing
  <2>1. CASE Forward \/ WriteMarker
    BY <1>1, <2>1, WalkForward
  <2>2. CASE CreateShadow \/ CopyPoint \/ SaveCursor \/ StartGroups \/ CopyGroup \/ FinishCopy
    BY <1>1, <2>2, WalkCreate, WalkPoint, WalkCursor, WalkGroups, WalkGroup, WalkFinish
  <2>3. CASE Execute
    <3>1. UNCHANGED <<source, shadow, state, live, frozen>> /\ tool'.pc = "map"
      BY <1>4, <2>3, ExecuteStep
    <3> QED
      BY <1>1, <3>1, WalkSame DEF WalkInv, Held
  <2>4. CASE Stop \/ WriteMap \/ MirrorMap \/ RemapRound \/ RemapMerge \/ RemapDelete
             \/ FoldDelete \/ FoldWrite \/ WriteCount
    <3>1. UNCHANGED <<source, shadow, state, live, frozen>>
      BY <2>4 DEF Stop, WriteMap, MirrorMap, RemapRound, RemapMerge, RemapDelete, FoldDelete,
         FoldWrite, WriteCount, storeVars
    <3>2. tool'.pc \notin {"cursor", "groups"}
      BY <2>4 DEF Stop, WriteMap, MirrorMap, RemapRound, RemapMerge, RemapDelete, FoldDelete,
         FoldWrite, WriteCount, StepTo, IdleTool, CoreInv, ToolOK
    <3> QED
      BY <1>1, <3>1, <3>2, WalkSame DEF WalkInv, Held
  <2>5. CASE Freeze \/ Unfreeze \/ (\E i \in Ids : CacheLoss(i)) \/ DryRun \/ OwmPass
             \/ Flip \/ UNCHANGED migrVars
    <3>1. UNCHANGED <<source, shadow, state, tool>>
      BY <2>5 DEF Freeze, Unfreeze, CacheLoss, DryRun, OwmPass, Flip, migrVars, storeVars
    <3>2. Held'
      BY <1>1, <2>5 DEF Freeze, Unfreeze, CacheLoss, DryRun, OwmPass, Flip, migrVars, storeVars,
         CoreInv, StageInv, WalkInv, Held
    <3> QED
      BY <1>1, <3>1, <3>2, WalkSame
  <2>6. CASE Rollback \/ \E m \in Texts : Learn(m)
    BY <1>4, <2>6 DEF Rollback, Learn, WalkInv, Held
  <2> QED
    BY <2>1, <2>2, <2>3, <2>4, <2>5, <2>6 DEF MigrNext, Forward
<1> QED
  BY <1>1, <1>2, <1>3, <1>4

\* verify's docstring: while no attempt is undone, whatever is written outside the
\* freeze and wherever the tool stops, a run marked complete has copied every point
\* to its place, and nothing else.
THEOREM MarkedAfterWalk == ASSUME ~RollsBack PROVE MigrSpec => []MarkedIsWhole
<1>1. MigrInit => CoreInv /\ WalkInv
  BY CoreStarts DEF MigrInit, IdleTool, WalkInv, Walked, AtCursor, InGroups, Copied, Held
<1>2. CoreInv /\ WalkInv /\ [MigrNext]_migrVars => CoreInv' /\ WalkInv'
  BY WalkSteps
<1>3. CoreInv /\ WalkInv => MarkedIsWhole
  <2>1. ASSUME CoreInv, WalkInv, marker PROVE shadow # Nothing /\ AllExact
    BY <2>1 DEF CoreInv, StageInv, WalkInv, Copied
  <2> QED
    BY <2>1, WholeIs DEF MarkedIsWhole
<1> QED
  BY <1>1, <1>2, <1>3, PTL DEF MigrSpec

-------------------------------------------------------------------------------
(* An attempt that may be undone: the census counts what is missing *)

\* Of the source: the places its memories go to, and those of all else.
TextPlaces  == {Target(source, i) : i \in {k \in Points(source) : source[k] \in Texts}}
OtherPlaces == {i \in Points(source) : source[i] = Other}

\* Of the copy.
TextCopies  == {j \in Ids : shadow[j].holds \in Texts}
OtherCopies == {j \in Ids : shadow[j].holds = Other}

\* What is in a place is what belongs there.
LEMMA HeldIsExact ==
  ASSUME CoreInv, shadow # Nothing, NEW j \in Ids, shadow[j].holds # Nothing
  PROVE  /\ Exact(j)
         /\ \/ shadow[j].holds \in Texts /\ V2(shadow[j].holds) = j /\ j \in TextPlaces
            \/ shadow[j].holds = Other /\ j \in OtherPlaces
<1>1. Exact(j)
  <2>1. ~Blank(j)
    BY DEF Blank
  <2> QED
    BY <2>1 DEF CoreInv, CopyInv
<1>2. PICK c \in Origins(j) : shadow[j] = [holds |-> source[c], from |-> Origins(j)]
  BY <1>1 DEF Exact
<1>3. shadow[j].holds = source[c] /\ c \in Points(source) /\ Target(source, c) = j
  BY <1>2 DEF Origins
<1>4. CASE source[c] \in Texts
  BY <1>1, <1>3, <1>4 DEF Target, TextPlaces
<1>5. CASE source[c] \notin Texts
  <2>1. source[c] = Other /\ c = j
    BY <1>3, <1>5, Targets DEF CoreInv, StoreOK, Target
  <2> QED
    BY <1>1, <1>3, <2>1 DEF OtherPlaces
<1> QED
  BY <1>4, <1>5

LEMMA CopiesFit ==
  ASSUME CoreInv, shadow # Nothing
  PROVE  /\ TextCopies \subseteq TextPlaces /\ OtherCopies \subseteq OtherPlaces
         /\ Counts(ShadowHolds)["v2"] = Cardinality(TextCopies)
         /\ Counts(ShadowHolds)["other"] = Cardinality(OtherCopies)
         /\ Expected(source)["v2"] = Cardinality(TextPlaces)
         /\ Expected(source)["other"] = Cardinality(OtherPlaces)
<1>1. TextCopies \subseteq TextPlaces
  BY HeldIsExact, MigrAssumption DEF TextCopies
<1>2. OtherCopies \subseteq OtherPlaces
  BY HeldIsExact, MigrAssumption DEF OtherCopies
<1>3. \A j \in Ids : ShadowHolds[j] = shadow[j].holds
  BY DEF ShadowHolds
<1>4. {i \in Points(ShadowHolds) : Bucket(ShadowHolds, i) = "v2"} = TextCopies
  <2>1. ASSUME NEW i \in Points(ShadowHolds), Bucket(ShadowHolds, i) = "v2" PROVE i \in TextCopies
    BY <1>3, <2>1, HeldIsExact DEF Points, Bucket, TextCopies
  <2>2. ASSUME NEW i \in TextCopies PROVE i \in Points(ShadowHolds) /\ Bucket(ShadowHolds, i) = "v2"
    BY <1>3, <2>2, HeldIsExact, MigrAssumption DEF Points, Bucket, TextCopies
  <2> QED
    BY <2>1, <2>2
<1>5. {i \in Points(ShadowHolds) : Bucket(ShadowHolds, i) = "other"} = OtherCopies
  <2>1. ASSUME NEW i \in Points(ShadowHolds), Bucket(ShadowHolds, i) = "other" PROVE i \in OtherCopies
    BY <1>3, <2>1 DEF Points, Bucket, OtherCopies
  <2>2. ASSUME NEW i \in OtherCopies PROVE i \in Points(ShadowHolds) /\ Bucket(ShadowHolds, i) = "other"
    BY <1>3, <2>2, MigrAssumption DEF Points, Bucket, OtherCopies
  <2> QED
    BY <2>1, <2>2
<1>6. {i \in Points(source) : Bucket(source, i) = "other"} = OtherPlaces
  BY DEF Bucket, OtherPlaces
<1>7. /\ Counts(ShadowHolds)["v2"] = Cardinality(TextCopies)
      /\ Counts(ShadowHolds)["other"] = Cardinality(OtherCopies)
  BY <1>4, <1>5 DEF Counts
<1>8. Expected(source)["v2"] = Cardinality(TextPlaces)
  BY DEF Expected, Counts, TextPlaces
<1>9. Expected(source)["other"] = Cardinality(OtherPlaces)
  BY <1>6 DEF Expected, Counts
<1> QED
  BY <1>1, <1>2, <1>7, <1>8, <1>9

\* A part of as many is the whole.
LEMMA CensusIsWhole ==
  ASSUME CoreInv, plan = source, CensusFits
  PROVE  shadow # Nothing /\ AllExact
<1>1. shadow # Nothing /\ Counts(ShadowHolds) = Expected(source)
  BY DEF CensusFits
<1>2. TextPlaces \subseteq Ids /\ OtherPlaces \subseteq Ids
  BY Targets DEF TextPlaces, OtherPlaces, CoreInv, StoreOK, Points
<1>3. IsFiniteSet(TextPlaces) /\ IsFiniteSet(OtherPlaces)
  BY <1>2, Two
<1>4. TextCopies = TextPlaces
  BY <1>1, <1>3, CopiesFit, FS_Subset
<1>5. OtherCopies = OtherPlaces
  BY <1>1, <1>3, CopiesFit, FS_Subset
<1>6. ASSUME NEW j \in Ids, Origins(j) # {} PROVE Exact(j)
  <2>1. PICK k \in Points(source) : Target(source, k) = j
    BY <1>6 DEF Origins
  <2>2. shadow[j].holds # Nothing
    <3>1. CASE source[k] \in Texts
      <4>1. j \in TextCopies
        BY <1>4, <2>1, <3>1 DEF TextPlaces
      <4> QED
        BY <4>1, MigrAssumption DEF TextCopies
    <3>2. CASE source[k] \notin Texts
      <4>1. source[k] = Other /\ k = j
        BY <2>1, <3>2, Targets DEF CoreInv, StoreOK, Target
      <4>2. j \in OtherCopies
        BY <1>5, <4>1 DEF OtherPlaces
      <4> QED
        BY <4>2, MigrAssumption DEF OtherCopies
    <3> QED
      BY <3>1, <3>2
  <2> QED
    BY <1>1, <2>2, HeldIsExact
<1> QED
  BY <1>1, <1>6 DEF AllExact

\* A run is of the collection as it was planned, and what is marked, or about to be,
\* was counted.
PlanInv ==
  /\ plan # Nothing => plan = source
  /\ state # Nothing => plan # Nothing
  /\ marker \/ tool.pc = "mark" => AllExact

LEMMA LateStill ==
  ASSUME CoreInv, [MigrNext]_migrVars, state.step # "copy", state # Nothing
  PROVE  shadow' = shadow
<1>1. live = "shadow" /\ tool.pc \notin CopyPcs
  BY DEF CoreInv, StageInv
<1>2. ~(Rollback \/ CreateShadow \/ CopyPoint \/ CopyGroup)
  BY <1>1 DEF Rollback, CreateShadow, CopyPoint, CopyGroup, CopyPcs
<1> QED
  BY <1>2 DEF MigrNext, migrVars, storeVars, Freeze, Flip, Unfreeze, Learn, CacheLoss, Stop, DryRun,
     Execute, WriteMap, MirrorMap, SaveCursor, StartGroups, FinishCopy, MarkFlipped, RemapBegin,
     RemapRound, RemapMerge, RemapDelete, RemapDone, FoldBegin, FoldDelete, FoldWrite, FoldDone,
     Verify, WriteMarker, WriteCount, VerifyDone, OwmPass

\* Only a run begins with a plan, and only a census that fits goes on to the marker.
LEMMA NewlyMarked ==
  ASSUME CoreInv, [MigrNext]_migrVars
  PROVE  /\ plan' = plan \/ DryRun
         /\ state = Nothing /\ state' # Nothing => plan # Nothing
         /\ marker' => marker \/ tool.pc = "mark"
         /\ tool'.pc = "mark" => tool.pc = "mark" \/ (Verify /\ CensusFits)
<1>1. CASE Execute \/ CreateShadow \/ CopyPoint \/ SaveCursor \/ StartGroups \/ CopyGroup \/ FinishCopy
  BY <1>1, ExecuteStep, CreateStep, PointStep, CursorStep, GroupsStep, GroupStep, FinishStep
<1>2. CASE Forward
  BY <1>2, ForwardSteps
<1>3. CASE WriteMarker
  BY <1>3, MarkerStep
<1>4. CASE Stop \/ WriteMap \/ MirrorMap \/ RemapRound \/ RemapMerge \/ RemapDelete
           \/ FoldDelete \/ FoldWrite \/ WriteCount
  <2>1. UNCHANGED <<plan, state, marker>>
    BY <1>4 DEF Stop, WriteMap, MirrorMap, RemapRound, RemapMerge, RemapDelete, FoldDelete,
       FoldWrite, WriteCount, fileVars
  <2>2. tool'.pc = "mark" => tool.pc = "mark"
    BY <1>4 DEF Stop, WriteMap, MirrorMap, RemapRound, RemapMerge, RemapDelete, FoldDelete,
       FoldWrite, WriteCount, StepTo, IdleTool, CoreInv, ToolOK
  <2> QED
    BY <2>1, <2>2
<1>5. CASE Freeze \/ Unfreeze \/ (\E i \in Ids : CacheLoss(i)) \/ DryRun \/ OwmPass \/ Flip
           \/ Rollback \/ (\E m \in Texts : Learn(m)) \/ UNCHANGED migrVars
  <2>1. plan' = plan \/ DryRun
    BY <1>5 DEF Freeze, Unfreeze, CacheLoss, OwmPass, Flip, Rollback, Learn, migrVars, fileVars
  <2>2. UNCHANGED <<state, marker, tool>>
    BY <1>5 DEF Freeze, Unfreeze, CacheLoss, DryRun, OwmPass, Flip, Rollback, Learn, migrVars, fileVars
  <2> QED
    BY <2>1, <2>2
<1> QED
  BY <1>1, <1>2, <1>3, <1>4, <1>5 DEF MigrNext, Forward

LEMMA PlanSteps ==
  ASSUME CoreInv, PlanInv, [MigrNext]_migrVars, plan # Nothing => source' = source
  PROVE  CoreInv' /\ PlanInv'
<1>1. state # Nothing => plan = source /\ source' = source
  BY DEF PlanInv
<1>2. CoreInv'
  BY <1>1, CoreSteps
<1>3. (plan # Nothing => plan = source)'
  <2>1. CASE DryRun
    BY <2>1 DEF DryRun, storeVars
  <2>2. CASE plan' = plan
    BY <2>2 DEF PlanInv
  <2> QED
    BY <2>1, <2>2, NewlyMarked
<1>4. (state # Nothing => plan # Nothing)'
  <2>1. CASE DryRun
    BY <2>1 DEF DryRun, storeVars, PlanInv
  <2>2. CASE plan' = plan
    BY <2>2, NewlyMarked DEF PlanInv
  <2> QED
    BY <2>1, <2>2, NewlyMarked
<1>5. ASSUME marker \/ tool.pc = "mark" PROVE AllExact'
  <2>1. state # Nothing /\ state.step # "copy"
    BY <1>5 DEF CoreInv, StageInv, LaterPcs
  <2>2. AllExact /\ UNCHANGED <<source, shadow>>
    BY <1>1, <1>5, <2>1, LateStill DEF PlanInv
  <2> QED
    BY <2>2, CopyKept DEF CoreInv
<1>6. ASSUME Verify, CensusFits PROVE AllExact'
  <2>1. state # Nothing /\ UNCHANGED <<source, shadow>>
    BY <1>6, ForwardSteps DEF Forward
  <2>2. AllExact
    BY <1>1, <1>6, <2>1, CensusIsWhole
  <2> QED
    BY <2>1, <2>2, CopyKept DEF CoreInv
<1>7. (marker \/ tool.pc = "mark" => AllExact)'
  BY <1>5, <1>6, NewlyMarked
<1> QED
  BY <1>2, <1>3, <1>4, <1>7 DEF PlanInv

\* verify's docstring: however often the attempt is undone and begun again, if nobody
\* writes between the plan and the marker, a run marked complete has every point in its
\* place, and nothing else.
THEOREM MarkedAfterCensus ==
  MigrSpec /\ [][plan # Nothing => source' = source]_migrVars => []MarkedIsWhole
<1> DEFINE Still == plan # Nothing => source' = source
<1>1. MigrInit => CoreInv /\ PlanInv
  BY CoreStarts DEF MigrInit, IdleTool, PlanInv
<1>2. CoreInv /\ PlanInv /\ [MigrNext]_migrVars /\ [Still]_migrVars => CoreInv' /\ PlanInv'
  <2>1. UNCHANGED migrVars => source' = source
    BY DEF migrVars, storeVars
  <2> QED
    BY <2>1, PlanSteps
<1>3. CoreInv /\ PlanInv => MarkedIsWhole
  <2>1. ASSUME CoreInv, PlanInv, marker PROVE shadow # Nothing /\ AllExact
    BY <2>1 DEF CoreInv, StageInv, PlanInv
  <2> QED
    BY <2>1, WholeIs DEF MarkedIsWhole
<1> HIDE DEF Still
<1>4. MigrSpec /\ [][Still]_migrVars => []MarkedIsWhole
  BY <1>1, <1>2, <1>3, PTL DEF MigrSpec
<1> QED
  BY <1>4 DEF Still

-------------------------------------------------------------------------------
(* What names memories by id *)

\* No memory's new id is the old id of another that moves as well.
Unchained(st) == \A i \in Moving(st) : Target(st, i) \notin Moving(st)

\* Who a run is for: the memories named at j when all have moved, and where the map
\* takes an id.
Named(j) == {i \in events : Target(source, i) = j}
Lands(i) == IF i \in Moving(source) THEN Target(source, i) ELSE i

RunOK ==
  /\ source \in Stores /\ events \subseteq Points(source)
  /\ state \in Progress \cup {Nothing} /\ live \in {"source", "shadow"}
  /\ ToolOK
  /\ tool.pc \in CopyPcs => frozen /\ live = "source" /\ state # Nothing /\ state.step = "copy"
                            /\ state.status # "complete"
  /\ tool.pc \in LaterPcs => live = "shadow"
  /\ tool.pc = "cursor" => Straight # {}
  /\ live = "source" => state = Nothing \/ state.step = "copy"
  /\ live = "shadow" => state # Nothing

\* The map is of the source as it is from when it is written until the flip, and an
\* attempt that is undone has no copy to flip to.
MapInv ==
  /\ tool.pc \in CopyPcs \ {"map"} \/ live = "shadow" => idmap = Mapping(source)
  /\ shadow # Nothing /\ state # Nothing /\ state.status = "complete" =>
         idmap = Mapping(source) /\ (live = "shadow" \/ frozen)

\* Relationships are where they were, or between there and where the map takes them.
RefInv ==
  /\ live = "source" => \A i \in Ids : refs[i] = {i} \cap events
  /\ live = "shadow" => /\ \A i \in Ids : \A k \in refs[i] : k \in events /\ Lands(i) = Target(source, k)
                        /\ \A k \in events : \E i \in Ids : k \in refs[i]
  /\ tool.pc \in {"rounds", "delete"} => tool.todo = Nodes \cap Moving(source)
  /\ tool.pc = "delete" => \A i \in tool.todo : refs[i] \subseteq refs[Target(source, i)]
  /\ tool.pc \in LaterPcs \ {"rounds", "delete"} \/ IsComplete("graph_remap") =>
         Nodes \cap Moving(source) = {}

\* No count is above what was counted, before the fold and after.
HitsBefore == \A i \in Ids : hits[i] = 0 \/ (hits[i] = 1 /\ i \in events)
HitsAfter  == \A j \in Ids : /\ hits[j] \in Nat /\ hits[j] <= Cardinality(Named(j))
                             /\ j \in Moving(source) => hits[j] = 0
FoldedOK   == \A j \in DOMAIN tool.folded :
                /\ j \in Ids \ Moving(source)
                /\ tool.folded[j] \in Nat /\ tool.folded[j] <= Cardinality(Named(j))
HitInv ==
  /\ HitsBefore \/ (live = "shadow" /\ HitsAfter)
  /\ tool.pc \in {"folded", "mark", "count", "verified"} \/ IsComplete("hash_fold") => HitsAfter
  /\ tool.pc \in {"hdel", "hset"} => FoldedOK
  /\ tool.pc = "hset" => \A i \in Ids \ DOMAIN tool.folded : hits[i] = 0

NamesInv == RunOK /\ MapInv /\ RefInv /\ HitInv

LEMMA CompleteIs ==
  ASSUME state \in Progress \cup {Nothing}
  PROVE  /\ IsComplete("graph_remap") <=>
              state # Nothing /\ (state.step \in {"hash_fold", "verify"}
                                  \/ (state.step = "graph_remap" /\ state.status = "complete"))
         /\ IsComplete("hash_fold") <=>
              state # Nothing /\ (state.step = "verify"
                                  \/ (state.step = "hash_fold" /\ state.status = "complete"))
         /\ PriorsComplete("hash_fold") => IsComplete("graph_remap")
         /\ PriorsComplete("verify") => IsComplete("graph_remap") /\ IsComplete("hash_fold")
<1>1. state # Nothing => state.step \in {"copy", "flipped", "graph_remap", "hash_fold", "verify"}
  BY DEF Progress
<1>2. (PriorsComplete("hash_fold") => IsComplete("graph_remap"))
  BY StepNos DEF PriorsComplete, MigrSteps
<1>3. PriorsComplete("verify") => IsComplete("graph_remap") /\ IsComplete("hash_fold")
  BY StepNos DEF PriorsComplete, MigrSteps
<1>4. IsComplete("graph_remap") <=>
              state # Nothing /\ (state.step \in {"hash_fold", "verify"}
                                  \/ (state.step = "graph_remap" /\ state.status = "complete"))
  BY <1>1, StepNos DEF IsComplete
<1>5. IsComplete("hash_fold") <=>
              state # Nothing /\ (state.step = "verify"
                                  \/ (state.step = "hash_fold" /\ state.status = "complete"))
  BY <1>1, StepNos DEF IsComplete
<1> QED
  BY <1>2, <1>3, <1>4, <1>5

\* What moves goes to an id that does not, and what stays stays.
LEMMA LandsIn ==
  ASSUME RunOK, Unchained(source)
  PROVE  /\ Moving(source) \subseteq Ids /\ events \subseteq Ids
         /\ \A i \in Moving(source) : Target(source, i) \in Ids \ Moving(source)
         /\ \A i \in Points(source) : Lands(i) = Target(source, i)
         /\ \A i \in Ids \ Moving(source) : Lands(i) = i
         /\ \A j : IsFiniteSet(Named(j)) /\ Cardinality(Named(j)) \in Nat
         /\ DOMAIN Mapping(source) = Moving(source)
         /\ \A i \in Moving(source) : Mapping(source)[i] = Target(source, i)
<1>1. source \in [Ids -> Contents]
  BY MigrAssumption DEF RunOK
<1>2. Moving(source) \subseteq Ids /\ events \subseteq Ids
  BY DEF Moving, Points, RunOK
<1>3. \A i \in Moving(source) : Target(source, i) \in Ids \ Moving(source)
  BY <1>1, Targets DEF Unchained, Moving
<1>4. \A i \in Points(source) : Lands(i) = Target(source, i)
  BY DEF Lands, Moving
<1>5. \A j : IsFiniteSet(Named(j)) /\ Cardinality(Named(j)) \in Nat
  BY <1>2, Two DEF Named
<1> QED
  BY <1>2, <1>3, <1>4, <1>5 DEF Lands, Mapping

\* Nobody writes to a collection that is frozen or no longer live.
LEMMA StillRun ==
  ASSUME [MigrNext]_migrVars, frozen \/ live = "shadow"
  PROVE  source' = source
<1>1. \A m \in Texts : ~Learn(m)
  BY DEF Learn
<1> QED
  BY <1>1 DEF MigrNext, migrVars, storeVars, Freeze, Flip, Unfreeze, Rollback, CacheLoss, Stop, DryRun,
     Execute, WriteMap, MirrorMap, CreateShadow, CopyPoint, SaveCursor, StartGroups, CopyGroup,
     FinishCopy, MarkFlipped, RemapBegin, RemapRound, RemapMerge, RemapDelete, RemapDone,
     FoldBegin, FoldDelete, FoldWrite, FoldDone, Verify, WriteMarker, WriteCount, VerifyDone, OwmPass

-------------------------------------------------------------------------------
(* The run and its map *)

LEMMA RunOutside ==
  ASSUME RunOK, MapInv,
         Freeze \/ Unfreeze \/ Rollback \/ (\E i \in Ids : CacheLoss(i)) \/ DryRun \/ OwmPass
           \/ UNCHANGED migrVars
  PROVE  RunOK' /\ MapInv'
<1>1. UNCHANGED <<source, live, state, idmap, tool, events>>
  BY DEF Freeze, Unfreeze, Rollback, CacheLoss, DryRun, OwmPass, migrVars, storeVars, fileVars, sideVars
<1>2. /\ frozen' = frozen \/ frozen' = TRUE \/ tool.pc = "idle"
      /\ shadow' = shadow \/ shadow' = Nothing
      /\ shadow' = Nothing \/ (frozen => frozen') \/ state.step = "verify"
  <2>1. CASE Freeze \/ Unfreeze \/ Rollback
    BY <2>1 DEF Freeze, Unfreeze, Rollback, ToolIdle
  <2>2. CASE (\E i \in Ids : CacheLoss(i)) \/ DryRun \/ OwmPass \/ UNCHANGED migrVars
    <3>1. UNCHANGED <<frozen, shadow>>
      BY <2>2 DEF CacheLoss, DryRun, OwmPass, migrVars, storeVars
    <3> QED
      BY <3>1
  <2> QED
    BY <2>1, <2>2
<1>3. RunOK'
  <2>1. ToolOK' /\ Straight' = Straight
    BY <1>1 DEF RunOK, ToolOK, Straight
  <2>2. tool.pc \in CopyPcs => frozen'
    BY <1>2 DEF RunOK, CopyPcs
  <2> QED
    BY <1>1, <2>1, <2>2 DEF RunOK
<1>4. MapInv'
  BY <1>1, <1>2 DEF MapInv, RunOK
<1> QED
  BY <1>3, <1>4

LEMMA RunLearn ==
  ASSUME RunOK, MapInv, NEW m \in Texts, Learn(m)
  PROVE  RunOK' /\ MapInv'
<1>1. UNCHANGED <<shadow, live, frozen, state, idmap, tool, events>> /\ ~frozen /\ live = "source"
      /\ source' \in Stores
  BY DEF Learn, fileVars, sideVars
<1>2. tool.pc \notin CopyPcs /\ tool.pc # "cursor"
  BY <1>1 DEF RunOK, CopyPcs
<1>3. events \subseteq Points(source')
  <2>1. \A i \in Ids : source[i] # Nothing => source'[i] # Nothing
    BY MigrAssumption DEF Learn, RunOK
  <2> QED
    BY <2>1 DEF RunOK, Points
<1>4. RunOK'
  BY <1>1, <1>2, <1>3 DEF RunOK, ToolOK
<1>5. MapInv'
  BY <1>1, <1>2 DEF MapInv
<1> QED
  BY <1>4, <1>5

LEMMA RunFlip ==
  ASSUME RunOK, MapInv, Flip
  PROVE  RunOK' /\ MapInv'
<1>1. UNCHANGED <<source, shadow, frozen, state, idmap, tool, events>> /\ live' = "shadow"
      /\ state # Nothing /\ state.status = "complete" /\ shadow # Nothing /\ tool.pc = "idle"
  BY DEF Flip, fileVars, ToolIdle
<1>2. RunOK'
  BY <1>1 DEF RunOK, ToolOK, CopyPcs, LaterPcs
<1>3. MapInv'
  BY <1>1 DEF MapInv
<1> QED
  BY <1>2, <1>3

\* Steps of the tool that leave the run's record alone.
LEMMA RunQuiet ==
  ASSUME RunOK, MapInv,
         \/ Stop \/ WriteMap \/ MirrorMap \/ CreateShadow \/ CopyPoint \/ CopyGroup
         \/ RemapRound \/ RemapMerge \/ RemapDelete \/ FoldDelete \/ FoldWrite
         \/ WriteMarker \/ WriteCount
  PROVE  /\ RunOK' /\ MapInv'
         /\ UNCHANGED <<source, live, frozen, state, events>>
<1>1. UNCHANGED <<source, live, frozen, state, events>>
  BY DEF Stop, WriteMap, MirrorMap, CreateShadow, CopyPoint, CopyGroup, RemapRound, RemapMerge,
     RemapDelete, FoldDelete, FoldWrite, WriteMarker, WriteCount, storeVars, sideVars
<1>2. CASE Stop
  <2>1. tool'.pc = "idle" /\ ToolOK' /\ UNCHANGED <<shadow, idmap>>
    BY <1>2 DEF Stop, IdleTool, ToolOK, storeVars, fileVars
  <2>2. RunOK'
    BY <1>1, <2>1 DEF RunOK, CopyPcs, LaterPcs
  <2>3. MapInv'
    BY <1>1, <2>1 DEF MapInv, CopyPcs
  <2> QED
    BY <1>1, <2>2, <2>3
<1>3. CASE WriteMap \/ MirrorMap \/ CreateShadow \/ CopyPoint \/ CopyGroup
  <2>1. tool.pc \in CopyPcs /\ tool.pc # "cursor" /\ (tool'.pc \in CopyPcs \ {"map"} \/ tool'.pc = "idle")
    BY <1>3 DEF WriteMap, MirrorMap, CreateShadow, CopyPoint, CopyGroup, StepTo, IdleTool, RunOK, ToolOK, CopyPcs
  <2>2. ToolOK' /\ (tool'.pc = "cursor" => Straight # {})
    BY <1>3, <2>1 DEF WriteMap, MirrorMap, CreateShadow, CopyPoint, CopyGroup, StepTo, IdleTool, RunOK, ToolOK, CopyPcs
  <2>3. idmap' = Mapping(source)
    <3>1. CASE WriteMap
      BY <3>1 DEF WriteMap
    <3>2. CASE ~WriteMap
      BY <1>3, <3>2 DEF MirrorMap, CreateShadow, CopyPoint, CopyGroup, CopyPcs, fileVars, MapInv
    <3> QED
      BY <3>1, <3>2
  <2>4. Straight' = Straight /\ Mapping(source)' = Mapping(source)
    BY <1>1 DEF Straight
  <2>5. RunOK'
    BY <1>1, <2>1, <2>2, <2>4 DEF RunOK, CopyPcs, LaterPcs
  <2>6. MapInv'
    BY <1>1, <2>1, <2>3, <2>4 DEF MapInv, RunOK
  <2> QED
    BY <1>1, <2>5, <2>6
<1>4. CASE RemapRound \/ RemapMerge \/ RemapDelete \/ FoldDelete \/ FoldWrite \/ WriteMarker \/ WriteCount
  <2>1. tool.pc \in LaterPcs /\ tool'.pc \in LaterPcs /\ ToolOK'
    <3>1. CASE RemapRound
      BY <3>1 DEF RemapRound, RunOK, ToolOK, LaterPcs
    <3>2. CASE ~RemapRound
      BY <1>4, <3>2 DEF RemapMerge, RemapDelete, FoldDelete, FoldWrite, WriteMarker, WriteCount, StepTo,
         RunOK, ToolOK, LaterPcs
    <3> QED
      BY <3>1, <3>2
  <2>2. UNCHANGED <<shadow, idmap>>
    BY <1>4 DEF RemapRound, RemapMerge, RemapDelete, FoldDelete, FoldWrite, WriteMarker, WriteCount,
       storeVars, fileVars
  <2>3. RunOK'
    BY <1>1, <2>1 DEF RunOK, CopyPcs, LaterPcs
  <2>4. MapInv'
    BY <1>1, <2>1, <2>2 DEF MapInv, CopyPcs, LaterPcs, RunOK
  <2> QED
    BY <1>1, <2>3, <2>4
<1> QED
  BY <1>2, <1>3, <1>4

LEMMA RunCopy ==
  ASSUME RunOK, MapInv, Execute \/ SaveCursor \/ StartGroups \/ FinishCopy
  PROVE  /\ RunOK' /\ MapInv' /\ UNCHANGED <<source, live, frozen, events, refs, hits>>
         /\ live = "source" /\ tool'.pc \notin LaterPcs /\ state' # Nothing /\ state'.step = "copy"
<1>1. UNCHANGED <<source, shadow, live, frozen, idmap, events, refs, hits>>
  BY DEF Execute, SaveCursor, StartGroups, FinishCopy, storeVars, fileVars, sideVars
<1>2. live = "source" /\ frozen
  BY DEF Execute, SaveCursor, StartGroups, FinishCopy, RunOK, CopyPcs
<1>3. source \in [Ids -> Contents] /\ Straight \subseteq Ids
  BY MigrAssumption DEF RunOK, Straight, Points
<1>4. /\ state' \in Progress /\ state'.step = "copy" /\ tool'.pc # "cursor" /\ ToolOK'
      /\ tool'.pc \in CopyPcs => state'.status # "complete"
      /\ tool'.pc \in CopyPcs \ {"map"} => idmap = Mapping(source)
      /\ state'.status = "complete" => FinishCopy
      /\ tool'.pc \in CopyPcs \cup {"idle"}
  <2>1. CASE Execute
    <3>1. Cardinality(Points(source)) \in Nat
      BY Two DEF Points
    <3>2. state' \in Progress /\ state'.step = "copy" /\ state'.status # "complete"
      <4>1. CASE state = Nothing
        BY <2>1, <3>1, <4>1, IdFacts DEF Execute, Progress
      <4>2. CASE state # Nothing
        BY <2>1, <4>2 DEF Execute, RunOK
      <4> QED
        BY <4>1, <4>2
    <3>3. tool'.pc = "map" /\ ToolOK'
      BY <2>1 DEF Execute, StepTo, RunOK, ToolOK, CopyPcs
    <3> QED
      BY <3>2, <3>3 DEF CopyPcs
  <2>2. CASE SaveCursor \/ StartGroups \/ FinishCopy
    <3>1. state \in Progress /\ state.step = "copy" /\ state.status # "complete"
          /\ tool.pc \in CopyPcs \ {"map"}
      BY <2>2 DEF SaveCursor, StartGroups, FinishCopy, RunOK, CopyPcs
    <3>2. idmap = Mapping(source)
      BY <3>1 DEF MapInv
    <3>3. CASE SaveCursor
      <4>1. NextPoint \in Ids
        BY <1>3, <3>3, LeastId DEF SaveCursor, RunOK, NextPoint
      <4>2. state' \in Progress /\ state'.step = "copy" /\ state'.status # "complete"
        BY <3>1, <3>3, <4>1, IdFacts DEF SaveCursor, Progress
      <4>3. tool'.pc = "copy" /\ ToolOK'
        BY <3>3 DEF SaveCursor, StepTo, RunOK, ToolOK, CopyPcs
      <4> QED
        BY <3>2, <4>2, <4>3 DEF CopyPcs
    <3>4. CASE StartGroups
      <4>1. state' \in Progress /\ state'.step = "copy" /\ state'.status # "complete"
        BY <3>1, <3>4, IdFacts DEF StartGroups, Progress
      <4>2. tool'.pc = "groups" /\ ToolOK'
        BY <3>4 DEF StartGroups, RunOK, ToolOK, CopyPcs, TargetGroups
      <4> QED
        BY <3>2, <4>1, <4>2 DEF CopyPcs
    <3>5. CASE FinishCopy
      <4>1. state' \in Progress /\ state'.step = "copy"
        BY <3>1, <3>5 DEF FinishCopy, Reach, Progress
      <4>2. tool'.pc = "idle" /\ ToolOK'
        BY <3>5 DEF FinishCopy, IdleTool, ToolOK
      <4> QED
        BY <3>2, <3>5, <4>1, <4>2 DEF CopyPcs
    <3> QED
      BY <2>2, <3>3, <3>4, <3>5
  <2> QED
    BY <2>1, <2>2
<1>5. tool'.pc \notin LaterPcs /\ state' # Nothing
  BY <1>4, MigrAssumption DEF CopyPcs, LaterPcs
<1>6. RunOK'
  BY <1>1, <1>2, <1>4, <1>5 DEF RunOK
<1>7. FinishCopy => idmap = Mapping(source)
  BY DEF FinishCopy, MapInv, CopyPcs
<1>8. MapInv'
  BY <1>1, <1>2, <1>4, <1>7 DEF MapInv, CopyPcs
<1> QED
  BY <1>1, <1>2, <1>4, <1>5, <1>6, <1>8

LEMMA RunForward ==
  ASSUME RunOK, MapInv, Forward
  PROVE  /\ RunOK' /\ MapInv' /\ UNCHANGED <<source, live, events, refs, hits>>
         /\ live = "shadow" /\ state # Nothing
<1>1. UNCHANGED <<source, shadow, live, frozen, idmap, events, refs, hits>>
  BY DEF Forward, MarkFlipped, RemapBegin, RemapDone, FoldBegin, FoldDone, Verify, VerifyDone,
     storeVars, fileVars, sideVars
<1>2. ToolOK' /\ tool'.pc \in {"idle"} \cup LaterPcs
  <2>1. CASE RemapBegin
    BY <2>1 DEF RemapBegin, RunOK, ToolOK, Nodes, LaterPcs
  <2>2. CASE FoldBegin
    BY <2>2 DEF FoldBegin, RunOK, ToolOK, LaterPcs
  <2>3. CASE RemapDone \/ FoldDone \/ VerifyDone
    BY <2>3 DEF RemapDone, FoldDone, VerifyDone, IdleTool, ToolOK
  <2>4. CASE Verify \/ MarkFlipped
    BY <2>4 DEF Verify, MarkFlipped, RunOK, ToolOK, ToolIdle, StepTo, LaterPcs
  <2> QED
    BY <2>1, <2>2, <2>3, <2>4 DEF Forward
<1>3. live = "shadow" /\ state # Nothing
  <2>1. CASE MarkFlipped
    BY <2>1 DEF MarkFlipped, RunOK
  <2>2. CASE RemapBegin \/ FoldBegin \/ Verify
    <3>1. PICK s \in {"graph_remap", "hash_fold", "verify"} : PriorsComplete(s)
      BY <2>2 DEF RemapBegin, FoldBegin, Verify
    <3>2. state # Nothing
      BY <3>1, AfterCopy
    <3>3. state.step # "copy"
      BY <3>1, <3>2, AfterFlip DEF RunOK
    <3> QED
      BY <3>2, <3>3 DEF RunOK
  <2>3. CASE RemapDone \/ FoldDone \/ VerifyDone
    BY <2>3 DEF RemapDone, FoldDone, VerifyDone, RunOK, LaterPcs
  <2> QED
    BY <2>1, <2>2, <2>3 DEF Forward
<1>4. state' \in Progress
  <2>1. PICK s \in {"flipped", "graph_remap", "hash_fold", "verify"},
             t \in {"in_progress", "complete"} : Reach(s, t)
    BY DEF Forward, MarkFlipped, RemapBegin, RemapDone, FoldBegin, FoldDone, Verify, VerifyDone
  <2> QED
    BY <1>3, <2>1 DEF Reach, RunOK, Progress
<1>5. RunOK'
  BY <1>1, <1>2, <1>3, <1>4, MigrAssumption DEF RunOK, CopyPcs, LaterPcs
<1>6. MapInv'
  BY <1>1, <1>3 DEF MapInv
<1> QED
  BY <1>1, <1>3, <1>5, <1>6

LEMMA CompleteNext ==
  ASSUME state' \in Progress \cup {Nothing}
  PROVE  /\ IsComplete("graph_remap")' <=>
              state' # Nothing /\ (state'.step \in {"hash_fold", "verify"}
                                   \/ (state'.step = "graph_remap" /\ state'.status = "complete"))
         /\ IsComplete("hash_fold")' <=>
              state' # Nothing /\ (state'.step = "verify"
                                   \/ (state'.step = "hash_fold" /\ state'.status = "complete"))
<1>1. state' # Nothing => state'.step \in {"copy", "flipped", "graph_remap", "hash_fold", "verify"}
  BY DEF Progress
<1>2. IsComplete("graph_remap")' <=>
              state' # Nothing /\ (state'.step \in {"hash_fold", "verify"}
                                   \/ (state'.step = "graph_remap" /\ state'.status = "complete"))
  BY <1>1, StepNos DEF IsComplete
<1>3. IsComplete("hash_fold")' <=>
              state' # Nothing /\ (state'.step = "verify"
                                   \/ (state'.step = "hash_fold" /\ state'.status = "complete"))
  BY <1>1, StepNos DEF IsComplete
<1> QED
  BY <1>2, <1>3

\* What the tool may go on to once the references are moved, and once the counts are.
LEMMA Completed ==
  ASSUME RunOK, Forward
  PROVE  /\ MarkFlipped \/ RemapBegin => ~IsComplete("graph_remap")'
         /\ MarkFlipped \/ RemapBegin \/ RemapDone \/ FoldBegin => ~IsComplete("hash_fold")'
         /\ FoldBegin => IsComplete("graph_remap")
         /\ Verify => IsComplete("graph_remap") /\ IsComplete("hash_fold")
<1>1. state # Nothing
  BY AfterCopy DEF Forward, MarkFlipped, RemapBegin, RemapDone, FoldBegin, FoldDone, Verify, VerifyDone,
     RunOK, LaterPcs
<1>2. state \in Progress
  BY <1>1 DEF RunOK
<1>3. FoldBegin => IsComplete("graph_remap")
  BY <1>2, CompleteIs DEF FoldBegin
<1>4. Verify => IsComplete("graph_remap") /\ IsComplete("hash_fold")
  BY <1>2, CompleteIs DEF Verify
<1>5. ASSUME RemapDone PROVE ~IsComplete("hash_fold")'
  <2>1. state' \in Progress /\ state'.step = "graph_remap"
    BY <1>2, <1>5 DEF RemapDone, Reach, Progress
  <2> QED
    BY <2>1, CompleteNext
<1>6. ASSUME FoldBegin PROVE ~IsComplete("hash_fold")'
  <2>1. state' \in Progress /\ state'.step = "hash_fold" /\ state'.status = "in_progress"
    BY <1>2, <1>6 DEF FoldBegin, Reach, Progress
  <2> QED
    BY <2>1, CompleteNext
<1>7. MarkFlipped \/ RemapBegin => ~IsComplete("graph_remap")' /\ ~IsComplete("hash_fold")'
  <2>1. ASSUME MarkFlipped PROVE ~IsComplete("graph_remap")' /\ ~IsComplete("hash_fold")'
    <3>1. state' \in Progress /\ state'.step = "flipped"
      BY <1>2, <2>1 DEF MarkFlipped, Reach, Progress
    <3> QED
      BY <3>1, CompleteNext
  <2>2. ASSUME RemapBegin PROVE ~IsComplete("graph_remap")' /\ ~IsComplete("hash_fold")'
    <3>1. state' \in Progress /\ state'.step = "graph_remap" /\ state'.status = "in_progress"
      BY <1>2, <2>2 DEF RemapBegin, Reach, Progress
    <3> QED
      BY <3>1, CompleteNext
  <2> QED
    BY <2>1, <2>2
<1> QED
  BY <1>3, <1>4, <1>5, <1>6, <1>7

-------------------------------------------------------------------------------
(* The graph's references *)

LEMMA RefSame ==
  ASSUME RefInv, UNCHANGED <<source, live, events, refs>>,
         tool' = tool \/ tool'.pc \notin {"rounds", "delete"},
         tool'.pc \in LaterPcs \ {"rounds", "delete"} \/ IsComplete("graph_remap")' =>
             Nodes \cap Moving(source) = {}
  PROVE  RefInv'
<1>1. Nodes' = Nodes /\ Moving(source)' = Moving(source) /\ \A i : Lands(i)' = Lands(i)
  BY DEF Nodes, Lands
<1> QED
  BY <1>1 DEF RefInv

LEMMA RefOutside ==
  ASSUME RunOK, RefInv,
         Freeze \/ Unfreeze \/ Rollback \/ (\E i \in Ids : CacheLoss(i)) \/ DryRun \/ OwmPass
           \/ UNCHANGED migrVars
  PROVE  RefInv'
<1>1. UNCHANGED <<source, live, events, refs, tool, state>>
  BY DEF Freeze, Unfreeze, Rollback, CacheLoss, DryRun, OwmPass, migrVars, storeVars, fileVars, sideVars
<1>2. IsComplete("graph_remap")' <=> IsComplete("graph_remap")
  BY <1>1 DEF IsComplete
<1> QED
  BY <1>1, <1>2, RefSame DEF RefInv

LEMMA RefLearn ==
  ASSUME RunOK, RefInv, NEW m \in Texts, Learn(m)
  PROVE  RefInv'
<1>1. UNCHANGED <<live, events, refs, tool, state>> /\ live = "source"
  BY DEF Learn, sideVars
<1>2. ~IsComplete("graph_remap")'
  BY <1>1, CompleteNext DEF RunOK
<1> QED
  BY <1>1, <1>2 DEF RefInv, RunOK, LaterPcs

LEMMA RefFlip ==
  ASSUME RunOK, RefInv, Unchained(source), Flip
  PROVE  RefInv'
<1>1. /\ UNCHANGED <<source, events, refs, tool, state>> /\ live = "source" /\ live' = "shadow"
      /\ tool.pc = "idle" /\ state.step = "copy"
  BY DEF Flip, ToolIdle
<1>2. ~IsComplete("graph_remap")'
  BY <1>1, CompleteNext DEF RunOK
<1>3. \A i : Lands(i)' = Lands(i) /\ Target(source, i)' = Target(source, i)
  BY <1>1 DEF Lands
<1>4. \A i \in Ids : \A k \in refs[i] : k \in events /\ Lands(i) = Target(source, k)
  BY <1>1, LandsIn DEF RefInv, RunOK
<1>5. \A k \in events : \E i \in Ids : k \in refs[i]
  BY <1>1, LandsIn DEF RefInv
<1> QED
  BY <1>1, <1>2, <1>3, <1>4, <1>5 DEF RefInv, LaterPcs

LEMMA RefForward ==
  ASSUME RunOK, MapInv, RefInv, Unchained(source), Forward
  PROVE  RefInv'
<1>1. UNCHANGED <<source, live, events, refs>> /\ live = "shadow"
  BY RunForward
<1>2. CASE RemapBegin
  <2>1. idmap = Mapping(source)
    BY <1>1 DEF MapInv
  <2>2. tool'.pc = "rounds" /\ tool'.todo = Nodes \cap Moving(source)
    BY <1>2, <2>1, LandsIn DEF RemapBegin, RunOK, ToolOK
  <2>3. ~IsComplete("graph_remap")'
    BY <1>2, Completed
  <2>4. Nodes' = Nodes /\ Moving(source)' = Moving(source) /\ \A i : Lands(i)' = Lands(i)
    BY <1>1 DEF Nodes, Lands
  <2> QED
    BY <1>1, <2>2, <2>3, <2>4 DEF RefInv
<1>3. CASE ~RemapBegin
  <2>1. tool'.pc \notin {"rounds", "delete"}
    <3>1. CASE MarkFlipped
      BY <3>1 DEF MarkFlipped, ToolIdle
    <3>2. CASE FoldBegin
      BY <3>2 DEF FoldBegin, RunOK, ToolOK
    <3>3. CASE RemapDone \/ FoldDone \/ VerifyDone
      BY <3>3 DEF RemapDone, FoldDone, VerifyDone, IdleTool
    <3>4. CASE Verify
      BY <3>4 DEF Verify, StepTo, ToolIdle, RunOK, ToolOK
    <3> QED
      BY <1>3, <3>1, <3>2, <3>3, <3>4 DEF Forward
  <2>2. CASE MarkFlipped
    <3>1. tool'.pc = "idle" /\ ~IsComplete("graph_remap")'
      BY <2>2, Completed DEF MarkFlipped, ToolIdle
    <3> QED
      BY <1>1, <2>1, <3>1, RefSame DEF LaterPcs
  <2>3. CASE ~MarkFlipped
    <3>1. Nodes \cap Moving(source) = {}
      <4>1. CASE FoldBegin \/ Verify
        BY <4>1, Completed DEF Forward, RefInv
      <4>2. CASE RemapDone \/ FoldDone \/ VerifyDone
        BY <4>2 DEF RemapDone, FoldDone, VerifyDone, RefInv, LaterPcs
      <4> QED
        BY <1>3, <2>3, <4>1, <4>2 DEF Forward
    <3> QED
      BY <1>1, <2>1, <3>1, RefSame
  <2> QED
    BY <2>2, <2>3
<1> QED
  BY <1>2, <1>3

LEMMA RefQuiet ==
  ASSUME RunOK, MapInv, RefInv,
         \/ Stop \/ WriteMap \/ MirrorMap \/ CreateShadow \/ CopyPoint \/ CopyGroup
         \/ FoldDelete \/ FoldWrite \/ WriteMarker \/ WriteCount
         \/ Execute \/ SaveCursor \/ StartGroups \/ FinishCopy
  PROVE  RefInv'
<1>1. CASE Stop \/ WriteMap \/ MirrorMap \/ CreateShadow \/ CopyPoint \/ CopyGroup
           \/ FoldDelete \/ FoldWrite \/ WriteMarker \/ WriteCount
  <2>1. UNCHANGED <<source, live, state, events>>
    BY <1>1, RunQuiet
  <2>2. UNCHANGED refs
    BY <1>1 DEF Stop, WriteMap, MirrorMap, CreateShadow, CopyPoint, CopyGroup, FoldDelete, FoldWrite,
       WriteMarker, WriteCount, sideVars
  <2>3. IsComplete("graph_remap")' <=> IsComplete("graph_remap")
    BY <2>1 DEF IsComplete
  <2>4. CASE Stop \/ WriteMap \/ MirrorMap \/ CreateShadow \/ CopyPoint \/ CopyGroup
    <3>1. tool'.pc \notin LaterPcs
      BY <2>4 DEF Stop, WriteMap, MirrorMap, CreateShadow, CopyPoint, CopyGroup, StepTo, IdleTool,
         RunOK, ToolOK, LaterPcs
    <3> QED
      BY <2>1, <2>2, <2>3, <3>1, RefSame DEF RefInv, LaterPcs
  <2>5. CASE FoldDelete \/ FoldWrite \/ WriteMarker \/ WriteCount
    <3>1. tool.pc \in LaterPcs \ {"rounds", "delete"} /\ tool'.pc \notin {"rounds", "delete"}
      BY <2>5 DEF FoldDelete, FoldWrite, WriteMarker, WriteCount, StepTo, RunOK, ToolOK, LaterPcs
    <3> QED
      BY <2>1, <2>2, <3>1, RefSame DEF RefInv
  <2> QED
    BY <1>1, <2>4, <2>5
<1>2. CASE Execute \/ SaveCursor \/ StartGroups \/ FinishCopy
  <2>1. /\ UNCHANGED <<source, live, events, refs>> /\ RunOK' /\ tool'.pc \notin LaterPcs
        /\ state' # Nothing /\ state'.step = "copy"
    BY <1>2, RunCopy
  <2>2. ~IsComplete("graph_remap")'
    BY <2>1, CompleteNext DEF RunOK
  <2> QED
    BY <2>1, <2>2, RefSame DEF LaterPcs
<1> QED
  BY <1>1, <1>2

\* A round moves one node to each free id, and leaves the rest.
LEMMA RefRound ==
  ASSUME RunOK, MapInv, RefInv, Unchained(source), RemapRound
  PROVE  RefInv'
<1> DEFINE moves == Movable(tool.todo)
           To(i) == Target(source, i)
<1>1. /\ UNCHANGED <<source, live, state, events>> /\ live = "shadow"
      /\ tool.pc = "rounds" /\ idmap = Mapping(source) /\ tool.todo = Nodes \cap Moving(source)
      /\ tool'.pc = "rounds" /\ tool'.todo = tool.todo \ moves
  <2>1. tool.pc = "rounds" /\ UNCHANGED <<source, live, state, events>>
    BY DEF RemapRound, storeVars
  <2>2. live = "shadow"
    BY <2>1 DEF RunOK, LaterPcs
  <2> QED
    BY <2>1, <2>2 DEF RemapRound, RefInv, MapInv, RunOK, ToolOK
<1>2. moves \subseteq Nodes \cap Moving(source)
  BY <1>1 DEF Movable
<1>3. \A i \in moves : /\ idmap[i] = To(i) /\ To(i) \in Ids \ Moving(source) /\ To(i) \notin Nodes
                       /\ refs[To(i)] = {} /\ i \in Ids /\ Lands(i) = To(i) /\ Lands(To(i)) = To(i)
  <2> SUFFICES ASSUME NEW i \in moves
               PROVE  /\ idmap[i] = To(i) /\ To(i) \in Ids \ Moving(source) /\ To(i) \notin Nodes
                      /\ refs[To(i)] = {} /\ i \in Ids /\ Lands(i) = To(i) /\ Lands(To(i)) = To(i)
    OBVIOUS
  <2>1. i \in Moving(source) /\ i \in Ids /\ idmap[i] = To(i) /\ To(i) \in Ids \ Moving(source)
    BY <1>1, <1>2, LandsIn
  <2>2. To(i) \notin Nodes
    BY <2>1 DEF Movable
  <2> QED
    BY <2>1, <2>2 DEF Nodes, Lands
<1>4. \A i, k \in moves : To(i) = To(k) => i = k
  <2>1. \A i, k \in moves : To(i) = To(k) => i <= k /\ k <= i
    BY <1>3 DEF Movable
  <2> QED
    BY <1>3, <2>1, IdFacts
<1>5. \A i \in moves : refs'[To(i)] = refs[i]
  <2> SUFFICES ASSUME NEW i \in moves PROVE refs'[To(i)] = refs[i]
    OBVIOUS
  <2>1. {k \in moves : idmap[k] = To(i)} = {i}
    BY <1>3, <1>4
  <2>2. Max({i}) = i
    BY <1>3, IdFacts DEF Max
  <2> HIDE DEF moves
  <2>3. refs'[To(i)] = refs[Max({k \in moves : idmap[k] = To(i)})]
    BY <1>3 DEF RemapRound, moves
  <2> QED
    BY <2>1, <2>2, <2>3
<1>6. \A j \in Ids : (\A i \in moves : To(i) # j) => refs'[j] = IF j \in moves THEN {} ELSE refs[j]
  BY <1>3 DEF RemapRound
<1>7. \A i \in moves : refs'[i] = {}
  BY <1>2, <1>3, <1>6
<1> HIDE DEF moves, To
<1>8. \A j \in Ids : \A k \in refs'[j] : k \in events /\ Lands(j) = Target(source, k)
  <2> SUFFICES ASSUME NEW j \in Ids, NEW k \in refs'[j] PROVE k \in events /\ Lands(j) = Target(source, k)
    OBVIOUS
  <2>1. CASE \E i \in moves : To(i) = j
    <3>1. PICK i \in moves : To(i) = j
      BY <2>1
    <3>2. k \in refs[i]
      BY <1>5, <3>1
    <3> QED
      BY <1>1, <1>3, <3>1, <3>2 DEF RefInv
  <2>2. CASE ~ \E i \in moves : To(i) = j
    <3>1. k \in refs[j]
      BY <1>6, <2>2
    <3> QED
      BY <1>1, <3>1 DEF RefInv
  <2> QED
    BY <2>1, <2>2
<1>9. \A k \in events : \E i \in Ids : k \in refs'[i]
  <2> SUFFICES ASSUME NEW k \in events PROVE \E i \in Ids : k \in refs'[i]
    OBVIOUS
  <2>1. PICK i \in Ids : k \in refs[i]
    BY <1>1 DEF RefInv
  <2>2. CASE i \in moves
    BY <1>3, <1>5, <2>1, <2>2
  <2>3. CASE i \notin moves
    <3>1. \A n \in moves : To(n) # i
      BY <1>3, <2>1
    <3> QED
      BY <1>6, <2>1, <2>3, <3>1
  <2> QED
    BY <2>2, <2>3
<1>10. \A i \in Moving(source) : refs'[i] = IF i \in moves THEN {} ELSE refs[i]
  BY <1>3, <1>6, LandsIn
<1>11. Nodes' \cap Moving(source) = tool'.todo
  BY <1>1, <1>10, LandsIn DEF Nodes
<1>12. IsComplete("graph_remap")' => Nodes' \cap Moving(source) = {}
  <2>1. IsComplete("graph_remap")' => IsComplete("graph_remap")
    BY <1>1 DEF IsComplete
  <2> QED
    BY <1>1, <1>11, <2>1 DEF RefInv
<1>13. Moving(source)' = Moving(source) /\ \A i : Lands(i)' = Lands(i)
  BY <1>1 DEF Lands
<1> QED
  BY <1>1, <1>8, <1>9, <1>11, <1>12, <1>13 DEF RefInv

\* What waits for no other is added to who stays, and only then removed.
LEMMA RefMerge ==
  ASSUME RunOK, MapInv, RefInv, Unchained(source), RemapMerge
  PROVE  RefInv'
<1>1. /\ UNCHANGED <<source, live, state, events>> /\ live = "shadow"
      /\ tool.pc = "rounds" /\ idmap = Mapping(source) /\ tool.todo = Nodes \cap Moving(source)
      /\ tool'.pc = "delete" /\ tool'.todo = tool.todo
  <2>1. tool.pc = "rounds" /\ UNCHANGED <<source, live, state, events>>
    BY DEF RemapMerge, storeVars
  <2>2. live = "shadow"
    BY <2>1 DEF RunOK, LaterPcs
  <2> QED
    BY <2>1, <2>2 DEF RemapMerge, RefInv, MapInv, RunOK, ToolOK, StepTo
<1>2. \A i \in tool.todo : /\ i \in Ids /\ idmap[i] = Target(source, i) /\ i \in Moving(source)
                           /\ Target(source, i) \in Ids \ Moving(source)
  BY <1>1, LandsIn
<1>3. Collisions(tool.todo) = tool.todo
  BY <1>1, <1>2 DEF Collisions
<1>4. \A j \in Ids : refs'[j] = refs[j] \cup UNION {refs[i] : i \in {k \in tool.todo : Target(source, k) = j}}
  BY <1>2, <1>3 DEF RemapMerge
<1>5. \A i \in Moving(source) : refs'[i] = refs[i]
  <2> SUFFICES ASSUME NEW i \in Moving(source) PROVE refs'[i] = refs[i]
    OBVIOUS
  <2>1. {k \in tool.todo : Target(source, k) = i} = {}
    BY <1>2
  <2>2. i \in Ids
    BY LandsIn
  <2> QED
    BY <1>4, <2>1, <2>2
<1>6. \A i \in tool.todo : refs'[i] \subseteq refs'[Target(source, i)]
  BY <1>2, <1>4, <1>5
<1>7. \A j \in Ids : \A k \in refs'[j] : k \in events /\ Lands(j) = Target(source, k)
  <2> SUFFICES ASSUME NEW j \in Ids, NEW k \in refs'[j] PROVE k \in events /\ Lands(j) = Target(source, k)
    OBVIOUS
  <2>1. CASE k \in refs[j]
    BY <1>1, <2>1 DEF RefInv
  <2>2. CASE k \notin refs[j]
    <3>1. PICK i \in tool.todo : Target(source, i) = j /\ k \in refs[i]
      BY <1>4, <2>2
    <3>2. Lands(i) = j /\ Lands(j) = j
      BY <1>2, <3>1 DEF Lands
    <3> QED
      BY <1>1, <1>2, <3>1, <3>2 DEF RefInv
  <2> QED
    BY <2>1, <2>2
<1>8. \A k \in events : \E i \in Ids : k \in refs'[i]
  BY <1>1, <1>4 DEF RefInv
<1>9. Nodes' \cap Moving(source) = Nodes \cap Moving(source)
  BY <1>5, LandsIn DEF Nodes
<1>10. IsComplete("graph_remap")' => IsComplete("graph_remap")
  BY <1>1 DEF IsComplete
<1>11. Moving(source)' = Moving(source) /\ \A i : Lands(i)' = Lands(i) /\ Target(source, i)' = Target(source, i)
  BY <1>1 DEF Lands
<1> QED
  BY <1>1, <1>6, <1>7, <1>8, <1>9, <1>10, <1>11 DEF RefInv, LaterPcs

LEMMA RefDelete ==
  ASSUME RunOK, MapInv, RefInv, Unchained(source), RemapDelete
  PROVE  RefInv'
<1>1. /\ UNCHANGED <<source, live, state, events>> /\ live = "shadow"
      /\ tool.pc = "delete" /\ idmap = Mapping(source) /\ tool.todo = Nodes \cap Moving(source)
      /\ tool'.pc = "remapped"
  <2>1. tool.pc = "delete" /\ UNCHANGED <<source, live, state, events>>
    BY DEF RemapDelete, storeVars
  <2>2. live = "shadow"
    BY <2>1 DEF RunOK, LaterPcs
  <2> QED
    BY <2>1, <2>2 DEF RemapDelete, RefInv, MapInv, RunOK, ToolOK, StepTo
<1>2. \A i \in tool.todo : /\ i \in Ids /\ idmap[i] = Target(source, i) /\ i \in Moving(source)
                           /\ Target(source, i) \in Ids \ Moving(source)
  BY <1>1, LandsIn
<1>3. Collisions(tool.todo) = tool.todo
  BY <1>1, <1>2 DEF Collisions
<1>4. \A j \in Ids : refs'[j] = IF j \in tool.todo THEN {} ELSE refs[j]
  BY <1>3 DEF RemapDelete
<1>5. \A j \in Ids : \A k \in refs'[j] : k \in events /\ Lands(j) = Target(source, k)
  BY <1>1, <1>4 DEF RefInv
<1>6. \A k \in events : \E i \in Ids : k \in refs'[i]
  <2> SUFFICES ASSUME NEW k \in events PROVE \E i \in Ids : k \in refs'[i]
    OBVIOUS
  <2>1. PICK i \in Ids : k \in refs[i]
    BY <1>1 DEF RefInv
  <2>2. CASE i \in tool.todo
    <3>1. k \in refs[Target(source, i)] /\ Target(source, i) \notin tool.todo
      BY <1>1, <1>2, <2>1, <2>2 DEF RefInv
    <3> QED
      BY <1>2, <1>4, <2>2, <3>1
  <2>3. CASE i \notin tool.todo
    BY <1>4, <2>1, <2>3
  <2> QED
    BY <2>2, <2>3
<1>7. Nodes' \cap Moving(source) = {}
  BY <1>1, <1>4, LandsIn DEF Nodes
<1>8. Moving(source)' = Moving(source) /\ \A i : Lands(i)' = Lands(i)
  BY <1>1 DEF Lands
<1> QED
  BY <1>1, <1>5, <1>6, <1>7, <1>8 DEF RefInv

-------------------------------------------------------------------------------
(* The recall counts *)

\* The sum over a set as the function that is defined over its subsets.
Summing(f, S, sum) ==
  sum = [s \in SUBSET S |-> IF s = {} THEN 0
                            ELSE f[CHOOSE x \in s : TRUE] + sum[s \ {CHOOSE x \in s : TRUE}]]

SumOver(f, S) == MapThenSumSet(LAMBDA i : f[i], S)

LEMMA SumIs ==
  ASSUME NEW f, NEW S, \E sum : Summing(f, S, sum)
  PROVE  \E sum : Summing(f, S, sum) /\ SumOver(f, S) = sum[S]
<1> DEFINE sum == CHOOSE g : Summing(f, S, g)
<1>1. Summing(f, S, sum)
  BY DEF Summing
<1>2. SumOver(f, S) = sum[S]
  BY DEF SumOver, MapThenSumSet, MapThenFoldSet, Summing
<1> QED
  BY <1>1, <1>2

\* Of ones it is the number of elements.
LEMMA SumOfOnes ==
  ASSUME NEW f, NEW S, IsFiniteSet(S), \A i \in S : f[i] = 1
  PROVE  SumOver(f, S) = Cardinality(S)
<1>1. ASSUME NEW s \in SUBSET S, s # {}, NEW x \in s
      PROVE  /\ IsFiniteSet(s) /\ Cardinality(s) \in Nat /\ Cardinality(s \ {x}) \in Nat
             /\ Cardinality(s \ {x}) = Cardinality(s) - 1
  BY <1>1, FS_Subset, FS_CardinalityType, FS_RemoveElement
<1>2. Summing(f, S, [s \in SUBSET S |-> Cardinality(s)])
  <2> DEFINE size == [s \in SUBSET S |-> Cardinality(s)]
  <2>1. ASSUME NEW s \in SUBSET S, s # {}
        PROVE  Cardinality(s) = f[CHOOSE x \in s : TRUE] + size[s \ {CHOOSE x \in s : TRUE}]
    <3>1. PICK x \in s : x = CHOOSE y \in s : TRUE
      BY <2>1
    <3>2. size[s \ {x}] = Cardinality(s \ {x})
      OBVIOUS
    <3>3. f[x] = 1 /\ Cardinality(s) = 1 + Cardinality(s \ {x})
      BY <1>1, <2>1
    <3> HIDE DEF size
    <3>4. Cardinality(s) = f[x] + size[s \ {x}]
      BY <3>2, <3>3
    <3> QED
      BY <3>1, <3>4
  <2>2. size = [s \in SUBSET S |-> IF s = {} THEN 0
                  ELSE f[CHOOSE x \in s : TRUE] + size[s \ {CHOOSE x \in s : TRUE}]]
    BY <2>1, FS_EmptySet
  <2> QED
    BY <2>2 DEF Summing
<1>3. PICK sum : Summing(f, S, sum) /\ SumOver(f, S) = sum[S]
  BY <1>2, SumIs
<1>4. \A s \in SUBSET S : sum[s] = Cardinality(s)
  <2> DEFINE Bad == {s \in SUBSET S : sum[s] # Cardinality(s)}
             Sizes == {Cardinality(s) : s \in Bad}
  <2> SUFFICES ASSUME Bad # {} PROVE FALSE
    OBVIOUS
  <2>1. Sizes \subseteq Nat /\ Sizes # {}
    BY FS_Subset, FS_CardinalityType
  <2> HIDE DEF Sizes
  <2>2. \E n \in Sizes : \A m \in Sizes : ~(<<m, n>> \in OpToRel(<, Nat))
    BY <2>1, NatLessThanWellFounded, WFMin
  <2> USE DEF Sizes
  <2>3. PICK s \in Bad : \A t \in Bad : ~(<<Cardinality(t), Cardinality(s)>> \in OpToRel(<, Nat))
    BY <2>2
  <2>4. s # {}
    BY <1>3, FS_EmptySet DEF Summing
  <2>5. PICK x \in s : x = CHOOSE y \in s : TRUE
    BY <2>4
  <2>6. sum[s] = f[x] + sum[s \ {x}]
    BY <1>3, <2>4, <2>5 DEF Summing
  <2>7. s \ {x} \notin Bad
    <3>1. Cardinality(s \ {x}) < Cardinality(s) /\ Cardinality(s) \in Nat /\ Cardinality(s \ {x}) \in Nat
      BY <1>1, <2>4
    <3> QED
      BY <2>3, <3>1 DEF OpToRel
  <2> QED
    BY <1>1, <2>4, <2>6, <2>7
<1> QED
  BY <1>3, <1>4

\* Of one number it is that number.
LEMMA SumOfOne ==
  ASSUME NEW f, NEW j, f[j] \in Nat
  PROVE  SumOver(f, {j}) = f[j]
<1>1. \A s \in SUBSET {j} : s # {} => (CHOOSE x \in s : TRUE) = j /\ s \ {CHOOSE x \in s : TRUE} = {}
  OBVIOUS
<1>2. Summing(f, {j}, [s \in SUBSET {j} |-> IF s = {} THEN 0 ELSE f[j]])
  BY <1>1 DEF Summing
<1>3. PICK sum : Summing(f, {j}, sum) /\ SumOver(f, {j}) = sum[{j}]
  BY <1>2, SumIs
<1>4. sum[{}] = 0 /\ sum[{j}] = f[j] + sum[{}]
  BY <1>1, <1>3 DEF Summing
<1> QED
  BY <1>3, <1>4

\* What a fold writes is bounded, whether it is the first or the last was stopped.
LEMMA FoldFits ==
  ASSUME RunOK, MapInv, HitInv, Unchained(source), live = "shadow"
  PROVE  \A j \in DOMAIN Folded :
           /\ j \in Ids \ Moving(source)
           /\ Folded[j] \in Nat /\ Folded[j] <= Cardinality(Named(j))
<1> DEFINE fields == {i \in Ids : hits[i] > 0}
           At(j) == {i \in fields : NewId(i) = j}
<1>1. \A i \in Ids : NewId(i) = Lands(i) /\ Lands(i) \in Ids \ Moving(source)
  BY LandsIn DEF NewId, MapInv, Lands
<1>2. DOMAIN Folded = {NewId(i) : i \in fields}
  BY DEF Folded
<1> SUFFICES ASSUME NEW j \in Ids \ Moving(source), At(j) # {}, j \in DOMAIN Folded
             PROVE  Folded[j] \in Nat /\ Folded[j] <= Cardinality(Named(j))
  BY <1>1, <1>2
<1>3. Folded[j] = SumOver(hits, At(j))
  BY DEF Folded, SumOver
<1>4. CASE HitsBefore
  <2>1. \A i \in At(j) : hits[i] = 1 /\ i \in Named(j)
    <3> SUFFICES ASSUME NEW i \in At(j) PROVE hits[i] = 1 /\ i \in Named(j)
      OBVIOUS
    <3>1. hits[i] = 1 /\ i \in events
      BY <1>4 DEF HitsBefore
    <3> QED
      BY <1>1, <3>1, LandsIn DEF Named, RunOK
  <2>2. At(j) \subseteq Named(j)
    BY <2>1
  <2>3. IsFiniteSet(At(j)) /\ Cardinality(At(j)) <= Cardinality(Named(j)) /\ Cardinality(At(j)) \in Nat
    BY <2>2, LandsIn, FS_Subset, FS_CardinalityType
  <2> HIDE DEF At
  <2>4. Folded[j] = Cardinality(At(j))
    BY <1>3, <2>1, <2>3, SumOfOnes
  <2> QED
    BY <2>3, <2>4
<1>5. CASE ~HitsBefore
  <2>1. HitsAfter
    BY <1>5 DEF HitInv
  <2>2. At(j) = {j}
    <3>1. \A i \in fields : i \notin Moving(source) /\ NewId(i) = i
      BY <1>1, <2>1, LandsIn DEF HitsAfter
    <3> QED
      BY <3>1
  <2>3. hits[j] \in Nat /\ hits[j] <= Cardinality(Named(j))
    BY <2>1 DEF HitsAfter
  <2> HIDE DEF At
  <2>4. Folded[j] = hits[j]
    BY <1>3, <2>2, <2>3, SumOfOne
  <2> QED
    BY <2>3, <2>4
<1> QED
  BY <1>4, <1>5

LEMMA HitSame ==
  ASSUME HitInv, UNCHANGED <<source, live, events, hits>>,
         tool' = tool \/ tool'.pc \notin {"hdel", "hset"},
         tool'.pc \in {"folded", "mark", "count", "verified"} \/ IsComplete("hash_fold")' => HitsAfter
  PROVE  HitInv'
<1>1. Moving(source)' = Moving(source) /\ \A j : Named(j)' = Named(j)
  BY DEF Named
<1>2. (HitsAfter <=> HitsAfter') /\ (HitsBefore <=> HitsBefore')
  BY <1>1 DEF HitsAfter, HitsBefore
<1>3. tool' = tool => (FoldedOK <=> FoldedOK')
  BY <1>1 DEF FoldedOK
<1> QED
  BY <1>2, <1>3 DEF HitInv

LEMMA HitOutside ==
  ASSUME RunOK, HitInv,
         Freeze \/ Unfreeze \/ Rollback \/ (\E i \in Ids : CacheLoss(i)) \/ DryRun \/ OwmPass
           \/ UNCHANGED migrVars
  PROVE  HitInv'
<1>1. UNCHANGED <<source, live, events, hits, tool, state>>
  BY DEF Freeze, Unfreeze, Rollback, CacheLoss, DryRun, OwmPass, migrVars, storeVars, fileVars, sideVars
<1>2. IsComplete("hash_fold")' <=> IsComplete("hash_fold")
  BY <1>1 DEF IsComplete
<1> QED
  BY <1>1, <1>2, HitSame DEF HitInv

\* Before the flip nothing is folded.
LEMMA HitOperator ==
  ASSUME RunOK, HitInv, Flip \/ \E m \in Texts : Learn(m)
  PROVE  HitInv'
<1>1. UNCHANGED <<events, hits, tool, state>> /\ live = "source"
  BY DEF Flip, Learn, sideVars
<1>2. ~IsComplete("hash_fold")'
  BY <1>1, CompleteNext DEF RunOK
<1>3. HitsBefore /\ tool.pc \notin LaterPcs
  BY <1>1 DEF HitInv, RunOK
<1>4. HitsBefore'
  BY <1>1, <1>3 DEF HitsBefore
<1> QED
  BY <1>1, <1>2, <1>3, <1>4 DEF HitInv, LaterPcs

LEMMA HitForward ==
  ASSUME RunOK, MapInv, HitInv, Unchained(source), Forward
  PROVE  HitInv'
<1>1. UNCHANGED <<source, live, events, hits>> /\ live = "shadow"
  BY RunForward
<1>2. CASE FoldBegin
  <2>1. tool'.pc = "hdel" /\ tool'.folded = Folded
    BY <1>2 DEF FoldBegin, RunOK, ToolOK
  <2>2. ~IsComplete("hash_fold")'
    BY <1>2, Completed
  <2>3. Moving(source)' = Moving(source) /\ \A j : Named(j)' = Named(j)
    BY <1>1 DEF Named
  <2>4. (HitsAfter <=> HitsAfter') /\ (HitsBefore <=> HitsBefore')
    BY <1>1, <2>3 DEF HitsAfter, HitsBefore
  <2>5. FoldedOK'
    BY <1>1, <2>1, <2>3, FoldFits DEF FoldedOK
  <2> QED
    BY <1>1, <2>1, <2>2, <2>4, <2>5 DEF HitInv
<1>3. CASE MarkFlipped \/ RemapBegin \/ RemapDone
  <2>1. ~IsComplete("hash_fold")'
    BY <1>3, Completed
  <2>2. tool'.pc \in {"idle", "rounds"}
    <3>1. CASE RemapBegin
      BY <3>1 DEF RemapBegin, RunOK, ToolOK
    <3>2. CASE MarkFlipped \/ RemapDone
      BY <3>2 DEF MarkFlipped, RemapDone, IdleTool, ToolIdle
    <3> QED
      BY <1>3, <3>1, <3>2
  <2> QED
    BY <1>1, <2>1, <2>2, HitSame
<1>4. CASE FoldDone \/ Verify \/ VerifyDone
  <2>1. HitsAfter
    <3>1. CASE Verify
      BY <3>1, Completed DEF HitInv
    <3>2. CASE FoldDone \/ VerifyDone
      BY <3>2 DEF FoldDone, VerifyDone, HitInv
    <3> QED
      BY <1>4, <3>1, <3>2
  <2>2. tool'.pc \in {"idle", "mark"}
    BY <1>4 DEF FoldDone, Verify, VerifyDone, IdleTool, StepTo, ToolIdle, RunOK, ToolOK
  <2> QED
    BY <1>1, <2>1, <2>2, HitSame
<1> QED
  BY <1>2, <1>3, <1>4 DEF Forward

LEMMA HitQuiet ==
  ASSUME RunOK, MapInv, HitInv,
         \/ Stop \/ WriteMap \/ MirrorMap \/ CreateShadow \/ CopyPoint \/ CopyGroup
         \/ RemapRound \/ RemapMerge \/ RemapDelete \/ WriteMarker \/ WriteCount
         \/ Execute \/ SaveCursor \/ StartGroups \/ FinishCopy
  PROVE  HitInv'
<1>1. CASE Stop \/ WriteMap \/ MirrorMap \/ CreateShadow \/ CopyPoint \/ CopyGroup
           \/ RemapRound \/ RemapMerge \/ RemapDelete \/ WriteMarker \/ WriteCount
  <2>1. UNCHANGED <<source, live, state, events>>
    BY <1>1, RunQuiet
  <2>2. UNCHANGED hits
    BY <1>1 DEF Stop, WriteMap, MirrorMap, CreateShadow, CopyPoint, CopyGroup, RemapRound, RemapMerge,
       RemapDelete, WriteMarker, WriteCount, sideVars
  <2>3. IsComplete("hash_fold")' <=> IsComplete("hash_fold")
    BY <2>1 DEF IsComplete
  <2>4. CASE WriteMarker \/ WriteCount
    <3>1. tool.pc \in {"mark", "count"} /\ tool'.pc \in {"count", "verified"}
      BY <2>4 DEF WriteMarker, WriteCount, StepTo, RunOK, ToolOK
    <3> QED
      BY <2>1, <2>2, <3>1, HitSame DEF HitInv
  <2>5. CASE ~(WriteMarker \/ WriteCount)
    <3>1. tool'.pc \notin {"hdel", "hset", "folded", "mark", "count", "verified"}
      <4>1. CASE RemapRound
        BY <4>1 DEF RemapRound, RunOK, ToolOK
      <4>2. CASE ~RemapRound
        BY <1>1, <2>5, <4>2 DEF Stop, WriteMap, MirrorMap, CreateShadow, CopyPoint, CopyGroup, RemapMerge,
           RemapDelete, StepTo, IdleTool, RunOK, ToolOK
      <4> QED
        BY <4>1, <4>2
    <3> QED
      BY <2>1, <2>2, <2>3, <3>1, HitSame DEF HitInv
  <2> QED
    BY <2>4, <2>5
<1>2. CASE Execute \/ SaveCursor \/ StartGroups \/ FinishCopy
  <2>1. /\ UNCHANGED <<source, live, events, hits>> /\ RunOK' /\ tool'.pc \notin LaterPcs
        /\ state' # Nothing /\ state'.step = "copy"
    BY <1>2, RunCopy
  <2>2. ~IsComplete("hash_fold")'
    BY <2>1, CompleteNext DEF RunOK
  <2> QED
    BY <2>1, <2>2, HitSame DEF LaterPcs
<1> QED
  BY <1>1, <1>2

\* HDEL, then HSET: a count may be lost in between, none is counted again.
LEMMA HitFold ==
  ASSUME RunOK, MapInv, HitInv, Unchained(source), FoldDelete \/ FoldWrite
  PROVE  HitInv'
<1>1. UNCHANGED <<source, live, state, events>>
  BY RunQuiet
<1>2. /\ live = "shadow" /\ FoldedOK
      /\ tool' = [tool EXCEPT !.pc = IF tool.pc = "hdel" THEN "hset" ELSE "folded"]
      /\ IsComplete("hash_fold")' <=> IsComplete("hash_fold")
  BY <1>1 DEF FoldDelete, FoldWrite, StepTo, RunOK, LaterPcs, HitInv, IsComplete
<1>3. Moving(source)' = Moving(source) /\ \A j : Named(j)' = Named(j)
  BY <1>1 DEF Named
<1>4. \A j \in Ids : Cardinality(Named(j)) \in Nat
  BY LandsIn
<1>5. CASE FoldDelete
  <2>1. tool'.pc = "hset" /\ tool'.folded = tool.folded
    BY <1>2, <1>5 DEF FoldDelete, RunOK, ToolOK
  <2>2. \A i \in Ids : hits'[i] = IF i \in DOMAIN tool.folded THEN hits[i] ELSE 0
    BY <1>5 DEF FoldDelete
  <2>3. HitsBefore => HitsBefore'
    BY <1>1, <2>2 DEF HitsBefore
  <2>4. HitsAfter => HitsAfter'
    BY <1>3, <1>4, <2>2 DEF HitsAfter
  <2>5. FoldedOK'
    BY <1>2, <1>3, <2>1 DEF FoldedOK
  <2> QED
    BY <1>1, <1>2, <2>1, <2>2, <2>3, <2>4, <2>5 DEF HitInv
<1>6. CASE FoldWrite
  <2>1. tool.pc = "hset" /\ tool'.pc = "folded"
    BY <1>2, <1>6 DEF FoldWrite, RunOK, ToolOK
  <2>2. \A i \in Ids : hits'[i] = IF i \in DOMAIN tool.folded THEN tool.folded[i] ELSE 0
    BY <1>6, <2>1 DEF FoldWrite, HitInv
  <2>3. HitsAfter'
    BY <1>2, <1>3, <1>4, <2>2 DEF HitsAfter, FoldedOK
  <2> QED
    BY <1>1, <1>2, <2>1, <2>3 DEF HitInv
<1> QED
  BY <1>5, <1>6

-------------------------------------------------------------------------------

LEMMA NamesStart ==
  ASSUME MigrInit
  PROVE  NamesInv
<1>1. events \subseteq Ids
  BY DEF MigrInit, Points
<1>2. RunOK
  BY DEF MigrInit, RunOK, ToolOK, IdleTool, CopyPcs, LaterPcs
<1>3. MapInv
  BY DEF MigrInit, MapInv, IdleTool, CopyPcs
<1>4. RefInv
  BY DEF MigrInit, RefInv, IdleTool, LaterPcs, IsComplete
<1>5. HitInv
  BY DEF MigrInit, HitInv, HitsBefore, IdleTool, IsComplete
<1> QED
  BY <1>2, <1>3, <1>4, <1>5 DEF NamesInv

LEMMA NamesSteps ==
  ASSUME \A st \in Stores : Unchained(st), NamesInv, [MigrNext]_migrVars
  PROVE  NamesInv'
<1>1. RunOK /\ MapInv /\ RefInv /\ HitInv /\ Unchained(source)
  BY DEF NamesInv, RunOK
<1>2. CASE Freeze \/ Unfreeze \/ Rollback \/ (\E i \in Ids : CacheLoss(i)) \/ DryRun \/ OwmPass
           \/ UNCHANGED migrVars
  BY <1>1, <1>2, RunOutside, RefOutside, HitOutside DEF NamesInv
<1>3. CASE Flip
  BY <1>1, <1>3, RunFlip, RefFlip, HitOperator DEF NamesInv
<1>4. CASE \E m \in Texts : Learn(m)
  BY <1>1, <1>4, RunLearn, RefLearn, HitOperator DEF NamesInv
<1>5. CASE Stop \/ WriteMap \/ MirrorMap \/ CreateShadow \/ CopyPoint \/ CopyGroup \/ WriteMarker \/ WriteCount
  BY <1>1, <1>5, RunQuiet, RefQuiet, HitQuiet DEF NamesInv
<1>6. CASE Execute \/ SaveCursor \/ StartGroups \/ FinishCopy
  BY <1>1, <1>6, RunCopy, RefQuiet, HitQuiet DEF NamesInv
<1>7. CASE RemapRound \/ RemapMerge \/ RemapDelete
  BY <1>1, <1>7, RunQuiet, RefRound, RefMerge, RefDelete, HitQuiet DEF NamesInv
<1>8. CASE FoldDelete \/ FoldWrite
  BY <1>1, <1>8, RunQuiet, RefQuiet, HitFold DEF NamesInv
<1>9. CASE Forward
  BY <1>1, <1>9, RunForward, RefForward, HitForward DEF NamesInv
<1> QED
  BY <1>2, <1>3, <1>4, <1>5, <1>6, <1>7, <1>8, <1>9 DEF MigrNext, Forward

LEMMA NamesFollowThen ==
  ASSUME NamesInv, Unchained(source)
  PROVE  NamesFollow
<1>1. RunOK /\ RefInv /\ HitInv
  BY DEF NamesInv
<1>2. live = "source" => \A i \in Nodes : source[i] # Nothing
  BY <1>1 DEF RefInv, RunOK, Nodes, Points
<1>3. ASSUME IsComplete("graph_remap"), NEW j \in Ids
      PROVE  refs[j] = {i \in events : Target(source, i) = j}
  <2>1. live = "shadow" /\ Nodes \cap Moving(source) = {}
    BY <1>1, <1>3, CompleteIs DEF RefInv, RunOK
  <2>2. \A i \in Ids : \A k \in refs[i] : k \in events /\ i = Target(source, k)
    <3>1. \A i \in Ids : \A k \in refs[i] : i \notin Moving(source)
      BY <2>1 DEF Nodes
    <3> QED
      BY <1>1, <2>1, <3>1, LandsIn DEF RefInv
  <2>3. \A k \in events : \E i \in Ids : k \in refs[i]
    BY <1>1, <2>1 DEF RefInv
  <2> QED
    BY <2>2, <2>3
<1>4. ASSUME IsComplete("hash_fold"), NEW j \in Ids
      PROVE  hits[j] <= Cardinality({i \in events : Target(source, i) = j})
  BY <1>1, <1>4 DEF HitInv, HitsAfter, Named
<1> QED
  BY <1>2, <1>3, <1>4 DEF NamesFollow

\* "The remapped rows name ids the live collection lacks", "a reset-to-absent crash
\* window beats a silent double-count": for any texts and any store in which no
\* memory's new id is the old id of another that moves, with attempts undone and texts
\* written outside the freeze, what names memories by id follows them.
THEOREM NamesAlwaysFollow ==
  ASSUME \A st \in Stores : Unchained(st)
  PROVE  MigrSpec => []NamesFollow
<1>1. NamesInv => NamesFollow
  BY NamesFollowThen DEF NamesInv, RunOK
<1> QED
  BY <1>1, NamesStart, NamesSteps, PTL DEF MigrSpec
===============================================================================

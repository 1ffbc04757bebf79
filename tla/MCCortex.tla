------------------------------- MODULE MCCortex -------------------------------
(* A runbook of three steps, the first load-bearing, or one source of       *)
(* documents.  They share no key, and a behaviour is one of a few           *)
(* situations, each with what it needs: edits that are warned of, commands  *)
(* that need a permit each, edits and commands that are refused, a command  *)
(* that needs two permits, commands that are reconciled at once, ingests.   *)
EXTENDS Procedures, Corpus, TLC
CONSTANTS edit, backup, deploy, release,   \* steps 2, 1, 3, and both 2 and 3
          c1, c2, ann, ben, boss,
          Parts                            \* the situations of a run
VARIABLE part

MCMatches  == (backup :> {1}) @@ (edit :> {2}) @@ (deploy :> {3}) @@ (release :> {2, 3})
MCSymmetry == Permutations({c1, c2}) \cup Permutations({ann, ben})

OneAgent    == \A c, d \in Calls : Nil \in {judging'[c].by, judging'[d].by}
                                     \/ judging'[c].by = judging'[d].by
OneCall     == \A c, d \in Calls : judging'[c].pc # "idle" /\ judging'[d].pc # "idle" => c = d
Only(A)     == \A c \in Calls : judging'[c].action \in A \cup {Nil}
FirstExec   == \A c \in Calls : judging'[c].no = 1
OneOpen     == Cardinality(challenges') <= 1 /\ Cardinality(pending') <= 1
Armed(x)    == mode' \in {"advise", x} /\ (mode = x => mode' = x)

CortexInit == ProcInit /\ CorpusInit /\ part \in Parts

RunbookNext ==
    /\ ProcNext
    /\ \/ part = "warn"   /\ Only({backup, edit, deploy}) /\ mode' = mode /\ OneAgent /\ OneOpen
       \/ part = "permit" /\ Only({deploy}) /\ Armed("require_ack") /\ OneOpen /\ Len(acks') <= 1
       \/ part = "two"    /\ FirstExec /\ Only({backup, release}) /\ Armed("require_ack") /\ OneAgent /\ OneCall
                          /\ Cardinality(pending') <= 1
       \/ part = "block"  /\ Only({backup, edit, deploy}) /\ Armed("block") /\ OneAgent /\ OneCall /\ OneOpen
       \/ part = "late"   /\ Only({backup, deploy}) /\ Armed("advise") /\ OneAgent /\ OneCall

CortexNext ==
    /\ UNCHANGED part
    /\ \/ RunbookNext /\ UNCHANGED corpusVars
       \/ part = "corpus" /\ CorpusNext /\ UNCHANGED procVars

CortexSpec == CortexInit /\ [][CortexNext]_<<procVars, corpusVars, part>>
===============================================================================

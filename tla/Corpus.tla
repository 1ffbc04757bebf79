-------------------------------- MODULE Corpus --------------------------------
(***************************************************************************)
(* Document ingestion (corpus/pipeline.py, store.py, api.py): one source   *)
(* of the shared store.  An ingest stages the chunks of a new generation,  *)
(* gated; flips them live; sweeps every other generation; and records the  *)
(* source.  A deletion removes the chunks, then the record.  Each command  *)
(* to Qdrant or Redis is an action, and any of them may fail.              *)
(*                                                                         *)
(* Left out: the text of chunks and how it is cut, workspaces, names       *)
(* reserved to a dex (the name alone decides), and the bulk deletion,      *)
(* which is a deletion of each source in turn.  Sources share no point     *)
(* and no key.                                                             *)
(***************************************************************************)
EXTENDS Naturals

CONSTANTS Writers,        \* members
          SourceAdmins,   \* those with the admin scope
          Ingests,        \* calls in flight
          MaxGens,        \* bound on ingests: each makes a generation
          LastChunk,      \* chunks of a document
          Absent          \* no record, no value

ASSUME CorpusAssumption == /\ SourceAdmins \subseteq Writers
                           /\ LastChunk \in Nat \ {0}
                           /\ MaxGens \in Nat
                           /\ Absent \notin Writers

VARIABLES points,      \* the source's chunks in Qdrant, by generation
          record,      \* corpus:source:<name>
          listed,      \* corpus:source_index has the name
          work,        \* calls in flight
          generations  \* ingest ids handed out

corpusVars == <<points, record, listed, work, generations>>

Scopes == {"workspace", "member"}
Chunks == 1 .. LastChunk
Gens   == 1 .. MaxGens
Point  == [gen : Gens, chunk : Chunks, live : BOOLEAN]
Record == [member : Writers, visibility : Scopes]
NoWork == [pc |-> "idle", by |-> Absent, visibility |-> Absent, gen |-> 0, next |-> 1]

CorpusTypeOK ==
    /\ points \subseteq Point
    /\ record \in Record \cup {Absent}
    /\ listed \in BOOLEAN
    /\ work \in [Ingests -> [pc : {"idle", "stage", "commit", "sweep", "record", "list",
                                   "chunks", "unrecord", "unlist"},
                             by : Writers \cup {Absent}, visibility : Scopes \cup {Absent},
                             gen : 0 .. MaxGens, next : 1 .. LastChunk + 1]]
    /\ generations \in 0 .. MaxGens

CorpusInit ==
    /\ points = {} /\ record = Absent /\ listed = FALSE
    /\ work = [i \in Ingests |-> NoWork]
    /\ generations = 0

-----------------------------------------------------------------------------
At(i, pc)   == work[i].pc = pc
Goto(i, pc) == work' = [work EXCEPT ![i].pc = pc]
Finish(i)   == work' = [work EXCEPT ![i] = NoWork]

\* What a caller finds: the listing, then the record of each name in it.
Tracked == IF listed THEN record ELSE Absent

\* A private source is its member's and the administrators'.
Visible(r, m) == r.visibility = "member" => m \in SourceAdmins \cup {r.member}

\* ingest: replacing a source is gated like deleting it, and looked at once; a
\* listing that fails has no source in it.
BeginIngest(i, m, v) ==
    /\ At(i, "idle")
    /\ \E found \in {Tracked, Absent} : found # Absent => Visible(found, m)
    /\ generations < MaxGens
    /\ generations' = generations + 1
    /\ work' = [work EXCEPT ![i] = [pc |-> "stage", by |-> m, visibility |-> v,
                                    gen |-> generations + 1, next |-> 1]]
    /\ UNCHANGED <<points, record, listed>>

\* Mutant: chunks are written live.
Staged_Live(i) == [gen |-> work[i].gen, chunk |-> work[i].next, live |-> TRUE]

\* Chunks are written gated.
Staged(i) == [gen |-> work[i].gen, chunk |-> work[i].next, live |-> FALSE]

\* store_chunks: one upsert.
StageChunk(i) ==
    /\ At(i, "stage")
    /\ points' = points \cup {Staged(i)}
    /\ work' = [work EXCEPT ![i].next = @ + 1,
                            ![i].pc   = IF work[i].next = LastChunk THEN "commit" ELSE "stage"]
    /\ UNCHANGED <<record, listed, generations>>

\* One payload flip over the generation, whatever is left of it.
CommitGeneration(i) ==
    /\ At(i, "commit")
    /\ points' = {[p EXCEPT !.live = p.live \/ p.gen = work[i].gen] : p \in points}
    /\ Goto(i, "sweep")
    /\ UNCHANGED <<record, listed, generations>>

\* Mutant: the sweep keeps the older generations and drops the newest.
Swept_Newest(i) == {p \in points : p.gen >= work[i].gen}

\* All but the generation's own points, staged ones of others included.
Swept(i) == {p \in points : p.gen # work[i].gen}

SweepOthers(i) ==
    /\ At(i, "sweep")
    /\ points' = points \ Swept(i)
    /\ Goto(i, "record")
    /\ UNCHANGED <<record, listed, generations>>

\* track_source: the record, then its place in the listing.
SetRecord(i) ==
    /\ At(i, "record")
    /\ record' = [member |-> work[i].by, visibility |-> work[i].visibility]
    /\ Goto(i, "list")
    /\ UNCHANGED <<points, listed, generations>>

ListSource(i) ==
    /\ At(i, "list")
    /\ listed' = TRUE
    /\ Finish(i)
    /\ UNCHANGED <<points, record, generations>>

\* delete_source: the chunks, the record, its place in the listing.
BeginDelete(i, m) ==
    /\ At(i, "idle")
    /\ Tracked # Absent
    /\ Visible(Tracked, m)
    /\ work' = [work EXCEPT ![i] = [NoWork EXCEPT !.pc = "chunks", !.by = m]]
    /\ UNCHANGED <<points, record, listed, generations>>

DeleteChunks(i) ==
    /\ At(i, "chunks")
    /\ points' = {}
    /\ Goto(i, "unrecord")
    /\ UNCHANGED <<record, listed, generations>>

DeleteRecord(i) ==
    /\ At(i, "unrecord")
    /\ record' = Absent
    /\ Goto(i, "unlist")
    /\ UNCHANGED <<points, listed, generations>>

UnlistSource(i) ==
    /\ At(i, "unlist")
    /\ listed' = FALSE
    /\ Finish(i)
    /\ UNCHANGED <<points, record, generations>>

\* A command fails, or the service stops: nothing is undone.
IngestFails(i) ==
    /\ ~At(i, "idle")
    /\ Finish(i)
    /\ UNCHANGED <<points, record, listed, generations>>

CorpusNext ==
    \E i \in Ingests :
        \/ \E m \in Writers : \/ \E v \in Scopes : BeginIngest(i, m, v)
                              \/ BeginDelete(i, m)
        \/ StageChunk(i)
        \/ CommitGeneration(i)
        \/ SweepOthers(i)
        \/ SetRecord(i)
        \/ ListSource(i)
        \/ DeleteChunks(i)
        \/ DeleteRecord(i)
        \/ UnlistSource(i)
        \/ IngestFails(i)

CorpusSpec == CorpusInit /\ [][CorpusNext]_corpusVars

-----------------------------------------------------------------------------
(* Properties *)

\* The generation g can be recalled in full.
Whole(g) == \A k \in Chunks : [gen |-> g, chunk |-> k, live |-> TRUE] \in points

SomeWhole == \E g \in Gens : Whole(g)

\* What recall finds of a source is whole generations, wherever an ingest stops:
\* "a failure anywhere before this line leaves the new generation unrecallable,
\* not half-visible" (pipeline.py:127).
RecallIsWhole == \A p \in points : p.live => Whole(p.gen)

\* "Old chunks stay live until the new generation is committed" (pipeline.py:100):
\* a source that could be recalled in full stays so until it is deleted.
OnlyDeletionEmpties ==
    [][SomeWhole => SomeWhole' \/ \E i \in Ingests : At(i, "chunks")]_corpusVars
=============================================================================

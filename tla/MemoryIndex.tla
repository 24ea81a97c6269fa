----------------------------- MODULE MemoryIndex -----------------------------
(***************************************************************************)
(* The memory index of the accepted text: MemoryIndexService               *)
(* (memory/indexer.py), the part of VersionService.accept_version that     *)
(* calls it (services/versioning.py), reindexing through                   *)
(* MemoryApplicationService (application/memory.py) and the upserts of     *)
(* graph/repositories.py.                                                  *)
(*                                                                         *)
(* An indexer is a thread: of a workflow that has just accepted a version, *)
(* or of an API request or job that indexes again a list of versions.  It  *)
(* loads a snapshot, sees that the version has a record, marks it, embeds  *)
(* outside any transaction, and writes everything in one transaction.      *)
(*                                                                         *)
(* A version's chunks (text, summary, facts) and relations share one fate  *)
(* and are one status.  Profile is the text of a character, which a        *)
(* promotion changes; its chunks belong to no version.  One entity stands  *)
(* for those extracted from facts, which several versions may mention.     *)
(***************************************************************************)
EXTENDS GovernedEmbeddings, FiniteSetsExt

CONSTANTS
    Versions,      \* chapter versions, in the order of (chapter, version)
    ChapterOf,     \* the chapter of every version
    Mentions,      \* versions whose facts mention the entity
    Changes,       \* versions that change the character
    MaxReindex     \* bound on reindex requests

ASSUME MemoryIndexAssumption ==
    /\ Versions \subseteq Nat \ {0} /\ IsFiniteSet(Versions)
    /\ DOMAIN ChapterOf = Versions /\ Mentions \cup Changes \subseteq Versions
    /\ MaxReindex \in Nat

VARIABLES
    version,    \* status of every chapter version
    chunk,      \* status of the chunks and relations of every version
    record,     \* status of every version's MemoryIndexRecord
    profile,    \* number of the current text of the character
    remembered, \* texts of the character whose chunk is accepted
    entity,     \* the graph entity: its status and source_version_id
    indexer,
    newest,     \* history: the version promoted last
    overtaken,  \* history: versions superseded while an indexer was at them
    abandoned,  \* history: versions left pending or indexing by an exception
    reindexed,
    crashed     \* history: a process has died

rows == <<version, chunk, record, profile, remembered, entity>>
history == <<newest, overtaken, abandoned>>
counts == <<reindexed, crashed>>
vars == <<rows, indexer, history, counts, embedding, faults>>

None == 0
Chapters == {ChapterOf[v] : v \in Versions}
\* The versions of todo are indexed in their order.
IdleIndexer == [pc |-> "idle", caller |-> "none", todo |-> {}, force |-> FALSE,
                text |-> 0]

Init ==
    /\ version = [v \in Versions |-> "candidate"]
    /\ chunk = [v \in Versions |-> "none"]
    /\ record = [v \in Versions |-> "none"]
    /\ profile = 0 /\ remembered = {}
    /\ entity = [status |-> "none", source |-> None]
    /\ indexer = [i \in Indexers |-> IdleIndexer]
    /\ newest = None /\ overtaken = {} /\ abandoned = {}
    /\ reindexed = 0 /\ crashed = FALSE
    /\ EmbeddingInit

-----------------------------------------------------------------------------
(***************************************************************************)
(* Promotion.                                                              *)
(***************************************************************************)

Accepted(c) == {v \in Versions : ChapterOf[v] = c /\ version[v] = "accepted"}
Of(i) == Min(indexer[i].todo)
AtWork(v) == \E i \in Indexers : indexer[i].pc \in {"ensure", "mark", "embed"} /\ Of(i) = v

\* Chunks and relations of the versions in old become superseded.
Hidden(old) ==
    [v \in Versions |-> IF v \in old /\ chunk[v] = "accepted" THEN "superseded"
                                                              ELSE chunk[v]]
\* The entity goes with the version that is its source.
HiddenEntity(old) ==
    IF entity.source \in old /\ entity.status = "accepted"
    THEN [entity EXCEPT !.status = "superseded"] ELSE entity

\* Mutant: only the pointer and the text change, memory is left to the indexer.
SupersedesLater(old) == UNCHANGED <<chunk, entity>>
SupersedeVersion(old) == chunk' = Hidden(old) /\ entity' = HiddenEntity(old)

Replaced(v) == Accepted(ChapterOf[v])

\* A record that is missing is created.
EnsurePendingInSession(v) == record' = [record EXCEPT ![v] = IF @ = "none" THEN "pending" ELSE @]

\* The transaction of accept_version; its thread then indexes the version.
\* The candidate updates of a version are applied to the characters.
AcceptVersion(i, v) ==
    LET old == Replaced(v) IN
    /\ indexer[i].pc = "idle" /\ version[v] = "candidate"
    /\ version' = [u \in Versions |-> IF u \in old THEN "superseded"
                                      ELSE IF u = v THEN "accepted" ELSE version[u]]
    /\ SupersedeVersion(old)
    /\ EnsurePendingInSession(v)
    /\ profile' = IF v \in Changes THEN v ELSE profile
    /\ newest' = v
    /\ overtaken' = overtaken \cup {u \in old : AtWork(u)}
    /\ indexer' = [indexer EXCEPT ![i] = [IdleIndexer EXCEPT
                      !.pc = "load", !.caller = "accept", !.todo = {v}]]
    /\ UNCHANGED <<remembered, abandoned, counts, embedding, faults>>

-----------------------------------------------------------------------------
(***************************************************************************)
(* Requests to index again.                                                *)
(***************************************************************************)

\* reindex lists the accepted versions, all or one, in order, and indexes
\* them one after the other.
Reindex(i, force) ==
    /\ indexer[i].pc = "idle" /\ reindexed < MaxReindex
    /\ \E vs \in SUBSET {v \in Versions : version[v] = "accepted"} :
          /\ vs # {}
          /\ Cardinality(vs) = 1 \/ vs = {v \in Versions : version[v] = "accepted"}
          /\ indexer' = [indexer EXCEPT ![i] = [IdleIndexer EXCEPT
                            !.pc = "load", !.caller = "reindex", !.force = force,
                            !.todo = vs]]
    /\ reindexed' = reindexed + 1
    /\ UNCHANGED <<rows, history, faults, crashed, embedding>>

-----------------------------------------------------------------------------
(***************************************************************************)
(* index_accepted_chapter_version, for the first version of todo.         *)
(***************************************************************************)

At(i, pc) == indexer[i].pc = pc
Goto(i, pc) == indexer' = [indexer EXCEPT ![i].pc = pc]

\* The call returns and the caller takes the next version.
Return(i) ==
    indexer' = [indexer EXCEPT ![i] =
                  IF indexer[i].todo = {Of(i)} THEN IdleIndexer
                  ELSE [indexer[i] EXCEPT !.pc = "load",
                                          !.todo = indexer[i].todo \ {Of(i)}]]

\* An exception leaves the call: accept_version marks the record, a reindex
\* ends with the versions it has not reached.  The record stays as it is where
\* the exception leaves accept_version, too.
Propagate(i) ==
    IF indexer[i].caller = "accept" /\ ~At(i, "mark_failed")
    THEN Goto(i, "mark_failed") /\ UNCHANGED history
    ELSE /\ indexer' = [indexer EXCEPT ![i] = IdleIndexer]
         /\ abandoned' = abandoned \cup IF indexer[i].pc \in {"embed", "mark_failed"}
                                         THEN {Of(i)} ELSE {}
         /\ UNCHANGED <<newest, overtaken>>

\* _load_snapshot refuses a version that is no longer accepted.
LoadSnapshot(i) ==
    /\ At(i, "load")
    /\ IF version[Of(i)] = "accepted"
       THEN indexer' = [indexer EXCEPT ![i].pc = "ensure", ![i].text = profile]
            /\ UNCHANGED history
       ELSE Propagate(i)
    /\ UNCHANGED <<rows, counts, embedding, faults>>

EnsurePending(i) ==
    /\ At(i, "ensure") /\ Goto(i, "mark")
    /\ EnsurePendingInSession(Of(i))
    /\ UNCHANGED <<version, chunk, profile, remembered, entity, history, counts,
                   embedding, faults>>

\* A completed record is left alone unless forced.
MarkIndexing(i) ==
    /\ At(i, "mark")
    /\ IF record[Of(i)] = "completed" /\ ~indexer[i].force
       THEN Return(i) /\ UNCHANGED <<record, embedder, faults>>
       ELSE /\ record' = [record EXCEPT ![Of(i)] = "indexing"]
            /\ Goto(i, "embed") /\ BeginEmbedding(i)
    /\ UNCHANGED <<version, chunk, profile, remembered, entity, history, counts,
                   budget, priced, torn>>

EmbedTexts(i) == EmbedStep(i) /\ UNCHANGED <<rows, indexer, history, counts>>

\* An error of the embedding provider is recorded and is a result; any other
\* error leaves the call.
Leave(i) == /\ embedder' = [embedder EXCEPT ![i] = IdleEmbedder]
            /\ UNCHANGED <<budget, priced, torn>>
EmbeddingRaised(i) ==
    \/ /\ Step(i, "raised") /\ IsEmbeddingError(embedder[i].error) /\ Leave(i) /\ UNCHANGED faults
       /\ record' = [record EXCEPT ![Of(i)] = "failed"] /\ Return(i)
       /\ UNCHANGED <<version, chunk, profile, remembered, entity, history, counts>>
    \/ /\ Step(i, "raised") /\ ~IsEmbeddingError(embedder[i].error) /\ Leave(i)
       /\ Propagate(i) /\ UNCHANGED <<rows, counts, faults>>

\* A transaction fails: one before the embedding, the final one, or the one that
\* is to record the error of the provider or of the call.
Raises(i) ==
    \/ /\ \/ indexer[i].pc \in {"load", "ensure", "mark", "mark_failed"}
          \/ Step(i, "answered")
          \/ Step(i, "raised") /\ IsEmbeddingError(embedder[i].error)
       /\ Fault
       /\ Propagate(i) /\ Leave(i)
       /\ UNCHANGED <<rows, counts>>
    \/ EmbeddingError(i) /\ UNCHANGED <<rows, indexer, history, counts>>

\* Mutant: the handler of accept_version only logs.
LogsOnly(i) ==
    /\ At(i, "mark_failed") /\ Return(i)
    /\ UNCHANGED <<rows, history, counts, embedding, faults>>
MarkVersionFailed(i) ==
    /\ At(i, "mark_failed")
    /\ record' = [record EXCEPT ![Of(i)] = "failed"]
    /\ Return(i)
    /\ UNCHANGED <<version, chunk, profile, remembered, entity, history, counts,
                   embedding, faults>>

\* Mutant: every other version of the chapter, whatever its status.
EveryOther(v) == {u \in Versions \ {v} : ChapterOf[u] = ChapterOf[v]}
Outdated(v) == {u \in Versions \ {v} : ChapterOf[u] = ChapterOf[v]
                                       /\ version[u] = "superseded"}

\* The source of an entity moves to the version that mentions it last.
Mentioned(v, e) ==
    IF v \in Mentions THEN [status |-> "accepted", source |-> v] ELSE e

\* Chunks are found again by the hash of their content; nothing takes the
\* chunks of an earlier text away.
Remembering(text) == remembered \cup {text}

\* The final transaction.
WriteIndex(i) ==
    LET v == Of(i) IN
    /\ Step(i, "answered") /\ Leave(i)
    /\ chunk' = [Hidden(Outdated(v)) EXCEPT ![v] = "accepted"]
    /\ entity' = Mentioned(v, HiddenEntity(Outdated(v)))
    /\ remembered' = Remembering(indexer[i].text)
    /\ record' = [record EXCEPT ![v] = "completed"]
    /\ Return(i)
    /\ UNCHANGED <<version, profile, history, counts, faults>>

Crash(i) ==
    /\ indexer[i].pc # "idle" /\ Fault /\ crashed' = TRUE
    /\ indexer' = [indexer EXCEPT ![i] = IdleIndexer]
    /\ Dies(i)
    /\ UNCHANGED <<rows, history, reindexed>>

-----------------------------------------------------------------------------

Index(i) ==
    \/ LoadSnapshot(i) \/ EnsurePending(i) \/ MarkIndexing(i) \/ EmbedTexts(i)
    \/ EmbeddingRaised(i) \/ WriteIndex(i) \/ MarkVersionFailed(i)

Next ==
    \E i \in Indexers :
       \/ \E v \in Versions : AcceptVersion(i, v)
       \/ \E force \in BOOLEAN : Reindex(i, force)
       \/ Index(i) \/ Raises(i) \/ Crash(i)

Spec == Init /\ [][Next]_vars

-----------------------------------------------------------------------------
(***************************************************************************)
(* Properties.                                                             *)
(***************************************************************************)

TypeOK ==
    /\ version \in [Versions -> {"candidate", "accepted", "superseded"}]
    /\ \A c \in Chapters : Cardinality(Accepted(c)) <= 1
    /\ chunk \in [Versions -> {"none", "accepted", "superseded"}]
    /\ record \in [Versions -> {"none", "pending", "indexing", "completed", "failed"}]
    /\ profile \in Versions \cup {0} /\ remembered \subseteq Versions \cup {0}
    /\ entity \in [status : {"none", "accepted", "superseded"},
                   source : Versions \cup {None}]
    /\ \A i \in Indexers :
          /\ indexer[i].pc \in {"idle", "load", "ensure", "mark", "embed", "mark_failed"}
          /\ indexer[i].todo \subseteq Versions
          /\ indexer[i].pc = "idle" <=> indexer[i].todo = {}

\* What retrieval may show: memory of an accepted version, and an entity
\* whose source is one.
Canonical(v) == version[v] = "accepted"
VisibleIsCanonical ==
    /\ \A v \in Versions : chunk[v] = "accepted" => Canonical(v)
    /\ entity.status = "accepted" => Canonical(entity.source)

\* Only an indexer that was at work on a version when another one replaced it
\* can leave memory of a superseded text visible.
StaleOnlyIfOvertaken ==
    /\ \A v \in Versions : chunk[v] = "accepted" => Canonical(v) \/ v \in overtaken
    /\ entity.status = "accepted" =>
          Canonical(entity.source) \/ entity.source \in overtaken

\* A completed record is no empty promise: the accepted version it belongs to
\* is in memory, whatever indexers of other versions did since.
CompletedIsIndexed ==
    \A v \in Versions :
       record[v] = "completed" /\ version[v] = "accepted" => chunk[v] = "accepted"

\* Once the version promoted last has been indexed, retrieval finds the
\* characters as that promotion left them.
ProfileRemembered ==
    newest # None /\ record[newest] = "completed" => profile \in remembered

\* No promotion is forgotten and no index attempt ends unseen: a record is
\* pending or indexing only while a thread is at it, unless its process died
\* or it ended with an exception that accept_version could not record or that
\* a request to index again does not.
PromotionIsAttended ==
    \A v \in Versions : record[v] \in {"pending", "indexing"} =>
        \/ crashed \/ v \in abandoned
        \/ \E i \in Indexers : v \in indexer[i].todo
==============================================================================

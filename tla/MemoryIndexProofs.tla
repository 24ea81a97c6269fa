-------------------------- MODULE MemoryIndexProofs --------------------------
(***************************************************************************)
(* Theorems about MemoryIndex and the governed embeddings below it, for    *)
(* any number of indexers, versions, retries, requests and faults.         *)
(***************************************************************************)
EXTENDS MemoryIndex, FiniteSetTheorems, WellFoundedInduction, TLAPS

-----------------------------------------------------------------------------
(***************************************************************************)
(* The accounting of the embeddings.                                       *)
(***************************************************************************)

Embedders ==
    [pc : {"idle", "reserve", "network", "finish", "settle", "success",
           "answered", "release", "raised"},
     attempt : Nat, reserved : BOOLEAN,
     error : {"none", "service", "shape", "other"}]
Budgets == [spent : Nat, reserved : Nat]

EmbeddingType ==
    /\ budget \in Budgets /\ priced \in Nat
    /\ embedder \in [Indexers -> Embedders]
    /\ torn \in BOOLEAN /\ faults \in Nat

\* Where an embedder has its reservation, and where it cannot have one.
Reserves(e) ==
    /\ e.pc \in {"network", "finish", "settle"} => e.reserved
    /\ e.pc \in {"idle", "reserve", "answered", "raised"} => ~e.reserved

Held(e) == e.reserved /\ e.pc \in {"network", "finish", "settle", "release"}
Holders == {i \in Indexers : Held(embedder[i])}
Settlers == {i \in Indexers : embedder[i].pc = "settle"}

Ledgers ==
    /\ budget.reserved = Cardinality(Holders)
    /\ priced = budget.spent + Cardinality(Settlers)
    /\ budget.spent + budget.reserved <= Limit

EmbeddingInv ==
    /\ EmbeddingType
    /\ \A i \in Indexers : Reserves(embedder[i])
    /\ torn \/ Ledgers

-----------------------------------------------------------------------------
(***************************************************************************)
(* The index.                                                              *)
(***************************************************************************)

Indices ==
    [pc : {"idle", "load", "ensure", "mark", "embed", "mark_failed"},
     caller : {"none", "accept", "reindex"}, todo : SUBSET Versions,
     force : BOOLEAN, text : Versions \cup {0}]

IndexType ==
    /\ version \in [Versions -> {"candidate", "accepted", "superseded"}]
    /\ chunk \in [Versions -> {"none", "accepted", "superseded"}]
    /\ record \in [Versions -> {"none", "pending", "indexing", "completed", "failed"}]
    /\ profile \in Versions \cup {0} /\ remembered \subseteq Versions \cup {0}
    /\ entity \in [status : {"none", "accepted", "superseded"},
                   source : Versions \cup {None}]
    /\ entity.status = "accepted" => entity.source \in Versions
    /\ indexer \in [Indexers -> Indices]
    /\ newest \in Versions \cup {None}
    /\ overtaken \subseteq Versions /\ abandoned \subseteq Versions
    /\ reindexed \in Nat /\ crashed \in BOOLEAN

\* A thread has versions to index unless it is idle, and embeds in the middle
\* of one; the thread that accepted a version indexes that one only.
Orderly(i) ==
    LET u == indexer[i] IN
    /\ u.pc = "idle" <=> u.todo = {}
    /\ u.pc # "embed" => embedder[i].pc = "idle"
    /\ u.caller = "accept" => \E v \in Versions : u.todo \subseteq {v}
    /\ u.pc = "mark_failed" => u.caller = "accept"

\* A chapter has one accepted version.
OneAccepted ==
    \A u, v \in Versions :
       version[u] = "accepted" /\ version[v] = "accepted" /\ ChapterOf[u] = ChapterOf[v]
          => u = v

\* Only versions that were accepted are indexed, and they are the ones with a
\* record: a thread never has to create it.
Promoted(v) == version[v] # "candidate"
OnlyPromoted ==
    /\ \A i \in Indexers : \A v \in indexer[i].todo : Promoted(v)
    /\ \A v \in Versions : record[v] # "none" <=> Promoted(v)

\* Indexers at work do not miss that their version was replaced.
Fresh(v) == version[v] = "accepted" \/ v \in overtaken
WorksOnFresh ==
    \A i \in Indexers : indexer[i].pc \in {"ensure", "mark", "embed"} => Fresh(Of(i))

\* The thread that owes the record of v an end.
Attends(i, v) ==
    /\ v \in indexer[i].todo
    /\ indexer[i].caller = "accept" \/ (indexer[i].pc = "embed" /\ Of(i) = v)
Attended ==
    \A v \in Versions : record[v] \in {"pending", "indexing"} =>
        crashed \/ v \in abandoned \/ \E i \in Indexers : Attends(i, v)

IndexInv ==
    /\ IndexType
    /\ \A i \in Indexers : Orderly(i)
    /\ OneAccepted /\ OnlyPromoted /\ WorksOnFresh
    /\ StaleOnlyIfOvertaken /\ CompletedIsIndexed /\ Attended

-----------------------------------------------------------------------------
(***************************************************************************)
(* The accounting: what one embedder's step does to the ledgers.           *)
(***************************************************************************)

\* Two sets that differ in x only.
LEMMA CountStep ==
    ASSUME NEW S, NEW T, NEW x, IsFiniteSet(S), S \ {x} = T \ {x}
    PROVE  /\ IsFiniteSet(T) /\ Cardinality(S) \in Nat /\ Cardinality(T) \in Nat
           /\ x \in T /\ x \notin S => Cardinality(T) = Cardinality(S) + 1
           /\ x \in S /\ x \notin T => Cardinality(S) = Cardinality(T) + 1
           /\ (x \in S <=> x \in T) => Cardinality(T) = Cardinality(S)
<1>1. CASE x \in S /\ x \notin T
  <2>1. T = S \ {x}
    BY <1>1
  <2>2. IsFiniteSet(T) /\ Cardinality(T) = Cardinality(S) - 1
    BY <1>1, <2>1, FS_RemoveElement
  <2>3. Cardinality(S) \in Nat /\ Cardinality(T) \in Nat
    BY <2>2, FS_CardinalityType
  <2>4. QED
    BY <1>1, <2>2, <2>3
<1>2. CASE x \in T /\ x \notin S
  <2>1. T = S \cup {x}
    BY <1>2
  <2>2. IsFiniteSet(T) /\ Cardinality(T) = Cardinality(S) + 1
    BY <1>2, <2>1, FS_AddElement
  <2>3. Cardinality(S) \in Nat /\ Cardinality(T) \in Nat
    BY <2>2, FS_CardinalityType
  <2>4. QED
    BY <1>2, <2>2, <2>3
<1>3. CASE x \in S <=> x \in T
  <2>1. S = T
    BY <1>3
  <2>2. QED
    BY <1>3, <2>1, FS_CardinalityType
<1>4. QED
  BY <1>1, <1>2, <1>3

\* The effects a step can have on the ledgers when u becomes e.
Moves(u, e) ==
    \/ /\ Held(e) <=> Held(u)
       /\ e.pc = "settle" <=> u.pc = "settle"
       /\ UNCHANGED <<budget, priced>>
    \/ /\ ~Held(u) /\ Held(e) /\ u.pc # "settle" /\ e.pc # "settle" /\ Fits
       /\ budget' = [budget EXCEPT !.reserved = budget.reserved + 1]
       /\ UNCHANGED priced
    \/ /\ Held(u) /\ Held(e) /\ u.pc # "settle" /\ e.pc = "settle"
       /\ priced' = priced + 1 /\ UNCHANGED budget
    \/ /\ Held(u) /\ ~Held(e) /\ u.pc = "settle" /\ e.pc # "settle"
       /\ budget' = Settled(1, 1) /\ UNCHANGED priced
    \/ /\ Held(u) /\ ~Held(e) /\ u.pc # "settle" /\ e.pc # "settle"
       /\ budget' = Settled(1, 0) /\ UNCHANGED priced

Accounts(i, e) ==
    /\ embedder' = [embedder EXCEPT ![i] = e]
    /\ e \in Embedders /\ Reserves(e) /\ faults' \in Nat
    /\ budget' \in Budgets /\ priced' \in Nat
    /\ \/ torn' = TRUE
       \/ torn' = torn /\ Moves(embedder[i], e)

LEMMA AccountsStep ==
    ASSUME EmbeddingInv, NEW i \in Indexers, NEW e, Accounts(i, e)
    PROVE  EmbeddingInv'
<1> DEFINE u == embedder[i]
<1>0. /\ embedder \in [Indexers -> Embedders] /\ budget \in Budgets /\ priced \in Nat
      /\ torn \in BOOLEAN /\ Limit \in Nat
  BY EmbeddingAssumption DEF EmbeddingInv, EmbeddingType
<1>1. embedder'[i] = e /\ \A j \in Indexers \ {i} : embedder'[j] = embedder[j]
  BY <1>0 DEF Accounts
<1>2. EmbeddingType'
  BY <1>0 DEF EmbeddingType, Accounts
<1>3. \A j \in Indexers : Reserves(embedder'[j])
  BY <1>1 DEF EmbeddingInv, Accounts
<1>4. ASSUME torn' # TRUE PROVE Ledgers'
  <2>0. Ledgers /\ Moves(u, e) /\ torn' = torn
    BY <1>4 DEF Accounts, EmbeddingInv
  <2>1. /\ IsFiniteSet(Holders) /\ Holders \ {i} = Holders' \ {i}
        /\ IsFiniteSet(Settlers) /\ Settlers \ {i} = Settlers' \ {i}
    <3>1. IsFiniteSet(Indexers) /\ Holders \subseteq Indexers /\ Settlers \subseteq Indexers
      BY EmbeddingAssumption DEF Holders, Settlers
    <3>2. IsFiniteSet(Holders) /\ IsFiniteSet(Settlers)
      BY <3>1, FS_Subset
    <3>3. QED
      BY <1>1, <3>2 DEF Holders, Settlers
  <2>2. /\ i \in Holders <=> Held(u)
        /\ i \in Holders' <=> Held(e)
        /\ i \in Settlers <=> u.pc = "settle"
        /\ i \in Settlers' <=> e.pc = "settle"
    BY <1>1 DEF Holders, Settlers
  <2> DEFINE h == Cardinality(Holders)
             hh == Cardinality(Holders')
             s == Cardinality(Settlers)
             ss == Cardinality(Settlers')
  <2>3. /\ h \in Nat /\ hh \in Nat
        /\ i \in Holders' /\ i \notin Holders => hh = h + 1
        /\ i \in Holders /\ i \notin Holders' => h = hh + 1
        /\ (i \in Holders <=> i \in Holders') => hh = h
    BY <2>1, CountStep
  <2>4. /\ s \in Nat /\ ss \in Nat
        /\ i \in Settlers' /\ i \notin Settlers => ss = s + 1
        /\ i \in Settlers /\ i \notin Settlers' => s = ss + 1
        /\ (i \in Settlers <=> i \in Settlers') => ss = s
    BY <2>1, CountStep
  <2>5. budget.reserved = h /\ priced = budget.spent + s /\ budget.spent + h <= Limit
    BY <2>0 DEF Ledgers
  <2> SUFFICES budget'.reserved = hh /\ priced' = budget'.spent + ss
               /\ budget'.spent + budget'.reserved <= Limit
    BY DEF Ledgers
  <2>6. budget.spent \in Nat /\ budget.reserved \in Nat
    BY <1>0 DEF Budgets
  <2> HIDE DEF h, hh, s, ss, u
  <2>7. CASE Held(e) /\ ~Held(u)
    <3>1. /\ u.pc # "settle" /\ e.pc # "settle" /\ Fits /\ UNCHANGED priced
          /\ budget' = [budget EXCEPT !.reserved = budget.reserved + 1]
      BY <2>0, <2>7 DEF Moves
    <3>2. budget'.reserved = budget.reserved + 1 /\ budget'.spent = budget.spent
      BY <1>0, <3>1 DEF Budgets
    <3>3. hh = h + 1 /\ ss = s
      BY <2>2, <2>3, <2>4, <2>7, <3>1
    <3>4. QED
      BY <2>3, <2>5, <2>6, <3>1, <3>2, <3>3 DEF Fits
  <2>8. CASE ~Held(e) /\ Held(u)
    <3> DEFINE cost == IF u.pc = "settle" THEN 1 ELSE 0
    <3>1. e.pc # "settle" /\ budget' = Settled(1, cost) /\ UNCHANGED priced
      BY <2>0, <2>8 DEF Moves
    <3>2. h = hh + 1 /\ s = ss + cost
      BY <2>2, <2>3, <2>4, <2>8, <3>1
    <3>3. budget'.spent = budget.spent + cost /\ budget'.reserved = budget.reserved - 1
      BY <2>3, <2>5, <3>1, <3>2 DEF Settled
    <3>4. cost \in Nat /\ cost <= 1
      OBVIOUS
    <3> HIDE DEF cost
    <3>5. QED
      BY <1>0, <2>3, <2>4, <2>5, <2>6, <3>1, <3>2, <3>3, <3>4
  <2>9. CASE Held(e) /\ Held(u)
    <3>1. UNCHANGED budget
      BY <2>0, <2>9 DEF Moves
    <3>2. hh = h
      BY <2>2, <2>3, <2>9
    <3>3. \/ UNCHANGED priced /\ ss = s
          \/ priced' = priced + 1 /\ ss = s + 1
      BY <2>0, <2>2, <2>4, <2>9 DEF Moves
    <3>4. QED
      BY <1>0, <2>4, <2>5, <2>6, <3>1, <3>2, <3>3
  <2>10. CASE ~Held(e) /\ ~Held(u)
    <3>1. UNCHANGED <<budget, priced>> /\ hh = h /\ ss = s
      BY <2>0, <2>2, <2>3, <2>4, <2>10 DEF Moves
    <3>2. QED
      BY <2>5, <3>1
  <2>11. QED
    BY <2>7, <2>8, <2>9, <2>10
<1>5. QED
  BY <1>2, <1>3, <1>4 DEF EmbeddingInv

\* The steps of an embedder, and of the thread around it.
Embeds(i) ==
    /\ faults' \in Nat
    /\ \/ UNCHANGED embedding
       \/ Leave(i) /\ embedder[i].pc \in {"idle", "answered", "raised"}
       \/ BeginEmbedding(i) /\ embedder[i].pc = "idle" /\ UNCHANGED <<budget, priced, torn>>
       \/ EmbedStep(i) \/ EmbeddingError(i) \/ Dies(i)

LEMMA IdleEmbedderType == IdleEmbedder \in Embedders /\ Reserves(IdleEmbedder) /\ ~Held(IdleEmbedder)
BY DEF IdleEmbedder, Embedders, Reserves, Held

LEMMA EmbedderAccounts ==
    ASSUME EmbeddingInv, NEW i \in Indexers, Embeds(i)
    PROVE  \E e : Accounts(i, e)
<1> DEFINE u == embedder[i]
           Caught(error) == [u EXCEPT !.pc = "release", !.error = error]
           To(pc) == [u EXCEPT !.pc = pc]
           Raised(error) == [IdleEmbedder EXCEPT !.pc = "raised", !.error = error]
           Tries(n) == [IdleEmbedder EXCEPT !.pc = "reserve", !.attempt = n]
<1>0. /\ embedder \in [Indexers -> Embedders] /\ u \in Embedders /\ Reserves(u)
      /\ budget \in Budgets /\ budget.spent \in Nat /\ budget.reserved \in Nat
      /\ priced \in Nat /\ torn \in BOOLEAN /\ faults' \in Nat
  BY DEF EmbeddingInv, EmbeddingType, Budgets, Embeds
<1>a. ASSUME NEW error \in {"service", "shape", "other"}
      PROVE  /\ Caught(error) \in Embedders /\ Reserves(Caught(error))
             /\ Held(Caught(error)) <=> u.reserved
             /\ Caught(error).pc = "release"
             /\ Catch(i, error) => embedder' = [embedder EXCEPT ![i] = Caught(error)]
             /\ Raised(error) \in Embedders /\ Reserves(Raised(error)) /\ ~Held(Raised(error))
             /\ Raised(error).pc = "raised"
  <2>1. Catch(i, error) => embedder' = [embedder EXCEPT ![i] = Caught(error)]
    BY <1>0 DEF Catch, Embedders
  <2>2. /\ Caught(error) \in Embedders /\ Caught(error).pc = "release"
        /\ Caught(error).reserved = u.reserved
    BY <1>0 DEF Embedders
  <2>3. /\ Raised(error) \in Embedders /\ Raised(error).pc = "raised"
        /\ Raised(error).reserved = FALSE
    BY DEF IdleEmbedder, Embedders
  <2>4. QED
    BY <2>1, <2>2, <2>3 DEF Reserves, Held
<1>b. ASSUME NEW pc \in {"finish", "settle", "success"}
      PROVE  /\ To(pc) \in Embedders /\ To(pc).pc = pc /\ To(pc).reserved = u.reserved
             /\ Go(i, pc) => embedder' = [embedder EXCEPT ![i] = To(pc)]
  BY <1>0 DEF Go, Embedders
<1>c. ASSUME NEW n \in Nat
      PROVE  /\ Tries(n) \in Embedders /\ Reserves(Tries(n))
             /\ ~Held(Tries(n)) /\ Tries(n).pc = "reserve"
  BY DEF IdleEmbedder, Embedders, Reserves, Held
<1>d. ASSUME NEW cost \in {0, 1}, NEW reserved \in {0, 1}
      PROVE  Settled(reserved, cost) \in Budgets
  BY <1>0 DEF Settled, Budgets
<1> HIDE DEF Caught, To, Raised, Tries
\* Giving back what is held, or nothing.
<1>e. ASSUME NEW e \in Embedders, Reserves(e), ~Held(e), e.pc # "settle",
             embedder' = [embedder EXCEPT ![i] = e],
             u.pc = "release", budget' = Released(i), UNCHANGED <<priced, torn>>
      PROVE  Accounts(i, e)
  <2>1. CASE u.reserved
    <3>1. budget' = Settled(1, 0) /\ Held(u)
      BY <1>e, <2>1 DEF Released, Held
    <3>2. budget' \in Budgets
      BY <1>d, <3>1
    <3>3. Moves(u, e)
      BY <1>e, <3>1 DEF Moves
    <3>4. QED
      BY <1>0, <1>e, <3>2, <3>3 DEF Accounts
  <2>2. CASE ~u.reserved
    <3>1. budget' = Settled(0, 0) /\ ~Held(u)
      BY <1>e, <2>2 DEF Released, Held
    <3>2. budget' = budget
      BY <1>0, <3>1 DEF Settled, Budgets
    <3>3. Moves(u, e)
      BY <1>e, <3>1, <3>2 DEF Moves
    <3>4. QED
      BY <1>0, <1>e, <3>2, <3>3 DEF Accounts
  <2>3. QED
    BY <2>1, <2>2
\* Nothing moves between the ledgers.
<1>f. ASSUME NEW e \in Embedders, Reserves(e), Held(e) <=> Held(u),
             e.pc = "settle" <=> u.pc = "settle",
             embedder' = [embedder EXCEPT ![i] = e],
             UNCHANGED <<budget, priced, torn>>
      PROVE  Accounts(i, e)
  BY <1>0, <1>f DEF Accounts, Moves
<1>g. ASSUME NEW e \in Embedders, Reserves(e), torn' = TRUE,
             embedder' = [embedder EXCEPT ![i] = e], UNCHANGED <<budget, priced>>
      PROVE  Accounts(i, e)
  BY <1>0, <1>g DEF Accounts
<1>1. CASE UNCHANGED embedding
  <2>1. embedder' = [embedder EXCEPT ![i] = u] /\ UNCHANGED <<budget, priced, torn>>
    BY <1>0, <1>1 DEF embedding
  <2>2. QED
    BY <1>0, <1>f, <2>1
<1>2. CASE Leave(i) /\ u.pc \in {"idle", "answered", "raised"}
  <2>1. embedder' = [embedder EXCEPT ![i] = IdleEmbedder] /\ UNCHANGED <<budget, priced, torn>>
    BY <1>2 DEF Leave
  <2>2. ~Held(u) /\ u.pc # "settle" /\ IdleEmbedder.pc # "settle"
    BY <1>2 DEF Held, IdleEmbedder
  <2>3. QED
    BY <1>f, <2>1, <2>2, IdleEmbedderType
<1>3. CASE BeginEmbedding(i) /\ u.pc = "idle" /\ UNCHANGED <<budget, priced, torn>>
  <2>1. ~Held(u) /\ u.pc # "settle"
    BY <1>3 DEF Held
  <2> DEFINE e == Tries(1)
  <2>2. e \in Embedders /\ Reserves(e) /\ ~Held(e) /\ e.pc = "reserve"
    BY <1>c
  <2>3. \/ embedder' = [embedder EXCEPT ![i] = e]
        \/ embedder' = [embedder EXCEPT ![i] = Raised("other")]
    BY <1>3 DEF BeginEmbedding, Raised, Tries
  <2> HIDE DEF e
  <2>4. QED
    BY <1>3, <1>a, <1>f, <2>1, <2>2, <2>3
<1>4. CASE Reserve(i)
  <2>0. u.pc = "reserve" /\ ~Held(u) /\ ~u.reserved /\ UNCHANGED <<priced, torn>>
    BY <1>0, <1>4 DEF Reserve, Step, Reserves, Held
  <2> DEFINE e == [u EXCEPT !.pc = "network", !.reserved = TRUE]
  <2>1. CASE /\ Fits /\ budget' = [budget EXCEPT !.reserved = @ + 1]
             /\ embedder' = [embedder EXCEPT ![i].pc = "network", ![i].reserved = TRUE]
    <3>1. embedder' = [embedder EXCEPT ![i] = e]
      BY <1>0, <2>1 DEF Embedders
    <3>2. e \in Embedders /\ e.pc = "network" /\ e.reserved
      BY <1>0 DEF Embedders
    <3>3. budget' = [budget EXCEPT !.reserved = budget.reserved + 1] /\ budget' \in Budgets
      BY <1>0, <2>1 DEF Budgets
    <3> HIDE DEF e
    <3>4. Reserves(e) /\ Held(e)
      BY <3>2 DEF Reserves, Held
    <3>5. Moves(u, e)
      BY <2>0, <2>1, <3>2, <3>3, <3>4 DEF Moves
    <3>6. QED
      BY <1>0, <2>0, <3>1, <3>2, <3>3, <3>4, <3>5 DEF Accounts
  <2>2. CASE Catch(i, "other") /\ UNCHANGED budget
    BY <1>a, <1>f, <2>0, <2>2
  <2>3. QED
    BY <1>4, <2>1, <2>2 DEF Reserve
<1>5. CASE CallProvider(i)
  <2>0. u.pc = "network" /\ Held(u) /\ u.reserved /\ UNCHANGED <<budget, priced, torn>>
    BY <1>0, <1>5 DEF CallProvider, Step, Reserves, Held
  <2>1. CASE Go(i, "finish")
    <3>1. Reserves(To("finish")) /\ Held(To("finish"))
      BY <1>b, <2>0 DEF Reserves, Held
    <3>2. QED
      BY <1>b, <1>f, <2>0, <2>1, <3>1
  <2>2. ASSUME NEW error \in {"service", "shape", "other"}, Catch(i, error)
        PROVE  \E e : Accounts(i, e)
    BY <1>a, <1>f, <2>0, <2>2
  <2>3. QED
    BY <1>5, <2>1, <2>2 DEF CallProvider
<1>6. CASE FinishCall(i)
  <2>0. /\ u.pc = "finish" /\ Held(u) /\ u.reserved /\ UNCHANGED <<budget, torn>>
        /\ priced' = priced + 1 /\ Go(i, "settle")
    BY <1>0, <1>6 DEF FinishCall, Step, Reserves, Held
  <2>1. Reserves(To("settle")) /\ Held(To("settle"))
    BY <1>b, <2>0 DEF Reserves, Held
  <2>2. Moves(u, To("settle"))
    BY <1>b, <2>0, <2>1 DEF Moves
  <2>3. QED
    BY <1>0, <1>b, <2>0, <2>1, <2>2 DEF Accounts
<1>7. CASE Settle(i)
  <2>0. /\ u.pc = "settle" /\ Held(u) /\ UNCHANGED <<priced, torn>>
        /\ budget' = Settled(1, 1) /\ Go(i, "success")
    BY <1>0, <1>7 DEF Settle, Step, Reserves, Held
  <2>1. Reserves(To("success")) /\ ~Held(To("success"))
    BY <1>b DEF Reserves, Held
  <2>2. Moves(u, To("success")) /\ budget' \in Budgets
    BY <1>b, <1>d, <2>0, <2>1 DEF Moves
  <2>3. QED
    BY <1>0, <1>b, <2>0, <2>1, <2>2 DEF Accounts
<1>8. CASE RecordSuccess(i)
  <2> DEFINE e == [IdleEmbedder EXCEPT !.pc = "answered"]
  <2>1. e \in Embedders /\ e.pc = "answered" /\ ~e.reserved
    BY DEF IdleEmbedder, Embedders
  <2>2. u.pc = "success" /\ embedder' = [embedder EXCEPT ![i] = e] /\ UNCHANGED <<budget, priced, torn>>
    BY <1>8 DEF RecordSuccess, Step
  <2> HIDE DEF e
  <2>3. Reserves(e) /\ ~Held(e) /\ ~Held(u)
    BY <2>1, <2>2 DEF Reserves, Held
  <2>4. QED
    BY <1>f, <2>1, <2>2, <2>3
<1>9. CASE Release(i)
  <2> DEFINE n == u.attempt + 1
             again == Tries(n)
             ended == [IdleEmbedder EXCEPT !.pc = "raised", !.error = u.error]
  <2>1. n \in Nat
    BY <1>0 DEF Embedders
  <2>2. again \in Embedders /\ Reserves(again) /\ ~Held(again) /\ again.pc = "reserve"
    BY <1>c, <2>1
  <2>3. ended \in Embedders /\ Reserves(ended) /\ ~Held(ended) /\ ended.pc = "raised"
    BY <1>0 DEF Embedders, IdleEmbedder, Reserves, Held
  <2>4. /\ u.pc = "release" /\ budget' = Released(i) /\ UNCHANGED <<priced, torn>>
        /\ embedder' = [embedder EXCEPT ![i] = IF Retried(i) THEN again ELSE ended]
    BY <1>9 DEF Release, Step, Tries
  <2> HIDE DEF again, ended
  <2>5. CASE Retried(i)
    BY <1>e, <2>2, <2>4, <2>5
  <2>6. CASE ~Retried(i)
    BY <1>e, <2>3, <2>4, <2>6
  <2>7. QED
    BY <2>5, <2>6
<1>10. CASE EmbeddingError(i)
  <2>1. CASE TryError(i)
    <3>1. /\ u.pc \in {"finish", "settle", "success"} /\ Catch(i, "other")
          /\ torn' = (torn \/ u.pc \in {"settle", "success"})
          /\ UNCHANGED <<budget, priced>>
      BY <1>10, <2>1 DEF EmbeddingError, TryError
    <3>2. CASE u.pc = "finish"
      <4>1. torn' = torn /\ Held(u) /\ u.reserved
        BY <1>0, <3>1, <3>2 DEF Held, Reserves
      <4>2. QED
        BY <1>a, <1>f, <3>1, <3>2, <4>1
    <3>3. CASE u.pc # "finish"
      BY <1>a, <1>g, <3>1, <3>3
    <3>4. QED
      BY <3>2, <3>3
  <2>2. CASE HandlerError(i)
    <3>1. /\ u.pc = "release" /\ embedder' = [embedder EXCEPT ![i] = Raised("other")]
          /\ UNCHANGED priced
          /\ \/ UNCHANGED budget /\ torn' = (torn \/ u.reserved)
             \/ budget' = Released(i) /\ UNCHANGED torn
      BY <1>10, <2>2 DEF EmbeddingError, HandlerError, Step, Raised
    <3>2. CASE budget' = Released(i) /\ UNCHANGED torn
      BY <1>a, <1>e, <3>1, <3>2
    <3>3. CASE UNCHANGED budget /\ u.reserved /\ torn' = TRUE
      BY <1>a, <1>g, <3>1, <3>3
    <3>4. CASE UNCHANGED budget /\ ~u.reserved /\ torn' = torn
      <4>1. ~Held(u)
        BY <3>4 DEF Held
      <4>2. QED
        BY <1>a, <1>f, <3>1, <3>4, <4>1
    <3>5. QED
      BY <1>0, <3>1, <3>2, <3>3, <3>4
  <2>3. QED
    BY <1>10, <2>1, <2>2 DEF EmbeddingError
<1>11. CASE Dies(i)
  <2>1. /\ embedder' = [embedder EXCEPT ![i] = IdleEmbedder]
        /\ torn' = (torn \/ Held(u)) /\ UNCHANGED <<budget, priced>>
    BY <1>11 DEF Dies, Holds, Held
  <2>2. CASE Held(u)
    BY <1>g, <2>1, <2>2, IdleEmbedderType
  <2>3. CASE ~Held(u)
    <3>1. u.pc # "settle" /\ IdleEmbedder.pc # "settle" /\ torn' = torn
      BY <1>0, <2>1, <2>3 DEF Held, Reserves, IdleEmbedder
    <3>2. QED
      BY <1>f, <2>1, <2>3, <3>1, IdleEmbedderType
  <2>4. QED
    BY <2>2, <2>3
<1>12. QED
  BY <1>1, <1>2, <1>3, <1>4, <1>5, <1>6, <1>7, <1>8, <1>9, <1>10, <1>11 DEF Embeds, EmbedStep

LEMMA EmbeddingStep ==
    ASSUME EmbeddingInv, NEW i \in Indexers, Embeds(i)
    PROVE  EmbeddingInv'
BY EmbedderAccounts, AccountsStep

-----------------------------------------------------------------------------
(***************************************************************************)
(* What a step of a thread does to the index.                              *)
(***************************************************************************)

\* The versions of a list are taken one by one, none of them twice.
LEMMA FirstOfTodo ==
    ASSUME NEW S \in SUBSET Versions, S # {}
    PROVE  Min(S) \in S
<1> DEFINE R == {ss \in Nat \X Nat : ss[1] < ss[2]}
<1>1. IsWellFoundedOn(R, Nat)
  BY NatLessThanWellFounded DEF OpToRel
<1>2. ASSUME NEW x \in Nat, NEW y \in Nat PROVE <<y, x>> \in R <=> y < x
  <2>1. <<y, x>> \in Nat \X Nat /\ <<y, x>>[1] = y /\ <<y, x>>[2] = x
    OBVIOUS
  <2>2. QED
    BY <2>1
<1> HIDE DEF R
<1>3. S \subseteq Nat
  BY MemoryIndexAssumption
<1>4. PICK x \in S : \A y \in S : ~(<<y, x>> \in R)
  BY <1>1, <1>3, WFMin
<1>5. x \in Nat /\ \A y \in S : y \in Nat /\ ~(y < x)
  BY <1>2, <1>3, <1>4
<1>6. \A y \in S : x <= y
  BY <1>5
<1>7. QED
  BY <1>6 DEF Min

\* A thread accepts a version and has it to index.
Promotes(i, t) ==
    /\ \E v \in Versions :
          AcceptVersion(i, v) /\ t.pc = "load" /\ t.caller = "accept" /\ t.todo = {v}
    /\ UNCHANGED crashed

\* A thread lists accepted versions.
Lists(i, t) ==
    /\ indexer[i].pc = "idle" /\ t.pc = "load" /\ t.caller = "reindex"
    /\ t.todo \subseteq {v \in Versions : version[v] = "accepted"}
    /\ UNCHANGED <<rows, history, crashed>>

\* A thread goes on with its version.
Proceeds(i, t) ==
    /\ indexer[i].pc # "idle"
    /\ t.todo = indexer[i].todo /\ t.caller = indexer[i].caller
    /\ UNCHANGED <<version, chunk, profile, remembered, entity, history, crashed>>
    /\ \/ t.pc = "ensure" /\ version[Of(i)] = "accepted" /\ UNCHANGED record
          /\ indexer[i].pc = "load" /\ t.text = profile
       \/ t.pc = "mark" /\ indexer[i].pc = "ensure" /\ t.text = indexer[i].text
          /\ UNCHANGED record
       \/ t.pc = "embed" /\ indexer[i].pc = "mark" /\ t.text = indexer[i].text
          /\ record' = [record EXCEPT ![Of(i)] = "indexing"]
       \/ t.pc = "mark_failed" /\ t.caller = "accept" /\ UNCHANGED record
       \/ t = indexer[i] /\ UNCHANGED record

\* The final transaction, as far as the index is concerned.
Writes(i) ==
    /\ indexer[i].pc = "embed"
    /\ chunk' = [Hidden(Outdated(Of(i))) EXCEPT ![Of(i)] = "accepted"]
    /\ entity' = Mentioned(Of(i), HiddenEntity(Outdated(Of(i))))
    /\ remembered' = Remembering(indexer[i].text)
    /\ record' = [record EXCEPT ![Of(i)] = "completed"]

\* A thread is done with its version, and takes the next one.
Ends(i, t) ==
    /\ indexer[i].pc \notin {"idle", "load"}
    /\ t.todo = indexer[i].todo \ {Of(i)} /\ t.pc \in {"idle", "load"}
    /\ UNCHANGED <<version, profile, history, crashed>>
    /\ \/ UNCHANGED <<chunk, remembered, entity, record>> /\ record[Of(i)] = "completed"
       \/ /\ UNCHANGED <<chunk, remembered, entity>>
          /\ record' = [record EXCEPT ![Of(i)] = "failed"]
       \/ Writes(i)

\* A thread drops its versions.
Drops(i, t) ==
    /\ t = IdleIndexer /\ UNCHANGED <<rows, newest, overtaken>>
    /\ \/ crashed' = TRUE /\ UNCHANGED abandoned
       \/ /\ UNCHANGED crashed
          /\ abandoned' = abandoned \cup IF indexer[i].pc \in {"embed", "mark_failed"}
                                           THEN {Of(i)} ELSE {}
          /\ indexer[i].caller = "accept" => indexer[i].pc = "mark_failed"

Neat(t) ==
    /\ t.pc = "idle" <=> t.todo = {}
    /\ t.caller = "accept" => \E v \in Versions : t.todo \subseteq {v}
    /\ t.pc = "mark_failed" => t.caller = "accept"

Works(i, t) ==
    /\ t \in Indices /\ Neat(t) /\ indexer' = [indexer EXCEPT ![i] = t]
    /\ t.pc # "embed" => embedder'[i].pc = "idle"
    /\ \A j \in Indexers \ {i} : embedder'[j] = embedder[j]
    /\ reindexed' \in Nat
    /\ Promotes(i, t) \/ Lists(i, t) \/ Proceeds(i, t) \/ Ends(i, t) \/ Drops(i, t)

LEMMA IdleIndexerType == IdleIndexer \in Indices /\ Neat(IdleIndexer)
BY DEF IdleIndexer, Indices, Neat

\* The version left is the thread's last one, or it takes the next.
LEMMA ReturnEffect ==
    ASSUME IndexType, NEW i \in Indexers, Neat(indexer[i]), indexer[i].pc # "idle", Return(i)
    PROVE  \E t \in Indices :
              /\ Neat(t) /\ indexer' = [indexer EXCEPT ![i] = t]
              /\ t.todo = indexer[i].todo \ {Of(i)} /\ t.pc \in {"idle", "load"}
<1> DEFINE u == indexer[i]
           t == [u EXCEPT !.pc = "load", !.todo = u.todo \ {Of(i)}]
<1>0. u \in Indices /\ Of(i) \in u.todo /\ indexer \in [Indexers -> Indices]
  <2>1. u \in Indices /\ indexer \in [Indexers -> Indices]
    BY DEF IndexType
  <2>2. u.todo \in SUBSET Versions /\ u.todo # {}
    BY <2>1 DEF Indices, Neat
  <2>3. QED
    BY <2>1, <2>2, FirstOfTodo DEF Of
<1>1. CASE u.todo = {Of(i)}
  <2>1. indexer' = [indexer EXCEPT ![i] = IdleIndexer]
    BY <1>0, <1>1 DEF Return
  <2>2. IdleIndexer.todo = {} /\ IdleIndexer.pc = "idle"
    BY DEF IdleIndexer
  <2>3. QED
    BY <1>1, <2>1, <2>2, IdleIndexerType
<1>2. CASE u.todo # {Of(i)}
  <2>1. indexer' = [indexer EXCEPT ![i] = t]
    BY <1>0, <1>2 DEF Return
  <2>2. /\ t \in Indices /\ t.pc = "load" /\ t.todo = u.todo \ {Of(i)}
        /\ t.caller = u.caller
    BY <1>0 DEF Indices
  <2> HIDE DEF t
  <2>3. Neat(t)
    BY <1>0, <1>2, <2>2 DEF Neat
  <2>4. QED
    BY <2>1, <2>2, <2>3
<1>3. QED
  BY <1>1, <1>2

\* An exception: accept_version marks the record next, any other thread ends.
LEMMA PropagateEffect ==
    ASSUME IndexType, NEW i \in Indexers, Neat(indexer[i]), indexer[i].pc # "idle", Propagate(i)
    PROVE  \E t \in Indices :
              /\ Neat(t) /\ indexer' = [indexer EXCEPT ![i] = t] /\ t.pc # "embed"
              /\ \/ /\ t.pc = "mark_failed" /\ t.caller = "accept" /\ UNCHANGED history
                    /\ t.todo = indexer[i].todo /\ t.caller = indexer[i].caller
                 \/ /\ t = IdleIndexer /\ UNCHANGED <<newest, overtaken>>
                    /\ abandoned' = abandoned \cup
                          IF indexer[i].pc \in {"embed", "mark_failed"} THEN {Of(i)} ELSE {}
                    /\ indexer[i].caller = "accept" => indexer[i].pc = "mark_failed"
<1> DEFINE u == indexer[i]
           t == [u EXCEPT !.pc = "mark_failed"]
<1>0. u \in Indices /\ indexer \in [Indexers -> Indices]
  BY DEF IndexType
<1>1. CASE u.caller = "accept" /\ u.pc # "mark_failed"
  <2>1. indexer' = [indexer EXCEPT ![i] = t] /\ UNCHANGED history
    BY <1>0, <1>1 DEF Propagate, At, Goto
  <2>2. t \in Indices /\ t.pc = "mark_failed" /\ t.caller = u.caller /\ t.todo = u.todo
    BY <1>0 DEF Indices
  <2> HIDE DEF t
  <2>3. Neat(t)
    BY <1>1, <2>2 DEF Neat
  <2>4. QED
    BY <1>1, <2>1, <2>2, <2>3
<1>2. CASE ~(u.caller = "accept" /\ u.pc # "mark_failed")
  <2>1. /\ indexer' = [indexer EXCEPT ![i] = IdleIndexer] /\ UNCHANGED <<newest, overtaken>>
        /\ abandoned' = abandoned \cup IF u.pc \in {"embed", "mark_failed"} THEN {Of(i)} ELSE {}
    BY <1>2 DEF Propagate, At
  <2>2. IdleIndexer.pc = "idle"
    BY DEF IdleIndexer
  <2>3. QED
    BY <1>2, <2>1, <2>2, IdleIndexerType
<1>3. QED
  BY <1>1, <1>2

\* A step that embeds leaves the other embedders alone.
LEMMA OthersEmbed ==
    ASSUME EmbeddingInv, NEW i \in Indexers, Embeds(i)
    PROVE  \A j \in Indexers \ {i} : embedder'[j] = embedder[j]
<1>1. embedder \in [Indexers -> Embedders]
  BY DEF EmbeddingInv, EmbeddingType
<1>2. QED
  BY <1>1, EmbedderAccounts DEF Accounts

\* Every step is one thread's, in the index and in its embedder.
LEMMA StepTaken ==
    ASSUME EmbeddingInv, IndexInv, Next
    PROVE  \E i \in Indexers : Embeds(i) /\ \E t : Works(i, t)
<1>0. /\ IndexType /\ faults \in Nat /\ reindexed \in Nat /\ crashed \in BOOLEAN
      /\ embedder \in [Indexers -> Embedders] /\ indexer \in [Indexers -> Indices]
  BY DEF EmbeddingInv, EmbeddingType, IndexInv, IndexType
<1> SUFFICES ASSUME NEW i \in Indexers,
                    \/ \E v \in Versions : AcceptVersion(i, v)
                    \/ \E force \in BOOLEAN : Reindex(i, force)
                    \/ Index(i) \/ Raises(i) \/ Crash(i)
             PROVE  Embeds(i) /\ \E t : Works(i, t)
  BY DEF Next
<1> DEFINE u == indexer[i]
<1>a. /\ u \in Indices /\ Neat(u) /\ (u.pc # "embed" => embedder[i].pc = "idle")
      /\ u.pc \in {"idle", "load", "ensure", "mark", "embed", "mark_failed"}
  BY <1>0 DEF IndexInv, Orderly, Neat, Indices
<1>b. Leave(i) => embedder'[i].pc = "idle"
  BY <1>0 DEF Leave, IdleEmbedder
<1>c. ASSUME NEW t \in Indices, Neat(t), indexer' = [indexer EXCEPT ![i] = t], Embeds(i),
             t.pc # "embed" => embedder'[i].pc = "idle", reindexed' \in Nat,
             Promotes(i, t) \/ Lists(i, t) \/ Proceeds(i, t) \/ Ends(i, t) \/ Drops(i, t)
      PROVE  Embeds(i) /\ \E s : Works(i, s)
  BY <1>c, OthersEmbed DEF Works
\* An exception leaves the call.
<1>d. ASSUME u.pc # "idle", Propagate(i), UNCHANGED <<rows, counts>>, Embeds(i),
             embedder'[i].pc = "idle"
      PROVE  Embeds(i) /\ \E t : Works(i, t)
  <2>1. PICK t \in Indices :
              /\ Neat(t) /\ indexer' = [indexer EXCEPT ![i] = t] /\ t.pc # "embed"
              /\ \/ /\ t.pc = "mark_failed" /\ t.caller = "accept" /\ UNCHANGED history
                    /\ t.todo = u.todo /\ t.caller = u.caller
                 \/ /\ t = IdleIndexer /\ UNCHANGED <<newest, overtaken>>
                    /\ abandoned' = abandoned \cup
                          IF u.pc \in {"embed", "mark_failed"} THEN {Of(i)} ELSE {}
                    /\ u.caller = "accept" => u.pc = "mark_failed"
    BY <1>0, <1>a, <1>d, PropagateEffect
  <2>2. UNCHANGED <<version, chunk, record, profile, remembered, entity, reindexed, crashed>>
    BY <1>d DEF rows, counts
  <2>3. Proceeds(i, t) \/ Drops(i, t)
    BY <1>d, <2>1, <2>2 DEF Proceeds, Drops, rows
  <2>4. QED
    BY <1>0, <1>c, <1>d, <2>1, <2>2, <2>3
\* The thread is done with its version.
<1>e. ASSUME u.pc \notin {"idle", "load"}, Return(i), Embeds(i), embedder'[i].pc = "idle",
             UNCHANGED <<version, profile, history, counts>>,
             \/ UNCHANGED <<chunk, remembered, entity, record>> /\ record[Of(i)] = "completed"
             \/ /\ UNCHANGED <<chunk, remembered, entity>>
                /\ record' = [record EXCEPT ![Of(i)] = "failed"]
             \/ Writes(i)
      PROVE  Embeds(i) /\ \E t : Works(i, t)
  <2>1. PICK t \in Indices :
              /\ Neat(t) /\ indexer' = [indexer EXCEPT ![i] = t]
              /\ t.todo = u.todo \ {Of(i)} /\ t.pc \in {"idle", "load"}
    BY <1>0, <1>a, <1>e, ReturnEffect
  <2>2. Ends(i, t)
    BY <1>e, <2>1 DEF Ends, counts
  <2>3. QED
    BY <1>0, <1>c, <1>e, <2>1, <2>2 DEF counts
<1>1. ASSUME NEW v \in Versions, AcceptVersion(i, v)
      PROVE  Embeds(i) /\ \E t : Works(i, t)
  <2> DEFINE t == [IdleIndexer EXCEPT !.pc = "load", !.caller = "accept", !.todo = {v}]
  <2>1. t \in Indices /\ t.pc = "load" /\ t.caller = "accept" /\ t.todo = {v}
    BY DEF IdleIndexer, Indices
  <2>2. /\ indexer' = [indexer EXCEPT ![i] = t] /\ u.pc = "idle"
        /\ UNCHANGED <<counts, embedding, faults>>
    BY <1>1, Zenon DEF AcceptVersion
  <2> HIDE DEF t
  <2>3. Promotes(i, t) /\ Neat(t)
    BY <1>1, <2>1, <2>2 DEF Promotes, counts, Neat
  <2>4. Embeds(i) /\ embedder'[i].pc = "idle" /\ reindexed' \in Nat
    BY <1>0, <1>a, <2>2 DEF Embeds, embedding, counts
  <2>5. QED
    BY <1>c, <2>1, <2>2, <2>3, <2>4
<1>2. ASSUME NEW force \in BOOLEAN, Reindex(i, force)
      PROVE  Embeds(i) /\ \E t : Works(i, t)
  <2> DEFINE T(vs) == [IdleIndexer EXCEPT !.pc = "load", !.caller = "reindex",
                                          !.force = force, !.todo = vs]
  <2>1. PICK vs \in SUBSET {v \in Versions : version[v] = "accepted"} :
           vs # {} /\ indexer' = [indexer EXCEPT ![i] = T(vs)]
    BY <1>2, Zenon DEF Reindex
  <2> DEFINE t == T(vs)
  <2>2. t \in Indices /\ t.pc = "load" /\ t.caller = "reindex" /\ t.todo = vs
    BY <2>1 DEF IdleIndexer, Indices
  <2>3. /\ u.pc = "idle" /\ reindexed' = reindexed + 1
        /\ UNCHANGED <<rows, history, faults, crashed, embedding>>
    BY <1>2, Zenon DEF Reindex
  <2> HIDE DEF t
  <2>4. Lists(i, t) /\ Neat(t)
    BY <2>1, <2>2, <2>3 DEF Lists, Neat
  <2>5. Embeds(i) /\ embedder'[i].pc = "idle" /\ reindexed' \in Nat
    BY <1>0, <1>a, <2>3 DEF Embeds, embedding
  <2>6. indexer' = [indexer EXCEPT ![i] = t]
    BY <2>1 DEF t
  <2>7. QED
    BY <1>c, <2>2, <2>4, <2>5, <2>6
<1>3. CASE LoadSnapshot(i)
  <2>0. u.pc = "load" /\ UNCHANGED <<rows, counts, embedding, faults>>
    BY <1>3 DEF LoadSnapshot, At
  <2>1. Embeds(i) /\ embedder'[i].pc = "idle" /\ reindexed' \in Nat
    BY <1>0, <1>a, <2>0 DEF Embeds, embedding, counts
  <2>2. CASE version[Of(i)] = "accepted"
    <3> DEFINE t == [u EXCEPT !.pc = "ensure", !.text = profile]
    <3>1. indexer' = [indexer EXCEPT ![i] = t] /\ UNCHANGED history
      BY <1>0, <1>3, <2>2 DEF LoadSnapshot, Indices
    <3>2. /\ t \in Indices /\ t.pc = "ensure" /\ t.todo = u.todo /\ t.caller = u.caller
          /\ t.text = profile
      BY <1>0, <1>a DEF Indices, IndexType
    <3> HIDE DEF t
    <3>3. Neat(t)
      BY <1>a, <2>0, <3>2 DEF Neat
    <3>4. Proceeds(i, t)
      BY <2>0, <2>2, <3>1, <3>2 DEF Proceeds, rows, counts
    <3>5. QED
      BY <1>c, <2>1, <3>1, <3>2, <3>3, <3>4
  <2>3. CASE version[Of(i)] # "accepted"
    BY <1>3, <1>d, <2>0, <2>1, <2>3 DEF LoadSnapshot
  <2>4. QED
    BY <2>2, <2>3
<1>4. CASE MarkIndexing(i)
  <2>0. /\ u.pc = "mark" /\ embedder[i].pc = "idle"
        /\ UNCHANGED <<version, chunk, profile, remembered, entity, history, counts,
                       budget, priced, torn>>
    BY <1>4, <1>a DEF MarkIndexing, At
  <2>1. CASE record[Of(i)] = "completed" /\ ~u.force
    <3>1. Return(i) /\ UNCHANGED <<record, embedder, faults>>
      BY <1>4, <2>1 DEF MarkIndexing
    <3>2. Embeds(i) /\ embedder'[i].pc = "idle"
      BY <1>0, <2>0, <3>1 DEF Embeds, embedding
    <3>3. QED
      BY <1>e, <2>0, <2>1, <3>1, <3>2
  <2>2. CASE ~(record[Of(i)] = "completed" /\ ~u.force)
    <3> DEFINE t == [u EXCEPT !.pc = "embed"]
    <3>1. /\ record' = [record EXCEPT ![Of(i)] = "indexing"]
          /\ Goto(i, "embed") /\ BeginEmbedding(i)
      BY <1>4, <2>2 DEF MarkIndexing
    <3>2. indexer' = [indexer EXCEPT ![i] = t]
      BY <1>0, <3>1 DEF Goto, Indices
    <3>3. /\ t \in Indices /\ t.pc = "embed" /\ t.todo = u.todo /\ t.caller = u.caller
          /\ t.text = u.text
      BY <1>a DEF Indices
    <3> HIDE DEF t
    <3>4. Neat(t)
      BY <1>a, <2>0, <3>3 DEF Neat
    <3>5. faults' \in Nat
      BY <1>0, <3>1 DEF BeginEmbedding, Fault
    <3>6. Embeds(i)
      BY <2>0, <3>1, <3>5 DEF Embeds
    <3>7. Proceeds(i, t)
      BY <2>0, <3>1, <3>3 DEF Proceeds, counts
    <3>8. QED
      BY <1>0, <1>c, <2>0, <3>2, <3>3, <3>4, <3>6, <3>7 DEF counts
  <2>3. QED
    BY <2>1, <2>2
<1>5. CASE UNCHANGED <<rows, indexer, history, counts>> /\ (EmbedStep(i) \/ EmbeddingError(i))
  <2>1. faults' \in Nat /\ embedder[i].pc # "idle"
    BY <1>0, <1>5 DEF EmbedStep, EmbeddingError, Fault, Step, Reserve, CallProvider, FinishCall,
                      Settle, RecordSuccess, Release, TryError, HandlerError
  <2>2. Embeds(i)
    BY <1>5, <2>1 DEF Embeds
  <2>3. u.pc = "embed" /\ indexer' = [indexer EXCEPT ![i] = u]
    BY <1>0, <1>a, <1>5, <2>1
  <2>4. Proceeds(i, u)
    BY <1>5, <2>3 DEF Proceeds, rows, counts
  <2>5. QED
    BY <1>0, <1>a, <1>c, <1>5, <2>2, <2>3, <2>4 DEF counts
<1>6. CASE EmbeddingRaised(i)
  <2>0. /\ embedder[i].pc = "raised" /\ Leave(i) /\ UNCHANGED faults /\ u.pc = "embed"
        /\ embedder'[i].pc = "idle"
    BY <1>6, <1>a, <1>b DEF EmbeddingRaised, Step
  <2>1. Embeds(i)
    BY <1>0, <2>0 DEF Embeds
  <2>2. CASE /\ record' = [record EXCEPT ![Of(i)] = "failed"] /\ Return(i)
             /\ UNCHANGED <<version, chunk, profile, remembered, entity, history, counts>>
    BY <1>e, <2>0, <2>1, <2>2
  <2>3. CASE Propagate(i) /\ UNCHANGED <<rows, counts>>
    BY <1>d, <2>0, <2>1, <2>3
  <2>4. QED
    BY <1>6, <2>2, <2>3 DEF EmbeddingRaised
<1>7. CASE WriteIndex(i)
  <2>1. /\ embedder[i].pc = "answered" /\ Leave(i) /\ UNCHANGED faults /\ u.pc = "embed"
        /\ embedder'[i].pc = "idle" /\ Return(i)
        /\ UNCHANGED <<version, profile, history, counts>>
    BY <1>7, <1>a, <1>b DEF WriteIndex, Step
  <2>2. Embeds(i)
    BY <1>0, <2>1 DEF Embeds
  <2>3. Writes(i)
    BY <1>7, <2>1 DEF WriteIndex, Writes
  <2>4. QED
    BY <1>e, <2>1, <2>2, <2>3
<1>8. CASE MarkVersionFailed(i)
  <2>1. /\ u.pc = "mark_failed" /\ Return(i) /\ record' = [record EXCEPT ![Of(i)] = "failed"]
        /\ UNCHANGED <<version, chunk, profile, remembered, entity, history, counts,
                       embedding, faults>>
    BY <1>8 DEF MarkVersionFailed, At
  <2>2. Embeds(i) /\ embedder'[i].pc = "idle"
    BY <1>0, <1>a, <2>1 DEF Embeds, embedding
  <2>3. QED
    BY <1>e, <2>1, <2>2
<1>9. CASE /\ \/ u.pc \in {"load", "ensure", "mark", "mark_failed"}
              \/ Step(i, "answered")
              \/ Step(i, "raised") /\ IsEmbeddingError(embedder[i].error)
           /\ Fault /\ Propagate(i) /\ Leave(i) /\ UNCHANGED <<rows, counts>>
  <2>1. u.pc # "idle" /\ embedder[i].pc \in {"idle", "answered", "raised"}
    BY <1>9, <1>a DEF Step
  <2>2. Embeds(i)
    BY <1>0, <1>9, <2>1 DEF Embeds, Fault
  <2>3. QED
    BY <1>9, <1>b, <1>d, <2>1, <2>2
<1>10. CASE Crash(i)
  <2>1. /\ u.pc # "idle" /\ faults' = faults + 1 /\ crashed' = TRUE /\ Dies(i)
        /\ indexer' = [indexer EXCEPT ![i] = IdleIndexer]
        /\ UNCHANGED <<rows, history, reindexed>>
    BY <1>10 DEF Crash, Fault
  <2>2. Embeds(i)
    BY <1>0, <2>1 DEF Embeds
  <2>3. embedder'[i].pc = "idle" /\ Drops(i, IdleIndexer)
    BY <1>0, <2>1 DEF Dies, IdleEmbedder, Drops, history
  <2>4. QED
    BY <1>0, <1>c, <2>1, <2>2, <2>3, IdleIndexerType
\* The version was promoted and has its record.
<1>11. CASE EnsurePending(i)
  <2> DEFINE t == [u EXCEPT !.pc = "mark"]
  <2>0. /\ u.pc = "ensure" /\ embedder[i].pc = "idle" /\ Goto(i, "mark")
        /\ record' = [record EXCEPT ![Of(i)] = IF record[Of(i)] = "none" THEN "pending"
                                                                        ELSE record[Of(i)]]
        /\ UNCHANGED <<version, chunk, profile, remembered, entity, history, counts,
                       embedding, faults>>
    BY <1>11, <1>a DEF EnsurePending, EnsurePendingInSession, At
  <2>1. Of(i) \in u.todo /\ Of(i) \in Versions
    <3>1. u.todo \in SUBSET Versions /\ u.todo # {}
      BY <1>a, <2>0 DEF Indices, Neat
    <3>2. QED
      BY <3>1, FirstOfTodo DEF Of
  <2>2. record[Of(i)] # "none"
    BY <2>1 DEF IndexInv, OnlyPromoted
  <2>3. UNCHANGED record
    BY <1>0, <2>0, <2>2 DEF IndexType
  <2>4. indexer' = [indexer EXCEPT ![i] = t]
    BY <1>0, <2>0 DEF Goto, Indices
  <2>5. /\ t \in Indices /\ t.pc = "mark" /\ t.todo = u.todo /\ t.caller = u.caller
        /\ t.text = u.text
    BY <1>a DEF Indices
  <2> HIDE DEF t
  <2>6. Neat(t)
    BY <1>a, <2>0, <2>5 DEF Neat
  <2>7. Embeds(i) /\ embedder'[i].pc = "idle"
    BY <1>0, <2>0 DEF Embeds, embedding
  <2>8. Proceeds(i, t)
    BY <2>0, <2>3, <2>5 DEF Proceeds, counts
  <2>9. QED
    BY <1>0, <1>c, <2>0, <2>4, <2>5, <2>6, <2>7, <2>8 DEF counts
<1>12. CASE Index(i)
  BY <1>3, <1>4, <1>5, <1>6, <1>7, <1>8, <1>11, <1>12 DEF Index, EmbedTexts
<1>13. CASE Raises(i)
  BY <1>5, <1>9, <1>13 DEF Raises
<1>14. QED
  BY <1>1, <1>2, <1>10, <1>12, <1>13

-----------------------------------------------------------------------------
(***************************************************************************)
(* The invariant of the index, step by step.                               *)
(***************************************************************************)

\* What a promotion does, for the version of every chapter.
LEMMA Promotion ==
    ASSUME IndexType, NEW i \in Indexers, NEW v \in Versions, AcceptVersion(i, v)
    PROVE  LET old == Accepted(ChapterOf[v]) IN
           /\ indexer[i].pc = "idle" /\ version[v] = "candidate"
           /\ \A w \in Versions :
                 version'[w] = IF w \in old THEN "superseded"
                               ELSE IF w = v THEN "accepted" ELSE version[w]
           /\ version' \in [Versions -> {"candidate", "accepted", "superseded"}]
           /\ chunk' = Hidden(old) /\ entity' = HiddenEntity(old)
           /\ record' = [record EXCEPT ![v] = IF record[v] = "none" THEN "pending"
                                              ELSE record[v]]
           /\ profile' \in {v, profile} /\ newest' = v
           /\ overtaken' = overtaken \cup {w \in old : AtWork(w)}
           /\ UNCHANGED <<remembered, abandoned>>
<1> DEFINE old == Accepted(ChapterOf[v])
           became(w) == IF w \in old THEN "superseded"
                        ELSE IF w = v THEN "accepted" ELSE version[w]
<1>1. version' = [w \in Versions |-> became(w)]
  BY Zenon DEF AcceptVersion, Replaced
<1>2. /\ indexer[i].pc = "idle" /\ version[v] = "candidate"
      /\ chunk' = Hidden(old) /\ entity' = HiddenEntity(old)
      /\ record' = [record EXCEPT ![v] = IF record[v] = "none" THEN "pending" ELSE record[v]]
      /\ profile' = (IF v \in Changes THEN v ELSE profile) /\ newest' = v
      /\ overtaken' = overtaken \cup {w \in old : AtWork(w)}
      /\ UNCHANGED <<remembered, abandoned>>
  BY Zenon DEF AcceptVersion, Replaced, SupersedeVersion, EnsurePendingInSession
<1>3. version' \in [Versions -> {"candidate", "accepted", "superseded"}]
  BY <1>1 DEF IndexType
<1>4. profile' \in {v, profile}
  BY <1>2
<1>5. \A w \in Versions : version'[w] = became(w)
  BY <1>1
<1>6. QED
  BY <1>2, <1>3, <1>4, <1>5

\* Hiding takes accepted chunks away, and no others.
LEMMA HiddenPlainly ==
    ASSUME IndexType, NEW old
    PROVE  /\ Hidden(old) \in [Versions -> {"none", "accepted", "superseded"}]
           /\ \A w \in Versions :
                 Hidden(old)[w] = "accepted" <=> chunk[w] = "accepted" /\ w \notin old
           /\ HiddenEntity(old) \in [status : {"none", "accepted", "superseded"},
                                     source : Versions \cup {None}]
           /\ HiddenEntity(old).source = entity.source
           /\ HiddenEntity(old).status = "accepted" =>
                 entity.status = "accepted" /\ entity.source \notin old
<1>1. Hidden(old) \in [Versions -> {"none", "accepted", "superseded"}]
  BY DEF IndexType, Hidden
<1>2. \A w \in Versions :
         Hidden(old)[w] = "accepted" <=> chunk[w] = "accepted" /\ w \notin old
  BY DEF IndexType, Hidden
<1>3. entity \in [status : {"none", "accepted", "superseded"}, source : Versions \cup {None}]
  BY DEF IndexType
<1> DEFINE gone == [entity EXCEPT !.status = "superseded"]
<1>4. /\ gone \in [status : {"none", "accepted", "superseded"}, source : Versions \cup {None}]
      /\ gone.source = entity.source /\ gone.status = "superseded"
  BY <1>3
<1>5. HiddenEntity(old) = IF entity.source \in old /\ entity.status = "accepted"
                          THEN gone ELSE entity
  BY DEF HiddenEntity
<1> HIDE DEF gone
<1>6. QED
  BY <1>1, <1>2, <1>3, <1>4, <1>5

\* What the final transaction does.
LEMMA Written ==
    ASSUME IndexType, NEW i \in Indexers, Writes(i), Of(i) \in Versions
    PROVE  /\ chunk' \in [Versions -> {"none", "accepted", "superseded"}]
           /\ chunk'[Of(i)] = "accepted"
           /\ \A w \in Versions \ {Of(i)} :
                 chunk'[w] = "accepted" <=> chunk[w] = "accepted" /\ w \notin Outdated(Of(i))
           /\ entity' \in [status : {"none", "accepted", "superseded"},
                           source : Versions \cup {None}]
           /\ entity'.status = "accepted" =>
                 \/ entity'.source = Of(i)
                 \/ entity.status = "accepted" /\ entity'.source = entity.source
           /\ remembered' = remembered \cup {indexer[i].text}
           /\ record' = [record EXCEPT ![Of(i)] = "completed"]
<1> DEFINE v == Of(i)
           out == Outdated(v)
<1>1. /\ Hidden(out) \in [Versions -> {"none", "accepted", "superseded"}]
      /\ \A w \in Versions :
            Hidden(out)[w] = "accepted" <=> chunk[w] = "accepted" /\ w \notin out
      /\ HiddenEntity(out) \in [status : {"none", "accepted", "superseded"},
                                source : Versions \cup {None}]
      /\ HiddenEntity(out).source = entity.source
      /\ HiddenEntity(out).status = "accepted" => entity.status = "accepted"
  BY HiddenPlainly
<1>2. chunk' = [Hidden(out) EXCEPT ![v] = "accepted"]
      /\ entity' = Mentioned(v, HiddenEntity(out))
  BY DEF Writes
<1>3. Mentioned(v, HiddenEntity(out)) = IF v \in Mentions
                                        THEN [status |-> "accepted", source |-> v]
                                        ELSE HiddenEntity(out)
  BY DEF Mentioned
<1> HIDE DEF v, out
<1>4. v \in Versions /\ v = Of(i) /\ out = Outdated(Of(i))
  BY DEF v, out
<1>5. /\ entity' \in [status : {"none", "accepted", "superseded"}, source : Versions \cup {None}]
      /\ entity'.status = "accepted" =>
            \/ entity'.source = v
            \/ entity.status = "accepted" /\ entity'.source = entity.source
  BY <1>1, <1>2, <1>3, <1>4
<1>6. /\ chunk' \in [Versions -> {"none", "accepted", "superseded"}]
      /\ chunk'[v] = "accepted"
      /\ \A w \in Versions \ {v} :
            chunk'[w] = "accepted" <=> chunk[w] = "accepted" /\ w \notin out
  BY <1>1, <1>2, <1>4
<1>7. QED
  BY <1>4, <1>5, <1>6 DEF Writes, Remembering

LEMMA IndexStep ==
    ASSUME IndexInv, NEW i \in Indexers, NEW t, Works(i, t)
    PROVE  IndexInv'
<1> DEFINE u == indexer[i]
           v == Of(i)
<1>0. /\ IndexType /\ indexer \in [Indexers -> Indices] /\ u \in Indices /\ t \in Indices
      /\ version \in [Versions -> {"candidate", "accepted", "superseded"}]
      /\ record \in [Versions -> {"none", "pending", "indexing", "completed", "failed"}]
      /\ Neat(u) /\ Neat(t)
  BY DEF IndexInv, IndexType, Works, Orderly, Neat
<1>1. indexer'[i] = t /\ \A j \in Indexers \ {i} : indexer'[j] = indexer[j]
  BY <1>0 DEF Works
<1>2. \A j \in Indexers : indexer[j].pc # "idle" => Of(j) \in indexer[j].todo
  <2>1. ASSUME NEW j \in Indexers, indexer[j].pc # "idle" PROVE Of(j) \in indexer[j].todo
    <3>1. indexer[j] \in Indices /\ indexer[j].todo # {}
      BY <1>0, <2>1 DEF IndexInv, Orderly
    <3>2. indexer[j].todo \in SUBSET Versions
      BY <3>1 DEF Indices
    <3>3. QED
      BY <3>1, <3>2, FirstOfTodo DEF Of
  <2>2. QED
    BY <2>1
<1>3. /\ \A j \in Indexers \ {i} : Of(j)' = Of(j)
      /\ t.todo = u.todo => Of(i)' = v
  BY <1>1 DEF Of
<1>4. \A j \in Indexers : indexer[j].todo \subseteq Versions
  BY <1>0 DEF Indices
<1>5. u.pc # "idle" => v \in u.todo /\ v \in Versions
  BY <1>2, <1>4
<1> HIDE DEF v, u
<1>6. IndexType'
  <2>1. indexer' \in [Indexers -> Indices] /\ reindexed' \in Nat
    BY <1>0 DEF Works
  <2>2. CASE Promotes(i, t)
    <3>1. PICK w \in Versions : AcceptVersion(i, w)
      BY <2>2 DEF Promotes
    <3> DEFINE old == Accepted(ChapterOf[w])
    <3>2. /\ chunk' = Hidden(old) /\ entity' = HiddenEntity(old)
          /\ version' \in [Versions -> {"candidate", "accepted", "superseded"}]
          /\ record' = [record EXCEPT ![w] = IF record[w] = "none" THEN "pending" ELSE record[w]]
          /\ profile' \in {w, profile} /\ newest' = w
          /\ overtaken' = overtaken \cup {x \in old : AtWork(x)}
          /\ UNCHANGED <<remembered, abandoned>>
      BY <1>0, <3>1, Promotion
    <3>3. old \subseteq Versions
      BY DEF Accepted
    <3>4. /\ chunk' \in [Versions -> {"none", "accepted", "superseded"}]
          /\ entity' \in [status : {"none", "accepted", "superseded"},
                          source : Versions \cup {None}]
          /\ entity'.status = "accepted" => entity'.source \in Versions
      <4>1. /\ Hidden(old) \in [Versions -> {"none", "accepted", "superseded"}]
            /\ HiddenEntity(old) \in [status : {"none", "accepted", "superseded"},
                                     source : Versions \cup {None}]
            /\ HiddenEntity(old).source = entity.source
            /\ HiddenEntity(old).status = "accepted" => entity.status = "accepted"
        BY <1>0, HiddenPlainly
      <4>2. QED
        BY <1>0, <3>2, <4>1 DEF IndexType
    <3>5. record' \in [Versions -> {"none", "pending", "indexing", "completed", "failed"}]
      BY <1>0, <3>2
    <3> HIDE DEF old
    <3>6. QED
      BY <1>0, <2>1, <2>2, <3>2, <3>3, <3>4, <3>5 DEF IndexType, Promotes
  <2>3. CASE Lists(i, t)
    BY <1>0, <2>1, <2>3 DEF Lists, IndexType, rows, history
  <2>4. CASE Proceeds(i, t)
    <3>1. /\ UNCHANGED <<version, chunk, profile, remembered, entity, history, crashed>>
          /\ UNCHANGED record \/ record' = [record EXCEPT ![v] = "indexing"]
      BY <2>4 DEF Proceeds, v
    <3>2. QED
      BY <1>0, <2>1, <3>1 DEF IndexType, history
  <2>5. CASE Ends(i, t)
    <3>1. UNCHANGED <<version, profile, history, crashed>> /\ u.pc # "idle"
      BY <2>5 DEF Ends, u
    <3>2. CASE UNCHANGED <<chunk, remembered, entity>>
      <4>1. record' \in [Versions -> {"none", "pending", "indexing", "completed", "failed"}]
        BY <1>0, <2>5 DEF Ends, Writes
      <4>2. QED
        BY <1>0, <2>1, <3>1, <3>2, <4>1 DEF IndexType, history
    <3>3. CASE Writes(i)
      <4>1. /\ chunk' \in [Versions -> {"none", "accepted", "superseded"}]
            /\ entity' \in [status : {"none", "accepted", "superseded"},
                            source : Versions \cup {None}]
            /\ entity'.status = "accepted" =>
                  \/ entity'.source = v
                  \/ entity.status = "accepted" /\ entity'.source = entity.source
            /\ remembered' = remembered \cup {u.text}
            /\ record' = [record EXCEPT ![v] = "completed"]
        BY <1>0, <1>5, <3>1, <3>3, Written DEF v, u
      <4>2. u.text \in Versions \cup {0}
        BY <1>0 DEF Indices
      <4>3. record' \in [Versions -> {"none", "pending", "indexing", "completed", "failed"}]
        BY <1>0, <4>1
      <4>4. remembered' \subseteq Versions \cup {0}
        BY <1>0, <4>1, <4>2 DEF IndexType
      <4>5. entity'.status = "accepted" => entity'.source \in Versions
        BY <1>0, <1>5, <3>1, <4>1 DEF IndexType
      <4>6. QED
        BY <1>0, <2>1, <3>1, <4>1, <4>3, <4>4, <4>5 DEF IndexType, history
    <3>4. QED
      BY <2>5, <3>2, <3>3 DEF Ends
  <2>6. CASE Drops(i, t)
    <3>1. /\ UNCHANGED <<version, chunk, record, profile, remembered, entity, newest, overtaken>>
          /\ crashed' \in BOOLEAN
          /\ UNCHANGED abandoned \/ abandoned' = abandoned \cup {v} \/ abandoned' = abandoned
      BY <1>0, <2>6 DEF Drops, rows, IndexType, v
    <3>2. abandoned' \subseteq Versions
      <4>1. CASE u.pc = "idle"
        BY <1>0, <2>6, <4>1 DEF Drops, IndexType, u
      <4>2. CASE u.pc # "idle"
        BY <1>0, <1>5, <3>1, <4>2 DEF IndexType
      <4>3. QED
        BY <4>1, <4>2
    <3>3. QED
      BY <1>0, <2>1, <3>1, <3>2 DEF IndexType
  <2>7. QED
    BY <2>2, <2>3, <2>4, <2>5, <2>6 DEF Works
<1>7. \A j \in Indexers : Orderly(j)'
  <2>1. Orderly(i)'
    BY <1>0, <1>1 DEF Orderly, Works, Neat
  <2>2. \A j \in Indexers \ {i} : Orderly(j)'
    BY <1>1 DEF Orderly, Works, IndexInv
  <2>3. QED
    BY <2>1, <2>2
\* Everything but a promotion leaves the versions alone.
<1>8. \/ \E w \in Versions : AcceptVersion(i, w) /\ t.pc = "load" /\ t.caller = "accept"
                            /\ t.todo = {w} /\ UNCHANGED crashed
      \/ UNCHANGED <<version, newest, overtaken>> /\ (Lists(i, t) \/ Proceeds(i, t)
                                                      \/ Ends(i, t) \/ Drops(i, t))
  <2>1. CASE Lists(i, t) \/ Proceeds(i, t) \/ Ends(i, t)
    BY <2>1 DEF Lists, Proceeds, Ends, rows, history
  <2>2. CASE Drops(i, t)
    BY <2>2 DEF Drops, rows
  <2>3. CASE Promotes(i, t)
    BY <2>3 DEF Promotes
  <2>4. QED
    BY <2>1, <2>2, <2>3 DEF Works
<1> DEFINE Rest == /\ OneAccepted /\ OnlyPromoted /\ WorksOnFresh
                   /\ StaleOnlyIfOvertaken /\ CompletedIsIndexed /\ Attended
<1>9. ASSUME NEW w \in Versions, AcceptVersion(i, w), t.pc = "load", t.caller = "accept",
             t.todo = {w}, UNCHANGED crashed
      PROVE  Rest'
  <2> DEFINE old == Accepted(ChapterOf[w])
  <2>1. /\ u.pc = "idle" /\ version[w] = "candidate"
        /\ \A x \in Versions :
              version'[x] = IF x \in old THEN "superseded"
                            ELSE IF x = w THEN "accepted" ELSE version[x]
        /\ chunk' = Hidden(old) /\ entity' = HiddenEntity(old)
        /\ record' = [record EXCEPT ![w] = IF record[w] = "none" THEN "pending" ELSE record[w]]
        /\ overtaken' = overtaken \cup {x \in old : AtWork(x)}
        /\ UNCHANGED abandoned
    BY <1>0, <1>9, Promotion DEF u
  <2>2. \A x \in Versions : x \in old <=> version[x] = "accepted" /\ ChapterOf[x] = ChapterOf[w]
    BY DEF Accepted
  <2>3. /\ \A x \in Versions : chunk'[x] = "accepted" <=> chunk[x] = "accepted" /\ x \notin old
        /\ entity'.source = entity.source
        /\ entity'.status = "accepted" => entity.status = "accepted" /\ entity.source \notin old
    BY <1>0, <2>1, HiddenPlainly
  <2>4. u.todo = {}
    BY <1>0, <2>1 DEF Neat
  <2> HIDE DEF old
  <2>5. OneAccepted'
    BY <2>1, <2>2 DEF OneAccepted, IndexInv
  <2>6. /\ \A x \in Versions : Promoted(x) => Promoted(x)'
        /\ Promoted(w)'
    BY <2>1 DEF Promoted
  <2>7. OnlyPromoted'
    <3>1. ASSUME NEW j \in Indexers, NEW x \in indexer'[j].todo PROVE Promoted(x)'
      <4>1. CASE j = i
        BY <1>1, <1>9, <2>6, <3>1, <4>1
      <4>2. CASE j # i
        BY <1>1, <1>4, <2>6, <3>1, <4>2 DEF IndexInv, OnlyPromoted
      <4>3. QED
        BY <4>1, <4>2
    <3>2. ASSUME NEW x \in Versions PROVE record'[x] # "none" <=> Promoted(x)'
      BY <1>0, <2>1, <2>2, <3>2 DEF IndexInv, OnlyPromoted, Promoted
    <3>3. QED
      BY <3>1, <3>2 DEF OnlyPromoted
  <2>8. \A x \in Versions : Fresh(x) => x \in old \/ Fresh(x)'
    BY <2>1, <2>2 DEF Fresh
  <2>9. WorksOnFresh'
    <3> SUFFICES ASSUME NEW j \in Indexers, indexer'[j].pc \in {"ensure", "mark", "embed"}
                 PROVE  Fresh(Of(j))'
      BY DEF WorksOnFresh
    <3>1. j # i /\ indexer'[j] = indexer[j] /\ Of(j)' = Of(j)
      BY <1>1, <1>3, <1>9
    <3>2. Fresh(Of(j)) /\ AtWork(Of(j)) /\ Of(j) \in Versions
      BY <1>2, <1>4, <3>1 DEF IndexInv, WorksOnFresh, AtWork
    <3>3. QED
      BY <2>1, <2>8, <3>1, <3>2 DEF Fresh
  <2>10. StaleOnlyIfOvertaken'
    <3>1. \A x \in Versions : chunk'[x] = "accepted" => Fresh(x)'
      BY <2>3, <2>8 DEF IndexInv, StaleOnlyIfOvertaken, Fresh, Canonical
    <3>2. entity'.status = "accepted" => Fresh(entity.source)'
      BY <1>0, <2>3, <2>8 DEF IndexInv, IndexType, StaleOnlyIfOvertaken, Fresh, Canonical
    <3>3. QED
      BY <3>1, <3>2 DEF StaleOnlyIfOvertaken, Fresh, Canonical
  <2>11. CompletedIsIndexed'
    <3> SUFFICES ASSUME NEW x \in Versions, record'[x] = "completed", version'[x] = "accepted"
                 PROVE  chunk'[x] = "accepted"
      BY DEF CompletedIsIndexed
    <3>1. record[w] = "none"
      BY <1>0, <2>1 DEF IndexInv, OnlyPromoted, Promoted
    <3>2. x # w /\ record[x] = "completed" /\ version[x] = "accepted" /\ x \notin old
      BY <1>0, <2>1, <3>1
    <3>3. QED
      BY <2>3, <3>2 DEF IndexInv, CompletedIsIndexed
  <2>12. Attended'
    <3> SUFFICES ASSUME NEW x \in Versions, record'[x] \in {"pending", "indexing"},
                        ~crashed, x \notin abandoned
                 PROVE  \E j \in Indexers : Attends(j, x)'
      BY <1>9, <2>1 DEF Attended
    <3>1. CASE x = w
      BY <1>1, <1>9, <3>1 DEF Attends
    <3>2. CASE x # w
      <4>1. PICK j \in Indexers : Attends(j, x)
        BY <1>0, <2>1, <3>2 DEF IndexInv, Attended
      <4>2. j # i
        BY <2>4, <4>1 DEF Attends, u
      <4>3. Attends(j, x)'
        BY <1>1, <1>3, <4>1, <4>2 DEF Attends
      <4>4. QED
        BY <4>3
    <3>3. QED
      BY <3>1, <3>2
  <2>13. QED
    BY <2>5, <2>7, <2>9, <2>10, <2>11, <2>12
<1>10. ASSUME UNCHANGED <<version, newest, overtaken>>,
              Lists(i, t) \/ Proceeds(i, t) \/ Ends(i, t) \/ Drops(i, t)
       PROVE  Rest'
  <2>1. OneAccepted'
    BY <1>10 DEF IndexInv, OneAccepted
  <2>2. \A x \in Versions : (Promoted(x)' <=> Promoted(x)) /\ (Fresh(x)' <=> Fresh(x))
    BY <1>10 DEF Promoted, Fresh
  <2>3. t.todo \subseteq u.todo \/ Lists(i, t)
    BY <1>10 DEF Proceeds, Ends, Drops, IdleIndexer, u
  \* The records that change are those of the version at work.
  <2>4. \A x \in Versions : record'[x] = record[x] \/ (x = v /\ u.pc # "idle")
    BY <1>0, <1>10 DEF Lists, Proceeds, Ends, Drops, Writes, rows, u, v
  <2>5. OnlyPromoted'
    <3>1. ASSUME NEW x \in t.todo PROVE Promoted(x)'
      <4>1. CASE Lists(i, t)
        BY <2>2, <3>1, <4>1 DEF Lists, Promoted
      <4>2. CASE t.todo \subseteq u.todo
        BY <1>4, <2>2, <3>1, <4>2 DEF IndexInv, OnlyPromoted, u
      <4>3. QED
        BY <2>3, <4>1, <4>2
    <3>2. ASSUME NEW j \in Indexers \ {i}, NEW x \in indexer'[j].todo PROVE Promoted(x)'
      BY <1>1, <1>4, <2>2, <3>2 DEF IndexInv, OnlyPromoted
    <3>3. ASSUME NEW x \in Versions PROVE record'[x] # "none" <=> Promoted(x)'
      <4>1. record'[x] = "none" => record'[x] = record[x]
        BY <1>0, <1>5, <1>10 DEF Lists, Proceeds, Ends, Drops, Writes, rows, u, v
      <4>2. Promoted(x) \/ record'[x] = record[x]
        BY <1>5, <2>4 DEF IndexInv, OnlyPromoted, u
      <4>3. QED
        BY <2>2, <4>1, <4>2 DEF IndexInv, OnlyPromoted
    <3>4. QED
      BY <1>1, <3>1, <3>2, <3>3 DEF OnlyPromoted
  <2>6. WorksOnFresh'
    <3>1. ASSUME t.pc \in {"ensure", "mark", "embed"} PROVE Fresh(Of(i))'
      <4>1. Proceeds(i, t)
        BY <1>10, <3>1 DEF Lists, Ends, Drops, IdleIndexer
      <4>2. u.pc # "idle" /\ Of(i)' = v /\ v \in Versions
        BY <1>3, <1>5, <4>1 DEF Proceeds, u
      <4>3. Fresh(v)
        <5>1. CASE u.pc = "load"
          BY <3>1, <4>1, <5>1 DEF Proceeds, Fresh, u, v
        <5>2. CASE u.pc # "load"
          <6>1. u.pc \in {"ensure", "mark", "embed"}
            BY <3>1, <4>1, <5>2 DEF Proceeds, u
          <6>2. QED
            BY <6>1 DEF IndexInv, WorksOnFresh, u, v
        <5>3. QED
          BY <5>1, <5>2
      <4>4. QED
        BY <2>2, <4>2, <4>3
    <3>2. ASSUME NEW j \in Indexers \ {i}, indexer'[j].pc \in {"ensure", "mark", "embed"}
          PROVE  Fresh(Of(j))'
      <4>1. Of(j)' = Of(j) /\ Of(j) \in Versions /\ Fresh(Of(j))
        BY <1>1, <1>2, <1>3, <1>4, <3>2 DEF IndexInv, WorksOnFresh
      <4>2. QED
        BY <2>2, <4>1
    <3>3. QED
      BY <1>1, <3>1, <3>2 DEF WorksOnFresh
  <2>7. ASSUME Writes(i), Ends(i, t) PROVE StaleOnlyIfOvertaken' /\ CompletedIsIndexed'
    <3>1. /\ chunk'[v] = "accepted" /\ v \in Versions /\ u.pc = "embed"
          /\ \A w \in Versions \ {v} :
                chunk'[w] = "accepted" <=> chunk[w] = "accepted" /\ w \notin Outdated(v)
          /\ entity'.status = "accepted" =>
                \/ entity'.source = v
                \/ entity.status = "accepted" /\ entity'.source = entity.source
          /\ record' = [record EXCEPT ![v] = "completed"]
      <4>1. u.pc = "embed" /\ v \in Versions
        BY <1>5, <2>7 DEF Writes, u
      <4>2. QED
        BY <1>0, <2>7, <4>1, Written DEF v
    <3>2. Fresh(v)
      BY <3>1 DEF IndexInv, WorksOnFresh, u, v
    <3>3. StaleOnlyIfOvertaken'
      <4>1. \A x \in Versions : chunk'[x] = "accepted" => Fresh(x)
        BY <3>1, <3>2 DEF IndexInv, StaleOnlyIfOvertaken, Fresh, Canonical
      <4>2. entity'.status = "accepted" => Fresh(entity'.source) /\ entity'.source \in Versions
        BY <1>0, <3>1, <3>2 DEF IndexInv, IndexType, StaleOnlyIfOvertaken, Fresh, Canonical
      <4>3. QED
        BY <2>2, <4>1, <4>2 DEF StaleOnlyIfOvertaken, Fresh, Canonical
    <3>4. CompletedIsIndexed'
      <4> SUFFICES ASSUME NEW x \in Versions, record'[x] = "completed", version'[x] = "accepted",
                          x # v
                   PROVE  chunk'[x] = "accepted"
        BY <3>1 DEF CompletedIsIndexed
      <4>1. record[x] = "completed" /\ version[x] = "accepted"
        BY <1>0, <1>10, <3>1
      <4>2. x \notin Outdated(v)
        BY <4>1 DEF Outdated
      <4>3. QED
        BY <3>1, <4>1, <4>2 DEF IndexInv, CompletedIsIndexed
    <3>5. QED
      BY <3>3, <3>4
  <2>8. ASSUME UNCHANGED <<chunk, entity>>, ~(Writes(i) /\ Ends(i, t))
        PROVE  StaleOnlyIfOvertaken' /\ CompletedIsIndexed'
    <3>1. StaleOnlyIfOvertaken'
      BY <1>10, <2>8 DEF IndexInv, StaleOnlyIfOvertaken, Canonical
    <3>2. \A x \in Versions : record'[x] = "completed" => record[x] = "completed"
      BY <1>0, <1>10, <2>8 DEF Lists, Proceeds, Ends, Drops, rows
    <3>3. CompletedIsIndexed'
      BY <1>10, <2>8, <3>2 DEF IndexInv, CompletedIsIndexed
    <3>4. QED
      BY <3>1, <3>3
  <2>9. StaleOnlyIfOvertaken' /\ CompletedIsIndexed'
    BY <1>10, <2>7, <2>8 DEF Lists, Proceeds, Ends, Drops, rows
  <2>10. Attended'
    <3> SUFFICES ASSUME NEW x \in Versions, record'[x] \in {"pending", "indexing"},
                        ~crashed', x \notin abandoned'
                 PROVE  \E j \in Indexers : Attends(j, x)'
      BY DEF Attended
    <3>1. ~crashed /\ x \notin abandoned
      BY <1>0, <1>10 DEF Lists, Proceeds, Ends, Drops, history, IndexType
    <3>2. ASSUME NEW j \in Indexers \ {i}, Attends(j, x) PROVE Attends(j, x)'
      BY <1>1, <1>3, <3>2 DEF Attends
    <3>3. ASSUME record'[x] = record[x] PROVE \E j \in Indexers : Attends(j, x)'
      <4>1. PICK j \in Indexers : Attends(j, x)
        BY <3>1, <3>3 DEF IndexInv, Attended
      <4>2. CASE j # i
        BY <3>2, <4>1, <4>2
      <4>3. CASE j = i
        <5>1. /\ x \in u.todo /\ u.pc # "idle"
              /\ u.caller = "accept" \/ (u.pc = "embed" /\ v = x)
          BY <1>0, <4>1, <4>3 DEF Attends, Neat, u, v
        <5>2. u.caller = "accept" => v = x
          BY <1>0, <1>5, <5>1 DEF Neat
        <5>3. v = x
          BY <5>1, <5>2
        <5>4. CASE Proceeds(i, t)
          <6>1. t.todo = u.todo /\ t.caller = u.caller /\ Of(i)' = v
            BY <1>3, <5>4 DEF Proceeds, u
          <6>2. t.caller # "accept" => t.pc = "embed"
            <7>1. ASSUME u.caller # "accept" PROVE t.pc = "embed"
              BY <5>1, <5>4, <6>1, <7>1 DEF Proceeds, u
            <7>2. QED
              BY <6>1, <7>1
          <6>3. Attends(i, x)'
            BY <1>1, <5>1, <5>3, <6>1, <6>2 DEF Attends
          <6>4. QED
            BY <6>3
        <5>5. CASE Ends(i, t)
          <6>1. record'[v] \in {"completed", "failed"}
            BY <1>0, <1>5, <5>1, <5>5 DEF Ends, Writes, v
          <6>2. QED
            BY <5>3, <6>1
        <5>6. CASE Drops(i, t)
          <6>1. v \in abandoned'
            <7>1. abandoned' = abandoned \cup IF u.pc \in {"embed", "mark_failed"}
                                              THEN {v} ELSE {}
              BY <5>6 DEF Drops, u, v
            <7>2. u.pc \in {"embed", "mark_failed"}
              BY <5>1, <5>6 DEF Drops, u
            <7>3. QED
              BY <7>1, <7>2
          <6>2. QED
            BY <5>3, <6>1
        <5>7. QED
          BY <1>10, <5>1, <5>4, <5>5, <5>6 DEF Lists, u
      <4>4. QED
        BY <4>2, <4>3
    <3>4. ASSUME record'[x] # record[x] PROVE Attends(i, x)'
      <4>1. x = v /\ u.pc # "idle" /\ v \in u.todo
        BY <1>5, <2>4, <3>4
      <4>2. record' # record
        BY <3>4
      <4>3. ~Lists(i, t) /\ ~Drops(i, t)
        BY <4>2 DEF Lists, Drops, rows
      <4>4. ~Ends(i, t)
        BY <1>0, <3>4, <4>1 DEF Ends, Writes, v
      <4>5. Proceeds(i, t)
        BY <1>10, <4>3, <4>4
      <4>6. t.pc = "embed" /\ t.todo = u.todo /\ Of(i)' = v
        BY <1>3, <4>2, <4>5 DEF Proceeds, u
      <4>7. QED
        BY <1>1, <4>1, <4>6 DEF Attends
    <3>5. QED
      BY <3>3, <3>4
  <2>11. QED
    BY <2>1, <2>5, <2>6, <2>9, <2>10
<1>11. Rest'
  BY <1>8, <1>9, <1>10
<1>12. QED
  BY <1>6, <1>7, <1>11 DEF IndexInv

-----------------------------------------------------------------------------

MemoryInv == EmbeddingInv /\ IndexInv

LEMMA MemoryInit == Init => MemoryInv
<1> SUFFICES ASSUME Init PROVE MemoryInv
  OBVIOUS
<1>1. EmbeddingType /\ \A i \in Indexers : Reserves(embedder[i])
  BY IdleEmbedderType DEF Init, EmbeddingInit, EmbeddingType, Budgets
<1>2. Holders = {} /\ Settlers = {}
  BY DEF Init, EmbeddingInit, Holders, Settlers, Held, IdleEmbedder
<1>3. Ledgers
  BY <1>2, FS_EmptySet, EmbeddingAssumption DEF Init, EmbeddingInit, Ledgers
<1>4. IndexType
  BY IdleIndexerType DEF Init, IndexType, None
<1>5. \A i \in Indexers : Orderly(i)
  BY DEF Init, EmbeddingInit, Orderly, IdleIndexer, IdleEmbedder
<1>6. OneAccepted /\ OnlyPromoted /\ WorksOnFresh
  BY DEF Init, OneAccepted, OnlyPromoted, Promoted, WorksOnFresh, IdleIndexer
<1>7. StaleOnlyIfOvertaken /\ CompletedIsIndexed /\ Attended
  BY DEF Init, StaleOnlyIfOvertaken, CompletedIsIndexed, Attended
<1>8. QED
  BY <1>1, <1>3, <1>4, <1>5, <1>6, <1>7 DEF MemoryInv, EmbeddingInv, IndexInv

LEMMA MemoryStep == MemoryInv /\ [Next]_vars => MemoryInv'
<1> SUFFICES ASSUME MemoryInv, [Next]_vars PROVE MemoryInv'
  OBVIOUS
<1>1. CASE UNCHANGED vars
  <2>1. EmbeddingInv'
    BY <1>1 DEF MemoryInv, vars, embedding, EmbeddingInv, EmbeddingType, Ledgers, Holders,
                Settlers
  <2>2. UNCHANGED <<version, chunk, record, profile, remembered, entity, indexer, newest,
                    overtaken, abandoned, reindexed, crashed, embedder>>
    BY <1>1 DEF vars, rows, history, counts, embedding
  <2>3. /\ IndexType' /\ OneAccepted' /\ OnlyPromoted' /\ StaleOnlyIfOvertaken'
        /\ CompletedIsIndexed'
    BY <2>2 DEF MemoryInv, IndexInv, IndexType, OneAccepted, OnlyPromoted, Promoted,
                StaleOnlyIfOvertaken, Canonical, CompletedIsIndexed
  <2>4. \A i \in Indexers : Orderly(i)' /\ Of(i)' = Of(i)
    BY <2>2 DEF MemoryInv, IndexInv, Orderly, Of
  <2>5. WorksOnFresh' /\ Attended'
    BY <2>2, <2>4 DEF MemoryInv, IndexInv, WorksOnFresh, Fresh, Attended, Attends
  <2>6. QED
    BY <2>1, <2>3, <2>4, <2>5 DEF MemoryInv, IndexInv
<1>2. CASE Next
  BY <1>2, StepTaken, EmbeddingStep, IndexStep DEF MemoryInv
<1>3. QED
  BY <1>1, <1>2

LEMMA MemoryHolds == Spec => []MemoryInv
BY MemoryInit, MemoryStep, PTL DEF Spec

\* The budget and the audit rows of the embeddings tell the same story in
\* every state no process died and no transaction failed before.
THEOREM LedgersStayTogether == Spec => []LedgersAgree
<1>1. MemoryInv => LedgersAgree
  BY DEF MemoryInv, EmbeddingInv, LedgersAgree, Ledgers, Holders, Settlers, Held, Holds, Step
<1>2. QED
  BY <1>1, MemoryHolds, PTL

\* Superseded memory is visible only through an indexer that was at work on
\* the version when it was replaced: promotion hides what is written, and a
\* version is loaded for indexing only while it is accepted.
THEOREM StaleMemoryIsOvertaken == Spec => []StaleOnlyIfOvertaken
<1>1. MemoryInv => StaleOnlyIfOvertaken
  BY DEF MemoryInv, IndexInv
<1>2. QED
  BY <1>1, MemoryHolds, PTL

\* An accepted version with a completed record is in memory: the sweep of
\* another version's final transaction never takes it.
THEOREM CompletedStaysIndexed == Spec => []CompletedIsIndexed
<1>1. MemoryInv => CompletedIsIndexed
  BY DEF MemoryInv, IndexInv
<1>2. QED
  BY <1>1, MemoryHolds, PTL

\* A pending or indexing record has a thread that owes it an end, unless a
\* process died or an exception went past the handlers.
THEOREM PromotionsAreAttended == Spec => []PromotionIsAttended
<1>1. MemoryInv => PromotionIsAttended
  BY DEF MemoryInv, IndexInv, Attended, Attends, PromotionIsAttended
<1>2. QED
  BY <1>1, MemoryHolds, PTL
\* Statuses, entity and texts stay in their ranges, a chapter has one accepted
\* version, and a thread is idle exactly when it has no version to index.
THEOREM TypeCorrect == Spec => []TypeOK
<1>1. ASSUME IndexInv PROVE TypeOK
  <2>1. ASSUME NEW c \in Chapters PROVE Cardinality(Accepted(c)) <= 1
    <3>1. CASE Accepted(c) = {}
      BY <3>1, FS_EmptySet
    <3>2. CASE Accepted(c) # {}
      <4>1. PICK v : v \in Accepted(c)
        BY <3>2
      <4>2. Accepted(c) = {v}
        BY <1>1, <4>1 DEF IndexInv, OneAccepted, Accepted
      <4>3. QED
        BY <4>2, FS_Singleton
    <3>3. QED
      BY <3>1, <3>2
  <2>2. ASSUME NEW i \in Indexers
        PROVE  /\ indexer[i].pc \in {"idle", "load", "ensure", "mark", "embed", "mark_failed"}
               /\ indexer[i].todo \subseteq Versions
               /\ indexer[i].pc = "idle" <=> indexer[i].todo = {}
    BY <1>1 DEF IndexInv, IndexType, Indices, Orderly
  <2>3. QED
    BY <1>1, <2>1, <2>2 DEF IndexInv, IndexType, TypeOK
<1>2. QED
  BY <1>1, MemoryHolds, PTL DEF MemoryInv

-----------------------------------------------------------------------------
(***************************************************************************)
(* The characters in memory.                                               *)
(***************************************************************************)

\* A thread at work on the version promoted last has the characters as that
\* promotion left them.
ReadsLatest ==
    \A i \in Indexers : indexer[i].pc \in {"ensure", "mark", "embed"} /\ Of(i) = newest =>
        indexer[i].text = profile

ProfileInv == ReadsLatest /\ ProfileRemembered

LEMMA ProfileStep ==
    ASSUME IndexInv, ProfileInv, NEW i \in Indexers, NEW t, Works(i, t)
    PROVE  ProfileInv'
<1> DEFINE u == indexer[i]
           v == Of(i)
<1>0. /\ IndexType /\ indexer \in [Indexers -> Indices]
      /\ record \in [Versions -> {"none", "pending", "indexing", "completed", "failed"}]
      /\ newest \in Versions \cup {None}
  BY DEF IndexInv, IndexType
<1>1. indexer'[i] = t /\ \A j \in Indexers \ {i} : indexer'[j] = indexer[j]
  BY <1>0 DEF Works
<1>2. /\ \A j \in Indexers \ {i} : Of(j)' = Of(j)
      /\ t.todo = u.todo => Of(i)' = v
  BY <1>1 DEF Of
<1>3. ASSUME NEW j \in Indexers, indexer[j].pc # "idle"
      PROVE  Of(j) \in indexer[j].todo /\ Of(j) \in Versions
  <2>1. indexer[j].todo \in SUBSET Versions /\ indexer[j].todo # {}
    BY <1>0, <1>3 DEF Indices, IndexInv, Orderly
  <2>2. QED
    BY <2>1, FirstOfTodo DEF Of
<1> HIDE DEF u, v
\* The thread that promotes has still to load; no other thread is at a version
\* that was a candidate, and the new record is pending.
<1>4. ASSUME NEW w \in Versions, AcceptVersion(i, w), t.pc = "load" PROVE ProfileInv'
  <2>1. /\ version[w] = "candidate" /\ newest' = w
        /\ record' = [record EXCEPT ![w] = IF record[w] = "none" THEN "pending" ELSE record[w]]
    BY <1>0, <1>4, Promotion
  <2>2. record[w] = "none" /\ \A j \in Indexers : w \notin indexer[j].todo
    BY <2>1 DEF IndexInv, OnlyPromoted, Promoted
  <2>3. record'[newest'] = "pending"
    BY <1>0, <2>1, <2>2
  <2>4. ASSUME NEW j \in Indexers, indexer'[j].pc \in {"ensure", "mark", "embed"} PROVE Of(j)' # newest'
    <3>1. j # i /\ indexer[j].pc # "idle" /\ Of(j)' = Of(j)
      BY <1>1, <1>2, <1>4, <2>4
    <3>2. QED
      BY <1>3, <2>1, <2>2, <3>1
  <2>5. QED
    BY <2>3, <2>4 DEF ProfileInv, ReadsLatest, ProfileRemembered
<1>5. ASSUME Lists(i, t) \/ Proceeds(i, t) \/ Ends(i, t) \/ Drops(i, t) PROVE ProfileInv'
  <2>1. UNCHANGED <<profile, newest>>
    BY <1>5 DEF Lists, Proceeds, Ends, Drops, rows, history
  <2>2. ASSUME t.pc \in {"ensure", "mark", "embed"}, Of(i)' = newest PROVE t.text = profile
    <3>1. Proceeds(i, t)
      BY <1>5, <2>2 DEF Lists, Ends, Drops, IdleIndexer
    <3>2. Of(i)' = v
      BY <1>2, <3>1 DEF Proceeds, u
    <3>3. \/ t.text = profile
          \/ t.text = u.text /\ u.pc \in {"ensure", "mark", "embed"}
      BY <2>2, <3>1 DEF Proceeds, u
    <3>4. QED
      BY <2>2, <3>2, <3>3 DEF ProfileInv, ReadsLatest, u, v
  <2>3. ReadsLatest'
    BY <1>1, <1>2, <2>1, <2>2 DEF ProfileInv, ReadsLatest
  <2>4. ProfileRemembered'
    <3> SUFFICES ASSUME newest # None, record'[newest] = "completed"
                 PROVE  profile \in remembered'
      BY <2>1 DEF ProfileRemembered
    <3>1. newest \in Versions
      BY <1>0
    <3>2. CASE ~Writes(i)
      <4>1. UNCHANGED remembered
        BY <1>5, <3>2 DEF Lists, Proceeds, Ends, Drops, rows
      <4>2. record[newest] = "completed"
        <5>1. CASE UNCHANGED record
          BY <5>1
        <5>2. CASE \E x \in {"indexing", "failed"} : record' = [record EXCEPT ![v] = x]
          BY <1>0, <3>1, <5>2
        <5>3. QED
          BY <1>5, <3>2, <5>1, <5>2 DEF Lists, Proceeds, Ends, Drops, rows, v
      <4>3. QED
        BY <4>1, <4>2 DEF ProfileInv, ProfileRemembered
    <3>3. CASE Writes(i)
      <4>1. /\ u.pc = "embed" /\ remembered' = remembered \cup {u.text}
            /\ record' = [record EXCEPT ![v] = "completed"]
        BY <3>3 DEF Writes, Remembering, u, v
      <4>2. CASE newest = v
        BY <4>1, <4>2 DEF ProfileInv, ReadsLatest, u, v
      <4>3. CASE newest # v
        BY <1>0, <3>1, <4>1, <4>3 DEF ProfileInv, ProfileRemembered
      <4>4. QED
        BY <4>2, <4>3
    <3>4. QED
      BY <3>2, <3>3
  <2>5. QED
    BY <2>3, <2>4 DEF ProfileInv
<1>6. QED
  BY <1>4, <1>5 DEF Works, Promotes

\* Once the version promoted last is indexed, the characters as it left them
\* are in memory: whatever thread wrote them had read them after the promotion.
THEOREM LatestProfileIsRemembered == Spec => []ProfileRemembered
<1>1. Init => ProfileInv
  BY DEF Init, ProfileInv, ReadsLatest, ProfileRemembered, IdleIndexer
<1>2. ASSUME MemoryInv, ProfileInv, [Next]_vars PROVE ProfileInv'
  <2>1. CASE UNCHANGED vars
    <3>1. UNCHANGED <<indexer, newest, profile, record, remembered>>
      BY <2>1 DEF vars, rows, history
    <3>2. \A i \in Indexers : Of(i)' = Of(i)
      BY <3>1 DEF Of
    <3>3. QED
      BY <1>2, <3>1, <3>2 DEF ProfileInv, ReadsLatest, ProfileRemembered
  <2>2. CASE Next
    <3>1. PICK i \in Indexers : \E t : Works(i, t)
      BY <1>2, <2>2, StepTaken DEF MemoryInv
    <3>2. QED
      BY <1>2, <3>1, ProfileStep DEF MemoryInv
  <2>3. QED
    BY <1>2, <2>1, <2>2
<1>3. ProfileInv => ProfileRemembered
  BY DEF ProfileInv
<1>4. QED
  BY <1>1, <1>2, <1>3, MemoryHolds, PTL DEF Spec
==============================================================================

----------------------------- MODULE JobAdmission -----------------------------
(***************************************************************************)
(* The admission of jobs and of book runs: JobService.create               *)
(* (services/jobs.py) and BookRunService.create (services/book_runs.py).   *)
(*                                                                         *)
(* A client looks its idempotency key up in one transaction and creates    *)
(* the row in another, whose statements see what has been committed        *)
(* before each of them: the number of active jobs, the active job of the   *)
(* chapter, and at last the insertion, which the unique indexes may        *)
(* refuse.  A third transaction then looks for the winner.  Meanwhile      *)
(* workers end jobs and operators revive dead letters.                     *)
(***************************************************************************)
EXTENDS Naturals, Sequences, FiniteSets

CONSTANTS
    Clients,
    Requests,      \* what may be asked, see the type
    HardLimit,     \* queue_pending_hard_limit
    ProjectLimit,  \* project_pending_limit
    MaxRows,       \* bound on the jobs created
    MaxRevivals    \* bound on dead letters revived

ASSUME JobAdmissionAssumption ==
    /\ {HardLimit, ProjectLimit} \subseteq Nat \ {0}
    /\ {MaxRows, MaxRevivals} \subseteq Nat
    /\ \A r \in Requests :
          /\ r.kind \in {"job", "book"}
          /\ r.chapter \in Nat  \* 0 for a job without chapter
          /\ r.external \in BOOLEAN  \* the client sent an idempotency key
          /\ r.kind = "book" => r.chapter = 0
    \* the key is a hash of everything that the request says
    /\ \A r, q \in Requests : r.key = q.key => r = q
    /\ IsFiniteSet(Clients)

VARIABLES
    rows,      \* jobs created, those of books with their run
    client,    \* the open request of every client, or what it was told
    revivals

vars == <<rows, client, revivals>>

Idle == [pc |-> "idle", request |-> [kind |-> "none"], job |-> 0]

Init ==
    /\ rows = <<>>
    /\ client = [c \in Clients |-> Idle]
    /\ revivals = 0

-----------------------------------------------------------------------------

Jobs == DOMAIN rows
\* ACTIVE_JOB_STATUSES and the statuses of the partial indexes are the same.
Active == {j \in Jobs : rows[j].status = "active"}
ActiveOf(project) == {j \in Active : rows[j].project = project}
ActiveOn(chapter) == {j \in Active : rows[j].chapter = chapter /\ chapter # 0}
RunsOf(project) == {j \in Jobs : rows[j].run = "active" /\ rows[j].project = project}
WithKey(key) == {j \in Jobs : rows[j].key = key}

Goto(c, pc) == client' = [client EXCEPT ![c].pc = pc]
Refuse(c) == client' = [client EXCEPT ![c] = Idle]
Answer(c, j) == client' = [client EXCEPT ![c].pc = "answered", ![c].job = j]

Ask(c) ==
    /\ client[c].pc \in {"idle", "answered"} /\ Len(rows) < MaxRows
    /\ \E r \in Requests :
          client' = [client EXCEPT ![c] = [Idle EXCEPT !.pc = "lookup", !.request = r]]
    /\ UNCHANGED <<rows, revivals>>

Lookup(c) ==
    LET r == client[c].request IN
    /\ client[c].pc = "lookup"
    /\ \/ \E j \in WithKey(r.key) : Answer(c, j)
       \/ /\ WithKey(r.key) = {}
          /\ Goto(c, IF r.kind = "job" THEN "count" ELSE "check_run")
         
    /\ UNCHANGED <<rows, revivals>>

\* Mutant: the queue is full when the limit is passed.
RoomPastLimit(project) ==
    Cardinality(Active) <= HardLimit /\ Cardinality(ActiveOf(project)) <= ProjectLimit
Room(project) ==
    Cardinality(Active) < HardLimit /\ Cardinality(ActiveOf(project)) < ProjectLimit

CheckBackpressure(c) ==
    /\ client[c].pc = "count"
    /\ IF Room(client[c].request.project)
       THEN Goto(c, "check_chapter")
       ELSE Refuse(c)
    /\ UNCHANGED <<rows, revivals>>

CheckChapter(c) ==
    /\ client[c].pc = "check_chapter"
    /\ IF ActiveOn(client[c].request.chapter) = {}
       THEN Goto(c, "insert")
       ELSE Refuse(c)
    /\ UNCHANGED <<rows, revivals>>

\* A client with a key of its own is given the run that is active.
CheckRun(c) ==
    LET r == client[c].request IN
    /\ client[c].pc = "check_run"
    /\ \/ RunsOf(r.project) = {} /\ Goto(c, "insert")
       \/ RunsOf(r.project) # {} /\ ~r.external /\ Refuse(c)
       \/ r.external /\ \E j \in RunsOf(r.project) : Answer(c, j)
    /\ UNCHANGED <<rows, revivals>>

\* The unique keys and the partial unique indexes of jobs and book_runs.
Conflict(r) ==
    \/ WithKey(r.key) # {}
    \/ r.kind = "job" /\ ActiveOn(r.chapter) # {}
    \/ r.kind = "book" /\ RunsOf(r.project) # {}

NewRow(r) ==
    [key |-> r.key, project |-> r.project, chapter |-> r.chapter, status |-> "active",
     run |-> IF r.kind = "book" THEN "active" ELSE "none", revived |-> FALSE]

Insert(c) ==
    LET r == client[c].request IN
    /\ client[c].pc = "insert"
    /\ IF Conflict(r)
       THEN Goto(c, "conflict") /\ UNCHANGED rows
       ELSE /\ Len(rows) < MaxRows
            /\ rows' = Append(rows, NewRow(r))
            /\ Answer(c, Len(rows) + 1)
    /\ UNCHANGED revivals

\* Mutant: the conflict is settled with whatever is active.
WinnersInTheWay(r) == ActiveOn(r.chapter) \cup RunsOf(r.project) \cup WithKey(r.key)
Winners(r) == WithKey(r.key)

SettleConflict(c) ==
    LET r == client[c].request IN
    /\ client[c].pc = "conflict"
    /\ \/ \E j \in Winners(r) : Answer(c, j)
       \/ Winners(r) = {} /\ Refuse(c)
    /\ UNCHANGED <<rows, revivals>>

-----------------------------------------------------------------------------

\* A worker, a dispatcher or a request ends the job.
EndJob(j) ==
    /\ j \in Active
    /\ \E status \in {"ended", "dead_lettered"} :
          rows' = [rows EXCEPT ![j].status = status]
    /\ UNCHANGED <<client, revivals>>

\* The handler or a request ends the run, before or after its job.
EndRun(j) ==
    /\ j \in Jobs /\ rows[j].run = "active"
    /\ rows' = [rows EXCEPT ![j].run = "ended"]
    /\ UNCHANGED <<client, revivals>>

\* There is no count here; the index on the chapter makes the retry fail.
RetryDeadLetter(j) ==
    /\ j \in Jobs /\ rows[j].status = "dead_lettered"
    /\ revivals < MaxRevivals /\ revivals' = revivals + 1
    /\ IF ActiveOn(rows[j].chapter) = {}
       THEN rows' = [rows EXCEPT ![j].status = "active", ![j].revived = TRUE]
       ELSE UNCHANGED rows
    /\ UNCHANGED client

Create(c) ==
    \/ Lookup(c) \/ CheckBackpressure(c) \/ CheckChapter(c) \/ CheckRun(c)
    \/ Insert(c) \/ SettleConflict(c)

Next ==
    \/ \E c \in Clients : Ask(c) \/ Create(c)
    \/ \E j \in Jobs : EndJob(j) \/ EndRun(j) \/ RetryDeadLetter(j)

Spec == Init /\ [][Next]_vars

-----------------------------------------------------------------------------
(***************************************************************************)
(* Properties.                                                             *)
(***************************************************************************)

TypeOK ==
    /\ \A j \in Jobs :
          /\ rows[j].status \in {"active", "ended", "dead_lettered"}
          /\ rows[j].run \in {"none", "active", "ended"}
          /\ rows[j].chapter \in Nat
    /\ \A c \in Clients :
          /\ client[c].pc \in {"idle", "lookup", "count", "check_chapter", "check_run",
                               "insert", "conflict", "answered"}
          /\ client[c] # Idle => client[c].request \in Requests
    /\ \A c \in Clients : client[c].pc = "answered" => client[c].job \in Jobs
    /\ revivals \in 0..MaxRevivals

\* Check and insertion are two statements, yet two creations that race for a
\* chapter, or two that race for the one active run of a project, never both
\* succeed; no revived dead letter joins them.
OneActive ==
    \A i, j \in Jobs :
       /\ i \in ActiveOn(rows[j].chapter) /\ j \in Active => i = j
       /\ rows[i].run = "active" /\ j \in RunsOf(rows[i].project) => i = j

Counted == {j \in Active : rows[j].run = "none" /\ ~rows[j].revived}

\* Creations that race pass the limits by no more than their number.  The jobs
\* of book runs and revived dead letters are not counted when they are
\* admitted.
AdmissionBounded ==
    /\ Cardinality(Counted) <= HardLimit - 1 + Cardinality(Clients)
    /\ \A j \in Jobs :
          Cardinality(Counted \cap ActiveOf(rows[j].project))
             <= ProjectLimit - 1 + Cardinality(Clients)

\* Every client that asks with one key is answered with one job, and with the
\* job of this key.  A book asked for with an external key may be answered
\* with the run that is active.
AnswersAgree ==
    \A c \in Clients :
       LET r == client[c].request
           j == client[c].job
       IN  client[c].pc = "answered" =>
             /\ WithKey(rows[j].key) = {j}
             /\ rows[j].project = r.project
             /\ rows[j].key = r.key \/ (r.kind = "book" /\ r.external)

\* A client is refused because of a chapter only when another request's job
\* is in the way.  The code does not keep this: TLC refutes it on the instance
\* of JobAdmission.cfg.
RefusedForAnother ==
    [][\A c \in Clients :
         client[c].pc = "check_chapter" /\ client'[c].pc = "idle" =>
            \E j \in ActiveOn(client[c].request.chapter) :
               rows[j].key # client[c].request.key]_vars
==============================================================================

------------------------------ MODULE JobEvents ------------------------------
(***************************************************************************)
(* The events of one job and the streams that replay and follow them:      *)
(* JobEventRepository (repositories/jobs.py), the transactions that call   *)
(* JobService.record_event and _event, and the SSE endpoints of a job      *)
(* (api/job_routes.py) and of a book run (api/book_routes.py).             *)
(*                                                                         *)
(* A writer is any transaction that appends an event: an API request, the  *)
(* dispatcher, a worker's progress or outcome.  It updates the job row     *)
(* (event_sequence + 1), which locks it, inserts the event, which draws an *)
(* id from a generator shared with all jobs, and commits or rolls back.    *)
(* A reader is a client of a stream with the server's generator for it.    *)
(* The notification through Redis is a hint that may be lost.              *)
(***************************************************************************)
EXTENDS Naturals, Sequences, FiniteSets, SequencesExt

CONSTANTS
    Writers, Readers,
    MaxConnections,  \* size of sse_semaphore
    Batch,           \* limit of list_after
    MaxEvents,       \* bound on the events written
    MaxGaps,         \* bound on ids drawn by other jobs and by rollbacks
    MaxDisconnects   \* bound on lost connections

ASSUME JobEventsAssumption ==
    /\ MaxConnections \in Nat \ {0} /\ Batch \in Nat \ {0}
    /\ MaxEvents \in Nat /\ MaxGaps \in Nat /\ MaxDisconnects \in Nat
    /\ IsFiniteSet(Readers)

VARIABLES
    terminal,   \* the job's committed status is one of TERMINAL_JOB_STATUSES
    sequence,   \* jobs.event_sequence, committed
    history,    \* the committed job_events rows of the job, in order of id
    nextId,     \* the id generator
    writer,     \* the open transaction of every writer
    slots,      \* free places of the semaphore
    reader,     \* the generator of every reader's stream
    received,   \* ids the client has received
    gaps, disconnects

job == <<terminal, sequence, history, nextId, writer>>
streams == <<slots, reader, received>>
vars == <<job, streams, gaps, disconnects>>

Ids == 1..(MaxEvents + MaxGaps)
Closed == [pc |-> "closed", cursor |-> 0, batch |-> <<>>, emitted |-> FALSE,
           woken |-> FALSE, complete |-> TRUE]
NoTransaction == [pc |-> "idle", seq |-> 0, id |-> 0, final |-> FALSE]

Init ==
    /\ terminal = FALSE /\ sequence = 0 /\ history = <<>> /\ nextId = 1
    /\ writer = [w \in Writers |-> NoTransaction]
    /\ slots = MaxConnections
    /\ reader = [r \in Readers |-> Closed]
    /\ received = [r \in Readers |-> <<>>]
    /\ gaps = 0 /\ disconnects = 0

-----------------------------------------------------------------------------
(***************************************************************************)
(* Writers.                                                                *)
(***************************************************************************)

Open == {w \in Writers : writer[w].pc # "idle"}

\* UPDATE jobs ... RETURNING waits for the transaction that holds the row.
RowFree == Open = {}

\* A terminal job may still receive a late report, which leaves its status,
\* and is revived by the retry of a dead letter.
Begin(w) ==
    /\ writer[w].pc = "idle" /\ RowFree
    /\ Len(history) < MaxEvents
    /\ \E final \in BOOLEAN :
          writer' = [writer EXCEPT ![w] = [pc |-> "updated", seq |-> sequence + 1,
                                           id |-> 0, final |-> final]]
    /\ UNCHANGED <<terminal, sequence, history, nextId, streams, gaps, disconnects>>

Insert(w) ==
    /\ writer[w].pc = "updated"
    /\ writer' = [writer EXCEPT ![w].pc = "inserted", ![w].id = nextId]
    /\ nextId' = nextId + 1
    /\ UNCHANGED <<terminal, sequence, history, streams, gaps, disconnects>>

\* The rows are read in the order of their ids, whatever the order of the
\* commits that made them visible.
UpTo(id) == {i \in DOMAIN history : history[i].id <= id}
InOrder(row) == InsertAt(history, Cardinality(UpTo(row.id)) + 1, row)

\* The commit makes status, sequence and event visible; the notification
\* reaches the readers that have subscribed, unless Redis loses it.
Commit(w) ==
    LET t == writer[w] IN
    /\ t.pc = "inserted"
    /\ terminal' = t.final
    /\ sequence' = t.seq
    /\ history' = InOrder([id |-> t.id, seq |-> t.seq])
    /\ writer' = [writer EXCEPT ![w] = NoTransaction]
    /\ \/ UNCHANGED reader
       \/ reader' = [r \in Readers |->
                       [reader[r] EXCEPT !.woken = @ \/ reader[r].pc = "waiting"]]
    /\ UNCHANGED <<nextId, slots, received, gaps, disconnects>>

\* Mutant: the counter of the job keeps the value of the failed transaction.
RollbackKeepsSequence(w) ==
    /\ writer[w].pc # "idle" /\ gaps < MaxGaps
    /\ gaps' = gaps + 1
    /\ sequence' = writer[w].seq
    /\ writer' = [writer EXCEPT ![w] = NoTransaction]
    /\ UNCHANGED <<terminal, history, nextId, streams, disconnects>>

Rollback(w) ==
    /\ writer[w].pc # "idle" /\ gaps < MaxGaps
    /\ gaps' = gaps + 1
    /\ writer' = [writer EXCEPT ![w] = NoTransaction]
    /\ UNCHANGED <<terminal, sequence, history, nextId, streams, disconnects>>

OtherJob ==
    /\ gaps < MaxGaps /\ gaps' = gaps + 1
    /\ nextId' = nextId + 1
    /\ UNCHANGED <<terminal, sequence, history, writer, streams, disconnects>>

-----------------------------------------------------------------------------
(***************************************************************************)
(* Streams.                                                                *)
(***************************************************************************)

\* Mutant: the header Last-Event-ID is ignored.
NothingReceived(r) == 0
LastReceived(r) == IF received[r] = <<>> THEN 0 ELSE Last(received[r])

\* The client sends the id of its last event; a full server answers 429.
Connect(r) ==
    /\ reader[r].pc = "closed" /\ slots > 0
    /\ slots' = slots - 1
    /\ reader' = [reader EXCEPT ![r] = [Closed EXCEPT !.pc = "read",
                                                      !.cursor = LastReceived(r)]]
    /\ UNCHANGED <<job, received, gaps, disconnects>>

ListAfter(cursor) ==
    LET read == Cardinality(UpTo(cursor))
        last == IF Len(history) > read + Batch THEN read + Batch ELSE Len(history)
    IN  SubSeq(history, read + 1, last)

Read(r) ==
    /\ reader[r].pc = "read"
    /\ LET rows == ListAfter(reader[r].cursor) IN
       reader' = [reader EXCEPT ![r].pc = "emit", ![r].batch = rows,
                                ![r].emitted = rows # <<>>]
    /\ UNCHANGED <<job, slots, received, gaps, disconnects>>

Emit(r) ==
    /\ reader[r].pc = "emit" /\ reader[r].batch # <<>>
    /\ LET e == Head(reader[r].batch) IN
       /\ received' = [received EXCEPT ![r] = Append(@, e.id)]
       /\ reader' = [reader EXCEPT ![r].batch = Tail(@), ![r].cursor = e.id]
    /\ UNCHANGED <<job, slots, gaps, disconnects>>

Close(r, complete) ==
    /\ reader' = [reader EXCEPT ![r] = [Closed EXCEPT !.complete = complete]]
    /\ slots' = slots + 1

\* The status is read in a transaction of its own, after the events.
CheckStatus(r) ==
    /\ reader[r].pc = "emit" /\ reader[r].batch = <<>>
    /\ IF terminal THEN Close(r, Len(received[r]) = Len(history))
       ELSE /\ reader' = [reader EXCEPT ![r].pc = IF reader[r].emitted THEN "read"
                                                  ELSE "waiting"]
            /\ UNCHANGED slots
    /\ UNCHANGED <<job, received, gaps, disconnects>>

\* Mutant: only the notification ends the wait.
WaitsForNotice(r) == reader[r].woken
\* wait_once returns at a notification or after sse_heartbeat_seconds.
WaitEnds(r) == TRUE

Wait(r) ==
    /\ reader[r].pc = "waiting" /\ WaitEnds(r)
    /\ reader' = [reader EXCEPT ![r].pc = "read", ![r].woken = FALSE]
    /\ UNCHANGED <<job, slots, received, gaps, disconnects>>

Disconnect(r) ==
    /\ reader[r].pc # "closed" /\ disconnects < MaxDisconnects
    /\ disconnects' = disconnects + 1
    /\ Close(r, TRUE)
    /\ UNCHANGED <<job, received, gaps>>

-----------------------------------------------------------------------------

Write == (\E w \in Writers : Begin(w) \/ Insert(w) \/ Commit(w) \/ Rollback(w)) \/ OtherJob
Serve(r) == Read(r) \/ Emit(r) \/ CheckStatus(r) \/ Wait(r)

Next == Write \/ \E r \in Readers : Connect(r) \/ Serve(r) \/ Disconnect(r)

Spec == Init /\ [][Next]_vars

\* The server goes on with a stream; a client connects again and again, as the
\* browser's EventSource does, and is let in whenever a place is free again
\* and again.
Fairness == \A r \in Readers : WF_vars(Serve(r)) /\ SF_vars(Connect(r))

FairSpec == Spec /\ Fairness

-----------------------------------------------------------------------------
(***************************************************************************)
(* Properties.                                                             *)
(***************************************************************************)

TypeOK ==
    /\ terminal \in BOOLEAN /\ sequence \in 0..MaxEvents
    /\ history \in Seq([id : Ids, seq : 1..MaxEvents])
    /\ nextId \in Nat \ {0} /\ slots \in 0..MaxConnections
    /\ \A w \in Writers : writer[w].pc \in {"idle", "updated", "inserted"}
    /\ \A r \in Readers : reader[r].pc \in {"closed", "read", "emit", "waiting"}

\* The rows of a job are numbered without gap in the order of their ids,
\* although ids are shared with other jobs and transactions roll back.
HistoryOrdered ==
    /\ \A i \in DOMAIN history : history[i].seq = i
    /\ sequence = Len(history)

\* What a client has received, over any number of connections, is a prefix of
\* the history: nothing is skipped, repeated or reordered.  An event that
\* became visible after a later id was read would be skipped for ever.
ReceivedIsPrefix ==
    \A r \in Readers :
       /\ Len(received[r]) <= Len(history)
       /\ \A i \in DOMAIN received[r] : received[r][i] = history[i].id

\* Every way a stream ends gives its place back.
SlotsBacked ==
    slots + Cardinality({r \in Readers : reader[r].pc # "closed"}) = MaxConnections

\* A client that is let in again and again receives every event, whatever
\* notifications are lost and although a stream may end before the last one.
FollowerCatchesUp ==
    \A r \in Readers, n \in 1..MaxEvents :
       []<>(reader[r].pc # "closed") =>
          (Len(history) >= n ~> Len(received[r]) >= n)

\* A stream that the server ends has delivered every event.  The code does not
\* keep this: TLC refutes it on the instance of JobEvents.cfg.
CleanEndIsComplete == \A r \in Readers : reader[r].complete
==============================================================================

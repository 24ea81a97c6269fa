------------------------------ MODULE JobQueue ------------------------------
(***************************************************************************)
(* The asynchronous job core of StoryForge: the Job table, the             *)
(* transactional outbox, the dispatchers that publish it, the Redis queue  *)
(* and the executors that lease and run jobs (services/jobs.py,            *)
(* jobs/transitions.py, jobs/dispatcher.py, jobs/worker.py,                *)
(* repositories/jobs.py).  One action is one database transaction, or one  *)
(* step between two transactions that another process can observe.         *)
(*                                                                         *)
(* This module models jobs that have no linked WorkflowRun (plan, chapter, *)
(* evaluation, indexing and warm-up jobs): the handler's own work is       *)
(* external to it and only its outcome is chosen.                          *)
(***************************************************************************)
EXTENDS Naturals, Sequences, FiniteSets

CONSTANTS
    Jobs,              \* primary keys of the jobs table
    Slots,             \* executor threads of all worker processes
    Procs,             \* worker ids: hostname-pid, one per worker PROCESS
    ProcOf,            \* the process of each thread; threads may share one
    NoProc,            \* worker_id IS NULL
    Dispatchers,       \* outbox rows a dispatcher may hold in flight
    JobMaxAttempts,    \* settings.job_max_attempts
    RegistryAttempts,  \* JobDefinition.max_attempts
    Requests,          \* the operator requests of the instance
    MaxAsks,           \* bound on operator requests
    MaxFaults,         \* bound on crashes, lost messages, refused publishes
    MaxMessages        \* bound on copies of one job's id in Redis

ASSUME JobQueueAssumption ==
    /\ ProcOf \in [Slots -> Procs]
    /\ NoProc \notin Procs
    /\ JobMaxAttempts \in Nat \ {0}
    /\ RegistryAttempts \in Nat \ {0}
    /\ Requests \subseteq {"cancel", "pause", "resume", "retry", "discard"}
    /\ MaxAsks \in Nat /\ MaxFaults \in Nat /\ MaxMessages \in Nat
    /\ Jobs # {}

VARIABLES
    job,       \* the rows of the jobs table
    outbox,    \* per job, its outbox_messages rows in order of their ids
    queue,     \* copies of each job id waiting in Redis
    exec,      \* what each executor thread is doing
    disp,      \* the outbox row each dispatcher has in hand
    asks,      \* operator requests made so far
    faults     \* crashes and losses so far

vars == <<job, outbox, queue, exec, disp, asks, faults>>

-----------------------------------------------------------------------------
(***************************************************************************)
(* The state machine of jobs/transitions.py.                               *)
(***************************************************************************)

\* "absent": the row does not exist yet.
Statuses == {"absent", "outbox_pending", "queued", "leased", "running",
             "pause_requested", "paused", "cancel_requested", "cancelled",
             "retry_scheduled", "succeeded", "failed", "dead_lettered"}

TerminalStatuses == {"succeeded", "failed", "cancelled", "dead_lettered"}
WaitingStatuses == {"outbox_pending", "queued", "retry_scheduled"}

\* The legal targets of each status (the table _ALLOWED).
Allowed(status) ==
    CASE status = "outbox_pending" ->
            {"queued", "pause_requested", "cancel_requested", "failed"}
      [] status = "queued" ->
            {"leased", "pause_requested", "cancel_requested", "retry_scheduled"}
      [] status = "leased" ->
            {"running", "queued", "retry_scheduled", "cancel_requested"}
      [] status = "running" ->
            {"succeeded", "failed", "retry_scheduled", "pause_requested",
             "cancel_requested"}
      [] status = "pause_requested" -> {"paused", "cancel_requested", "failed"}
      [] status = "paused" -> {"outbox_pending", "cancel_requested"}
      [] status = "cancel_requested" -> {"cancelled", "failed"}
      [] status = "retry_scheduled" ->
            {"outbox_pending", "queued", "cancel_requested", "dead_lettered"}
      [] status = "failed" -> {"retry_scheduled", "dead_lettered"}
      [] status = "dead_lettered" -> {"outbox_pending"}
      [] OTHER -> {}

\* transition_job returns when the target is the current status and raises
\* InvalidStateError when the target is not allowed.
CanGo(status, target) == target = status \/ target \in Allowed(status)

\* The row after a legal transition_job: every terminal target drops the lease.
Transition(row, target) ==
    IF target \in TerminalStatuses /\ target # row.status
    THEN [row EXCEPT !.status = target, !.worker = NoProc, !.lease = "none"]
    ELSE [row EXCEPT !.status = target]

\* Failed and then dead-lettered, in one transaction.
DeadLetter(row) == Transition(Transition(row, "failed"), "dead_lettered")

-----------------------------------------------------------------------------
(***************************************************************************)
(* Rows.  A deduplication key job:<id>:<reason> is the pair of the reason's *)
(* word and its number.  The lease is "live" until its lease_expires_at    *)
(* passes.  due stands for available_at <= now.                            *)
(***************************************************************************)

RowStatuses == {"pending", "claimed", "published", "failed"}
Reasons == {"create", "resume", "dlq-retry", "attempt"}

JobRows == [status : Statuses, worker : Procs \cup {NoProc},
            lease : {"none", "live", "expired"}, attempt : Nat,
            maxAttempts : Nat, started : BOOLEAN, due : BOOLEAN,
            discarded : BOOLEAN]

OutboxRows == [key : Reasons \X Nat, status : RowStatuses,
               attempt : 0..JobMaxAttempts]

\* max_attempts of a new job.
InitialMaxAttempts ==
    IF RegistryAttempts < JobMaxAttempts THEN RegistryAttempts ELSE JobMaxAttempts

AbsentJob == [status |-> "absent", worker |-> NoProc, lease |-> "none",
              attempt |-> 0, maxAttempts |-> InitialMaxAttempts,
              started |-> FALSE, due |-> TRUE, discarded |-> FALSE]

NewRow(key) == [key |-> key, status |-> "pending", attempt |-> 0]

HasKey(rows, key) == \E i \in DOMAIN rows : rows[i].key = key

\* JobService._create_outbox: an existing row with the same key is returned
\* as it is, whatever its status.
CreateOutbox(rows, key) ==
    IF HasKey(rows, key) THEN rows ELSE Append(rows, NewRow(key))

\* Mutant: the retry reuses the row of the first delivery.
RetryReusesCreate(rows, row) == CreateOutbox(rows, <<"create", 0>>)

\* JobExecutor._retry_outbox: inserts without a lookup.
RetryOutbox(rows, row) == Append(rows, NewRow(<<"attempt", row.attempt + 1>>))

\* Mutant: one attempt too many.
ExhaustedLate(row) == row.attempt > row.maxAttempts

\* max_attempts is used up.
Exhausted(row) == row.attempt >= row.maxAttempts

\* The row after it is rescheduled: ownership dropped, available_at in the future.
Rescheduled(row) ==
    [Transition(row, "retry_scheduled") EXCEPT
        !.worker = NoProc, !.lease = "none", !.due = FALSE]

IdleSlot == [pc |-> "idle", job |-> CHOOSE j \in Jobs : TRUE, attempt |-> 0]
IdleDispatcher == [pc |-> "idle", job |-> CHOOSE j \in Jobs : TRUE, row |-> 1]

SlotPcs == {"idle", "running", "cancel", "pause", "fail"}
DispatcherPcs == {"idle", "claimed", "sent"}

Init ==
    /\ job = [j \in Jobs |-> AbsentJob]
    /\ outbox = [j \in Jobs |-> <<>>]
    /\ queue = [j \in Jobs |-> 0]
    /\ exec = [s \in Slots |-> IdleSlot]
    /\ disp = [d \in Dispatchers |-> IdleDispatcher]
    /\ asks = 0
    /\ faults = 0

\* Flushing one changed row of the jobs table, one new or changed outbox row.
SetJob(j, row) == job' = [job EXCEPT ![j] = row]
SetRows(j, rows) == outbox' = [outbox EXCEPT ![j] = rows]
SetRow(j, i, row) == SetRows(j, [outbox[j] EXCEPT ![i] = row])

-----------------------------------------------------------------------------
(***************************************************************************)
(* Admission and operator requests: JobService.                            *)
(***************************************************************************)

\* create: the job and its first outbox row in one transaction.
Create(j) ==
    /\ job[j].status = "absent"
    /\ SetJob(j, [job[j] EXCEPT !.status = "outbox_pending"])
    /\ SetRows(j, CreateOutbox(outbox[j], <<"create", 0>>))
    /\ UNCHANGED <<queue, exec, disp, asks, faults>>

Ask(request) ==
    /\ request \in Requests
    /\ asks < MaxAsks
    /\ asks' = asks + 1
    /\ UNCHANGED <<queue, exec, disp, faults>>

\* request_cancel: a job that never started, or is paused, is cancelled at once.
RequestCancel(j) ==
    /\ Ask("cancel")
    /\ job[j].status # "cancel_requested"
    /\ CanGo(job[j].status, "cancel_requested")
    /\ LET asked == Transition(job[j], "cancel_requested") IN
       SetJob(j, IF ~job[j].started \/ job[j].status = "paused"
                 THEN Transition(asked, "cancelled") ELSE asked)
    /\ UNCHANGED outbox

\* request_pause: a job that never started is paused at once.
RequestPause(j) ==
    /\ Ask("pause")
    /\ job[j].status \in {"outbox_pending", "queued", "leased", "running"}
    /\ CanGo(job[j].status, "pause_requested")
    /\ LET asked == Transition(job[j], "pause_requested") IN
       SetJob(j, IF ~job[j].started THEN Transition(asked, "paused") ELSE asked)
    /\ UNCHANGED outbox

\* resume: back to outbox_pending with the outbox key resume-<attempt + 1>.
Resume(j) ==
    /\ Ask("resume")
    /\ job[j].status = "paused"
    /\ SetJob(j, Transition(job[j], "outbox_pending"))
    /\ SetRows(j, CreateOutbox(outbox[j], <<"resume", job[j].attempt + 1>>))

\* retry_dead_letter: max_attempts is raised, the job is available now.
RetryDeadLetter(j) ==
    /\ Ask("retry")
    /\ job[j].status = "dead_lettered"
    /\ SetJob(j, [Transition(job[j], "outbox_pending") EXCEPT
                     !.maxAttempts = job[j].attempt + RegistryAttempts,
                     !.due = TRUE])
    /\ SetRows(j, CreateOutbox(outbox[j], <<"dlq-retry", job[j].attempt + 1>>))

\* discard_dead_letter only marks the result.
DiscardDeadLetter(j) ==
    /\ Ask("discard")
    /\ job[j].status = "dead_lettered"
    /\ SetJob(j, [job[j] EXCEPT !.discarded = TRUE])
    /\ UNCHANGED outbox

-----------------------------------------------------------------------------
(***************************************************************************)
(* The outbox dispatcher.  It takes rows in the order of their ids and     *)
(* publishes them one by one; a batch is modelled as its rows in turn.     *)
(***************************************************************************)

\* Something in the environment goes wrong.
Fault ==
    /\ faults < MaxFaults
    /\ faults' = faults + 1

DispatchStep == UNCHANGED <<exec, asks, faults>>

\* available_at <= now for an outbox row.  The retry row of the next attempt
\* carries the available_at of its job, every other row is due.
RowDue(j, row) == row.key = <<"attempt", job[j].attempt + 1>> => job[j].due

\* claim_batch: a pending row, or a claimed one whose claim is older than the
\* lease time (any claimed row: a dispatcher may be arbitrarily slow).
ClaimRow(d, j, i) ==
    /\ disp[d].pc = "idle"
    /\ i \in DOMAIN outbox[j]
    /\ outbox[j][i].status \in {"pending", "claimed"}
    /\ RowDue(j, outbox[j][i])
    /\ \A k \in 1..(i - 1) :
          outbox[j][k].status = "pending" => ~RowDue(j, outbox[j][k])
    /\ SetRow(j, i, [outbox[j][i] EXCEPT
                        !.status = "claimed",
                        !.attempt = IF @ < JobMaxAttempts THEN @ + 1 ELSE @])
    /\ disp' = [disp EXCEPT ![d] = [pc |-> "claimed", job |-> j, row |-> i]]
    /\ UNCHANGED <<job, queue>> /\ DispatchStep

\* broker.enqueue succeeds: the id is in Redis before anything is recorded.
Publish(d) ==
    /\ disp[d].pc = "claimed"
    /\ queue[disp[d].job] < MaxMessages
    /\ queue' = [queue EXCEPT ![disp[d].job] = @ + 1]
    /\ disp' = [disp EXCEPT ![d].pc = "sent"]
    /\ UNCHANGED <<job, outbox>> /\ DispatchStep

\* Mutant: the recorded delivery overwrites whatever happened meanwhile.
QueuedAlways(row) == [row EXCEPT !.status = "queued"]

\* The row after a delivery was recorded: a job that moved on keeps its status.
Queued(row) ==
    IF row.status \in {"outbox_pending", "retry_scheduled"}
    THEN [row EXCEPT !.status = "queued"] ELSE row

\* _record_published: nothing if the row is already published.
RecordPublished(d) ==
    LET j == disp[d].job
        i == disp[d].row IN
    /\ disp[d].pc = "sent"
    /\ SetRow(j, i, [outbox[j][i] EXCEPT !.status = "published"])
    /\ SetJob(j, IF outbox[j][i].status # "published"
                 THEN Queued(job[j]) ELSE job[j])
    /\ disp' = [disp EXCEPT ![d] = IdleDispatcher]
    /\ UNCHANGED queue /\ DispatchStep

\* broker.enqueue raises, and _record_failure: back to pending, or failed and
\* the job dead-lettered when the row has used its attempts.
RecordFailure(d) ==
    LET j == disp[d].job
        i == disp[d].row
        exhausted == outbox[j][i].attempt >= JobMaxAttempts IN
    /\ Fault
    /\ disp[d].pc = "claimed"
    /\ SetRow(j, i, [outbox[j][i] EXCEPT !.status =
                        IF exhausted THEN "failed" ELSE "pending"])
    /\ SetJob(j, IF /\ exhausted
                    /\ job[j].status \in {"outbox_pending", "retry_scheduled"}
                 THEN DeadLetter(job[j]) ELSE job[j])
    /\ disp' = [disp EXCEPT ![d] = IdleDispatcher]
    /\ UNCHANGED <<queue, exec, asks>>

\* recover_stranded: a job queued for long whose latest outbox row is
\* published gets that row reopened.
RecoverStranded(j) ==
    LET last == Len(outbox[j]) IN
    /\ job[j].status = "queued"
    /\ last > 0
    /\ outbox[j][last].status = "published"
    /\ SetJob(j, [Transition(job[j], "retry_scheduled") EXCEPT !.due = TRUE])
    /\ SetRow(j, last, [outbox[j][last] EXCEPT !.status = "pending"])
    /\ UNCHANGED <<queue, exec, disp, asks, faults>>

-----------------------------------------------------------------------------
(***************************************************************************)
(* The executor: JobExecutor.execute run by a Dramatiq thread.             *)
(***************************************************************************)

ExecStep == UNCHANGED <<disp, asks, faults>>

Claimable(row) ==
    /\ row.status \in {"outbox_pending", "queued", "retry_scheduled"}
    /\ row.due

\* Mutant: a claim that is not counted.
StartedUncounted(row, worker) ==
    [row EXCEPT !.status = "running", !.worker = worker, !.lease = "live",
                !.started = TRUE]

\* The row after a claim: leased, then running, with one more attempt.
Started(row, worker) ==
    [row EXCEPT !.status = "running", !.worker = worker, !.lease = "live",
                !.attempt = @ + 1, !.started = TRUE]

\* _claim: leased and running in one transaction, attempt counted.
Claim(s, j) ==
    /\ exec[s].pc = "idle"
    /\ queue[j] > 0
    /\ Claimable(job[j])
    /\ queue' = [queue EXCEPT ![j] = @ - 1]
    /\ SetJob(j, Started(job[j], ProcOf[s]))
    /\ exec' = [exec EXCEPT ![s] = [pc |-> "running", job |-> j,
                                    attempt |-> job[j].attempt + 1]]
    /\ UNCHANGED outbox /\ ExecStep

\* _claim finds no claimable row: the message is acknowledged and forgotten.
DropMessage(s, j) ==
    /\ exec[s].pc = "idle"
    /\ queue[j] > 0
    /\ ~Claimable(job[j])
    /\ queue' = [queue EXCEPT ![j] = @ - 1]
    /\ UNCHANGED <<job, outbox, exec>> /\ ExecStep

\* Mutant: the status is checked, the owner is not.
OwnedByStatus(s) == job[exec[s].job].status = "running"

\* _owned_job
Owned(s) == job[exec[s].job].worker = ProcOf[s]

\* heartbeat: renews the lease of a job this worker id still runs.
Heartbeat(s) ==
    /\ exec[s].pc # "idle"
    /\ Owned(s)
    /\ job[exec[s].job].status \in {"leased", "running"}
    /\ SetJob(exec[s].job, [job[exec[s].job] EXCEPT !.lease = "live"])
    /\ UNCHANGED <<outbox, queue, exec>> /\ ExecStep

\* check_control at a safe boundary reads the status, whoever owns the job.
ObserveControl(s) ==
    /\ exec[s].pc = "running"
    /\ \/ /\ job[exec[s].job].status = "cancel_requested"
          /\ exec' = [exec EXCEPT ![s].pc = "cancel"]
       \/ /\ job[exec[s].job].status = "pause_requested"
          /\ exec' = [exec EXCEPT ![s].pc = "pause"]
    /\ UNCHANGED <<job, outbox, queue>> /\ ExecStep

\* The outcome transaction raised: nothing is written and execute ends.
Raise(s) ==
    /\ exec' = [exec EXCEPT ![s] = IdleSlot]
    /\ UNCHANGED <<job, outbox>>

Write(s, row) ==
    /\ SetJob(exec[s].job, row)
    /\ exec' = [exec EXCEPT ![s] = IdleSlot]

\* Where _succeed takes the job: a request that arrived meanwhile wins.
SuccessTarget(status) ==
    CASE status = "cancel_requested" -> "cancelled"
      [] status = "pause_requested" -> "paused"
      [] OTHER -> "succeeded"

\* The handler returned: _succeed.  What _succeed raises is caught by execute
\* and handed to _fail.
Succeed(s) ==
    LET row == job[exec[s].job]
        target == SuccessTarget(row.status) IN
    /\ exec[s].pc = "running"
    /\ IF Owned(s) /\ CanGo(row.status, target)
       THEN Write(s, Transition(row, target)) /\ UNCHANGED outbox
       ELSE exec' = [exec EXCEPT ![s].pc = "fail"] /\ UNCHANGED <<job, outbox>>
    /\ UNCHANGED queue /\ ExecStep

\* The handler stopped at the boundary: _cancel.
CancelAtBoundary(s) ==
    LET row == job[exec[s].job] IN
    /\ exec[s].pc = "cancel"
    /\ IF Owned(s) /\ CanGo(row.status, "cancel_requested")
       THEN Write(s, Transition(row, "cancelled")) /\ UNCHANGED outbox
       ELSE Raise(s)
    /\ UNCHANGED queue /\ ExecStep

\* The handler stopped at the boundary: _pause.
PauseAtBoundary(s) ==
    LET row == job[exec[s].job] IN
    /\ exec[s].pc = "pause"
    /\ IF Owned(s) /\ CanGo(row.status, "pause_requested")
       THEN /\ Write(s, [Transition(row, "paused") EXCEPT
                            !.worker = NoProc, !.lease = "none"])
            /\ UNCHANGED outbox
       ELSE Raise(s)
    /\ UNCHANGED queue /\ ExecStep

\* The handler raised an infrastructure error: _retry_or_dead_letter.
RetryOrDeadLetter(s) ==
    LET j == exec[s].job
        row == job[j] IN
    /\ exec[s].pc = "running"
    /\ \/ /\ Owned(s) /\ Exhausted(row)
          /\ CanGo(row.status, "failed")
          /\ Write(s, DeadLetter(row)) /\ UNCHANGED outbox
       \/ /\ Owned(s) /\ ~Exhausted(row)
          /\ CanGo(row.status, "retry_scheduled")
          /\ Write(s, Rescheduled(row))
          /\ SetRows(j, RetryOutbox(outbox[j], row))
       \/ /\ \/ ~Owned(s)
             \/ ~CanGo(row.status, IF Exhausted(row) THEN "failed" ELSE "retry_scheduled")
          /\ Raise(s)
    /\ UNCHANGED queue /\ ExecStep

\* The handler, or _succeed, raised any other error: _fail.
Fail(s) ==
    LET row == job[exec[s].job] IN
    /\ exec[s].pc \in {"running", "fail"}
    /\ IF Owned(s) /\ CanGo(row.status, "failed")
       THEN Write(s, Transition(row, "failed")) /\ UNCHANGED outbox
       ELSE Raise(s)
    /\ UNCHANGED queue /\ ExecStep

\* Mutant: running jobs are not selected.
ExpiredUnstarted(row) == row.status = "leased" /\ row.lease = "expired"

\* The selection of expired_leases.
ExpiredLease(row) == row.status \in {"leased", "running"} /\ row.lease = "expired"

\* recover_expired: an expired lease is rescheduled, or dead-lettered when the
\* attempts are used.
RecoverExpired(j) ==
    LET row == job[j] IN
    /\ ExpiredLease(row)
    /\ SetJob(j, IF Exhausted(row) THEN DeadLetter(row) ELSE Rescheduled(row))
    /\ SetRows(j, IF Exhausted(row) THEN outbox[j] ELSE RetryOutbox(outbox[j], row))
    /\ UNCHANGED <<queue, exec>> /\ ExecStep

-----------------------------------------------------------------------------
(***************************************************************************)
(* Time and faults.                                                        *)
(***************************************************************************)

\* lease_expires_at passes: no heartbeat was in time.
LeaseExpires(j) ==
    /\ job[j].lease = "live"
    /\ SetJob(j, [job[j] EXCEPT !.lease = "expired"])
    /\ UNCHANGED <<outbox, queue, exec>> /\ ExecStep

\* available_at passes.
BecomesDue(j) ==
    /\ ~job[j].due
    /\ SetJob(j, [job[j] EXCEPT !.due = TRUE])
    /\ UNCHANGED <<outbox, queue, exec>> /\ ExecStep

\* A thread dies without an outcome: the process is killed (the broker may
\* redeliver the unacknowledged message) or the time limit interrupts it.
ExecutorDies(s) ==
    /\ Fault
    /\ exec[s].pc # "idle"
    /\ exec' = [exec EXCEPT ![s] = IdleSlot]
    /\ \/ UNCHANGED queue
       \/ /\ queue[exec[s].job] < MaxMessages
          /\ queue' = [queue EXCEPT ![exec[s].job] = @ + 1]
    /\ UNCHANGED <<job, outbox, disp, asks>>

DispatcherDies(d) ==
    /\ Fault
    /\ disp[d].pc # "idle"
    /\ disp' = [disp EXCEPT ![d] = IdleDispatcher]
    /\ UNCHANGED <<job, outbox, queue, exec, asks>>

\* Redis is flushed or restarted empty.
RedisLoses ==
    /\ Fault
    /\ \E j \in Jobs : queue[j] > 0
    /\ queue' = [j \in Jobs |-> 0]
    /\ UNCHANGED <<job, outbox, exec, disp, asks>>

-----------------------------------------------------------------------------

Operator(j) ==
    \/ RequestCancel(j)
    \/ RequestPause(j)
    \/ Resume(j)
    \/ RetryDeadLetter(j)
    \/ DiscardDeadLetter(j)

Dispatch(d) ==
    \/ \E j \in Jobs : \E i \in DOMAIN outbox[j] : ClaimRow(d, j, i)
    \/ Publish(d)
    \/ RecordPublished(d)
    \/ RecordFailure(d)

Outcome(s) ==
    \/ Succeed(s)
    \/ CancelAtBoundary(s)
    \/ PauseAtBoundary(s)
    \/ RetryOrDeadLetter(s)
    \/ Fail(s)

Execute(s) ==
    \/ \E j \in Jobs : Claim(s, j) \/ DropMessage(s, j)
    \/ Heartbeat(s)
    \/ ObserveControl(s)
    \/ Outcome(s)

Maintain(j) ==
    \/ RecoverStranded(j)
    \/ RecoverExpired(j)
    \/ LeaseExpires(j)
    \/ BecomesDue(j)

Next ==
    \/ \E j \in Jobs : Create(j) \/ Operator(j) \/ Maintain(j)
    \/ \E d \in Dispatchers : Dispatch(d) \/ DispatcherDies(d)
    \/ \E s \in Slots : Execute(s) \/ ExecutorDies(s)
    \/ RedisLoses

Spec == Init /\ [][Next]_vars

-----------------------------------------------------------------------------
(***************************************************************************)
(* Fairness.  The dispatcher and recovery loops of runtime.py run for      *)
(* ever, worker threads take messages and handlers end (every actor has a  *)
(* time limit), time passes.  Nothing is assumed of operators, heartbeats  *)
(* and faults, nor of which outcome a handler has.                         *)
(***************************************************************************)

Fairness ==
    /\ \A j \in Jobs : /\ WF_vars(RecoverStranded(j)) /\ WF_vars(RecoverExpired(j))
                      /\ WF_vars(LeaseExpires(j)) /\ WF_vars(BecomesDue(j))
    /\ \A d \in Dispatchers : WF_vars(Dispatch(d))
    /\ \A s \in Slots :
          /\ \A j \in Jobs : WF_vars(Claim(s, j)) /\ WF_vars(DropMessage(s, j))
          /\ WF_vars(Outcome(s))

FairSpec == Spec /\ Fairness

-----------------------------------------------------------------------------
(***************************************************************************)
(* Properties.                                                             *)
(***************************************************************************)

\* Every variable keeps its type; the counters stay within their bounds.
TypeOK ==
    /\ job \in [Jobs -> JobRows]
    /\ outbox \in [Jobs -> Seq(OutboxRows)]
    /\ queue \in [Jobs -> 0..MaxMessages]
    /\ exec \in [Slots -> [pc : SlotPcs, job : Jobs, attempt : Nat]]
    /\ disp \in [Dispatchers -> [pc : DispatcherPcs, job : Jobs, row : Nat]]
    /\ asks \in 0..MaxAsks
    /\ faults \in 0..MaxFaults

\* recover_expired finds a dead worker's job by its lease alone: a running job
\* always has an owner and a lease, whatever was published, requested or
\* recovered meanwhile.
RunningIsLeased ==
    \A j \in Jobs : job[j].status = "running" =>
        job[j].worker # NoProc /\ job[j].lease # "none"

\* _retry_outbox inserts under the unique index on deduplication_key without
\* looking for the key: the insertion (and with it the whole recovery batch)
\* never fails, no matter how retries, leases and resumes interleave.
DeduplicationKeysUnique ==
    \A j \in Jobs : \A i, k \in DOMAIN outbox[j] :
        outbox[j][i].key = outbox[j][k].key => i = k

\* worker_concurrency = 1: no two executor threads share a worker id.
OneThreadPerProcess == \A s, t \in Slots : ProcOf[s] = ProcOf[t] => s = t

\* What thread s writes, if this step ends its execution with an outcome, is the
\* outcome of the attempt that it leased.
Fenced(s) ==
    (exec[s].pc # "idle" /\ exec'[s].pc = "idle" /\ job' # job)
        => exec[s].attempt = job[exec[s].job].attempt

\* The outcome of an execution is written only for the attempt that it leased:
\* _owned_job keeps out an execution whose lease was taken over.
FencedOutcome == [][\A s \in Slots : Fenced(s)]_vars

\* A thread of the same worker process claims the job that thread s still
\* executes: its lease expired and the job was redelivered.
SiblingClaims(s) ==
    \E t \in Slots \ {s} :
        /\ ProcOf[t] = ProcOf[s]
        /\ exec[s].pc # "idle"
        /\ Claim(t, exec[s].job)

\* However claims, redelivered messages, expired leases and dead-letter retries
\* interleave, a job is never run more often than its max_attempts: claim counts,
\* _retry_or_dead_letter and recover_expired compare.  Nobody pauses: a job that
\* is paused in its last attempt and resumed is claimed once more.
AttemptsBounded ==
    \A j \in Jobs : job[j].attempt <= job[j].maxAttempts

\* The database alone holds the intent to deliver job j: a row the dispatcher
\* will still publish, or a queued job that recover_stranded can reopen.
DurablyIntended(j) ==
    \/ \E i \in DOMAIN outbox[j] : outbox[j][i].status \in {"pending", "claimed"}
    \/ /\ job[j].status = "queued"
       /\ outbox[j][Len(outbox[j])].status = "published"

\* A job that waits to run is never forgotten: losing all of Redis, or any
\* process, at any point leaves the intent to deliver it in the database.
DeliveryIntent ==
    \A j \in Jobs : job[j].status \in WaitingStatuses => DurablyIntended(j)

\* The same as long as no row of the job has exhausted its publish attempts
\* (_record_failure sets such a row to failed).
IntentUntilExhausted ==
    \A j \in Jobs : job[j].status \in WaitingStatuses =>
        \/ DurablyIntended(j)
        \/ \E i \in DOMAIN outbox[j] : outbox[j][i].status = "failed"

\* Pausing a job releases its ownership.
PauseReleasesOwnership ==
    \A j \in Jobs : job[j].status = "paused" => job[j].worker = NoProc

\* Resuming a job creates a new outbox delivery attempt.
ResumeCreatesDelivery ==
    [][\A j \in Jobs :
          (job[j].status = "paused" /\ job'[j].status = "outbox_pending")
             => Len(outbox'[j]) > Len(outbox[j])]_vars

\* Every job that is created reaches a terminal status, whatever crashes.
JobSettles ==
    \A j \in Jobs : job[j].status # "absent" ~> job[j].status \in TerminalStatuses

\* The lease covers forced termination: a job whose worker is told to stop, or
\* dies, does not stay in that state.
RequestsAreHonoured ==
    \A j \in Jobs : job[j].status \in {"pause_requested", "cancel_requested"}
                       ~> job[j].status \in TerminalStatuses \cup {"paused"}

\* The phase of JobLifecycle that a status belongs to.
PhaseOf(status) ==
    CASE status \in WaitingStatuses -> "waiting"
      [] status = "leased" -> "running"
      [] status = "pause_requested" -> "pausing"
      [] status = "cancel_requested" -> "cancelling"
      [] status = "dead_lettered" -> "dead"
      [] OTHER -> status

\* Every step of the queue, the workers and the operators is a legal move of
\* the job's life cycle, and attempt counts the executions started.
Lifecycle == INSTANCE JobLifecycle WITH
    phase <- [j \in Jobs |-> PhaseOf(job[j].status)],
    runs <- [j \in Jobs |-> job[j].attempt]

ImplementsLifecycle == Lifecycle!Spec

=============================================================================
